-------------------------- MODULE MCClientLifecycle --------------------------
(***************************************************************************)
(* Three clients for the run of ClientLifecycle.                           *)
(***************************************************************************)
EXTENDS ClientLifecycle, TLC

CONSTANTS c1, c2, c3

ThreeClients == {c1, c2, c3}
Symmetry     == Permutations(ThreeClients)
=============================================================================
