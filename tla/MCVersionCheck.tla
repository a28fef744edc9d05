---------------------------- MODULE MCVersionCheck ----------------------------
(***************************************************************************)
(* Processes and threads for the runs of VersionCheck.                     *)
(***************************************************************************)
EXTENDS VersionCheck, TLC

CONSTANTS p1, p2, t1, t2

TwoProcs == {p1, p2}
TwoSlots == {t1, t2}
Headers  == {"v1", "bytes"}
NotUTF8  == {"bytes"}

Interchangeable == Permutations(TwoProcs) \cup Permutations(TwoSlots)

\* A document a check may fail on.
Foreign(d) == d.form = "array" \/ d.cpp.form = "string" \/ d.cpp.stamp = BadStamp

\* No action reads origin, and of the document at the start the properties see
\* only what is left of it here: two files that are no object are the same when
\* their form is.
View == <<checked, disabled, pc, latest, cache, file, tail, home, clock,
          printed, noticed, failed, overlapped, cut, setBack,
          origin.form, origin.others, Foreign(origin)>>
=============================================================================
