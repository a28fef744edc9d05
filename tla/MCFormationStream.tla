-------------------------- MODULE MCFormationStream --------------------------
(***************************************************************************)
(* Responses for the runs of FormationStream.                              *)
(***************************************************************************)
EXTENDS FormationStreamProps

MCWords == {"done", "x"}

\* Lines of every kind process_line() tells apart.
Lines == { <<>>,
           <<"event", COLON, SPACE, "done">>,
           <<"event", COLON, "error">>,
           <<"event", COLON>>,
           <<"data", COLON, SPACE, "x">>,
           <<"data">>,
           <<COLON, "data", COLON, "x">>,
           <<"x", COLON, SPACE>> }

\* Bodies of k lines that all end in the same way.
Bodies(k, end) ==
  {FlattenSeq([i \in 1 .. k |-> ls[i] \o end]) : ls \in [1 .. k -> Lines]}

Terminated(n, end) == UNION {Bodies(k, end) : k \in 1 .. n}

\* Every body of at most n lines, the last one with or without its end.
BodiesUpTo(n, end) ==
  {<<>>} \cup Terminated(n, end)
    \cup {b \o l : b \in Terminated(n - 1, end), l \in Lines \cup {<<CR>>}}

OK(bodies) == {[status |-> 200, body |-> b] : b \in bodies}

\* Two frames, an error frame after an event, and data spread over lines.
LongBodies ==
  { <<"event", COLON, SPACE, "done", LF, "data", COLON, "x", LF, LF,
      "data", COLON, SPACE, SPACE, "x", LF, "data", COLON, LF, LF>>,
    <<"data", COLON, "x", CR, LF, CR, LF, "event", COLON, "error", CR, LF,
      "data", COLON, "x", CR, LF, CR, LF, "data", COLON, "done", CR, LF, CR, LF>>,
    <<"data", COLON, "x", LF, LF, "event", COLON, "done", LF, LF,
      "data", COLON, "x", LF, "event", COLON, SPACE, "x", CR>> }

AllResponses == OK(BodiesUpTo(3, <<LF>>) \cup BodiesUpTo(2, <<CR, LF>>) \cup LongBodies)

\* What the server answers to a bad key: no event, a JSON body.
ErrorResponses == {[status |-> s, body |-> <<"x", COLON, "error">>] : s \in {401, 500}}
                    \cup OK(LongBodies)
=============================================================================
