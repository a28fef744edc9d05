--------------------------- MODULE MCServerStream ---------------------------
(***************************************************************************)
(* Responses for the run of ServerStream.                                 *)
(***************************************************************************)
EXTENDS ServerStreamProps

BothClients == {"server", "transport"}

MCWords == {"done", "x"}

Lines == { <<>>,
           <<"event", COLON, SPACE, "done">>,
           <<"event", COLON, "error">>,
           <<"event">>,
           <<"data", COLON, SPACE, "x">>,
           <<"data", COLON, SPACE, SPACE, "x">>,
           <<"data", COLON>>,
           <<COLON, "data", COLON, "x">> }

\* Bodies of k lines that all end in the same way.
Bodies(k, end) ==
  {FlattenSeq([i \in 1 .. k |-> ls[i] \o end]) : ls \in [1 .. k -> Lines]}

Terminated(n, end) == UNION {Bodies(k, end) : k \in 1 .. n}

\* Every body of at most n lines, the last one with or without its end.
BodiesUpTo(n, end) ==
  {<<>>} \cup Terminated(n, end)
    \cup {b \o l : b \in Terminated(n - 1, end), l \in Lines \cup {<<CR>>}}

\* Two frames; a named frame of two data lines after an event-only frame.
LongBodies ==
  { <<"event", COLON, SPACE, "done", LF, "data", COLON, "x", LF, LF,
      "data", COLON, SPACE, "x", LF, "data", COLON, LF, LF>>,
    <<"event", COLON, "done", CR, LF, CR, LF, "event", COLON, "x", CR, LF,
      "data", COLON, "x", CR, LF, "data", COLON, "done", CR, LF, CR, LF>>,
    <<"data", COLON, "x", LF, CR, "x", LF>> }

OK(bodies) == {[status |-> 200, body |-> b] : b \in bodies}

AllResponses == OK(BodiesUpTo(3, <<LF>>) \cup BodiesUpTo(2, <<CR, LF>>) \cup LongBodies)
=============================================================================
