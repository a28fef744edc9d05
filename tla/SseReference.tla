---------------------------- MODULE SseReference ----------------------------
(***************************************************************************)
(* The events of a whole response body, defined frame by frame: no buffer, *)
(* no incremental parser, no order of arrival.  The stream modules are     *)
(* checked against it.                                                     *)
(***************************************************************************)
EXTENDS SseParser

\* The k-th of a set of positions, counted from the smallest.
Kth(P, k) == CHOOSE i \in P : Cardinality({j \in P : j <= i}) = k
LastOf(P) == IF P = {} THEN 0 ELSE Max(P)

\* The elements of s at these positions, in their order.
At(s, P) == [k \in 1 .. Cardinality(P) |-> s[Kth(P, k)]]

\* s is how t begins.
Begins(s, t) == Len(s) <= Len(t) /\ \A i \in 1 .. Len(s) : t[i] = s[i]

\* The pieces of s that these positions end, and what is left after the last.
From(P, k)   == IF k = 1 THEN 1 ELSE Kth(P, k - 1) + 1
Pieces(s, P) == [k \in 1 .. Cardinality(P) |-> SubSeq(s, From(P, k), Kth(P, k) - 1)]
Left(s, P)   == SubSeq(s, LastOf(P) + 1, Len(s))

\* The lines of t that a line feed ends, and the text after the last of them.
Ends(t)          == {i \in 1 .. Len(t) : t[i] = LF}
CompleteLines(t) == LET pieces == Pieces(t, Ends(t))
                    IN  [k \in 1 .. Len(pieces) |-> StripCR(pieces[k])]
Unterminated(t)  == Left(t, Ends(t))
Closed(t)        == LastOf(Ends(t)) = Len(t)

\* All the lines, the unterminated one included.
AllLines(t) ==
  IF Unterminated(t) = <<>> THEN CompleteLines(t)
  ELSE Append(CompleteLines(t), StripCR(Unterminated(t)))

\* The groups of lines that a blank line ends, and the lines after the last.
Blanks(lines)     == {i \in 1 .. Len(lines) : lines[i] = <<>>}
Frames(lines)     == Pieces(lines, Blanks(lines))
Unfinished(lines) == Left(lines, Blanks(lines))

IsField(line, name) == line[1] # COLON /\ Field(line) = <<name>>
Fields(frame, name) == {i \in 1 .. Len(frame) : IsField(frame[i], name)}

\* The event of a frame: the last event name, and every data line.
Named(frame) ==
  LET names == Fields(frame, "event")
  IN  IF names = {} THEN <<>> ELSE Value(frame[Max(names)])

DataOf(frame) == At([i \in 1 .. Len(frame) |-> Value(frame[i])], Fields(frame, "data"))

HasEvent(frame) == Named(frame) # <<>> \/ DataOf(frame) # <<>>

EventOf(frame) == FrameEvent([event |-> Named(frame), data |-> DataOf(frame)])

Full(frames)        == {k \in 1 .. Len(frames) : HasEvent(frames[k])}
FrameEvents(frames) == At([k \in 1 .. Len(frames) |-> EventOf(frames[k])], Full(frames))

\* What some lines leave unfinished, and the events of the frames they end.
ParserAfter(lines) == [event |-> Named(Unfinished(lines)), data |-> DataOf(Unfinished(lines))]
EventsOf(lines)    == FrameEvents(Frames(lines))

\* The events of the frames complete in t, and those of t when it is all
\* there is, where the last frame needs no blank line.
CompleteEvents(t) == EventsOf(CompleteLines(t))
AllEvents(t)      == EventsOf(Append(AllLines(t), <<>>))

\* The handler is owed the events before the first error frame.
IsError(e) == e.event = ERROR
BeforeError(events) ==
  LET e == SelectInSeq(events, IsError)
  IN  IF e = 0 THEN events ELSE SubSeq(events, 1, e - 1)
HasError(events) == \E i \in 1 .. Len(events) : IsError(events[i])
=============================================================================
