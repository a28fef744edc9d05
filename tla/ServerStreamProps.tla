-------------------------- MODULE ServerStreamProps --------------------------
(***************************************************************************)
(* The properties of a ServerClient streaming call.                        *)
(***************************************************************************)
EXTENDS ServerStream, SseReference

body     == response.body
received == SubSeq(body, 1, Len(body) - Len(wire))

\* The events of a text by ServerClient's rules, frame by frame: a frame counts
\* when a blank line ends it and it has a data line.
ServerFields(frame, name) == {i \in 1 .. Len(frame) : StartsWith(frame[i], name)}

ServerNamed(frame) ==
  LET names == ServerFields(frame, "event")
  IN  IF names = {} THEN <<>> ELSE FieldText(frame[Max(names)])

ServerData(frame) ==
  At([i \in 1 .. Len(frame) |-> FieldText(frame[i])], ServerFields(frame, "data"))

ServerEvent(frame) == FrameEvent([event |-> ServerNamed(frame), data |-> ServerData(frame)])

LineEvents(lines) ==
  LET frames == Frames(lines)
  IN  At([k \in 1 .. Len(frames) |-> ServerEvent(frames[k])],
         {k \in 1 .. Len(frames) : ServerData(frames[k]) # <<>>})

ServerEvents(t) == LineEvents(AllLines(t))

\* A line on which the two parsers agree: a value has at most one leading
\* space, and a field name is not alone on its line.
Plain(line) ==
  /\ line \notin {<<"event">>, <<"data">>}
  /\ Field(line) \in {<<"event">>, <<"data">>} => StripSpaces(Value(line)) = Value(line)

PlainText(t) == \A i \in 1 .. Len(AllLines(t)) : Plain(AllLines(t)[i])

-----------------------------------------------------------------------------
\* Every carriage return ends a line.
ReturnsEndLines(t) == \A i \in 1 .. Len(t) - 1 : t[i] = CR => t[i + 1] = LF

\* The handler sees a prefix of the events of the whole body even when the
\* connection breaks or the handler throws: unlike FormationClient's, this
\* parser never delivers a truncated event.  A text cut behind a carriage return
\* inside a line would end in a blank line that the whole body does not have
\* (server_client.cpp:152-184).
NoTruncatedEvent == ReturnsEndLines(body) => IsPrefix(calls, ServerEvents(body))

\* The events of the frames that have a data line.
DataEvents(frames) ==
  At([k \in 1 .. Len(frames) |-> EventOf(frames[k])],
     {k \in 1 .. Len(frames) : DataOf(frames[k]) # <<>>})

\* On a response both parsers read alike, with no error frame, ServerClient
\* delivers what FormationClient does, less the events without a data line and
\* the frame no blank line ends (server_client.cpp:161, formation_client.cpp:356).
AgreesWithFormationClient ==
  pc = "done" /\ outcome = "returned" /\ result = "OK"
    /\ PlainText(body) /\ ~HasError(CompleteEvents(body)) =>
      calls = DataEvents(Frames(AllLines(body)))

\* Transport delivers nothing of a transfer that failed.
AllOrNothing ==
  client = "transport" /\ calls # <<>> => result = "OK" /\ received = body

\* Nothing is delivered while the connection is open, but once the transfer is
\* over, whole or broken, every finished frame that came reaches the handler,
\* if it does not throw, and the call ends (server_client.cpp:152-186).
FramesFollowTransfer ==
  (result # "none" /\ Parses(result))
    ~> (pc = "done" /\ (outcome = "handler" \/ calls = ServerEvents(received)))
=============================================================================
