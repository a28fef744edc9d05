------------------------------ MODULE SseParser ------------------------------
(***************************************************************************)
(* detail::SseEventParser of src/src/formation_client.cpp: the incremental *)
(* parser FormationClient feeds one line at a time.                        *)
(*                                                                         *)
(* A text is a sequence of tokens: the bytes the code looks at (line feed, *)
(* carriage return, colon, space) and whole words.  No code path tells two *)
(* splits of a word apart, so a word is one token.                         *)
(***************************************************************************)
EXTENDS Integers, SequencesExt

CONSTANT Words  \* the words other than the four the parser knows

LF    == "lf"
CR    == "cr"
COLON == ":"
SPACE == " "

Token == {LF, CR, COLON, SPACE, "event", "data", "error", "message"} \cup Words
Text  == Seq(Token)

\* current_event_ and data_parts_
Parser    == [event : Text, data : Seq(Text)]
NewParser == [event |-> <<>>, data |-> <<>>]

\* An SseEvent.  The data string is given by its lines, the empty string by
\* no line.
Event   == [event : Text, data : Seq(Text)]
MESSAGE == <<"message">>
ERROR   == <<"error">>

\* What process_line() and flush() do: the parser they leave, and whether
\* they return nothing, return an event, or throw a MuxiException.
Result == [parser : Parser, kind : {"none", "event", "throw"}, event : Event]
Nothing(p)  == [parser |-> p, kind |-> "none",
                event |-> [event |-> <<>>, data |-> <<>>]]
-----------------------------------------------------------------------------
(* Splitting text.                                                         *)

Has(t, s) == \E i \in 1 .. Len(s) : s[i] = t

\* i is where std::string::find(t) finds t in s.
FindsAt(t, s, i) ==
  /\ i \in 1 .. Len(s)
  /\ s[i] = t
  /\ \A j \in 1 .. (i - 1) : s[j] # t

\* line.pop_back() when the line ends with '\r'
StripCR(line) ==
  IF line # <<>> /\ line[Len(line)] = CR
  THEN SubSeq(line, 1, Len(line) - 1)
  ELSE line

ColonAt(line) == CHOOSE i \in 1 .. Len(line) : FindsAt(COLON, line, i)

Field(line) ==
  IF Has(COLON, line) THEN SubSeq(line, 1, ColonAt(line) - 1) ELSE line

\* The value loses ONE leading space.
Value(line) ==
  IF ~Has(COLON, line)
  THEN <<>>
  ELSE LET raw == SubSeq(line, ColonAt(line) + 1, Len(line))
       IN  IF raw # <<>> /\ raw[1] = SPACE THEN Tail(raw) ELSE raw
-----------------------------------------------------------------------------
(* The parser's two operations.                                            *)

\* flush() joins the parts with '\n'.  A part holds no line feed, so they are
\* the lines of the result, and a single empty part is the empty string.
Join(parts) == IF parts = << <<>> >> THEN <<>> ELSE parts

\* The event of a frame, without a name a "message".
FrameEvent(p) == [event |-> IF p.event = <<>> THEN MESSAGE ELSE p.event,
                  data  |-> Join(p.data)]

\* The event e, or the exception of one named "error"; the parser is left as q.
Emit(q, e) == [parser |-> q,
               kind   |-> IF e.event = ERROR THEN "throw" ELSE "event",
               event  |-> e]

\* Mutants of Flush: an event-only frame is dropped; the frame is not cleared.
FlushDataOnly(p) ==
  IF p.data = <<>> THEN Nothing(p) ELSE Emit(NewParser, FrameEvent(p))

FlushKeepsFrame(p) ==
  IF p.event = <<>> /\ p.data = <<>> THEN Nothing(p) ELSE Emit(p, FrameEvent(p))

\* flush() emits when an event name OR a data line was seen, so that an
\* event-only frame is not lost, and clears the parser before it throws.
Flush(p) ==
  IF p.event = <<>> /\ p.data = <<>> THEN Nothing(p) ELSE Emit(NewParser, FrameEvent(p))

ProcessLine(p, line) ==
  CASE line = <<>>                -> Flush(p)
    [] line # <<>> /\ line[1] = COLON -> Nothing(p)   \* a comment
    [] Field(line) = <<"event">>  -> Nothing([p EXCEPT !.event = Value(line)])
    [] Field(line) = <<"data">>   -> Nothing([p EXCEPT !.data = Append(@, Value(line))])
    [] OTHER                      -> Nothing(p)
=============================================================================
