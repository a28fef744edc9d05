------------------------ MODULE FormationStreamProofs ------------------------
(***************************************************************************)
(* Proofs about a FormationClient streaming call, for every set of         *)
(* responses and every vocabulary of words: its types, its control state,  *)
(* the events it delivers, and that it implements SseDelivery.             *)
(***************************************************************************)
EXTENDS FormationStreamProps, SseReferenceProofs
-----------------------------------------------------------------------------
(* The inductive invariant: what the call knows at each point.  TypeOK and  *)
(* the safety properties that do not speak of events follow from it.        *)

NotSentYet ==
  pc = "init" => handle = "none" /\ buffer = <<>> /\ parser = NewParser /\ calls = <<>>

InTransfer ==
  /\ pc \in {"init", "perform", "callback"} => result = "none" /\ error = "none"
  /\ pc \in {"perform", "callback"} => handle = "open"

\* The callback consumes every line before it gives control back.
NoLineHeldBack ==
  /\ pc = "perform" => ~Has(LF, buffer)
  /\ pc = "performed" /\ error = "none" => ~Has(LF, buffer)

AfterTransfer ==
  /\ pc \in {"performed", "flush"} => result # "none" /\ handle = "none"
  /\ pc = "flush" => error = "none"
  /\ result = "OK" => wire = <<>>
  /\ result = "WRITE_ERROR" <=> error # "none"
  /\ error # "none" => pc \in {"performed", "done"}

Ended == pc = "done" <=> outcome # "running"

\* Of every way the call can go: where it stands, and what that entails.
IInv ==
  /\ TypeOK
  /\ NotSentYet
  /\ InTransfer
  /\ NoLineHeldBack
  /\ AfterTransfer
  /\ Ended
  /\ FailuresReported
  /\ HandleReleased
-----------------------------------------------------------------------------
(* The inductive invariant of what is delivered.                           *)

\* How much of the body has arrived, and how much of it is behind the buffer.
arrived  == Len(body) - Len(wire)
parsed   == arrived - Len(buffer)
consumed == SubSeq(body, 1, parsed)

BeforeTail   == pc \in {"init", "perform", "callback", "performed"}
Interpreting == BeforeTail /\ error = "none"

\* Chunking loses and repeats nothing: up to the tail, the lines consumed, the
\* buffer and the wire are the body.
BodyInParts ==
  /\ Len(wire) <= Len(body)
  /\ wire = SubSeq(body, arrived + 1, Len(body))
  /\ BeforeTail => /\ Len(buffer) <= arrived
                   /\ buffer = SubSeq(body, parsed + 1, arrived)
                   /\ Closed(consumed)

\* The incremental parser holds what the consumed lines leave unfinished, and
\* the handler has been called with the events they complete.
KeepsUp ==
  Interpreting => /\ parser = ParserAfter(CompleteLines(consumed))
                  /\ calls = CompleteEvents(consumed)

\* An exception kept by the callback: the error event is the one not delivered.
ErrorIsNext ==
  BeforeTail /\ error = "stream" =>
    LET events == CompleteEvents(consumed)
    IN  /\ Begins(calls, events)
        /\ Len(events) = Len(calls) + 1
        /\ IsError(events[Len(calls) + 1])

\* Before flush() all lines have been interpreted, and when the last of them
\* completed an event the parser has nothing left.
TailParsed ==
  pc = "flush" => /\ parser = ParserAfter(AllLines(received))
                  /\ calls = EventsOf(AllLines(received))
                  /\ calls = CompleteEvents(received) \/ parser = NewParser

NoErrorDelivered == ~HasError(calls)

\* Of the events delivered, only the last one may be an unfinished frame's.
OneTruncated == calls # <<>> => Begins(Front(calls), CompleteEvents(received))

EventInv ==
  /\ BodyInParts
  /\ KeepsUp
  /\ ErrorIsNext
  /\ TailParsed
  /\ NoErrorDelivered
  /\ OneTruncated
  /\ AllDeliveredAtEnd
-----------------------------------------------------------------------------
LEMMA InitTypeOK == Init => TypeOK
<1>1. <<>> \in Text /\ <<>> \in Seq(Text) /\ <<>> \in Seq(Event)
  BY EmptySeq DEF Text
<1>2. NewParser \in Parser
  BY <1>1 DEF NewParser, Parser
<1>3. \A r \in Responses : r \in [status : Nat, body : Text]
  BY ResponsesAssumption
<1> QED  BY <1>1, <1>2, <1>3 DEF Init, TypeOK, PCs, Errors, Results, Outcomes

\* What acting on a parser result leaves has the right type.
LEMMA ResultTypes ==
  ASSUME NEW r \in Result, calls \in Seq(Event)
  PROVE  /\ r.parser \in Parser
         /\ r.kind \in {"none", "event", "throw"}
         /\ Append(calls, r.event) \in Seq(Event)
BY AppendProperties DEF Result

LEMMA DispatchType ==
  ASSUME TypeOK, NEW r \in Result, NEW p \in PCs, NEW o \in Outcomes,
         Dispatch(r, p, o)
  PROVE  parser' \in Parser /\ calls' \in Seq(Event) /\ pc' \in PCs /\ outcome' \in Outcomes
<1>1. calls \in Seq(Event)
  BY DEF TypeOK
<1> QED  BY <1>1, ResultTypes DEF Dispatch, PCs, Outcomes

LEMMA NextTypeOK == TypeOK /\ [Next]_vars => TypeOK'
<1> SUFFICES ASSUME TypeOK, [Next]_vars  PROVE TypeOK'
  OBVIOUS
<1> USE DEF PCs, Errors, Results, Outcomes
<1>1. CASE InitFails
  BY <1>1 DEF TypeOK, InitFails
<1>2. CASE DumpThrows
  BY <1>2 DEF TypeOK, DumpThrows
<1>3. CASE Start
  BY <1>3 DEF TypeOK, Start
<1>4. CASE ReceiveChunk
  <2>1. PICK n \in 1 .. Len(wire) : /\ buffer' = buffer \o SubSeq(wire, 1, n)
                                    /\ wire' = SubSeq(wire, n + 1, Len(wire))
    BY <1>4 DEF ReceiveChunk
  <2>2. wire \in Text /\ Len(wire) \in Nat
    BY LenProperties DEF TypeOK, Text
  <2>3. SubSeq(wire, 1, n) \in Text /\ wire' \in Text
    BY <2>1, <2>2, SubText
  <2>4. buffer' \in Text
    BY <2>1, <2>3, ConcatProperties DEF TypeOK, Text
  <2> QED  BY <1>4, <2>3, <2>4 DEF TypeOK, ReceiveChunk, Arrival
<1>5. CASE PeerCloses
  BY <1>5 DEF TypeOK, PeerCloses, Performed
<1>6. CASE ConnectionBreaks
  BY <1>6 DEF TypeOK, ConnectionBreaks, Performed
<1>7. CASE CallbackLine
  <2> DEFINE line(n) == StripCR(SubSeq(buffer, 1, n - 1))
             r(n) == ProcessLine(parser, line(n))
  <2>1. PICK n \in 1 .. Len(buffer) :
          /\ buffer' = SubSeq(buffer, n + 1, Len(buffer))
          /\ parser' = r(n).parser
          /\ \/ UNCHANGED <<pc, handle, error, result, calls>>
             \/ /\ calls' = Append(calls, r(n).event)
                /\ \/ UNCHANGED <<pc, handle, error, result>>
                   \/ Abort("handler")
             \/ UNCHANGED calls /\ Abort("stream")
    BY <1>7 DEF CallbackLine
  <2>2. buffer \in Text /\ Len(buffer) \in Nat /\ parser \in Parser /\ calls \in Seq(Event)
    BY LenProperties DEF TypeOK, Text
  <2>3. buffer' \in Text /\ SubSeq(buffer, 1, n - 1) \in Text
    BY <2>1, <2>2, SubText
  <2>4. r(n) \in Result
    BY <2>2, <2>3, StripCRText, ProcessLineType
  <2> HIDE DEF r
  <2>5. parser' \in Parser /\ calls' \in Seq(Event)
    BY <2>1, <2>2, <2>4, ResultTypes
  <2>6. /\ pc' \in PCs /\ handle' \in {"none", "open"}
        /\ error' \in Errors /\ result' \in Results
    BY <2>1 DEF TypeOK, Abort, Performed
  <2> QED  BY <1>7, <2>3, <2>5, <2>6 DEF TypeOK, CallbackLine
<1>8. CASE CallbackReturns
  BY <1>8 DEF TypeOK, CallbackReturns
<1>9. CASE Rethrow
  BY <1>9 DEF TypeOK, Rethrow
<1>10. CASE NoTail
  BY <1>10 DEF TypeOK, NoTail
<1>11. CASE TailLine
  <2>1. buffer' \in Text
    BY <1>11, StripCRText DEF TypeOK, TailLine, TailText
  <2>2. ProcessLine(parser, buffer') \in Result
    BY <2>1, ProcessLineType DEF TypeOK
  <2>3. Dispatch(ProcessLine(parser, buffer'), "flush", "running")
    BY <1>11 DEF TailLine
  <2>4. parser' \in Parser /\ calls' \in Seq(Event) /\ pc' \in PCs /\ outcome' \in Outcomes
    BY <2>2, <2>3, DispatchType
  <2> QED  BY <1>11, <2>1, <2>4 DEF TypeOK, TailLine
<1>12. CASE FinalFlush
  <2> DEFINE o == IF result = "OK" THEN "returned" ELSE "connection"
  <2>1. Flush(parser) \in Result
    BY FlushType DEF TypeOK
  <2>2. Dispatch(Flush(parser), "done", o)
    BY <1>12 DEF FinalFlush, Ending
  <2>3. o \in Outcomes
    OBVIOUS
  <2> HIDE DEF o
  <2>4. parser' \in Parser /\ calls' \in Seq(Event) /\ pc' \in PCs /\ outcome' \in Outcomes
    BY <2>1, <2>2, <2>3, DispatchType
  <2> QED  BY <1>12, <2>4 DEF TypeOK, FinalFlush
<1>13. CASE UNCHANGED vars
  BY <1>13 DEF TypeOK, vars
<1>14. CASE Finished
  BY <1>13, <1>14 DEF Finished
<1> QED
  BY <1>1, <1>2, <1>3, <1>4, <1>5, <1>6, <1>7, <1>8, <1>9, <1>10, <1>11, <1>12,
     <1>13, <1>14 DEF Next, Client, Peer

\* Every variable keeps its type through every interleaving of libcurl, the
\* peer and the handler.
THEOREM TypeCorrect == Spec => []TypeOK
<1>1. Init => TypeOK
  BY InitTypeOK
<1>2. TypeOK /\ [Next]_vars => TypeOK'
  BY NextTypeOK
<1> QED  BY <1>1, <1>2, PTL DEF Spec
-----------------------------------------------------------------------------
(* The inductive invariant.                                                *)

LEMMA InitIInv == Init => IInv
<1> SUFFICES ASSUME Init  PROVE IInv
  OBVIOUS
<1>1. TypeOK
  BY InitTypeOK
<1> QED  BY <1>1 DEF IInv, Init, NotSentYet, InTransfer, NoLineHeldBack,
              AfterTransfer, Ended, FailuresReported, HandleReleased

\* The conjuncts of IInv but for its type invariant.
LEMMA NextIInv == IInv /\ [Next]_vars => IInv'
<1> SUFFICES ASSUME IInv, [Next]_vars  PROVE IInv'
  OBVIOUS
<1>0. TypeOK /\ TypeOK'
  BY NextTypeOK DEF IInv
<1> DEFINE Rest == /\ NotSentYet /\ InTransfer /\ NoLineHeldBack
                   /\ AfterTransfer /\ Ended /\ FailuresReported /\ HandleReleased
<1> SUFFICES Rest'
  BY <1>0 DEF IInv
<1> USE DEF IInv, NotSentYet, InTransfer, NoLineHeldBack, AfterTransfer, Ended,
            FailuresReported, HandleReleased
<1>1. CASE InitFails
  BY <1>1 DEF InitFails
<1>2. CASE DumpThrows
  BY <1>2 DEF DumpThrows
<1>3. CASE Start
  <2>1. ~Has(LF, buffer')
    <3>1. buffer' = <<>>
      BY <1>3 DEF Start
    <3> QED  BY <3>1, EmptySeq DEF Has
  <2> QED  BY <1>3, <2>1 DEF Start
<1>4. CASE ReceiveChunk
  BY <1>4 DEF ReceiveChunk, Arrival
<1>5. CASE PeerCloses
  BY <1>5 DEF PeerCloses, Performed, Has
<1>6. CASE ConnectionBreaks
  BY <1>6 DEF ConnectionBreaks, Performed, Has
<1>7. CASE CallbackLine
  <2>1. /\ pc = "callback"
        /\ UNCHANGED <<response, wire, outcome>>
        /\ \/ UNCHANGED <<pc, handle, error, result>>
           \/ Abort("handler")
           \/ Abort("stream")
    BY <1>7 DEF CallbackLine
  <2> QED  BY <2>1 DEF Abort, Performed
<1>8. CASE CallbackReturns
  BY <1>8 DEF CallbackReturns, NoLineLeft, Has
<1>9. CASE Rethrow
  BY <1>0, <1>9 DEF Rethrow, TypeOK, Errors
<1>10. CASE NoTail
  BY <1>10 DEF NoTail, TailLeft
<1>11. CASE TailLine
  <2>1. /\ pc = "performed" /\ error = "none"
        /\ UNCHANGED <<wire, handle, error, result>>
        /\ \/ pc' = "flush" /\ outcome' = "running"
           \/ pc' = "done" /\ outcome' = "handler"
           \/ pc' = "done" /\ outcome' = "stream"
    BY <1>11 DEF TailLine, TailLeft, Dispatch
  <2> QED  BY <2>1
<1>12. CASE FinalFlush
  <2>1. /\ pc = "flush"
        /\ UNCHANGED <<wire, handle, error, result>>
        /\ pc' = "done"
        /\ \/ outcome' = IF result = "OK" THEN "returned" ELSE "connection"
           \/ outcome' \in {"handler", "stream"}
    BY <1>12 DEF FinalFlush, Ending, Dispatch
  <2> QED  BY <2>1
<1>13. CASE UNCHANGED vars
  BY <1>13 DEF vars, Has
<1>14. CASE Finished
  BY <1>13, <1>14 DEF Finished
<1> QED
  BY <1>1, <1>2, <1>3, <1>4, <1>5, <1>6, <1>7, <1>8, <1>9, <1>10, <1>11, <1>12,
     <1>13, <1>14 DEF Next, Client, Peer

THEOREM IInvHolds == Spec => []IInv
<1>1. Init => IInv
  BY InitIInv
<1>2. IInv /\ [Next]_vars => IInv'
  BY NextIInv
<1> QED  BY <1>1, <1>2, PTL DEF Spec

\* An exception kept by the write callback always reaches the caller, and a
\* broken connection never looks like a normal end of the stream.
THEOREM NoSilentFailure == Spec => []FailuresReported
<1>1. IInv => FailuresReported
  BY DEF IInv
<1> QED  BY <1>1, IInvHolds, PTL

\* Every way out of the call but one releases the easy handle.
THEOREM HandleIsReleased == Spec => []HandleReleased
<1>1. IInv => HandleReleased
  BY DEF IInv
<1> QED  BY <1>1, IInvHolds, PTL

\* After the first exception, and after the call, the handler is left alone.
THEOREM NoCallAfterError == Spec => SilentAfterError
<1>1. IInv /\ [Next]_vars => [(error # "none" \/ pc = "done") => UNCHANGED calls]_vars
  <2> SUFFICES ASSUME IInv, Next, error # "none" \/ pc = "done"
               PROVE  UNCHANGED calls
    OBVIOUS
  <2>1. pc \in {"performed", "done"} /\ (pc = "performed" => error # "none")
    BY DEF IInv, AfterTransfer
  <2> QED  BY <2>1 DEF Next, Client, Peer, InitFails, DumpThrows, Start, ReceiveChunk,
             PeerCloses, ConnectionBreaks, CallbackLine, CallbackReturns, Rethrow,
             NoTail, TailLine, TailLeft, FinalFlush, Finished, vars
<1> QED  BY <1>1, IInvHolds, PTL DEF Spec, SilentAfterError
-----------------------------------------------------------------------------
(* The events delivered.                                                   *)

\* Where the call stands in the body: what has arrived, what lies behind the
\* buffer, and what the lines up to there are.
LEMMA Parts ==
  ASSUME TypeOK, BodyInParts
  PROVE  /\ body \in Text /\ Len(body) \in Nat
         /\ arrived \in Nat /\ arrived <= Len(body) /\ Len(wire) = Len(body) - arrived
         /\ received = Part(body, 0, arrived) /\ received \in Text /\ Len(received) = arrived
         /\ wire = Part(body, arrived, Len(body))
         /\ BeforeTail =>
              /\ parsed \in Nat /\ parsed <= arrived /\ Len(buffer) = arrived - parsed
              /\ consumed = Part(body, 0, parsed) /\ consumed \in Text /\ Closed(consumed)
              /\ buffer = Part(body, parsed, arrived)
              /\ Begins(consumed, received)
<1>1. /\ body \in Text /\ Len(body) \in Nat /\ wire \in Text /\ Len(wire) \in Nat
      /\ buffer \in Text /\ Len(buffer) \in Nat
  BY EndsType DEF TypeOK, body
<1>2. arrived \in Nat /\ arrived <= Len(body) /\ Len(wire) = Len(body) - arrived /\ 0 + 1 = 1
  BY <1>1 DEF arrived, BodyInParts
<1>3. received = Part(body, 0, arrived)
  BY <1>2 DEF received, arrived, Part
<1>4. received \in Text /\ Len(received) = arrived
  BY <1>1, <1>2, <1>3, FromStart
<1>5. wire = Part(body, arrived, Len(body))
  BY DEF BodyInParts, Part
<1>6. ASSUME BeforeTail
      PROVE  /\ parsed \in Nat /\ parsed <= arrived /\ Len(buffer) = arrived - parsed
             /\ consumed = Part(body, 0, parsed) /\ consumed \in Text /\ Closed(consumed)
             /\ buffer = Part(body, parsed, arrived)
             /\ Begins(consumed, received)
  <2>1. /\ parsed \in Nat /\ parsed <= arrived /\ Len(buffer) = arrived - parsed
        /\ parsed <= Len(body)
    BY <1>1, <1>2, <1>6 DEF BodyInParts, parsed
  <2>2. consumed = Part(body, 0, parsed)
    BY <1>2 DEF consumed, Part
  <2>3. consumed \in Text
    BY <1>1, <2>1, <2>2, FromStart
  <2>4. buffer = Part(body, parsed, arrived) /\ Closed(consumed)
    BY <1>6 DEF BodyInParts, Part
  <2>5. Begins(consumed, received)
    BY <1>1, <1>2, <1>3, <2>1, <2>2, PartsBegin
  <2> QED  BY <2>1, <2>2, <2>3, <2>4, <2>5
<1> QED  BY <1>1, <1>2, <1>3, <1>4, <1>5, <1>6

\* Nothing has arrived, and nothing has been delivered.
LEMMA InitEvents == Init => EventInv
<1> SUFFICES ASSUME Init  PROVE EventInv
  OBVIOUS
<1>1. /\ body \in Text /\ wire = body /\ buffer = <<>> /\ Len(body) \in Nat
      /\ pc = "init" /\ error = "none" /\ parser = NewParser /\ calls = <<>>
  <2>1. body \in Text /\ wire = body
    BY ResponsesAssumption DEF Init, body
  <2> QED  BY <2>1, EndsType DEF Init
<1>2. Len(buffer) = 0 /\ arrived = 0 /\ parsed = 0 /\ <<>> \in Seq(Event)
  <2>1. Len(buffer) = 0 /\ <<>> \in Seq(Event)
    BY <1>1, EmptySeq
  <2>2. arrived = 0
    BY <1>1 DEF arrived
  <2> QED  BY <2>1, <2>2 DEF parsed
<1>3. consumed = <<>> /\ SubSeq(body, 1, 0) = <<>> /\ received = <<>>
  <2>1. SubSeq(body, 1, 0) = <<>>
    BY SubSeqEmpty
  <2>2. Len(body) - Len(wire) = 0
    BY <1>1
  <2> QED  BY <1>2, <2>1, <2>2 DEF consumed, received
<1>4. BodyInParts
  <2>1. SubSeq(body, 1, Len(body)) = body
    BY <1>1, SubSeqFull DEF Text
  <2>2. 0 + 1 = 1
    OBVIOUS
  <2>3. /\ Len(wire) <= Len(body) /\ wire = SubSeq(body, arrived + 1, Len(body))
    BY <1>1, <1>2, <2>1, <2>2
  <2>4. /\ Len(buffer) <= arrived /\ buffer = SubSeq(body, parsed + 1, arrived)
    BY <1>1, <1>2, <1>3, <2>2
  <2>5. Closed(consumed)
    BY <1>3, EmptyText
  <2> QED  BY <2>3, <2>4, <2>5 DEF BodyInParts
<1>5. KeepsUp
  <2>1. CompleteLines(consumed) = <<>>
    BY <1>3, EmptyText
  <2>2. ParserAfter(CompleteLines(consumed)) = NewParser /\ EventsOf(CompleteLines(consumed)) = <<>>
    BY <2>1, NoLines
  <2> QED  BY <1>1, <2>2 DEF KeepsUp, CompleteEvents
<1>6. ErrorIsNext /\ TailParsed /\ OneTruncated /\ AllDeliveredAtEnd
  BY <1>1 DEF ErrorIsNext, TailParsed, OneTruncated, AllDeliveredAtEnd, Finishes
<1>7. NoErrorDelivered
  BY <1>1, <1>2, EmptySeq DEF NoErrorDelivered, HasError
<1> QED  BY <1>4, <1>5, <1>6, <1>7 DEF EventInv

\* What changes neither the body nor its parts changes nothing about them.
LEMMA SameParts ==
  ASSUME UNCHANGED <<response, wire, buffer>>
  PROVE  /\ body' = body /\ received' = received /\ arrived' = arrived
         /\ parsed' = parsed /\ consumed' = consumed
<1>1. body' = body
  BY DEF body
<1>2. arrived' = arrived /\ received' = received
  BY <1>1 DEF arrived, received
<1>3. parsed' = parsed
  BY <1>2 DEF parsed
<1>4. consumed' = consumed
  BY <1>1, <1>3 DEF consumed
<1> QED  BY <1>1, <1>2, <1>3, <1>4

\* libcurl hands over a chunk: the buffer grows by what the wire loses.
LEMMA ReceiveEvents ==
  ASSUME TypeOK, TypeOK', IInv, EventInv, ReceiveChunk
  PROVE  EventInv'
<1>1. PICK n \in 1 .. Len(wire) : /\ buffer' = buffer \o SubSeq(wire, 1, n)
                                  /\ wire' = SubSeq(wire, n + 1, Len(wire))
  BY DEF ReceiveChunk
<1>2. /\ pc = "perform" /\ pc' = "callback" /\ BeforeTail /\ BeforeTail'
      /\ UNCHANGED <<response, handle, parser, error, result, calls, outcome>>
      /\ body' = body
  BY DEF ReceiveChunk, Arrival, BeforeTail, body
<1>3. error = "none" /\ BodyInParts
  BY <1>2 DEF IInv, InTransfer, EventInv
<1>4. /\ body \in Text /\ Len(body) \in Nat
      /\ arrived \in Nat /\ arrived <= Len(body) /\ Len(wire) = Len(body) - arrived
      /\ received = Part(body, 0, arrived) /\ received \in Text
      /\ wire = Part(body, arrived, Len(body))
      /\ parsed \in Nat /\ parsed <= arrived /\ Len(buffer) = arrived - parsed
      /\ consumed = Part(body, 0, parsed) /\ consumed \in Text /\ Closed(consumed)
      /\ buffer = Part(body, parsed, arrived)
  BY <1>2, <1>3, Parts
<1> DEFINE b == body
           a == arrived
           p == parsed
<1>5. n \in Nat /\ a + n \in Nat /\ n \in 1 .. (Len(b) - a) /\ a + n <= Len(b)
  BY <1>4
<1>6. /\ wire' = Part(b, a + n, Len(b)) /\ Len(wire') = Len(b) - (a + n)
      /\ buffer' = Part(b, p, a + n) /\ Len(buffer') = (a + n) - p
      /\ Part(b, 0, a + n) \in Text /\ Begins(Part(b, 0, a), Part(b, 0, a + n))
  <2> HIDE DEF a, b, p
  <2>1. /\ SubSeq(Part(b, a, Len(b)), n + 1, Len(b) - a) = Part(b, a + n, Len(b))
        /\ Len(Part(b, a + n, Len(b))) = Len(b) - (a + n)
        /\ Part(b, p, a) \o SubSeq(Part(b, a, Len(b)), 1, n) = Part(b, p, a + n)
        /\ Len(Part(b, p, a + n)) = (a + n) - p
        /\ Part(b, 0, a + n) \in Text
        /\ Begins(Part(b, 0, a), Part(b, 0, a + n))
    BY <1>4, <1>5, ChunkMoves DEF a, b, p
  <2> QED  BY <1>1, <1>4, <2>1 DEF a, b, p
<1>8. arrived' = a + n /\ parsed' = p /\ consumed' = consumed
  <2>1. arrived' = a + n
    BY <1>2, <1>4, <1>5, <1>6 DEF arrived
  <2>2. parsed' = p
    BY <1>4, <1>5, <1>6, <2>1 DEF parsed
  <2> QED  BY <1>2, <2>1, <2>2 DEF consumed
<1>9. BodyInParts'
  <2>1. Len(wire') <= Len(body') /\ wire' = SubSeq(body', arrived' + 1, Len(body'))
    BY <1>2, <1>4, <1>5, <1>6, <1>8 DEF Part
  <2>2. Len(buffer') <= arrived' /\ buffer' = SubSeq(body', parsed' + 1, arrived')
    BY <1>2, <1>4, <1>5, <1>6, <1>8 DEF Part
  <2>3. Closed(consumed')
    BY <1>4, <1>8
  <2> QED  BY <2>1, <2>2, <2>3 DEF BodyInParts
<1>10. KeepsUp' /\ ErrorIsNext' /\ TailParsed' /\ NoErrorDelivered' /\ AllDeliveredAtEnd'
  <2>1. KeepsUp'
    BY <1>2, <1>3, <1>8 DEF EventInv, KeepsUp, Interpreting
  <2>2. ErrorIsNext' /\ TailParsed' /\ NoErrorDelivered' /\ AllDeliveredAtEnd'
    BY <1>2, <1>3 DEF EventInv, ErrorIsNext, TailParsed, NoErrorDelivered, AllDeliveredAtEnd, Finishes
  <2> QED  BY <2>1, <2>2
<1>11. OneTruncated'
  <2>1. received' \in Text /\ Begins(received, received')
    <3>1. received' = Part(body, 0, a + n)
      <4>1. Len(body) - Len(wire') = a + n /\ 0 + 1 = 1
        BY <1>4, <1>5, <1>6
      <4> QED  BY <1>2, <4>1 DEF received, Part
    <3> QED  BY <1>4, <1>6, <3>1
  <2>2. /\ Begins(CompleteEvents(received), CompleteEvents(received'))
        /\ CompleteEvents(received) \in Seq(Event) /\ CompleteEvents(received') \in Seq(Event)
    BY <1>4, <2>1, CompleteEventsBelow
  <2>3. calls' = calls /\ calls \in Seq(Event)
    BY <1>2 DEF TypeOK
  <2>4. ASSUME calls # <<>>  PROVE Begins(Front(calls), CompleteEvents(received'))
    <3>1. Front(calls) \in Seq(Event)
      BY <2>3, <2>4, FrontType
    <3>2. Begins(Front(calls), CompleteEvents(received))
      BY <2>4 DEF EventInv, OneTruncated
    <3> QED  BY <2>2, <3>1, <3>2, BeginsTrans
  <2> QED  BY <2>3, <2>4 DEF OneTruncated
<1> QED  BY <1>9, <1>10, <1>11 DEF EventInv

\* What a step that delivers at most one event more leaves of the invariant.
LEMMA CallbackEvents ==
  ASSUME TypeOK, TypeOK', IInv, EventInv, CallbackLine
  PROVE  EventInv'
<1> DEFINE line(n) == StripCR(SubSeq(buffer, 1, n - 1))
           res(n) == ProcessLine(parser, line(n))
<1>1. PICK n \in 1 .. Len(buffer) :
        /\ FindsAt(LF, buffer, n)
        /\ buffer' = SubSeq(buffer, n + 1, Len(buffer))
        /\ parser' = res(n).parser
        /\ \/ /\ res(n).kind = "none"
              /\ UNCHANGED <<pc, handle, error, result, calls>>
           \/ /\ res(n).kind = "event"
              /\ calls' = Append(calls, res(n).event)
              /\ \/ UNCHANGED <<pc, handle, error, result>>
                 \/ Abort("handler")
           \/ /\ res(n).kind = "throw"
              /\ UNCHANGED calls
              /\ Abort("stream")
  BY DEF CallbackLine
<1>2. /\ pc = "callback" /\ BeforeTail /\ error = "none" /\ BodyInParts
      /\ UNCHANGED <<response, wire, outcome>> /\ body' = body
      /\ arrived' = arrived /\ received' = received
  <2>1. pc = "callback" /\ UNCHANGED <<response, wire, outcome>> /\ body' = body
    BY DEF CallbackLine, body
  <2>2. arrived' = arrived /\ received' = received
    BY <2>1 DEF arrived, received
  <2> QED  BY <2>1, <2>2 DEF BeforeTail, IInv, InTransfer, EventInv
<1>3. pc' \in {"callback", "performed"} /\ BeforeTail'
  BY <1>1, <1>2 DEF Abort, Performed, BeforeTail
<1>4. /\ body \in Text /\ Len(body) \in Nat
      /\ arrived \in Nat /\ arrived <= Len(body)
      /\ received = Part(body, 0, arrived) /\ received \in Text
      /\ parsed \in Nat /\ parsed <= arrived /\ Len(buffer) = arrived - parsed
      /\ consumed = Part(body, 0, parsed) /\ consumed \in Text /\ Closed(consumed)
      /\ buffer = Part(body, parsed, arrived)
  BY <1>2, Parts
<1>5. /\ parser = ParserAfter(CompleteLines(consumed))
      /\ calls = EventsOf(CompleteLines(consumed)) /\ calls \in Seq(Event) /\ ~HasError(calls)
  BY <1>2 DEF EventInv, KeepsUp, Interpreting, CompleteEvents, TypeOK, NoErrorDelivered
<1> DEFINE next == Part(body, 0, parsed + n)
           r == res(n)
<1>6. /\ CompleteLines(next) = Append(CompleteLines(consumed), line(n))
      /\ Closed(next) /\ buffer' = Part(body, parsed + n, arrived)
      /\ line(n) \in Text /\ CompleteLines(consumed) \in Seq(Text)
  <2>1. n \in 1 .. (arrived - parsed)
    BY <1>4
  <2>2. /\ CompleteLines(Part(body, 0, parsed + n)) =
              Append(CompleteLines(Part(body, 0, parsed)),
                     StripCR(SubSeq(Part(body, parsed, arrived), 1, n - 1)))
        /\ Closed(Part(body, 0, parsed + n))
        /\ SubSeq(Part(body, parsed, arrived), n + 1, arrived - parsed) = Part(body, parsed + n, arrived)
    BY <1>1, <1>4, <2>1, LineConsumed
  <2>3. line(n) \in Text
    <3>1. n - 1 \in 0 .. Len(buffer) /\ 1 \in Nat \ {0}
      BY <1>4
    <3>2. buffer \in Text
      BY DEF TypeOK
    <3>3. SubSeq(buffer, 1, n - 1) \in Text
      BY <3>1, <3>2, SubText
    <3> QED  BY <3>3, StripCRText
  <2> QED  BY <1>1, <1>4, <2>2, <2>3, CompleteLinesType
<1>7. /\ parsed + n \in Nat /\ parsed + n <= arrived /\ parsed' = parsed + n
      /\ Len(buffer') = arrived - (parsed + n)
      /\ consumed' = next /\ next \in Text /\ Begins(next, received)
  <2> DEFINE x == parsed + n
  <2>1. x \in Nat /\ x <= arrived /\ x <= Len(body)
    BY <1>4
  <2> HIDE DEF x
  <2>2. Len(Part(body, x, arrived)) = arrived - x
    BY <1>4, <2>1, PartIs
  <2>3. Part(body, 0, x) \in Text /\ Begins(Part(body, 0, x), received)
    BY <1>4, <2>1, FromStart, PartsBegin
  <2>4. parsed' = x
    <3>1. Len(buffer') = arrived - x
      BY <1>6, <2>2 DEF x
    <3> QED  BY <1>2, <1>4, <2>1, <3>1 DEF parsed
  <2>5. consumed' = Part(body, 0, x)
    <3>1. 0 + 1 = 1
      OBVIOUS
    <3> QED  BY <1>2, <2>4, <3>1 DEF consumed, Part
  <2> QED  BY <1>6, <2>1, <2>2, <2>3, <2>4, <2>5 DEF x
<1>8. BodyInParts'
  <2>1. Len(wire') <= Len(body') /\ wire' = SubSeq(body', arrived' + 1, Len(body'))
    BY <1>2 DEF BodyInParts
  <2>2. Len(buffer') <= arrived' /\ buffer' = SubSeq(body', parsed' + 1, arrived')
    BY <1>2, <1>4, <1>6, <1>7 DEF Part
  <2>3. Closed(consumed')
    BY <1>6, <1>7
  <2> QED  BY <2>1, <2>2, <2>3 DEF BodyInParts
<1>9. /\ r.parser = ParserAfter(CompleteLines(next))
      /\ r.kind = "none" => EventsOf(CompleteLines(next)) = calls
      /\ r.kind # "none" => /\ EventsOf(CompleteLines(next)) = Append(calls, r.event)
                            /\ r.event \in Event
                            /\ r.kind = "throw" <=> IsError(r.event)
  <2> DEFINE lines == CompleteLines(consumed)
             l == line(n)
  <2>1. lines \in Seq(Text) /\ l \in Text
    BY <1>6
  <2> HIDE DEF l, lines, next
  <2>2. parser = ParserAfter(lines) /\ calls = EventsOf(lines) /\ CompleteLines(next) = Append(lines, l)
    BY <1>5, <1>6 DEF l, lines
  <2>3. r = ProcessLine(parser, l)
    BY DEF l
  <2> HIDE DEF r
  <2> QED  BY <2>1, <2>2, <2>3, LineInterpreted
<1> HIDE DEF line, res, r, next
<1>10. parser' = r.parser /\ CompleteEvents(consumed') = EventsOf(CompleteLines(next))
  BY <1>1, <1>7 DEF r, CompleteEvents
<1>11. /\ CompleteEvents(next) \in Seq(Event) /\ CompleteEvents(received') \in Seq(Event)
       /\ Begins(CompleteEvents(next), CompleteEvents(received'))
  BY <1>2, <1>4, <1>7, CompleteEventsBelow
<1>12. TailParsed' /\ AllDeliveredAtEnd'
  BY <1>3 DEF TailParsed, AllDeliveredAtEnd, Finishes
<1>13. CASE /\ r.kind = "none"
            /\ UNCHANGED <<pc, handle, error, result, calls>>
  <2>1. KeepsUp'
    BY <1>2, <1>7, <1>9, <1>10, <1>13 DEF KeepsUp
  <2>2. ErrorIsNext' /\ NoErrorDelivered'
    BY <1>2, <1>5, <1>13 DEF ErrorIsNext, NoErrorDelivered
  <2>3. OneTruncated'
    BY <1>2, <1>13 DEF EventInv, OneTruncated
  <2> QED  BY <1>8, <1>12, <2>1, <2>2, <2>3 DEF EventInv
<1>14. CASE /\ r.kind = "event"
            /\ calls' = Append(calls, r.event)
            /\ \/ UNCHANGED <<pc, handle, error, result>>
               \/ Abort("handler")
  <2>1. /\ ~IsError(r.event) /\ EventsOf(CompleteLines(next)) = calls' /\ r.event \in Event
        /\ error' \in {"none", "handler"}
    BY <1>2, <1>9, <1>14 DEF Abort
  <2>2. ~HasError(calls') /\ Front(calls') = calls /\ Begins(calls, calls') /\ calls' \in Seq(Event)
    BY <1>5, <1>14, <2>1, OneMoreEvent
  <2>3. KeepsUp'
    BY <1>7, <1>9, <1>10, <2>1 DEF KeepsUp
  <2>4. ErrorIsNext' /\ NoErrorDelivered'
    BY <2>1, <2>2 DEF ErrorIsNext, NoErrorDelivered
  <2>5. OneTruncated'
    <3>1. Begins(calls', CompleteEvents(received'))
      BY <1>11, <2>1 DEF CompleteEvents
    <3>2. Begins(calls, CompleteEvents(received'))
      BY <1>5, <1>11, <2>2, <3>1, BeginsTrans
    <3> QED  BY <2>2, <3>2 DEF OneTruncated
  <2> QED  BY <1>8, <1>12, <2>3, <2>4, <2>5 DEF EventInv
<1>15. CASE r.kind = "throw" /\ UNCHANGED calls /\ Abort("stream")
  <2>1. /\ IsError(r.event) /\ r.event \in Event /\ error' = "stream"
        /\ CompleteEvents(consumed') = Append(calls, r.event)
    BY <1>9, <1>10, <1>15 DEF Abort
  <2>2. /\ Begins(calls, Append(calls, r.event))
        /\ Len(Append(calls, r.event)) = Len(calls) + 1
        /\ Append(calls, r.event)[Len(calls) + 1] = r.event
    BY <1>5, <2>1, OneMoreEvent
  <2>3. ErrorIsNext'
    BY <1>15, <2>1, <2>2 DEF ErrorIsNext
  <2>4. KeepsUp' /\ NoErrorDelivered'
    BY <1>5, <1>15, <2>1 DEF KeepsUp, Interpreting, NoErrorDelivered
  <2>5. OneTruncated'
    BY <1>2, <1>15 DEF EventInv, OneTruncated
  <2> QED  BY <1>8, <1>12, <2>3, <2>4, <2>5 DEF EventInv
<1> QED  BY <1>1, <1>13, <1>14, <1>15 DEF r

\* Steps that move no bytes and interpret no line.
LEMMA OtherEvents ==
  ASSUME TypeOK, IInv, EventInv,
         \/ InitFails \/ DumpThrows \/ Start \/ PeerCloses \/ ConnectionBreaks
         \/ CallbackReturns \/ UNCHANGED vars
  PROVE  EventInv'
<1>1. /\ UNCHANGED <<response, wire, buffer, parser, error, calls>>
      /\ BeforeTail' => BeforeTail
      /\ \/ UNCHANGED <<pc, result, outcome>>
         \/ pc' \in {"perform", "performed"}
         \/ pc' = "done" /\ UNCHANGED result /\ pc = "init"
  BY DEF InitFails, DumpThrows, Start, PeerCloses, ConnectionBreaks, Performed, CallbackReturns,
         vars, BeforeTail
<1>2. /\ body' = body /\ received' = received /\ arrived' = arrived
      /\ parsed' = parsed /\ consumed' = consumed
  BY <1>1, SameParts
<1>3. pc = "init" => result = "none"
  BY DEF IInv, InTransfer
<1> USE DEF EventInv
<1>4. BodyInParts'
  BY <1>1, <1>2 DEF BodyInParts
<1>5. KeepsUp' /\ ErrorIsNext' /\ NoErrorDelivered' /\ OneTruncated'
  BY <1>1, <1>2 DEF KeepsUp, Interpreting, ErrorIsNext, NoErrorDelivered, OneTruncated
<1>6. TailParsed'
  BY <1>1, <1>2 DEF TailParsed
<1>7. AllDeliveredAtEnd'
  BY <1>1, <1>2, <1>3 DEF AllDeliveredAtEnd, Finishes
<1> QED  BY <1>4, <1>5, <1>6, <1>7

\* The exception kept by the callback is the error of a frame received.
LEMMA RethrowEvents ==
  ASSUME TypeOK, IInv, EventInv, Rethrow
  PROVE  EventInv'
<1>1. /\ UNCHANGED <<response, wire, buffer, parser, error, calls, result>>
      /\ pc = "performed" /\ pc' = "done" /\ outcome' = error /\ error # "none" /\ BeforeTail
      /\ ~BeforeTail'
  BY DEF Rethrow, BeforeTail
<1>2. /\ body' = body /\ received' = received /\ arrived' = arrived
      /\ parsed' = parsed /\ consumed' = consumed
  BY <1>1, SameParts
<1>3. /\ BodyInParts /\ ErrorIsNext /\ NoErrorDelivered /\ OneTruncated
      /\ error \in {"handler", "stream"} /\ calls \in Seq(Event)
  BY <1>1 DEF EventInv, TypeOK, Errors
<1>4. BodyInParts' /\ KeepsUp' /\ ErrorIsNext' /\ TailParsed' /\ NoErrorDelivered' /\ OneTruncated'
  BY <1>1, <1>2, <1>3 DEF BodyInParts, KeepsUp, Interpreting, ErrorIsNext, TailParsed,
                          NoErrorDelivered, OneTruncated
<1>5. ASSUME error = "stream"
      PROVE  calls = BeforeError(AllEvents(received)) /\ HasError(AllEvents(received))
  <2> DEFINE some == CompleteEvents(consumed)
             all == AllEvents(received)
  <2>1. /\ Begins(calls, some) /\ Len(some) = Len(calls) + 1 /\ IsError(some[Len(calls) + 1])
    BY <1>1, <1>3, <1>5 DEF ErrorIsNext
  <2>2. some \in Seq(Event) /\ all \in Seq(Event) /\ Begins(some, all)
    <3>1. consumed \in Text /\ received \in Text /\ Begins(consumed, received)
      BY <1>1, <1>3, Parts
    <3>2. /\ some \in Seq(Event) /\ CompleteEvents(received) \in Seq(Event)
          /\ Begins(some, CompleteEvents(received))
      BY <3>1, CompleteEventsBelow
    <3>3. all \in Seq(Event) /\ Begins(CompleteEvents(received), all)
      BY <3>1, AllEventsType
    <3> HIDE DEF some, all
    <3> QED  BY <3>2, <3>3, BeginsTrans
  <2> HIDE DEF some, all
  <2>3. /\ Begins(calls, all) /\ ~HasError(calls)
        /\ Len(calls) < Len(all) /\ IsError(all[Len(calls) + 1])
    <3>1. Len(calls) \in Nat /\ Len(all) \in Nat /\ Len(calls) + 1 \in 1 .. Len(some)
      BY <1>3, <2>1, <2>2, LenProperties
    <3>2. Begins(calls, all)
      BY <1>3, <2>1, <2>2, BeginsTrans
    <3>3. Len(some) <= Len(all) /\ all[Len(calls) + 1] = some[Len(calls) + 1]
      BY <2>2, <3>1 DEF Begins
    <3> QED  BY <1>3, <2>1, <3>1, <3>2, <3>3 DEF NoErrorDelivered
  <2> QED  BY <1>3, <2>2, <2>3, BeforeErrorIs DEF all
<1>6. AllDeliveredAtEnd'
  BY <1>1, <1>2, <1>3, <1>5 DEF AllDeliveredAtEnd, Finishes
<1> QED  BY <1>4, <1>6 DEF EventInv

\* What is in the buffer after the transfer is the unterminated line.
LEMMA TailIs ==
  ASSUME TypeOK, IInv, EventInv, pc = "performed", error = "none"
  PROVE  /\ CompleteLines(received) = CompleteLines(consumed) /\ Unterminated(received) = buffer
         /\ received \in Text /\ CompleteLines(received) \in Seq(Text)
         /\ parser = ParserAfter(CompleteLines(received))
         /\ calls = EventsOf(CompleteLines(received)) /\ calls = CompleteEvents(received)
         /\ calls \in Seq(Event)
<1>1. BeforeTail /\ Interpreting /\ BodyInParts /\ KeepsUp /\ ~Has(LF, buffer) /\ calls \in Seq(Event)
  BY DEF BeforeTail, Interpreting, EventInv, IInv, NoLineHeldBack, TypeOK
<1>2. /\ body \in Text /\ arrived \in Nat /\ arrived <= Len(body)
      /\ received = Part(body, 0, arrived) /\ received \in Text
      /\ parsed \in Nat /\ parsed <= arrived
      /\ consumed = Part(body, 0, parsed) /\ Closed(consumed)
      /\ buffer = Part(body, parsed, arrived)
  BY <1>1, Parts
<1>3. CompleteLines(received) = CompleteLines(consumed) /\ Unterminated(received) = buffer
  BY <1>1, <1>2, RestUnterminated
<1>4. parser = ParserAfter(CompleteLines(consumed)) /\ calls = EventsOf(CompleteLines(consumed))
  BY <1>1 DEF KeepsUp, CompleteEvents
<1> QED  BY <1>1, <1>2, <1>3, <1>4, CompleteLinesType DEF CompleteEvents

\* After curl_easy_perform, without an exception and with an empty buffer, the
\* lines consumed are all there are.
LEMMA NoTailEvents ==
  ASSUME TypeOK, IInv, EventInv, NoTail
  PROVE  EventInv'
<1>1. /\ UNCHANGED <<response, wire, buffer, parser, error, calls, result>>
      /\ pc = "performed" /\ error = "none" /\ pc' = "flush" /\ buffer = <<>>
      /\ ~BeforeTail' /\ pc' # "done"
  BY DEF NoTail, TailLeft, BeforeTail
<1>2. /\ body' = body /\ received' = received /\ arrived' = arrived
  BY <1>1, SameParts
<1>3. /\ Unterminated(received) = <<>>
      /\ parser = ParserAfter(CompleteLines(received))
      /\ calls = EventsOf(CompleteLines(received)) /\ calls = CompleteEvents(received)
  BY <1>1, TailIs
<1>4. AllLines(received) = CompleteLines(received)
  BY <1>3 DEF AllLines
<1>5. TailParsed'
  BY <1>1, <1>2, <1>3, <1>4 DEF TailParsed
<1>6. BodyInParts' /\ KeepsUp' /\ ErrorIsNext' /\ NoErrorDelivered' /\ OneTruncated' /\ AllDeliveredAtEnd'
  BY <1>1, <1>2 DEF EventInv, BodyInParts, KeepsUp, Interpreting, ErrorIsNext, NoErrorDelivered,
                    OneTruncated, AllDeliveredAtEnd, Finishes
<1> QED  BY <1>5, <1>6 DEF EventInv

\* The unterminated line left in the buffer is interpreted last.
LEMMA TailEvents ==
  ASSUME TypeOK, TypeOK', IInv, EventInv, TailLine
  PROVE  EventInv'
<1> DEFINE line == StripCR(buffer)
           r == ProcessLine(parser, line)
           all == AllLines(received)
<1>1. /\ UNCHANGED <<response, wire, error, result>>
      /\ pc = "performed" /\ error = "none" /\ buffer # <<>> /\ pc' \in {"flush", "done"}
      /\ ~BeforeTail'
      /\ parser' = r.parser
      /\ \/ r.kind = "none" /\ UNCHANGED calls /\ pc' = "flush"
         \/ /\ r.kind = "event"
            /\ calls' = Append(calls, r.event)
            /\ \/ pc' = "flush"
               \/ pc' = "done" /\ outcome' = "handler"
         \/ r.kind = "throw" /\ UNCHANGED calls /\ pc' = "done" /\ outcome' = "stream"
  BY DEF TailLine, TailLeft, TailText, Dispatch, BeforeTail
<1>2. body' = body /\ received' = received /\ arrived' = arrived
  <2>1. body' = body
    BY <1>1 DEF body
  <2> QED  BY <1>1, <2>1 DEF received, arrived
<1>3. /\ Unterminated(received) = buffer /\ received \in Text
      /\ CompleteLines(received) \in Seq(Text)
      /\ parser = ParserAfter(CompleteLines(received))
      /\ calls = EventsOf(CompleteLines(received)) /\ calls = CompleteEvents(received)
      /\ calls \in Seq(Event) /\ ~HasError(calls) /\ line \in Text
  <2>1. ~HasError(calls) /\ line \in Text
    BY StripCRText DEF EventInv, NoErrorDelivered, TypeOK
  <2> QED  BY <1>1, <2>1, TailIs
<1>4. all = Append(CompleteLines(received), line) /\ all \in Seq(Text)
  BY <1>1, <1>3, AllLinesType DEF AllLines
<1>5. /\ r.parser = ParserAfter(all)
      /\ r.kind = "none" => EventsOf(all) = calls
      /\ r.kind # "none" => /\ r.parser = NewParser
                            /\ EventsOf(all) = Append(calls, r.event)
                            /\ r.event \in Event
                            /\ r.kind = "throw" <=> IsError(r.event)
  <2> DEFINE lines == CompleteLines(received)
  <2>1. /\ lines \in Seq(Text) /\ line \in Text /\ parser = ParserAfter(lines)
        /\ calls = EventsOf(lines) /\ all = Append(lines, line)
    BY <1>3, <1>4
  <2> HIDE DEF lines, line, all
  <2> QED  BY <2>1, LineInterpreted
<1> HIDE DEF r, line, all
<1>6. r.kind # "none" =>
        /\ Begins(calls, EventsOf(all)) /\ Front(EventsOf(all)) = calls
        /\ Len(EventsOf(all)) = Len(calls) + 1 /\ EventsOf(all)[Len(calls) + 1] = r.event
        /\ HasError(EventsOf(all)) <=> IsError(r.event)
  BY <1>3, <1>5, OneMoreEvent
<1>7. BodyInParts' /\ KeepsUp' /\ ErrorIsNext'
  <2>1. BodyInParts'
    BY <1>1, <1>2 DEF EventInv, BodyInParts
  <2> QED  BY <1>1, <2>1 DEF KeepsUp, Interpreting, ErrorIsNext
<1>8. TailParsed'
  BY <1>1, <1>2, <1>3, <1>5 DEF TailParsed, all
<1>9. NoErrorDelivered'
  BY <1>1, <1>3, <1>5, <1>6 DEF NoErrorDelivered
<1>10. OneTruncated'
  <2>1. CASE UNCHANGED calls
    BY <1>2, <2>1 DEF EventInv, OneTruncated
  <2>2. CASE r.kind = "event" /\ calls' = Append(calls, r.event)
    <3>1. Front(calls') = CompleteEvents(received)
      BY <1>3, <1>5, <1>6, <2>2
    <3>2. Begins(CompleteEvents(received), CompleteEvents(received))
      <4>1. CompleteEvents(received) \in Seq(Event)
        BY <1>3
      <4>2. Len(CompleteEvents(received)) \in Nat
        BY <4>1, LenProperties
      <4> QED  BY <4>2 DEF Begins
    <3> QED  BY <1>2, <3>1, <3>2 DEF OneTruncated
  <2> QED  BY <1>1, <2>1, <2>2
<1>11. AllDeliveredAtEnd'
  <2>1. ASSUME r.kind = "throw"
        PROVE  calls = BeforeError(AllEvents(received)) /\ HasError(AllEvents(received))
    <3> DEFINE some == EventsOf(all)
               events == AllEvents(received)
               more == Append(all, <<>>)
    <3>1. /\ some \in Seq(Event) /\ events \in Seq(Event) /\ Begins(some, events)
      <4>1. <<>> \in Text
        BY EmptyText
      <4>2. more \in Seq(Text) /\ Begins(all, more)
        BY <1>4, <4>1, AppendProperties, AppendBegins
      <4>3. events = EventsOf(more)
        BY DEF AllEvents, all
      <4> HIDE DEF more, events
      <4> QED  BY <1>4, <4>2, <4>3, EventsOfBelow, ParserAfterType
    <3> HIDE DEF some, events
    <3>2. /\ Len(calls) \in Nat /\ Len(some) \in Nat /\ Len(events) \in Nat
          /\ Len(some) = Len(calls) + 1 /\ IsError(some[Len(calls) + 1])
          /\ Begins(calls, some)
      BY <1>3, <1>5, <1>6, <2>1, <3>1, LenProperties DEF some
    <3>3. Begins(calls, events)
      BY <1>3, <3>1, <3>2, BeginsTrans
    <3>4. Len(calls) < Len(events) /\ IsError(events[Len(calls) + 1])
      <4>1. Len(calls) + 1 \in 1 .. Len(some)
        BY <3>2
      <4> QED  BY <3>1, <3>2, <4>1 DEF Begins
    <3> QED  BY <1>3, <3>1, <3>3, <3>4, BeforeErrorIs DEF events
  <2> QED  BY <1>1, <1>2, <2>1 DEF AllDeliveredAtEnd, Finishes
<1> QED  BY <1>7, <1>8, <1>9, <1>10, <1>11 DEF EventInv

\* flush() completes the frame that no blank line ended.
LEMMA FlushEvents ==
  ASSUME TypeOK, TypeOK', IInv, EventInv, FinalFlush
  PROVE  EventInv'
<1> DEFINE r == Flush(parser)
           all == AllLines(received)
           events == AllEvents(received)
<1>1. /\ UNCHANGED <<response, wire, buffer, error, result>>
      /\ pc = "flush" /\ pc' = "done" /\ ~BeforeTail'
      /\ \/ r.kind = "none" /\ UNCHANGED calls /\ outcome' \in {"returned", "connection"}
         \/ /\ r.kind = "event"
            /\ calls' = Append(calls, r.event)
            /\ outcome' \in {"returned", "connection", "handler"}
         \/ r.kind = "throw" /\ UNCHANGED calls /\ outcome' = "stream"
  BY DEF FinalFlush, Ending, Dispatch, BeforeTail
<1>2. /\ body' = body /\ received' = received /\ arrived' = arrived
  BY <1>1, SameParts
<1>3. /\ BodyInParts /\ received \in Text /\ all \in Seq(Text)
      /\ parser = ParserAfter(all) /\ calls = EventsOf(all)
      /\ calls = CompleteEvents(received) \/ parser = NewParser
      /\ calls \in Seq(Event) /\ ~HasError(calls)
  <2>1. BodyInParts /\ received \in Text /\ calls \in Seq(Event) /\ ~HasError(calls)
    BY Parts DEF EventInv, NoErrorDelivered, TypeOK
  <2>2. /\ parser = ParserAfter(all) /\ calls = EventsOf(all)
        /\ calls = CompleteEvents(received) \/ parser = NewParser
    BY <1>1 DEF EventInv, TailParsed
  <2> QED  BY <2>1, <2>2, AllLinesType
<1>4. /\ r.kind = "none" => events = calls
      /\ r.kind # "none" => /\ events = Append(calls, r.event)
                            /\ r.event \in Event
                            /\ r.kind = "throw" <=> IsError(r.event)
  <2>1. PICK line \in Text : line = <<>>
    BY EmptyText
  <2>2. ProcessLine(parser, line) = r
    BY <2>1, ProcessLineIs
  <2>3. events = EventsOf(Append(all, line))
    BY <2>1 DEF AllEvents
  <2> HIDE DEF r, all, events
  <2>4. /\ ProcessLine(parser, line).kind = "none" => EventsOf(Append(all, line)) = EventsOf(all)
        /\ ProcessLine(parser, line).kind # "none" =>
              /\ EventsOf(Append(all, line)) = Append(EventsOf(all), ProcessLine(parser, line).event)
              /\ ProcessLine(parser, line).event \in Event
              /\ ProcessLine(parser, line).kind = "throw" <=> IsError(ProcessLine(parser, line).event)
    BY <1>3, LineInterpreted
  <2> QED  BY <1>3, <2>2, <2>3, <2>4
<1>5. parser = NewParser => r.kind = "none"
  BY DEF Flush, NewParser, Nothing
<1> HIDE DEF r, all
<1>6. r.kind # "none" =>
        /\ Begins(calls, events) /\ Front(events) = calls
        /\ Len(events) = Len(calls) + 1 /\ events[Len(calls) + 1] = r.event
        /\ events \in Seq(Event)
        /\ HasError(events) <=> IsError(r.event)
  <2> SUFFICES ASSUME r.kind # "none"
               PROVE  /\ Begins(calls, events) /\ Front(events) = calls
                      /\ Len(events) = Len(calls) + 1 /\ events[Len(calls) + 1] = r.event
                      /\ events \in Seq(Event)
                      /\ HasError(events) <=> IsError(r.event)
    OBVIOUS
  <2> DEFINE e == r.event
  <2>1. events = Append(calls, e) /\ e \in Event
    BY <1>4
  <2>2. calls \in Seq(Event) /\ ~HasError(calls)
    BY <1>3
  <2> HIDE DEF e, events
  <2>3. /\ Begins(calls, events) /\ Front(events) = calls
        /\ Len(events) = Len(calls) + 1 /\ events[Len(calls) + 1] = e
        /\ events \in Seq(Event)
        /\ HasError(events) <=> IsError(e)
    BY <2>1, <2>2, OneMoreEvent
  <2> QED  BY <2>3 DEF e
<1> HIDE DEF events
<1>7. BodyInParts' /\ KeepsUp' /\ ErrorIsNext' /\ TailParsed'
  <2>1. BodyInParts'
    BY <1>1, <1>2, <1>3 DEF BodyInParts
  <2> QED  BY <1>1, <2>1 DEF KeepsUp, Interpreting, ErrorIsNext, TailParsed
<1>8. NoErrorDelivered'
  <2>1. CASE UNCHANGED calls
    BY <1>3, <2>1 DEF NoErrorDelivered
  <2>2. CASE r.kind = "event" /\ calls' = Append(calls, r.event)
    <3>1. r.kind # "none" /\ r.kind # "throw"
      BY <2>2
    <3>2. calls' = events /\ ~HasError(events)
      BY <1>4, <1>6, <2>2, <3>1
    <3> QED  BY <3>2 DEF NoErrorDelivered
  <2> QED  BY <1>1, <2>1, <2>2
<1>9. OneTruncated'
  <2>1. CASE UNCHANGED calls
    BY <1>2, <2>1 DEF EventInv, OneTruncated
  <2>2. CASE r.kind = "event" /\ calls' = Append(calls, r.event)
    <3>1. Front(calls') = CompleteEvents(received)
      BY <1>3, <1>4, <1>5, <1>6, <2>2
    <3>2. Begins(CompleteEvents(received), CompleteEvents(received))
      <4>1. CompleteEvents(received) \in Seq(Event)
        BY <1>3, AllEventsType
      <4>2. Len(CompleteEvents(received)) \in Nat
        BY <4>1, LenProperties
      <4> QED  BY <4>2 DEF Begins
    <3> QED  BY <1>2, <3>1, <3>2 DEF OneTruncated
  <2> QED  BY <1>1, <2>1, <2>2
<1>10. AllDeliveredAtEnd'
  <2>1. r.kind = "throw" => calls = BeforeError(events) /\ HasError(events)
    <3> SUFFICES ASSUME r.kind = "throw"  PROVE calls = BeforeError(events) /\ HasError(events)
      OBVIOUS
    <3>1. Len(calls) \in Nat /\ Len(calls) < Len(events) /\ IsError(events[Len(calls) + 1])
      BY <1>3, <1>4, <1>6, LenProperties
    <3> QED  BY <1>3, <1>6, <3>1, BeforeErrorIs
  <2>2. outcome' # "stream" /\ outcome' # "handler" => calls' = events /\ ~HasError(events)
    <3>1. CASE r.kind = "none" /\ UNCHANGED calls
      BY <1>3, <1>4, <3>1
    <3>2. CASE r.kind = "event" /\ calls' = Append(calls, r.event)
      <4>1. r.kind # "none" /\ r.kind # "throw"
        BY <3>2
      <4> QED  BY <1>4, <1>6, <3>2, <4>1
    <3>3. CASE outcome' = "stream"
      BY <3>3
    <3> QED  BY <1>1, <3>1, <3>2, <3>3
  <2>3. outcome' = "stream" => r.kind = "throw" /\ UNCHANGED calls
    BY <1>1
  <2> QED  BY <1>2, <2>1, <2>2, <2>3 DEF AllDeliveredAtEnd, Finishes, events
<1> QED  BY <1>7, <1>8, <1>9, <1>10 DEF EventInv

\* The invariant is inductive, given that of the control state.
LEMMA NextEvents == TypeOK /\ IInv /\ EventInv /\ [Next]_vars => EventInv'
<1> SUFFICES ASSUME TypeOK, IInv, EventInv, [Next]_vars  PROVE EventInv'
  OBVIOUS
<1>0. TypeOK'
  BY NextTypeOK
<1>1. CASE ReceiveChunk
  BY <1>0, <1>1, ReceiveEvents
<1>2. CASE CallbackLine
  BY <1>0, <1>2, CallbackEvents
<1>3. CASE Rethrow
  BY <1>3, RethrowEvents
<1>4. CASE NoTail
  BY <1>4, NoTailEvents
<1>5. CASE TailLine
  BY <1>0, <1>5, TailEvents
<1>6. CASE FinalFlush
  BY <1>0, <1>6, FlushEvents
<1>7. CASE \/ InitFails \/ DumpThrows \/ Start \/ PeerCloses \/ ConnectionBreaks
           \/ CallbackReturns \/ UNCHANGED vars
  BY <1>7, OtherEvents
<1> QED
  BY <1>1, <1>2, <1>3, <1>4, <1>5, <1>6, <1>7 DEF Next, Client, Peer, Finished

\* So both hold in every reachable state.
LEMMA EventInvHolds == Spec => [](IInv /\ EventInv)
<1>1. Init => IInv /\ EventInv
  BY InitIInv, InitEvents
<1>2. IInv /\ EventInv /\ [Next]_vars => (IInv /\ EventInv)'
  BY NextIInv, NextEvents DEF IInv
<1> QED  BY <1>1, <1>2, PTL DEF Spec

\* Whenever libcurl waits for the peer, the handler has had exactly the events
\* of the frames complete in what arrived, for every body and every chunking.
THEOREM NothingIsHeldBack == Spec => []NothingHeldBack
<1>1. IInv /\ EventInv => NothingHeldBack
  <2> SUFFICES ASSUME IInv, EventInv, pc = "perform"
               PROVE  calls = CompleteEvents(received) /\ ~HasError(calls)
    BY DEF NothingHeldBack
  <2>1. /\ TypeOK /\ BodyInParts /\ BeforeTail /\ error = "none" /\ ~Has(LF, buffer)
        /\ KeepsUp /\ Interpreting /\ ~HasError(calls)
    BY DEF IInv, InTransfer, NoLineHeldBack, EventInv, BeforeTail, Interpreting, NoErrorDelivered
  <2>2. /\ body \in Text /\ arrived \in Nat /\ arrived <= Len(body)
        /\ received = Part(body, 0, arrived)
        /\ parsed \in Nat /\ parsed <= arrived
        /\ consumed = Part(body, 0, parsed) /\ Closed(consumed)
        /\ buffer = Part(body, parsed, arrived)
    BY <2>1, Parts
  <2>3. CompleteLines(received) = CompleteLines(consumed)
    BY <2>1, <2>2, RestUnterminated
  <2> QED  BY <2>1, <2>3 DEF KeepsUp, CompleteEvents
<1> QED  BY <1>1, EventInvHolds, PTL

\* A call that ends without a handler exception has delivered everything
\* before the first error frame, and ends with that frame's error.
THEOREM EverythingIsDelivered == Spec => []AllDeliveredAtEnd
<1>1. EventInv => AllDeliveredAtEnd
  BY DEF EventInv
<1> QED  BY <1>1, EventInvHolds, PTL

\* Wherever a connection breaks, only the last event can be a truncated one.
THEOREM OnlyLastIsTruncated == Spec => []OnlyLastEventTruncated
<1>1. IInv /\ EventInv => OnlyLastEventTruncated
  <2> SUFFICES ASSUME IInv, EventInv, calls # <<>>
               PROVE  IsPrefix(Front(calls), AllEvents(body))
    BY DEF OnlyLastEventTruncated
  <2>1. TypeOK /\ BodyInParts /\ calls \in Seq(Event) /\ Begins(Front(calls), CompleteEvents(received))
    BY DEF IInv, EventInv, OneTruncated, TypeOK
  <2>2. body \in Text /\ received \in Text /\ Begins(received, body)
    <3>1. /\ body \in Text /\ received = Part(body, 0, arrived) /\ received \in Text
          /\ arrived \in Nat /\ arrived <= Len(body)
      BY <2>1, Parts
    <3>2. Begins(Part(body, 0, arrived), body)
      <4>1. arrived <= arrived
        BY <3>1
      <4> QED  BY <3>1, <4>1, PartsBegin
    <3> QED  BY <3>1, <3>2
  <2> DEFINE some == CompleteEvents(received)
             more == CompleteEvents(body)
             all  == AllEvents(body)
             front == Front(calls)
  <2>3. /\ some \in Seq(Event) /\ more \in Seq(Event) /\ all \in Seq(Event) /\ front \in Seq(Event)
        /\ Begins(front, some) /\ Begins(some, more) /\ Begins(more, all)
    BY <2>1, <2>2, CompleteEventsBelow, AllEventsType, FrontType
  <2> HIDE DEF some, more, all, front
  <2>4. Begins(front, more)
    BY <2>3, BeginsTrans
  <2>5. Begins(front, all)
    BY <2>3, <2>4, BeginsTrans
  <2> QED  BY <2>3, <2>5, BeginsIsPrefix DEF front, all
<1> QED  BY <1>1, EventInvHolds, PTL
-----------------------------------------------------------------------------
(* A streaming call implements SseDelivery: the chunks libcurl cuts the    *)
(* response into, the buffer and the exception kept by the callback are    *)
(* invisible to the caller.                                                *)

(***************************************************************************)
(* The instance has its own copies of the operators of SseParser.          *)
(***************************************************************************)
LEMMA SameFlush == \A p : Delivery!Flush(p) = Flush(p)
BY DEF Delivery!Flush, Flush, Delivery!Emit, Emit, Delivery!FrameEvent, FrameEvent,
       Delivery!Nothing, Nothing, Delivery!NewParser, NewParser,
       Delivery!Join, Join, Delivery!MESSAGE, MESSAGE, Delivery!ERROR, ERROR

LEMMA SameFind == \A t, s, i : Delivery!FindsAt(t, s, i) = FindsAt(t, s, i)
BY DEF Delivery!FindsAt, FindsAt

LEMMA SameHas == \A t, s : Delivery!Has(t, s) = Has(t, s)
BY DEF Delivery!Has, Has

LEMMA SameField == \A line : /\ Delivery!Field(line) = Field(line)
                             /\ Delivery!Value(line) = Value(line)
BY DEF Delivery!Field, Field, Delivery!Value, Value, Delivery!Has, Has,
       Delivery!ColonAt, ColonAt, Delivery!FindsAt, FindsAt,
       Delivery!COLON, COLON, Delivery!SPACE, SPACE

LEMMA SameProcessLine ==
  \A p, line : Delivery!ProcessLine(p, line) = ProcessLine(p, line)
BY SameFlush, SameField
   DEF Delivery!ProcessLine, ProcessLine, Delivery!Nothing, Nothing,
       Delivery!COLON, COLON

LEMMA SameStripCR == \A line : Delivery!StripCR(line) = StripCR(line)
BY DEF Delivery!StripCR, StripCR, Delivery!CR, CR
-----------------------------------------------------------------------------
(* A text cut in two: what the buffer holds and what is still to come.     *)

LEMMA CutText ==
  ASSUME NEW s \in Text, NEW t \in Text
  PROVE  /\ s \o t \in Text
         /\ Len(s) \in Nat /\ Len(t) \in Nat
         /\ Len(s \o t) = Len(s) + Len(t)
         /\ \A i \in 1 .. Len(s) : (s \o t)[i] = s[i]
         /\ \A i \in Len(s) + 1 .. Len(s) + Len(t) : (s \o t)[i] = t[i - Len(s)]
BY ConcatProperties, LenProperties DEF Text

\* Moving the first n tokens of t behind s changes nothing.
LEMMA MoveChunk ==
  ASSUME NEW s \in Text, NEW t \in Text, NEW n \in 1 .. Len(t)
  PROVE  (s \o SubSeq(t, 1, n)) \o SubSeq(t, n + 1, Len(t)) = s \o t
<1>1. Len(t) \in Nat
  BY LenProperties DEF Text
<1> DEFINE a == SubSeq(t, 1, n)
           b == SubSeq(t, n + 1, Len(t))
<1>2. s \in Seq(Token) /\ a \in Seq(Token) /\ b \in Seq(Token)
  BY <1>1, SubText DEF Text
<1>3. a \o b = SubSeq(t, 1, Len(t))
  BY <1>1, ConcatAdjacentSubSeq DEF Text
<1>4. SubSeq(t, 1, Len(t)) = t
  BY SubSeqFull DEF Text
<1>5. (s \o a) \o b = s \o (a \o b)
  <2> HIDE DEF a, b
  <2> QED  BY <1>2, ConcatAssociative
<1> QED  BY <1>3, <1>4, <1>5

\* The part that arrived is a prefix of the whole.
LEMMA ArrivedIsPrefix ==
  ASSUME NEW s \in Text, NEW t \in Text
  PROVE  SubSeq(s \o t, 1, Len(s)) = s
<1>1. SubSeq(s \o t, 1, Len(s)) \in Seq(Token) /\ Len(SubSeq(s \o t, 1, Len(s))) = Len(s)
      /\ \A i \in 1 .. Len(s) : SubSeq(s \o t, 1, Len(s))[i] = (s \o t)[i]
  <2>1. \A i \in 1 .. Len(s) : (s \o t)[i] \in Token
    BY CutText, ElementOfSeq DEF Text
  <2>2. Len(s) \in Nat
    BY CutText
  <2> QED  BY <2>1, <2>2, SubSeqProperties
<1>2. \A i \in 1 .. Len(s) : SubSeq(s \o t, 1, Len(s))[i] = s[i]
  BY <1>1, CutText
<1> QED  BY <1>1, <1>2, SeqEqual DEF Text

\* The first line of the buffer is the first line of the whole.
LEMMA FirstLine ==
  ASSUME NEW s \in Text, NEW t \in Text, NEW n \in 1 .. Len(s), FindsAt(LF, s, n)
  PROVE  /\ n \in 1 .. Len(s \o t)
         /\ FindsAt(LF, s \o t, n)
         /\ SubSeq(s \o t, 1, n - 1) = SubSeq(s, 1, n - 1)
         /\ SubSeq(s \o t, n + 1, Len(s \o t)) = SubSeq(s, n + 1, Len(s)) \o t
<1> DEFINE w == s \o t
<1>1. /\ w \in Seq(Token) /\ Len(s) \in Nat /\ Len(t) \in Nat
      /\ Len(w) = Len(s) + Len(t)
      /\ \A i \in 1 .. Len(s) : w[i] = s[i]
      /\ \A i \in Len(s) + 1 .. Len(w) : w[i] = t[i - Len(s)]
  BY CutText DEF Text
<1> HIDE DEF w
<1>2. n \in 1 .. Len(w) /\ FindsAt(LF, w, n)
  BY <1>1 DEF FindsAt
<1>3. SubSeq(w, 1, n - 1) = SubSeq(s, 1, n - 1)
  <2>1. /\ \A i \in 1 .. n - 1 : i \in 1 .. Len(s) /\ i \in 1 .. Len(w)
        /\ n - 1 \in Int
    BY <1>1
  <2>2. \A i \in 1 .. n - 1 : s[i] \in Token /\ w[i] \in Token /\ w[i] = s[i]
    BY <1>1, <2>1, ElementOfSeq DEF Text
  <2>3. /\ SubSeq(w, 1, n - 1) \in Seq(Token) /\ SubSeq(s, 1, n - 1) \in Seq(Token)
        /\ Len(SubSeq(w, 1, n - 1)) = n - 1 /\ Len(SubSeq(s, 1, n - 1)) = n - 1
        /\ \A i \in 1 .. n - 1 : SubSeq(w, 1, n - 1)[i] = w[i] /\ SubSeq(s, 1, n - 1)[i] = s[i]
    BY <1>1, <2>1, <2>2, SubSeqProperties
  <2> QED  BY <2>2, <2>3, SeqEqual
<1>4. SubSeq(w, n + 1, Len(w)) = SubSeq(s, n + 1, Len(s)) \o t
  <2> DEFINE l == SubSeq(w, n + 1, Len(w))
             a == SubSeq(s, n + 1, Len(s))
  <2>1. /\ l \in Seq(Token) /\ Len(l) = Len(w) - n
        /\ \A i \in 1 .. Len(w) - n : l[i] = w[n + i]
    <3>1. \A i \in n + 1 .. Len(w) : w[i] \in Token
      BY <1>1, ElementOfSeq
    <3> QED  BY <1>1, <3>1, SubSeqProperties
  <2>2. /\ a \in Seq(Token) /\ Len(a) = Len(s) - n
        /\ \A i \in 1 .. Len(s) - n : a[i] = s[n + i]
    <3>1. \A i \in n + 1 .. Len(s) : s[i] \in Token
      BY <1>1, ElementOfSeq DEF Text
    <3> QED  BY <1>1, <3>1, SubSeqProperties
  <2> HIDE DEF l, a
  <2>3. /\ a \o t \in Seq(Token) /\ Len(a \o t) = Len(a) + Len(t)
        /\ \A i \in 1 .. Len(a) + Len(t) :
              (a \o t)[i] = IF i <= Len(a) THEN a[i] ELSE t[i - Len(a)]
    BY <2>2, ConcatProperties DEF Text
  <2>4. Len(l) = Len(a \o t)
    BY <1>1, <2>1, <2>2, <2>3
  <2>5. ASSUME NEW i \in 1 .. Len(l)  PROVE l[i] = (a \o t)[i]
    <3>1. l[i] = w[n + i]
      BY <1>1, <2>1
    <3>2. CASE i <= Len(a)
      <4>1. /\ i \in 1 .. Len(s) - n /\ n + i \in 1 .. Len(s)
            /\ i \in 1 .. Len(a) + Len(t)
        BY <1>1, <2>1, <2>2, <3>2
      <4>2. (a \o t)[i] = a[i]
        BY <2>3, <3>2, <4>1
      <4>3. a[i] = s[n + i] /\ w[n + i] = s[n + i]
        BY <1>1, <2>2, <4>1
      <4> QED  BY <3>1, <4>2, <4>3
    <3>3. CASE i > Len(a)
      <4>1. n + i \in Len(s) + 1 .. Len(w) /\ (n + i) - Len(s) = i - Len(a)
        BY <1>1, <2>1, <2>2, <3>3
      <4>2. w[n + i] = t[i - Len(a)]
        BY <1>1, <4>1
      <4> QED  BY <1>1, <2>1, <2>2, <2>3, <3>1, <3>3, <4>2
    <3>4. i <= Len(a) \/ i > Len(a)
      BY <1>1, <2>1, <2>2
    <3> QED  BY <3>2, <3>3, <3>4
  <2> QED  BY <2>1, <2>3, <2>4, <2>5, SeqEqual DEF l, a
<1> QED  BY <1>2, <1>3, <1>4 DEF w
-----------------------------------------------------------------------------
(* Every step of the call is a step of the abstract one, or invisible.     *)

LEMMA InitMapped == Init => Delivery!Init
<1> SUFFICES ASSUME Init  PROVE Delivery!Init
  OBVIOUS
<1>1. restBar = response.body /\ transportBar = "open" /\ outcomeBar = "running"
  <2>1. response.body \in Seq(Token)
    BY ResponsesAssumption DEF Init, Text
  <2>2. <<>> \o response.body = response.body
    BY <2>1, ConcatEmptySeq
  <2> QED  BY <2>2 DEF Init, restBar, transportBar, outcomeBar
<1>2. parser = Delivery!NewParser
  BY DEF Init, NewParser, Delivery!NewParser
<1> QED  BY <1>1, <1>2 DEF Init, Delivery!Init

\* A step that leaves every abstract variable alone.
LEMMA Invisible ==
  ASSUME restBar' = restBar, transportBar' = transportBar, outcomeBar' = outcomeBar,
         UNCHANGED <<parser, calls>>
  PROVE  UNCHANGED Delivery!vars
BY DEF Delivery!vars

\* Before the response has ended the call has everything still to interpret.
LEMMA StillOpen ==
  ASSUME IInv, pc \in {"init", "perform", "callback"}
  PROVE  restBar = buffer \o wire /\ transportBar = "open" /\ outcomeBar = "running"
BY DEF IInv, InTransfer, Ended, restBar, transportBar, outcomeBar

\* Once it has ended, without an exception, the buffer holds what is left.
LEMMA TailIsLeft ==
  ASSUME IInv, pc = "performed", error = "none"
  PROVE  /\ restBar = buffer
         /\ ~Has(LF, buffer)
         /\ transportBar \in {"complete", "lost"}
         /\ outcomeBar = "running"
<1>1. result \in {"OK", "RECV_ERROR"} /\ (result = "OK" => wire = <<>>) /\ outcome = "running"
  BY DEF IInv, TypeOK, Results, AfterTransfer, Ended
<1>2. buffer \o <<>> = buffer
  BY ConcatEmptySeq DEF IInv, TypeOK, Text
<1> QED  BY <1>1, <1>2 DEF IInv, NoLineHeldBack, restBar, transportBar, outcomeBar

\* The callback's loop and its exceptions.
LEMMA CallbackLineMapped == IInv /\ CallbackLine => Delivery!Line
<1> SUFFICES ASSUME IInv, CallbackLine  PROVE Delivery!Line
  OBVIOUS
<1>1. /\ restBar = buffer \o wire /\ transportBar = "open" /\ outcomeBar = "running"
      /\ error = "none" /\ result = "none" /\ outcome = "running"
  BY StillOpen DEF CallbackLine, IInv, InTransfer, Ended
<1> DEFINE r(n) == ProcessLine(parser, StripCR(SubSeq(buffer, 1, n - 1)))
<1>2. PICK n \in 1 .. Len(buffer) :
        /\ FindsAt(LF, buffer, n)
        /\ buffer' = SubSeq(buffer, n + 1, Len(buffer))
        /\ parser' = r(n).parser
        /\ \/ r(n).kind = "none" /\ UNCHANGED <<pc, handle, error, result, calls>>
           \/ /\ r(n).kind = "event" /\ calls' = Append(calls, r(n).event)
              /\ UNCHANGED <<pc, handle, error, result>> \/ Abort("handler")
           \/ r(n).kind = "throw" /\ UNCHANGED calls /\ Abort("stream")
  BY DEF CallbackLine
<1>3. UNCHANGED <<wire, outcome>> /\ pc = "callback"
  BY DEF CallbackLine
<1>4. /\ n \in 1 .. Len(restBar)
      /\ FindsAt(LF, restBar, n)
      /\ SubSeq(restBar, 1, n - 1) = SubSeq(buffer, 1, n - 1)
      /\ SubSeq(restBar, n + 1, Len(restBar)) = buffer' \o wire
  BY <1>1, <1>2, FirstLine DEF IInv, TypeOK
<1>5. r(n) = Delivery!ProcessLine(parser, Delivery!StripCR(SubSeq(restBar, 1, n - 1)))
  BY <1>4, SameProcessLine, SameStripCR
<1>6. transportBar' = transportBar
  BY <1>1, <1>2 DEF transportBar, Abort, Performed
<1>7. Delivery!Dispatch(r(n), SubSeq(restBar, n + 1, Len(restBar)), "running")
  <2> HIDE DEF r
  <2>1. CASE UNCHANGED <<pc, error, result>>
    <3>1. restBar' = buffer' \o wire /\ outcomeBar' = "running"
      BY <1>1, <1>3, <2>1 DEF restBar, outcomeBar
    <3> QED  BY <1>2, <1>3, <1>4, <2>1, <3>1 DEF Delivery!Dispatch, Abort, Performed
  <2>2. CASE Abort("handler") /\ r(n).kind = "event" /\ calls' = Append(calls, r(n).event)
    <3>1. restBar' = <<>> /\ outcomeBar' = "handler"
      BY <1>3, <2>2 DEF restBar, outcomeBar, Abort
    <3> QED  BY <1>2, <2>2, <3>1 DEF Delivery!Dispatch, Delivery!End
  <2>3. CASE Abort("stream") /\ r(n).kind = "throw" /\ UNCHANGED calls
    <3>1. restBar' = <<>> /\ outcomeBar' = "stream"
      BY <1>3, <2>3 DEF restBar, outcomeBar, Abort
    <3> QED  BY <1>2, <2>3, <3>1 DEF Delivery!Dispatch, Delivery!End
  <2> QED  BY <1>2, <2>1, <2>2, <2>3
<1>8. Delivery!FindsAt(Delivery!LF, restBar, n)
  BY <1>4, SameFind DEF LF, Delivery!LF
<1> QED  BY <1>1, <1>4, <1>5, <1>6, <1>7, <1>8 DEF Delivery!Line, Delivery!Running

\* The unterminated last line.
LEMMA TailLineMapped == IInv /\ TailLine => Delivery!LastLine
<1> SUFFICES ASSUME IInv, TailLine  PROVE Delivery!LastLine
  OBVIOUS
<1>1. pc = "performed" /\ error = "none" /\ buffer # <<>> /\ UNCHANGED <<error, result>>
  BY DEF TailLine, TailLeft
<1>2. /\ restBar = buffer /\ ~Has(LF, restBar) /\ transportBar # "open"
      /\ outcomeBar = "running" /\ transportBar' = transportBar
  BY <1>1, TailIsLeft DEF transportBar
<1> DEFINE r == ProcessLine(parser, StripCR(buffer))
<1>3. Dispatch(r, "flush", "running")
  BY DEF TailLine, TailText
<1>4. r = Delivery!ProcessLine(parser, Delivery!StripCR(restBar))
  BY <1>2, SameProcessLine, SameStripCR
<1>5. restBar' = <<>> /\ outcomeBar' = outcome'
  BY <1>1, <1>3 DEF Dispatch, restBar, outcomeBar
<1>6. Delivery!Dispatch(r, <<>>, "running")
  <2> HIDE DEF r
  <2> QED  BY <1>3, <1>5 DEF Dispatch, Delivery!Dispatch, Delivery!End
<1>7. ~Delivery!Has(Delivery!LF, restBar)
  BY <1>2, SameHas DEF LF, Delivery!LF
<1> QED  BY <1>1, <1>2, <1>4, <1>6, <1>7 DEF Delivery!LastLine, Delivery!Running

\* The unfinished last frame, and how the call ends.
LEMMA FinalFlushMapped == IInv /\ FinalFlush => Delivery!LastFrame
<1> SUFFICES ASSUME IInv, FinalFlush  PROVE Delivery!LastFrame
  OBVIOUS
<1>1. /\ pc = "flush" /\ error = "none" /\ outcome = "running"
      /\ result \in {"OK", "RECV_ERROR"} /\ UNCHANGED <<error, result>>
  BY DEF FinalFlush, IInv, TypeOK, Results, AfterTransfer, Ended
<1>2. /\ restBar = <<>> /\ transportBar # "open" /\ outcomeBar = "running"
      /\ transportBar' = transportBar
      /\ transportBar = "lost" <=> result # "OK"
  BY <1>1 DEF restBar, transportBar, outcomeBar
<1> DEFINE o == IF transportBar = "lost" THEN "connection" ELSE "returned"
<1>3. Dispatch(Flush(parser), "done", o)
  BY <1>2 DEF FinalFlush, Ending
<1>4. o # "running"
  OBVIOUS
<1> HIDE DEF o
<1>5. restBar' = <<>> /\ outcomeBar' = outcome'
  BY <1>1, <1>3, <1>4 DEF Dispatch, restBar, outcomeBar
<1>6. Delivery!Dispatch(Flush(parser), <<>>, o)
  BY <1>3, <1>5 DEF Dispatch, Delivery!Dispatch, Delivery!End
<1> QED  BY <1>2, <1>6, SameFlush DEF Delivery!LastFrame, Delivery!Running, o

LEMMA NextMapped == IInv /\ [Next]_vars => [Delivery!Next]_(Delivery!vars)
<1> SUFFICES ASSUME IInv, [Next]_vars  PROVE Delivery!Next \/ UNCHANGED Delivery!vars
  OBVIOUS
<1> USE DEF Delivery!Next
<1>1. CASE InitFails \/ DumpThrows
  <2>1. /\ pc = "init" /\ parser = Delivery!NewParser /\ calls = <<>>
        /\ transportBar = "open" /\ outcomeBar = "running"
    BY <1>1, StillOpen DEF InitFails, DumpThrows, IInv, NotSentYet, NewParser, Delivery!NewParser
  <2>2. /\ error = "none" /\ outcome' \in {"returned", "body"}
        /\ UNCHANGED <<parser, calls, error, result>>
    BY <1>1, <2>1 DEF InitFails, DumpThrows, IInv, InTransfer
  <2>3. restBar' = <<>> /\ outcomeBar' = outcome' /\ transportBar' = transportBar
    BY <2>2 DEF restBar, outcomeBar, transportBar
  <2> QED  BY <2>1, <2>2, <2>3 DEF Delivery!NotSent, Delivery!End, Delivery!Running
<1>2. CASE Start
  BY <1>2, Invisible DEF Start, IInv, Ended, restBar, transportBar, outcomeBar
<1>3. CASE ReceiveChunk
  <2>1. PICK n \in 1 .. Len(wire) : /\ buffer' = buffer \o SubSeq(wire, 1, n)
                                    /\ wire' = SubSeq(wire, n + 1, Len(wire))
    BY <1>3 DEF ReceiveChunk
  <2>2. buffer' \o wire' = buffer \o wire
    BY <2>1, MoveChunk DEF IInv, TypeOK
  <2>3. /\ pc = "perform" /\ pc' = "callback"
        /\ UNCHANGED <<parser, calls, error, result, outcome>>
    BY <1>3 DEF ReceiveChunk, Arrival
  <2>4. restBar' = restBar /\ transportBar' = transportBar /\ outcomeBar' = outcomeBar
    BY <2>2, <2>3, StillOpen DEF IInv, InTransfer, Ended, restBar, transportBar, outcomeBar
  <2> QED  BY <2>3, <2>4, Invisible
<1>4. CASE PeerCloses
  <2>1. /\ restBar = buffer \o wire /\ transportBar = "open" /\ outcomeBar = "running"
        /\ error = "none" /\ outcome = "running"
    BY <1>4, StillOpen DEF PeerCloses, IInv, InTransfer, Ended
  <2>2. restBar' = restBar /\ transportBar' = "complete" /\ outcomeBar' = outcomeBar
    BY <1>4, <2>1 DEF PeerCloses, Performed, restBar, transportBar, outcomeBar
  <2> QED  BY <1>4, <2>1, <2>2 DEF PeerCloses, Delivery!Complete, Delivery!Running
<1>5. CASE ConnectionBreaks
  <2>1. /\ restBar = buffer \o wire /\ transportBar = "open" /\ outcomeBar = "running"
        /\ error = "none" /\ outcome = "running"
    BY <1>5, StillOpen DEF ConnectionBreaks, IInv, InTransfer, Ended
  <2>2. restBar' = buffer /\ transportBar' = "lost" /\ outcomeBar' = outcomeBar
    BY <1>5, <2>1 DEF ConnectionBreaks, Performed, restBar, transportBar, outcomeBar
  <2>3. restBar' = SubSeq(restBar, 1, Len(buffer)) /\ Len(buffer) \in 0 .. Len(restBar)
    BY <2>1, <2>2, ArrivedIsPrefix, CutText DEF IInv, TypeOK
  <2> QED  BY <1>5, <2>1, <2>2, <2>3 DEF ConnectionBreaks, Delivery!Lose, Delivery!Running
<1>6. CASE CallbackLine
  BY <1>6, CallbackLineMapped
<1>7. CASE CallbackReturns
  BY <1>7, Invisible DEF CallbackReturns, restBar, transportBar, outcomeBar
<1>8. CASE Rethrow
  BY <1>8, Invisible DEF Rethrow, restBar, transportBar, outcomeBar
<1>9. CASE NoTail
  <2>1. /\ restBar = <<>> /\ outcomeBar = "running" /\ outcome = "running"
    BY <1>9, TailIsLeft DEF NoTail, TailLeft, IInv, Ended
  <2>2. restBar' = <<>> /\ outcomeBar' = outcomeBar /\ transportBar' = transportBar
    BY <1>9, <2>1 DEF NoTail, restBar, transportBar, outcomeBar
  <2> QED  BY <1>9, <2>1, <2>2, Invisible DEF NoTail
<1>10. CASE TailLine
  BY <1>10, TailLineMapped
<1>11. CASE FinalFlush
  BY <1>11, FinalFlushMapped
<1>12. CASE UNCHANGED vars
  BY <1>12, Invisible DEF vars, restBar, transportBar, outcomeBar
<1>13. CASE Finished
  BY <1>12, <1>13 DEF Finished
<1> QED
  BY <1>1, <1>2, <1>3, <1>4, <1>5, <1>6, <1>7, <1>8, <1>9, <1>10, <1>11, <1>12, <1>13
  DEF Next, Client, Peer

\* However libcurl cuts the response, the handler sees what a caller that
\* interprets it line by line would see, and the call ends as that one does.
THEOREM Implements == Spec => ImplementsDelivery
<1>1. Init => Delivery!Init
  BY InitMapped
<1>2. IInv /\ [Next]_vars => [Delivery!Next]_(Delivery!vars)
  BY NextMapped
<1> QED  BY <1>1, <1>2, IInvHolds, PTL DEF Spec, ImplementsDelivery, Delivery!Spec
=============================================================================
