----------------------------- MODULE SseDelivery -----------------------------
(***************************************************************************)
(* What FormationClient's streaming calls promise their caller, with no    *)
(* mention of how libcurl slices the response into write callbacks: the    *)
(* handler sees the events of the response in order, each once; the first  *)
(* error frame or handler exception ends the call; a response that ends    *)
(* without a final blank line still yields its last frame; and a broken    *)
(* connection is reported after what arrived was delivered.                *)
(*                                                                         *)
(* FormationStream implements this specification.                          *)
(***************************************************************************)
EXTENDS SseParser

CONSTANT Bodies  \* the response bodies a peer may send

VARIABLES
  rest,       \* the part of the body not yet interpreted
  parser,     \* what has been seen of the current frame
  calls,      \* the events the handler was called with
  transport,  \* "open", "complete" or "lost"
  outcome     \* "running", or how the call ended

vars == <<rest, parser, calls, transport, outcome>>

Outcomes == {"running", "returned", "handler", "stream", "connection", "body"}

Init ==
  /\ rest \in Bodies
  /\ parser = NewParser
  /\ calls = <<>>
  /\ transport = "open"
  /\ outcome = "running"

Running == outcome = "running"

\* The call ends, discarding what it has not interpreted.
End(o) == outcome' = o /\ rest' = <<>>

\* Act on a parser result r: nothing, an event for the handler, or a throw.
\* Without an exception the call goes on with `left` to interpret and has the
\* outcome o.
Dispatch(r, left, o) ==
  /\ parser' = r.parser
  /\ \/ /\ r.kind = "none"
        /\ UNCHANGED calls
        /\ outcome' = o
        /\ rest' = left
     \/ /\ r.kind = "event"
        /\ calls' = Append(calls, r.event)
        /\ \/ outcome' = o /\ rest' = left
           \/ End("handler")
     \/ /\ r.kind = "throw"
        /\ UNCHANGED calls
        /\ End("stream")

Line ==
  /\ Running
  /\ \E n \in 1 .. Len(rest) :
       /\ FindsAt(LF, rest, n)
       /\ Dispatch(ProcessLine(parser, StripCR(SubSeq(rest, 1, n - 1))),
                   SubSeq(rest, n + 1, Len(rest)), "running")
  /\ UNCHANGED transport

\* The response ends, whole or after some prefix of it.
Complete ==
  /\ Running
  /\ transport = "open"
  /\ transport' = "complete"
  /\ UNCHANGED <<rest, parser, calls, outcome>>

Lose ==
  /\ Running
  /\ transport = "open"
  /\ \E n \in 0 .. Len(rest) : rest' = SubSeq(rest, 1, n)
  /\ transport' = "lost"
  /\ UNCHANGED <<parser, calls, outcome>>

\* Once the response has ended, an unterminated last line counts as a line ...
LastLine ==
  /\ Running
  /\ transport # "open"
  /\ rest # <<>>
  /\ ~Has(LF, rest)
  /\ Dispatch(ProcessLine(parser, StripCR(rest)), <<>>, "running")
  /\ UNCHANGED transport

\* ... and an unfinished last frame as a frame.
LastFrame ==
  /\ Running
  /\ transport # "open"
  /\ rest = <<>>
  /\ Dispatch(Flush(parser), <<>>,
              IF transport = "lost" THEN "connection" ELSE "returned")
  /\ UNCHANGED transport

\* The request is never sent: no event is delivered.
NotSent ==
  /\ Running
  /\ transport = "open"
  /\ parser = NewParser
  /\ calls = <<>>
  /\ \E o \in {"returned", "body"} : End(o)
  /\ UNCHANGED <<parser, calls, transport>>

Next == Line \/ Complete \/ Lose \/ LastLine \/ LastFrame \/ NotSent

Spec == Init /\ [][Next]_vars
=============================================================================
