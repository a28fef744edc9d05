--------------------------- MODULE FormationStream ---------------------------
(***************************************************************************)
(* One streaming call of FormationClient (chat_stream, audio_chat_stream,  *)
(* stream_events, stream_logs): Impl::stream_sse and the write callback    *)
(* libcurl runs for every chunk of the response.                           *)
(***************************************************************************)
EXTENDS SseParser

CONSTANT Responses  \* the responses a peer may send: [status, body] records

ASSUME ResponsesAssumption == Responses \subseteq [status : Nat, body : Text]

VARIABLES
  pc,        \* where the call is:
             \*   "init"      before curl_easy_perform
             \*   "perform"   in libcurl, waiting for the peer
             \*   "callback"  in the loop of sse_write_callback
             \*   "performed" curl_easy_perform has returned
             \*   "flush"     after the unterminated last line
             \*   "done"      returned or thrown
  response,  \* the response the peer sends
  wire,      \* the part of its body not yet handed to the callback
  handle,    \* the curl easy handle: "none" or "open"
  buffer,    \* StreamContext::buffer
  parser,    \* StreamContext::parser
  error,     \* StreamContext::error: "none", or whose exception it holds
  result,    \* the CURLcode of curl_easy_perform, "none" before it returns
  calls,     \* history: the events the handler was called with
  outcome    \* how the call ended: "returned", or the exception it threw

vars == <<pc, response, wire, handle, buffer, parser, error, result, calls, outcome>>

PCs      == {"init", "perform", "callback", "performed", "flush", "done"}
Errors   == {"none", "handler", "stream"}
Results  == {"none", "OK", "WRITE_ERROR", "RECV_ERROR"}
Outcomes == {"running", "returned", "handler", "stream", "connection", "body"}

TypeOK ==
  /\ pc \in PCs
  /\ response \in [status : Nat, body : Text]
  /\ wire \in Text
  /\ handle \in {"none", "open"}
  /\ buffer \in Text
  /\ parser \in Parser
  /\ error \in Errors
  /\ result \in Results
  /\ calls \in Seq(Event)
  /\ outcome \in Outcomes

Init ==
  /\ pc = "init"
  /\ response \in Responses
  /\ wire = response.body
  /\ handle = "none"
  /\ buffer = <<>>
  /\ parser = NewParser
  /\ error = "none"
  /\ result = "none"
  /\ calls = <<>>
  /\ outcome = "running"
-----------------------------------------------------------------------------
(* Before the transfer.                                                    *)

\* curl_easy_init() fails: the call returns without a word.
InitFails ==
  /\ pc = "init"
  /\ pc' = "done"
  /\ outcome' = "returned"
  /\ UNCHANGED <<response, wire, handle, buffer, parser, error, result, calls>>

\* body.dump() throws on a string that is not UTF-8, past the handle.
DumpThrows ==
  /\ pc = "init"
  /\ pc' = "done"
  /\ handle' = "open"
  /\ outcome' = "body"
  /\ UNCHANGED <<response, wire, buffer, parser, error, result, calls>>

Start ==
  /\ pc = "init"
  /\ pc' = "perform"
  /\ handle' = "open"
  /\ UNCHANGED <<response, wire, buffer, parser, error, result, calls, outcome>>
-----------------------------------------------------------------------------
(* libcurl and the peer.                                                   *)

\* Mutant of Arrival: the callback only collects, as ServerClient's does.
Collected == "perform"

Arrival == "callback"

\* libcurl hands the next bytes, as many as it likes, to the callback.
ReceiveChunk ==
  /\ pc = "perform"
  /\ \E n \in 1 .. Len(wire) :
       /\ buffer' = buffer \o SubSeq(wire, 1, n)
       /\ wire' = SubSeq(wire, n + 1, Len(wire))
  /\ pc' = Arrival
  /\ UNCHANGED <<response, handle, parser, error, result, calls, outcome>>

\* Mutant of Performed: the cleanup is skipped for an aborted transfer.
PerformedLeaks(code) ==
  /\ pc' = "performed"
  /\ result' = code
  /\ handle' = IF code = "WRITE_ERROR" THEN handle ELSE "none"

\* curl_easy_perform returns code and the handle is cleaned up.
Performed(code) ==
  /\ pc' = "performed"
  /\ result' = code
  /\ handle' = "none"

PeerCloses ==
  /\ pc = "perform"
  /\ wire = <<>>
  /\ Performed("OK")
  /\ UNCHANGED <<response, wire, buffer, parser, error, calls, outcome>>

\* The connection is refused, or breaks after any number of bytes.
ConnectionBreaks ==
  /\ pc = "perform"
  /\ Performed("RECV_ERROR")
  /\ UNCHANGED <<response, wire, buffer, parser, error, calls, outcome>>
-----------------------------------------------------------------------------
(* sse_write_callback.                                                     *)

\* Mutant of Abort: the CURLcode is kept for the exception.
AbortWithCode(e) == error' = "WRITE_ERROR" /\ Performed("WRITE_ERROR")

\* An exception leaves the loop: it is kept in ctx->error, the callback
\* returns 0 and libcurl abandons the transfer.
Abort(e) == error' = e /\ Performed("WRITE_ERROR")

\* One iteration of the loop: the line leaves the buffer before it is parsed.
CallbackLine ==
  /\ pc = "callback"
  /\ \E n \in 1 .. Len(buffer) :
       /\ FindsAt(LF, buffer, n)
       /\ buffer' = SubSeq(buffer, n + 1, Len(buffer))
       /\ LET r == ProcessLine(parser, StripCR(SubSeq(buffer, 1, n - 1)))
          IN  /\ parser' = r.parser
              /\ \/ /\ r.kind = "none"
                    /\ UNCHANGED <<pc, handle, error, result, calls>>
                 \/ /\ r.kind = "event"
                    /\ calls' = Append(calls, r.event)
                    /\ \/ UNCHANGED <<pc, handle, error, result>>
                       \/ Abort("handler")
                 \/ /\ r.kind = "throw"
                    /\ UNCHANGED calls
                    /\ Abort("stream")
  /\ UNCHANGED <<response, wire, outcome>>

NoLineLeft == ~Has(LF, buffer)

\* No line is complete: the callback returns what it was given.
CallbackReturns ==
  /\ pc = "callback"
  /\ NoLineLeft
  /\ pc' = "perform"
  /\ UNCHANGED <<response, wire, handle, buffer, parser, error, result, calls, outcome>>
-----------------------------------------------------------------------------
(* After the transfer.                                                     *)

Rethrow ==
  /\ pc = "performed"
  /\ error # "none"
  /\ pc' = "done"
  /\ outcome' = error
  /\ UNCHANGED <<response, wire, handle, buffer, parser, error, result, calls>>

\* Act on a parser result outside the callback, where an exception reaches the
\* caller directly.  Without one the call goes on at p with outcome o.
Dispatch(r, p, o) ==
  /\ parser' = r.parser
  /\ \/ /\ r.kind = "none"
        /\ UNCHANGED calls
        /\ pc' = p /\ outcome' = o
     \/ /\ r.kind = "event"
        /\ calls' = Append(calls, r.event)
        /\ \/ pc' = p /\ outcome' = o
           \/ pc' = "done" /\ outcome' = "handler"
     \/ /\ r.kind = "throw"
        /\ UNCHANGED calls
        /\ pc' = "done" /\ outcome' = "stream"

\* Mutants of TailLeft: the kept exception does not matter; only a tail with a
\* line feed counts.
TailAfterError == buffer # <<>>
LineLeft       == error = "none" /\ Has(LF, buffer)

TailLeft == error = "none" /\ buffer # <<>>

NoTail ==
  /\ pc = "performed"
  /\ error = "none"
  /\ ~TailLeft
  /\ pc' = "flush"
  /\ UNCHANGED <<response, wire, handle, buffer, parser, error, result, calls, outcome>>

\* Mutant of TailText: the carriage return stays.
TailWithCR == buffer

TailText == StripCR(buffer)

TailLine ==
  /\ pc = "performed"
  /\ TailLeft
  /\ buffer' = TailText
  /\ Dispatch(ProcessLine(parser, TailText), "flush", "running")
  /\ UNCHANGED <<response, wire, handle, error, result>>

\* Mutant of Ending: the CURLcode is ignored, as ServerClient ignores it.
EndingAnyway == "returned"

Ending == IF result = "OK" THEN "returned" ELSE "connection"

FinalFlush ==
  /\ pc = "flush"
  /\ Dispatch(Flush(parser), "done", Ending)
  /\ UNCHANGED <<response, wire, handle, buffer, error, result>>
-----------------------------------------------------------------------------
Client ==
  \/ InitFails \/ DumpThrows \/ Start
  \/ CallbackLine \/ CallbackReturns
  \/ Rethrow \/ NoTail \/ TailLine \/ FinalFlush

Peer == ReceiveChunk \/ PeerCloses \/ ConnectionBreaks

Finished == pc = "done" /\ UNCHANGED vars

Next == Client \/ Peer \/ Finished

Spec == Init /\ [][Next]_vars

\* The calling thread runs, and what the peer sent arrives unless the
\* connection breaks.  CURLOPT_TIMEOUT is 0 on a stream, so nothing makes the
\* peer close.
FairSpec == Spec /\ WF_vars(Client) /\ WF_vars(ReceiveChunk)
=============================================================================
