------------------------ MODULE FormationStreamProps ------------------------
(***************************************************************************)
(* The properties of a FormationClient streaming call.                     *)
(***************************************************************************)
EXTENDS FormationStream, SseReference

body     == response.body
received == SubSeq(body, 1, Len(body) - Len(wire))

Finishes == pc = "done" /\ outcome \notin {"handler", "body"}

-----------------------------------------------------------------------------
\* Whenever libcurl waits for the peer, the handler has been called with
\* exactly the events of the frames complete in the bytes received so far: no
\* event is held back, repeated, reordered or changed by the way the bytes were
\* cut into chunks (sse_write_callback, the loop over ctx->buffer).
NothingHeldBack ==
  pc = "perform" => /\ calls = CompleteEvents(received)
                    /\ ~HasError(calls)

\* A call that ends without a handler exception has delivered all that arrived
\* before the first error frame, an unfinished last frame included, and ends
\* with the frame's error when there is one (stream_sse, after
\* curl_easy_perform).
AllDeliveredAtEnd ==
  Finishes /\ result # "none" =>
    LET events == AllEvents(received)
    IN  /\ outcome # "stream" => calls = events /\ ~HasError(events)
        /\ outcome = "stream" => calls = BeforeError(events) /\ HasError(events)

\* A call that failed never looks like a normal end of the stream.  The
\* exception kept by the callback reaches the caller: the CURLE_WRITE_ERROR it
\* causes does not replace it.  A broken connection is reported, unless an
\* exception raised by what did arrive takes its place.
FailuresReported ==
  pc = "done" => /\ error # "none" => outcome = error
                 /\ result = "RECV_ERROR" => outcome # "returned"

\* When a connection breaks inside a frame, all but the last event delivered
\* are events of the whole body: only the last can be a truncated one.
OnlyLastEventTruncated ==
  calls # <<>> => IsPrefix(Front(calls), AllEvents(body))

\* The easy handle is released on every way out of the call but one: a payload
\* that body.dump() refuses leaks it (and the header list).
HandleReleased ==
  pc = "done" => (handle = "open" <=> outcome = "body")

\* Once an exception is kept, or the call is over, the handler is not called.
SilentAfterError ==
  [][(error # "none" \/ pc = "done") => UNCHANGED calls]_vars

\* A frame the peer has sent in full reaches the handler while the peer keeps
\* the connection open, unless the call ends.
FramesDelivered ==
  \A i \in 1 .. 3 :
    (pc = "perform" /\ Len(CompleteEvents(body)) >= i)
      ~> (Len(calls) >= i \/ pc = "done")

\* README.md:7 promises "typed errors", and USER_GUIDE.md:84 an exception for a
\* 401: a rejected streaming call does not return normally.
RejectionThrows == pc = "done" /\ result = "OK" /\ response.status >= 400
                     => outcome # "returned"
-----------------------------------------------------------------------------
(* The refinement mapping to SseDelivery.                                  *)

\* What is left to interpret: the buffer and what can still arrive.
restBar ==
  IF outcome # "running" \/ error # "none" \/ pc = "flush" THEN <<>>
  ELSE IF result = "RECV_ERROR" THEN buffer
  ELSE buffer \o wire

transportBar ==
  CASE result = "OK"         -> "complete"
    [] result = "RECV_ERROR" -> "lost"
    [] OTHER                 -> "open"

\* An exception kept by the callback has already decided the outcome.
outcomeBar == IF error # "none" THEN error ELSE outcome

Delivery == INSTANCE SseDelivery WITH
              Bodies    <- {r.body : r \in Responses},
              rest      <- restBar,
              transport <- transportBar,
              outcome   <- outcomeBar

\* Chunking, buffering and the callback protocol of libcurl are invisible: the
\* call behaves as one that interprets the response line by line.
ImplementsDelivery == Delivery!Spec
=============================================================================
