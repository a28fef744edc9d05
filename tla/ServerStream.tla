----------------------------- MODULE ServerStream -----------------------------
(***************************************************************************)
(* One streaming call of ServerClient (deploy_formation_stream,            *)
(* stream_formation_logs).  Unlike FormationStream it collects the whole   *)
(* response, and parses it when curl_easy_perform has returned, with a     *)
(* parser of its own.  Transport::stream_sse, which nothing calls, is the  *)
(* same code but for what it does when curl_easy_init or the transfer      *)
(* fails.                                                                  *)
(***************************************************************************)
EXTENDS SseParser

CONSTANTS
  Responses,  \* the responses a peer may send: [status, body] records
  Clients     \* the classes streaming: "server", "transport"

ASSUME ServerStreamAssumption ==
  /\ Responses \subseteq [status : Nat, body : Text]
  /\ Clients \subseteq {"server", "transport"}

VARIABLES
  client,         \* the class whose stream_sse this is
  pc,             \* "init", "perform", "parse" or "done"
  response,       \* the response the peer sends
  wire,           \* the part of its body not yet received
  handle,         \* the curl easy handle: "none" or "open"
  response_body,  \* what was received; while parsing, what the istringstream
                  \* has left of it
  parser,         \* current_event and data_parts
  result,         \* the CURLcode of curl_easy_perform, "none" before it returns
  calls,          \* history: the events the handler was called with
  outcome         \* how the call ended: "returned", or the exception it threw

vars == <<client, pc, response, wire, handle, response_body, parser, result, calls, outcome>>

TypeOK ==
  /\ client \in Clients
  /\ pc \in {"init", "perform", "parse", "done"}
  /\ response \in [status : Nat, body : Text]
  /\ wire \in Text
  /\ handle \in {"none", "open"}
  /\ response_body \in Text
  /\ parser \in Parser
  /\ result \in {"none", "OK", "RECV_ERROR"}
  /\ calls \in Seq(Event)
  /\ outcome \in {"running", "returned", "handler", "connection", "body"}

Init ==
  /\ client \in Clients
  /\ pc = "init"
  /\ response \in Responses
  /\ wire = response.body
  /\ handle = "none"
  /\ response_body = <<>>
  /\ parser = NewParser
  /\ result = "none"
  /\ calls = <<>>
  /\ outcome = "running"
-----------------------------------------------------------------------------
(* The transfer.                                                           *)

InitFails ==
  /\ pc = "init"
  /\ pc' = "done"
  /\ outcome' = IF client = "server" THEN "returned" ELSE "connection"
  /\ UNCHANGED <<client, response, wire, handle, response_body, parser, result, calls>>

\* body.dump() throws on a string that is not UTF-8, past the handle.
DumpThrows ==
  /\ pc = "init"
  /\ pc' = "done"
  /\ handle' = "open"
  /\ outcome' = "body"
  /\ UNCHANGED <<client, response, wire, response_body, parser, result, calls>>

Start ==
  /\ pc = "init"
  /\ pc' = "perform"
  /\ handle' = "open"
  /\ UNCHANGED <<client, response, wire, response_body, parser, result, calls, outcome>>

\* write_callback appends the chunk.
ReceiveChunk ==
  /\ pc = "perform"
  /\ \E n \in 1 .. Len(wire) :
       /\ response_body' = response_body \o SubSeq(wire, 1, n)
       /\ wire' = SubSeq(wire, n + 1, Len(wire))
  /\ UNCHANGED <<client, pc, response, handle, parser, result, calls, outcome>>

Cleanup == handle' = "none"

\* Mutant of Parses: a failure is parsed by Transport too.
ParsesAll(code) == TRUE

\* ServerClient parses whatever the CURLcode; Transport gives up on an error.
Parses(code) == client = "server" \/ code = "OK"

Performed(code) ==
  /\ result' = code
  /\ Cleanup
  /\ IF Parses(code) THEN pc' = "parse" /\ UNCHANGED outcome
                     ELSE pc' = "done" /\ outcome' = "returned"
  /\ UNCHANGED <<client, response, wire, response_body, parser, calls>>

PeerCloses       == pc = "perform" /\ wire = <<>> /\ Performed("OK")
ConnectionBreaks == pc = "perform" /\ Performed("RECV_ERROR")
-----------------------------------------------------------------------------
(* The parser loop.                                                        *)

\* The first line of s and what follows it: std::getline takes the rest of the
\* stream when no line feed is left.
Getline(s) ==
  IF Has(LF, s)
  THEN LET n == CHOOSE i \in 1 .. Len(s) : FindsAt(LF, s, i)
       IN  [line |-> SubSeq(s, 1, n - 1), left |-> SubSeq(s, n + 1, Len(s))]
  ELSE [line |-> s, left |-> <<>>]

\* Every leading space goes.
StripSpaces(s) ==
  SubSeq(s, SelectInSeq(Append(s, LF), LAMBDA c : c # SPACE), Len(s))

StartsWith(line, name) == IsPrefix(<<name, COLON>>, line)
FieldText(line)        == StripSpaces(SubSeq(line, 3, Len(line)))

\* Mutants of BlankLine: the event name outlives its frame; an event without a
\* name stays without one.
BlankLineKeepsName(p) ==
  [parser |-> [p EXCEPT !.data = <<>>],
   kind   |-> IF p.data = <<>> THEN "none" ELSE "event",
   event  |-> FrameEvent(p)]

BlankLineUnnamed(p) ==
  [parser |-> NewParser,
   kind   |-> IF p.data = <<>> THEN "none" ELSE "event",
   event  |-> [event |-> p.event, data |-> Join(p.data)]]

\* A frame without a data line is dropped.
BlankLine(p) ==
  [parser |-> NewParser,
   kind   |-> IF p.data = <<>> THEN "none" ELSE "event",
   event  |-> FrameEvent(p)]

LineResult(p, line) ==
  CASE line = <<>>                -> BlankLine(p)
    [] StartsWith(line, "event")  -> Nothing([p EXCEPT !.event = FieldText(line)])
    [] StartsWith(line, "data")   -> Nothing([p EXCEPT !.data = Append(@, FieldText(line))])
    [] OTHER                      -> Nothing(p)

ParseLine ==
  /\ pc = "parse"
  /\ response_body # <<>>
  /\ response_body' = Getline(response_body).left
  /\ LET r == LineResult(parser, StripCR(Getline(response_body).line))
     IN  /\ parser' = r.parser
         /\ \/ /\ r.kind = "none"
               /\ UNCHANGED <<pc, calls, outcome>>
            \/ /\ r.kind = "event"
               /\ calls' = Append(calls, r.event)
               /\ \/ UNCHANGED <<pc, outcome>>
                  \/ pc' = "done" /\ outcome' = "handler"
  /\ UNCHANGED <<client, response, wire, handle, result>>

\* Mutant of EndOfText: an unfinished frame is delivered.
EndOfTextFlushes ==
  /\ pc = "parse"
  /\ response_body = <<>>
  /\ pc' = "done"
  /\ outcome' = "returned"
  /\ calls' = IF parser.data = <<>> THEN calls ELSE Append(calls, BlankLine(parser).event)
  /\ UNCHANGED <<client, response, wire, handle, response_body, parser, result>>

\* What parser holds is dropped with it.
EndOfText ==
  /\ pc = "parse"
  /\ response_body = <<>>
  /\ pc' = "done"
  /\ outcome' = "returned"
  /\ UNCHANGED <<client, response, wire, handle, response_body, parser, result, calls>>
-----------------------------------------------------------------------------
Client == InitFails \/ DumpThrows \/ Start \/ ParseLine \/ EndOfText

Peer == ReceiveChunk \/ PeerCloses \/ ConnectionBreaks

Finished == pc = "done" /\ UNCHANGED vars

Next == Client \/ Peer \/ Finished

Spec == Init /\ [][Next]_vars

\* As for FormationStream: the thread runs, what was sent arrives, and nothing
\* makes the peer close a stream (CURLOPT_TIMEOUT is 0).
FairSpec == Spec /\ WF_vars(Client) /\ WF_vars(ReceiveChunk)
=============================================================================
