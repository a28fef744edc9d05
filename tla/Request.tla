-------------------------------- MODULE Request --------------------------------
(***************************************************************************)
(* The request() of FormationClient and ServerClient, and that of the      *)
(* unused Transport, called by several threads of one process: the         *)
(* idempotency key, the transfer, the version check every response passes  *)
(* through, and the mapping of errors to exceptions.                       *)
(***************************************************************************)
EXTENDS Integers

CONSTANTS
  Threads,
  Clients,   \* the classes in use: "formation", "server", "transport"
  Replies,   \* the responses a server may send
  MaxCalls   \* bound on the calls of a thread

Field == {"absent", "string", "other"}

\* A response: what its body is to json::parse, and the fields an error is read
\* from.
NoFields == [code |-> "absent", error |-> "absent", message |-> "absent"]
Bodies   == [form : {"empty", "text", "array"}, fields : {NoFields}]
              \cup [form : {"object"}, fields : [code : Field, error : Field, message : Field]]
Response == [status : 200 .. 599, body : Bodies]
NoReply  == [status |-> 0, body |-> [form |-> "empty", fields |-> NoFields]]

ASSUME RequestAssumption ==
  /\ Clients \subseteq {"formation", "server", "transport"}
  /\ Replies \subseteq Response
  /\ MaxCalls \in Nat

VARIABLES
  pc,        \* per thread: where its call is:
             \*   "seed", "advance"   in generate_uuid()
             \*   "prepare"           before curl_easy_perform
             \*   "perform"           in it, until CURLOPT_TIMEOUT
             \*   "stdin"             in it, blocked reading standard input
             \*   "check", "answer"   after it
             \*   "idle", "done"      no call, or over
  call,      \* per thread: the client, whether the method is POST, the payload
  seen,      \* per thread: the generator state it has read
  key,       \* per thread: the idempotency key it sends
  handle,    \* per thread: whether the call holds an easy handle
  res,       \* per thread: the CURLcode
  reply,     \* per thread: the response
  outcome,   \* per thread: what the call returned or threw
  gen,       \* per client: the state of the generator in its generate_uuid()
  checked,   \* the flag of version_check.cpp, shared by the clients
  badCache,  \* whether a check throws, on its cache file or its header
  calls,     \* history, per thread: the calls begun
  sent,      \* history: the <<thread, call, client, key>> of the requests sent
  raced,     \* history: two threads were in one generate_uuid() at once
  checkThrew \* history: the <<thread, call>> whose version check threw

local  == <<call, seen, key, handle, res, reply, outcome>>
shared == <<gen, checked, badCache>>
hist   == <<calls, sent, raced, checkThrew>>
vars   == <<pc, local, shared, hist>>

PCs   == {"idle", "seed", "advance", "prepare", "perform", "stdin", "check", "answer", "done"}
Calls == [client : Clients, post : BOOLEAN, payload : {"none", "text", "invalid"}]
NoCall == [client |-> "none", post |-> FALSE, payload |-> "none"]

\* The subclasses of MuxiException map_error() makes: for which statuses, and
\* with which code for an empty one.
Subclasses ==
  [AuthenticationException |-> [statuses |-> {401}, code |-> "UNAUTHORIZED"],
   AuthorizationException  |-> [statuses |-> {403}, code |-> "FORBIDDEN"],
   NotFoundException       |-> [statuses |-> {404}, code |-> "NOT_FOUND"],
   ConflictException       |-> [statuses |-> {409}, code |-> "CONFLICT"],
   ValidationException     |-> [statuses |-> {422}, code |-> "VALIDATION_ERROR"],
   RateLimitException      |-> [statuses |-> {429}, code |-> "RATE_LIMITED"],
   ServerException         |-> [statuses |-> 500 .. 504, code |-> "SERVER_ERROR"]]

\* A value, or the exception that reaches the caller: its class as a handler
\* sees it, the code and the status it carries.
Classes  == {"MuxiException", "ConnectionException", "json"} \cup DOMAIN Subclasses
Codes    == {"", "given", "CONNECTION_ERROR"}
              \cup {Subclasses[class].code : class \in DOMAIN Subclasses}
Outcomes == [class : {"none", "value"} \cup Classes, code : Codes,
             status : {0} \cup 200 .. 599]
Outcome(class, code) == [class |-> class, code |-> code, status |-> 0]
-----------------------------------------------------------------------------
(* errors.hpp.                                                             *)

ErrorClass(status) ==
  LET classes == {class \in DOMAIN Subclasses : status \in Subclasses[class].statuses}
  IN  IF classes = {} THEN "MuxiException" ELSE CHOOSE class \in classes : TRUE

\* The code a constructor fills in for an empty one.
DefaultCode(class) ==
  IF class \in DOMAIN Subclasses THEN Subclasses[class].code ELSE ""

\* A MuxiException returned by value keeps nothing of the class it was made as.
Sliced(e) == [e EXCEPT !.class = "MuxiException"]

\* Mutant of MapError: an empty code stays empty.
KeepCode(status, code) ==
  Sliced([class |-> ErrorClass(status), code |-> code, status |-> status])

\* No caller passes on the Retry-After header of a 429.
MapError(status, code) ==
  LET class == ErrorClass(status)
  IN  Sliced([class  |-> class,
              code   |-> IF code = "" \/ class = "RateLimitException"
                         THEN DefaultCode(class) ELSE code,
              status |-> status])

\* The code read from an error body: a missing one, one that is not a string
\* and a body that is not JSON all leave it empty.
CodeOf(client, body) ==
  LET field == IF body.fields.code = "absent" /\ client # "formation"
               THEN body.fields.error ELSE body.fields.code
  IN  IF body.form = "object" /\ field = "string" THEN "given" ELSE ""
-----------------------------------------------------------------------------
TypeOK ==
  /\ pc \in [Threads -> PCs]
  /\ call \in [Threads -> Calls \cup {NoCall}]
  /\ seen \in [Threads -> Nat] /\ key \in [Threads -> Nat]
  /\ handle \in [Threads -> BOOLEAN]
  /\ res \in [Threads -> {"none", "OK", "ERROR"}]
  /\ reply \in [Threads -> Response \cup {NoReply}]
  /\ outcome \in [Threads -> Outcomes]
  /\ gen \in [Clients -> Nat]
  /\ checked \in BOOLEAN /\ badCache \in BOOLEAN /\ raced \in BOOLEAN
  /\ calls \in [Threads -> 0 .. MaxCalls]
  /\ sent \subseteq Threads \X (1 .. MaxCalls) \X Clients \X Nat
  /\ checkThrew \subseteq Threads \X (1 .. MaxCalls)

Init ==
  /\ pc = [t \in Threads |-> "idle"]
  /\ call = [t \in Threads |-> NoCall]
  /\ seen = [t \in Threads |-> 0] /\ key = [t \in Threads |-> 0]
  /\ handle = [t \in Threads |-> FALSE]
  /\ res = [t \in Threads |-> "none"]
  /\ reply = [t \in Threads |-> NoReply]
  /\ outcome = [t \in Threads |-> Outcome("none", "")]
  /\ gen = [c \in Clients |-> 0]
  /\ checked = FALSE /\ badCache \in BOOLEAN
  /\ calls = [t \in Threads |-> 0]
  /\ sent = {} /\ raced = FALSE /\ checkThrew = {}
-----------------------------------------------------------------------------
Goto(t, p) == pc' = [pc EXCEPT ![t] = p]

\* The call is over with outcome o.
Finish(t, o) == Goto(t, "done") /\ outcome' = [outcome EXCEPT ![t] = o]

\* A thread makes its next call.  curl_easy_init() may fail.
Begin(t) ==
  /\ pc[t] \in {"idle", "done"}
  /\ calls[t] < MaxCalls
  /\ calls' = [calls EXCEPT ![t] = @ + 1]
  /\ \E c \in Calls : call' = [call EXCEPT ![t] = c]
  /\ res' = [res EXCEPT ![t] = "none"]
  /\ reply' = [reply EXCEPT ![t] = NoReply]
  /\ \/ /\ handle' = [handle EXCEPT ![t] = TRUE]
        /\ outcome' = [outcome EXCEPT ![t] = Outcome("none", "")]
        /\ Goto(t, IF call'[t].client = "transport" THEN "prepare" ELSE "seed")
     \/ /\ handle' = [handle EXCEPT ![t] = FALSE]
        /\ Finish(t, Outcome("ConnectionException", "CONNECTION_ERROR"))
  /\ UNCHANGED <<seen, key, shared, sent, raced, checkThrew>>

\* generate_uuid() draws from a generator that is static in each client's file
\* and that nothing protects: two threads may read the same state, and then draw
\* the same key.
ReadGenerator(t) ==
  /\ pc[t] = "seed"
  /\ seen' = [seen EXCEPT ![t] = gen[call[t].client]]
  /\ raced' = (raced \/ \E u \in Threads : /\ pc[u] = "advance"
                                          /\ call[u].client = call[t].client)
  /\ Goto(t, "advance")
  /\ UNCHANGED <<call, key, handle, res, reply, outcome, shared,
                 calls, sent, checkThrew>>

\* Mutant of AdvanceGenerator: the generator is made anew by every call.
Reseeded(t) ==
  /\ pc[t] = "advance"
  /\ key' = [key EXCEPT ![t] = seen[t] + 1]
  /\ Goto(t, "prepare")
  /\ UNCHANGED <<call, seen, handle, res, reply, outcome, shared, hist>>

AdvanceGenerator(t) ==
  /\ pc[t] = "advance"
  /\ gen' = [gen EXCEPT ![call[t].client] = seen[t] + 1]
  /\ key' = [key EXCEPT ![t] = seen[t] + 1]
  /\ Goto(t, "prepare")
  /\ UNCHANGED <<call, seen, handle, res, reply, outcome, checked, badCache, hist>>

\* dump() throws on a payload that is not UTF-8, and the handle is lost.
Prepare(t) ==
  /\ pc[t] = "prepare"
  /\ \/ call[t].payload = "invalid" /\ Finish(t, Outcome("json", ""))
     \/ call[t].payload # "invalid" /\ Goto(t, "perform") /\ UNCHANGED outcome
  /\ UNCHANGED <<call, seen, key, handle, res, reply, shared, hist>>
-----------------------------------------------------------------------------
(* The transfer.                                                           *)

Cleanup(t) == handle' = [handle EXCEPT ![t] = FALSE]

\* curl_easy_perform returns code with the reply r, and the handle goes.
Performed(t, code, r) ==
  /\ res' = [res EXCEPT ![t] = code]
  /\ reply' = [reply EXCEPT ![t] = r]
  /\ Cleanup(t)
  /\ IF call[t].client = "transport"
     THEN UNCHANGED sent /\ Goto(t, "answer")
     ELSE sent' = sent \cup {<<t, calls[t], call[t].client, key[t]>>} /\ Goto(t, "check")
  /\ UNCHANGED <<call, seen, key, outcome, shared, calls, raced, checkThrew>>

\* A POST for which no CURLOPT_POSTFIELDS was set takes its body from standard
\* input, with a read that CURLOPT_TIMEOUT does not interrupt.
FromStdin(t) == call[t].post /\ call[t].payload = "none"

ReadStdin(t) ==
  /\ pc[t] = "perform"
  /\ FromStdin(t)
  /\ Goto(t, "stdin")
  /\ UNCHANGED <<local, shared, hist>>

\* A server may answer before it has the body.
Replied(t) ==
  /\ pc[t] \in {"perform", "stdin"}
  /\ \E r \in Replies : Performed(t, "OK", r)

\* Refused, timed out, or broken, perhaps after the head of the response.
Broken(t) == \E r \in Replies \cup {NoReply} : Performed(t, "ERROR", r)

\* Mutant of Fails: CURLOPT_TIMEOUT is not set.
NoTimeout(t) == FALSE

Fails(t)      == pc[t] = "perform" /\ Broken(t)
StdinFails(t) == pc[t] = "stdin" /\ Broken(t)
-----------------------------------------------------------------------------
(* The response.                                                           *)

\* Mutant of CheckMayThrow: every response is checked.
EveryCheckMayThrow(t) == badCache /\ reply[t] # NoReply

\* The first check of the process loads the version cache (see VersionCheck).
CheckMayThrow(t) == ~checked /\ badCache /\ reply[t] # NoReply

\* check_for_updates() comes before the result of the transfer is looked at.
Check(t) ==
  /\ pc[t] = "check"
  /\ checked' = TRUE
  /\ \/ /\ Goto(t, "answer")
        /\ UNCHANGED <<outcome, checkThrew>>
     \/ /\ CheckMayThrow(t)
        /\ Finish(t, Outcome("json", ""))
        /\ checkThrew' = checkThrew \cup {<<t, calls[t]>>}
  /\ UNCHANGED <<call, seen, key, handle, res, reply, gen, badCache,
                 calls, sent, raced>>

\* Mutant of Returned: an empty body is parsed.
ParseEmpty(body) ==
  IF body.form \in {"text", "empty"} THEN Outcome("json", "") ELSE Outcome("value", "")

\* What a success returns: an empty body is not parsed, another one may throw.
Returned(body) ==
  IF body.form = "text" THEN Outcome("json", "") ELSE Outcome("value", "")

Answer(t) ==
  /\ pc[t] = "answer"
  /\ LET r == reply[t]
     IN  \/ /\ res[t] = "ERROR"
            /\ Finish(t, Outcome("ConnectionException", "CONNECTION_ERROR"))
         \/ /\ res[t] = "OK" /\ r.status >= 400
            /\ Finish(t, MapError(r.status, CodeOf(call[t].client, r.body)))
         \/ /\ res[t] = "OK" /\ r.status < 400
            /\ Finish(t, Returned(r.body))
  /\ UNCHANGED <<call, seen, key, handle, res, reply, shared, hist>>
-----------------------------------------------------------------------------
Thread(t) == \/ ReadGenerator(t) \/ AdvanceGenerator(t) \/ Prepare(t)
             \/ ReadStdin(t) \/ Check(t) \/ Answer(t)

Next ==
  \/ \E t \in Threads : \/ Begin(t) \/ Thread(t)
                      \/ Replied(t) \/ Fails(t) \/ StdinFails(t)
  \/ /\ \A t \in Threads : pc[t] = "done" /\ calls[t] = MaxCalls
     /\ UNCHANGED vars

Spec == Init /\ [][Next]_vars

\* Threads run, and the timeout ends a transfer that nothing else ends.
FairSpec == Spec /\ \A t \in Threads : WF_vars(Thread(t)) /\ WF_vars(Fails(t))
-----------------------------------------------------------------------------
(* Properties.                                                             *)

Over(t)  == pc[t] = "done"
Threw(t) == <<t, calls[t]>> \in checkThrew

\* No two requests of a client library carry the same idempotency key, unless
\* two threads drew theirs at the same time (generate_uuid).
DistinctKeys ==
  ~raced => \A a, b \in sent : a[3] = b[3] /\ a[4] = b[4] => a = b

\* A bad version cache costs a process one request, whatever threads and calls
\* it makes.
OneFailedCheck == \A a, b \in checkThrew : a = b

\* What a call ends with tells what happened to it: a value means an HTTP
\* success, a ConnectionException no answer, and any other HTTP answer is an
\* exception with its status and, for the statuses that have a class, a code,
\* however odd the body.
OutcomeIsTrue ==
  \A t \in Threads : Over(t) /\ ~Threw(t) =>
    /\ outcome[t].class = "value" => res[t] = "OK" /\ reply[t].status < 400
    /\ res[t] = "ERROR" => outcome[t].class = "ConnectionException"
    /\ res[t] = "OK" /\ reply[t].status >= 400 =>
         /\ outcome[t].status = reply[t].status
         /\ ErrorClass(reply[t].status) # "MuxiException" => outcome[t].code # ""

\* An exception that is no MuxiException has one of three causes: a payload
\* dump() refuses, a bad version cache, a success whose body is not JSON.
ForeignExceptions ==
  \A t \in Threads : Over(t) /\ outcome[t].class = "json" =>
    \/ call[t].payload = "invalid"
    \/ Threw(t)
    \/ res[t] = "OK" /\ reply[t].status < 400 /\ reply[t].body.form = "text"

\* The easy handle is released unless dump() threw.
HandleReleased ==
  \A t \in Threads : Over(t) => handle[t] = (outcome[t].class = "json" /\ res[t] = "none")

\* Every call that has a payload, or is no POST, comes to an end.
CallsEnd == \A t \in Threads : pc[t] \notin {"idle", "stdin"} /\ ~FromStdin(t) ~> Over(t)

\* README.md:126 catches a NotFoundException, and USER_GUIDE.md:84 its siblings.
TypedErrors ==
  \A t \in Threads : Over(t) /\ ~Threw(t) /\ res[t] = "OK" /\ reply[t].status >= 400 =>
    outcome[t].class = ErrorClass(reply[t].status)
=============================================================================
