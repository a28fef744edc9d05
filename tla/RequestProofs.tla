---------------------------- MODULE RequestProofs ----------------------------
(***************************************************************************)
(* Proofs about request(), for any threads, responses and number of calls. *)
(***************************************************************************)
EXTENDS Request, TLAPS

\* A thread that is past "idle" is in a call it has counted.
Begun == \A t \in Threads : pc[t] # "idle" => call[t] \in Calls /\ calls[t] >= 1

\* A transfer that went well has brought a response.
Received == \A t \in Threads : res[t] = "OK" => reply[t] \in Response

Types == TypeOK /\ Begun /\ Received
-----------------------------------------------------------------------------
(* The keys.                                                               *)

\* A key is drawn and not sent yet.
Holding(t) == pc[t] \in {"prepare", "perform", "stdin"} /\ call[t].client # "transport"

\* While nothing has raced, one thread at most is inside a generate_uuid(), and
\* the state it has read is the generator's.
OneDraws ==
  \A t \in Threads : pc[t] = "advance" =>
    /\ seen[t] = gen[call[t].client]
    /\ \A u \in Threads : pc[u] = "advance" /\ call[u].client = call[t].client => u = t

\* The generator is ahead of every key that was sent or will be, and no key to
\* be sent is that of another call.
KeysBehind ==
  /\ \A a \in sent : a[4] <= gen[a[3]]
  /\ \A t \in Threads : Holding(t) =>
       /\ key[t] <= gen[call[t].client]
       /\ \A a \in sent : a[3] = call[t].client => a[4] # key[t]
       /\ \A u \in Threads : Holding(u) /\ call[u].client = call[t].client /\ key[u] = key[t]
                               => u = t

Keys == ~raced => OneDraws /\ KeysBehind /\ DistinctKeys
-----------------------------------------------------------------------------
(* The check and the answer.                                               *)

\* The check that threw has taken the flag.
Checks == OneFailedCheck /\ (checkThrew # {} => checked)

\* What a call knows of its transfer before and after it.
Underway(t) ==
  /\ pc[t] \in {"seed", "advance", "prepare", "perform", "stdin"} => res[t] = "none" /\ handle[t]
  /\ pc[t] \in {"check", "answer"} => res[t] \in {"OK", "ERROR"} /\ ~handle[t]

Truthful(t) ==
  ~Threw(t) =>
    /\ outcome[t].class = "value" => res[t] = "OK" /\ reply[t].status < 400
    /\ res[t] = "ERROR" => outcome[t].class = "ConnectionException"
    /\ res[t] = "OK" /\ reply[t].status >= 400 =>
         /\ outcome[t].status = reply[t].status
         /\ ErrorClass(reply[t].status) # "MuxiException" => outcome[t].code # ""

Explained(t) ==
  outcome[t].class = "json" =>
    \/ call[t].payload = "invalid"
    \/ Threw(t)
    \/ res[t] = "OK" /\ reply[t].status < 400 /\ reply[t].body.form = "text"

Released(t) == handle[t] <=> (outcome[t].class = "json" /\ res[t] = "none")

Told(t) == Underway(t) /\ (Over(t) => Truthful(t) /\ Explained(t) /\ Released(t))

\* What every call ends with, thread by thread: OutcomeIsTrue, ForeignExceptions
\* and HandleReleased.
AllTold == \A t \in Threads : Told(t)

IInv == Types /\ Keys /\ Checks /\ AllTold
-----------------------------------------------------------------------------
(* Types.                                                                  *)

LEMMA SubclassCodes ==
  \A class \in DOMAIN Subclasses : Subclasses[class].code \in Codes \ {""}
<1>1. DOMAIN Subclasses =
        {"AuthenticationException", "AuthorizationException", "NotFoundException",
         "ConflictException", "ValidationException", "RateLimitException", "ServerException"}
  BY DEF Subclasses
<1>2. /\ Subclasses["AuthenticationException"].code = "UNAUTHORIZED"
      /\ Subclasses["AuthorizationException"].code = "FORBIDDEN"
      /\ Subclasses["NotFoundException"].code = "NOT_FOUND"
      /\ Subclasses["ConflictException"].code = "CONFLICT"
      /\ Subclasses["ValidationException"].code = "VALIDATION_ERROR"
      /\ Subclasses["RateLimitException"].code = "RATE_LIMITED"
      /\ Subclasses["ServerException"].code = "SERVER_ERROR"
  BY DEF Subclasses
<1> QED  BY <1>1, <1>2 DEF Codes

LEMMA ErrorClassType ==
  ASSUME NEW status
  PROVE  ErrorClass(status) \in {"MuxiException"} \cup DOMAIN Subclasses
BY DEF ErrorClass

LEMMA SlicedClass ==
  ASSUME NEW class, NEW code, NEW status
  PROVE  Sliced([class |-> class, code |-> code, status |-> status])
           = [class |-> "MuxiException", code |-> code, status |-> status]
BY DEF Sliced

LEMMA MapErrorType ==
  ASSUME NEW status \in 200 .. 599, NEW code \in {"", "given"}
  PROVE  /\ MapError(status, code) \in Outcomes
         /\ MapError(status, code).class = "MuxiException"
         /\ MapError(status, code).status = status
         /\ ErrorClass(status) # "MuxiException" => MapError(status, code).code # ""
<1> DEFINE class == ErrorClass(status)
<1>1. class \in {"MuxiException"} \cup DOMAIN Subclasses
  BY ErrorClassType
<1>2. /\ DefaultCode(class) \in Codes
      /\ class # "MuxiException" => DefaultCode(class) # ""
      /\ class = "RateLimitException" => DefaultCode(class) # ""
  BY <1>1, SubclassCodes DEF DefaultCode, Codes
<1> DEFINE filled == IF code = "" \/ class = "RateLimitException"
                     THEN DefaultCode(class) ELSE code
<1>3. MapError(status, code) = Sliced([class |-> class, code |-> filled, status |-> status])
  BY Zenon DEF MapError
<1> HIDE DEF class
<1>4. filled \in Codes /\ (class # "MuxiException" => filled # "")
  BY <1>2 DEF Codes
<1> HIDE DEF filled
<1>5. MapError(status, code) = [class |-> "MuxiException", code |-> filled, status |-> status]
  BY <1>3, SlicedClass
<1>6. "MuxiException" \in {"none", "value"} \cup Classes /\ status \in {0} \cup 200 .. 599
  BY DEF Classes
<1> DEFINE e == [class |-> "MuxiException", code |-> filled, status |-> status]
<1>7. MapError(status, code) \in Outcomes
  <2>1. e \in Outcomes
    BY <1>4, <1>6 DEF Outcomes
  <2> QED  BY <1>5, <2>1, Zenon
<1>8. /\ MapError(status, code).class = "MuxiException"
      /\ MapError(status, code).status = status
      /\ MapError(status, code).code = filled
  <2>1. e.class = "MuxiException" /\ e.status = status /\ e.code = filled
    OBVIOUS
  <2> QED  BY <1>5, <2>1, Zenon
<1> QED  BY <1>4, <1>7, <1>8 DEF class

LEMMA CodeOfType ==
  ASSUME NEW client, NEW body
  PROVE  CodeOf(client, body) \in {"", "given"}
BY DEF CodeOf

LEMMA OutcomeTypes ==
  /\ Outcome("none", "") \in Outcomes
  /\ Outcome("value", "") \in Outcomes
  /\ Outcome("json", "") \in Outcomes
  /\ Outcome("ConnectionException", "CONNECTION_ERROR") \in Outcomes
<1>1. "" \in Codes /\ "CONNECTION_ERROR" \in Codes
  BY DEF Codes
<1> QED  BY <1>1 DEF Outcome, Outcomes, Classes

LEMMA InitTypes == Init => Types
<1> SUFFICES ASSUME Init  PROVE Types
  OBVIOUS
<1>1. pc \in [Threads -> PCs] /\ call \in [Threads -> Calls \cup {NoCall}]
  BY DEF Init, PCs
<1>2. outcome \in [Threads -> Outcomes] /\ reply \in [Threads -> Response \cup {NoReply}]
  BY OutcomeTypes DEF Init
<1>3. 0 \in 0 .. MaxCalls
  BY RequestAssumption
<1>4. calls \in [Threads -> 0 .. MaxCalls] /\ gen \in [Clients -> Nat]
  BY <1>3 DEF Init
<1>5. TypeOK
  BY <1>1, <1>2, <1>4 DEF Init, TypeOK
<1> QED  BY <1>5 DEF Init, Types, Begun, Received

\* A thread that goes on with its call keeps what Begun and Received say.
LEMMA GoesOn ==
  ASSUME Types, NEW t \in Threads, NEW p \in PCs, pc[t] # "idle",
         pc' = [pc EXCEPT ![t] = p], UNCHANGED <<call, calls>>
  PROVE  /\ pc' \in [Threads -> PCs]
         /\ Begun'
         /\ call[t] \in Calls /\ call[t].client \in Clients /\ calls[t] \in 1 .. MaxCalls
         /\ UNCHANGED <<res, reply>> => Received'
<1>1. pc' \in [Threads -> PCs]
  BY DEF Types, TypeOK
<1>2. Begun'
  BY DEF Types, TypeOK, Begun
<1>3. call[t] \in Calls /\ calls[t] >= 1 /\ calls[t] \in 0 .. MaxCalls
  BY DEF Types, TypeOK, Begun
<1>4. calls[t] \in 1 .. MaxCalls
  BY <1>3, RequestAssumption
<1>5. call[t].client \in Clients
  BY <1>3 DEF Calls
<1>6. UNCHANGED <<res, reply>> => Received'
  BY DEF Types, Received
<1> QED  BY <1>1, <1>2, <1>3, <1>4, <1>5, <1>6

\* The outcome of an answer, of a transfer that may have brought a response.
LEMMA AnswerFinishes ==
  ASSUME Types, NEW t \in Threads, Answer(t)
  PROVE  \E o \in Outcomes : Finish(t, o)
<1>1. CASE res[t] = "ERROR"
  BY <1>1, OutcomeTypes DEF Answer
<1>2. CASE res[t] = "OK" /\ reply[t].status >= 400
  <2>1. reply[t].status \in 200 .. 599
    BY <1>2 DEF Types, Received, Response
  <2>2. MapError(reply[t].status, CodeOf(call[t].client, reply[t].body)) \in Outcomes
    <3>1. CodeOf(call[t].client, reply[t].body) \in {"", "given"}
      BY CodeOfType
    <3> QED  BY <2>1, <3>1, MapErrorType
  <2>3. Finish(t, MapError(reply[t].status, CodeOf(call[t].client, reply[t].body)))
    BY <1>2, <2>1 DEF Answer
  <2> QED  BY <2>2, <2>3
<1>3. CASE res[t] = "OK" /\ reply[t].status < 400
  <2>1. Returned(reply[t].body) \in {Outcome("json", ""), Outcome("value", "")}
    BY DEF Returned
  <2>2. reply[t].status < 400 /\ ~(reply[t].status >= 400)
    <3>1. reply[t].status \in 200 .. 599
      BY <1>3 DEF Types, Received, Response
    <3> QED  BY <1>3, <3>1
  <2>3. Finish(t, Returned(reply[t].body))
    BY <1>3, <2>2 DEF Answer
  <2> QED  BY <2>1, <2>3, OutcomeTypes
<1> QED  BY <1>1, <1>2, <1>3 DEF Answer

LEMMA NextTypes == Types /\ [Next]_vars => Types'
<1> SUFFICES ASSUME Types, [Next]_vars  PROVE Types'
  OBVIOUS
<1>1. ASSUME NEW t \in Threads, Begin(t)  PROVE Types'
  <2>1. PICK c \in Calls : call' = [call EXCEPT ![t] = c]
    BY <1>1 DEF Begin
  <2>2. PICK p \in {"seed", "prepare", "done"} : pc' = [pc EXCEPT ![t] = p]
    BY <1>1 DEF Begin, Goto, Finish
  <2>3. \E o \in Outcomes : outcome' = [outcome EXCEPT ![t] = o]
    BY <1>1, OutcomeTypes DEF Begin, Finish
  <2>4. \E b \in BOOLEAN : handle' = [handle EXCEPT ![t] = b]
    BY <1>1 DEF Begin
  <2>5. /\ calls[t] < MaxCalls /\ calls' = [calls EXCEPT ![t] = @ + 1]
        /\ res' = [res EXCEPT ![t] = "none"]
        /\ reply' = [reply EXCEPT ![t] = NoReply]
        /\ UNCHANGED <<seen, key, gen, checked, badCache, sent, raced, checkThrew>>
    BY <1>1 DEF Begin, shared
  <2>6. TypeOK'
    BY <2>1, <2>2, <2>3, <2>4, <2>5, RequestAssumption DEF Types, TypeOK, PCs
  <2>7. Begun' /\ Received'
    BY <2>1, <2>2, <2>5 DEF Types, TypeOK, Begun, Received
  <2> QED  BY <2>6, <2>7 DEF Types
<1>2. ASSUME NEW t \in Threads, ReadGenerator(t)  PROVE Types'
  <2>1. /\ pc' \in [Threads -> PCs] /\ Begun' /\ Received' /\ call[t].client \in Clients
    BY <1>2, GoesOn DEF ReadGenerator, Goto, PCs
  <2>2. TypeOK'
    BY <1>2, <2>1 DEF ReadGenerator, shared, Types, TypeOK
  <2> QED  BY <2>1, <2>2 DEF Types
<1>3. ASSUME NEW t \in Threads, AdvanceGenerator(t)  PROVE Types'
  <2>1. /\ pc' \in [Threads -> PCs] /\ Begun' /\ Received' /\ call[t].client \in Clients
    BY <1>3, GoesOn DEF AdvanceGenerator, Goto, PCs, hist
  <2>2. seen[t] + 1 \in Nat
    BY DEF Types, TypeOK
  <2>3. gen' \in [Clients -> Nat] /\ key' \in [Threads -> Nat]
    BY <1>3, <2>1, <2>2 DEF AdvanceGenerator, Types, TypeOK
  <2>4. TypeOK'
    BY <1>3, <2>1, <2>3 DEF AdvanceGenerator, hist, Types, TypeOK
  <2> QED  BY <2>1, <2>4 DEF Types
<1>4. ASSUME NEW t \in Threads, Prepare(t)  PROVE Types'
  <2>1. PICK p \in {"perform", "done"} : pc' = [pc EXCEPT ![t] = p]
    BY <1>4 DEF Prepare, Goto, Finish
  <2>2. /\ pc' \in [Threads -> PCs] /\ Begun' /\ Received'
    BY <1>4, <2>1, GoesOn DEF Prepare, PCs, hist
  <2>3. TypeOK'
    BY <1>4, <2>2, OutcomeTypes DEF Prepare, Finish, shared, hist, Types, TypeOK
  <2> QED  BY <2>2, <2>3 DEF Types
<1>5. ASSUME NEW t \in Threads, ReadStdin(t)  PROVE Types'
  <2>1. /\ pc' \in [Threads -> PCs] /\ Begun' /\ Received'
    BY <1>5, GoesOn DEF ReadStdin, Goto, PCs, local, hist
  <2>2. TypeOK'
    BY <1>5, <2>1 DEF ReadStdin, local, shared, hist, Types, TypeOK
  <2> QED  BY <2>1, <2>2 DEF Types
<1>6. ASSUME NEW t \in Threads, NEW code \in {"OK", "ERROR"},
             NEW r \in Replies \cup {NoReply}, pc[t] \in {"perform", "stdin"},
             code = "OK" => r \in Replies, Performed(t, code, r)
      PROVE  Types'
  <2>1. PICK p \in {"check", "answer"} : pc' = [pc EXCEPT ![t] = p]
    BY <1>6 DEF Performed, Goto
  <2>2. /\ pc' \in [Threads -> PCs] /\ Begun'
        /\ call[t] \in Calls /\ call[t].client \in Clients /\ calls[t] \in 1 .. MaxCalls
    BY <1>6, <2>1, GoesOn DEF Performed, PCs
  <2>3. Received'
    BY <1>6, RequestAssumption DEF Performed, Types, TypeOK, Received
  <2>4. key[t] \in Nat
    BY DEF Types, TypeOK
  <2>5. <<t, calls[t], call[t].client, key[t]>> \in Threads \X (1 .. MaxCalls) \X Clients \X Nat
    BY <2>2, <2>4
  <2>6. TypeOK'
    BY <1>6, <2>2, <2>5, RequestAssumption DEF Performed, Cleanup, shared, Types, TypeOK
  <2> QED  BY <2>2, <2>3, <2>6 DEF Types
<1>7. ASSUME NEW t \in Threads, Check(t)  PROVE Types'
  <2>1. PICK p \in {"answer", "done"} : pc' = [pc EXCEPT ![t] = p]
    BY <1>7 DEF Check, Goto, Finish
  <2>2. /\ pc' \in [Threads -> PCs] /\ Begun' /\ Received' /\ calls[t] \in 1 .. MaxCalls
    BY <1>7, <2>1, GoesOn DEF Check, PCs
  <2>3. outcome' \in [Threads -> Outcomes]
    BY <1>7, OutcomeTypes DEF Check, Finish, Types, TypeOK
  <2>4. checkThrew' \subseteq Threads \X (1 .. MaxCalls)
    <3>1. <<t, calls[t]>> \in Threads \X (1 .. MaxCalls)
      BY <2>2
    <3> QED  BY <1>7, <3>1 DEF Check, Types, TypeOK
  <2>5. TypeOK'
    BY <1>7, <2>2, <2>3, <2>4 DEF Check, Types, TypeOK
  <2> QED  BY <2>2, <2>5 DEF Types
<1>8. ASSUME NEW t \in Threads, Answer(t)  PROVE Types'
  <2>1. PICK o \in Outcomes : Finish(t, o)
    BY <1>8, AnswerFinishes
  <2>2. /\ pc' \in [Threads -> PCs] /\ Begun' /\ Received'
    BY <1>8, <2>1, GoesOn DEF Answer, Finish, Goto, PCs, hist
  <2>3. TypeOK'
    BY <1>8, <2>1, <2>2 DEF Answer, Finish, shared, hist, Types, TypeOK
  <2> QED  BY <2>2, <2>3 DEF Types
<1>9. CASE UNCHANGED vars
  BY <1>9 DEF vars, local, shared, hist, Types, TypeOK, Begun, Received
<1> QED
  BY <1>1, <1>2, <1>3, <1>4, <1>5, <1>6, <1>7, <1>8, <1>9
     DEF Next, Thread, Replied, Fails, StdinFails, Broken
-----------------------------------------------------------------------------
(* Keys.                                                                   *)

LEMMA InitKeys == Init => Keys
BY DEF Init, Keys, OneDraws, KeysBehind, DistinctKeys, Holding

\* A step that draws no key and sends none.
LEMMA KeysKept ==
  ASSUME Types, Keys, NEW t \in Threads, NEW p \in PCs \ {"advance"}, NEW c,
         pc' = [pc EXCEPT ![t] = p], call' = [call EXCEPT ![t] = c],
         p \in {"prepare", "perform", "stdin"} /\ c.client # "transport"
           => Holding(t) /\ c.client = call[t].client,
         UNCHANGED <<seen, key, gen, sent, raced>>
  PROVE  Keys'
<1> SUFFICES ASSUME ~raced, OneDraws, KeysBehind, DistinctKeys
             PROVE  OneDraws' /\ KeysBehind' /\ DistinctKeys'
  BY DEF Keys
<1>1. /\ \A u \in Threads : pc'[u] = IF u = t THEN p ELSE pc[u]
      /\ \A u \in Threads : call'[u] = IF u = t THEN c ELSE call[u]
  BY DEF Types, TypeOK
<1>2. \A u \in Threads : Holding(u)' => Holding(u) /\ call'[u].client = call[u].client
  BY <1>1 DEF Holding
<1>3. OneDraws'
  BY <1>1 DEF OneDraws
<1>4. KeysBehind'
  BY <1>2 DEF KeysBehind
<1>5. DistinctKeys'
  BY DEF DistinctKeys
<1> QED  BY <1>3, <1>4, <1>5

\* A thread reads the generator: it alone, or the process has raced.
LEMMA ReadKeepsKeys ==
  ASSUME Types, Keys, NEW t \in Threads, ReadGenerator(t)
  PROVE  Keys'
<1> SUFFICES ASSUME ~raced'  PROVE OneDraws' /\ KeysBehind' /\ DistinctKeys'
  BY DEF Keys
<1>1. /\ ~raced
      /\ \A u \in Threads : pc[u] = "advance" => call[u].client # call[t].client
      /\ UNCHANGED <<call, key, gen, sent>>
  BY DEF ReadGenerator, shared
<1>2. OneDraws /\ KeysBehind /\ DistinctKeys
  BY <1>1 DEF Keys
<1>3. /\ \A u \in Threads : pc'[u] = IF u = t THEN "advance" ELSE pc[u]
      /\ \A u \in Threads : seen'[u] = IF u = t THEN gen[call[t].client] ELSE seen[u]
  BY DEF ReadGenerator, Goto, Types, TypeOK
<1>4. OneDraws'
  BY <1>1, <1>2, <1>3 DEF OneDraws
<1>5. \A u \in Threads : Holding(u)' => Holding(u)
  BY <1>1, <1>3 DEF Holding
<1>6. KeysBehind'
  BY <1>1, <1>2, <1>5 DEF KeysBehind
<1> QED  BY <1>1, <1>2, <1>4, <1>6 DEF DistinctKeys

\* The key it draws is above all that the generator has given.
LEMMA AdvanceKeepsKeys ==
  ASSUME Types, Keys, NEW t \in Threads, AdvanceGenerator(t)
  PROVE  Keys'
<1> SUFFICES ASSUME ~raced  PROVE OneDraws' /\ KeysBehind' /\ DistinctKeys'
  BY DEF Keys, AdvanceGenerator, hist
<1>1. /\ pc[t] = "advance" /\ call[t].client \in Clients
      /\ UNCHANGED <<call, seen, sent, raced>>
  BY DEF AdvanceGenerator, hist, Types, Begun, Calls
<1>2. OneDraws /\ KeysBehind /\ DistinctKeys
  BY DEF Keys
<1> DEFINE c == call[t].client
<1>3. /\ \A u \in Threads : pc'[u] = IF u = t THEN "prepare" ELSE pc[u]
      /\ \A u \in Threads : key'[u] = IF u = t THEN gen[c] + 1 ELSE key[u]
      /\ \A d \in Clients : gen'[d] = IF d = c THEN gen[c] + 1 ELSE gen[d]
  BY <1>1, <1>2 DEF AdvanceGenerator, Goto, Types, TypeOK, OneDraws
<1>4. gen[c] \in Nat /\ \A d \in Clients : gen[d] \in Nat
  BY <1>1 DEF Types, TypeOK
<1>5. \A u \in Threads \ {t} : Holding(u)' => Holding(u)
  BY <1>1, <1>3 DEF Holding
<1>6. \A u \in Threads : Holding(u) => call[u].client \in Clients /\ key[u] \in Nat
  BY DEF Holding, Types, TypeOK, Begun, Calls
<1>7. \A a \in sent : a[3] \in Clients /\ a[4] \in Nat
  BY DEF Types, TypeOK
<1>8. OneDraws'
  BY <1>1, <1>2, <1>3 DEF OneDraws, Types, Begun, Calls
<1>9. \A a \in sent : a[4] <= gen'[a[3]]
  BY <1>2, <1>3, <1>4, <1>7 DEF KeysBehind
<1>10. \A u \in Threads \ {t} : Holding(u)' =>
         /\ key'[u] = key[u] /\ key[u] <= gen[call[u].client]
         /\ key[u] <= gen'[call[u].client]
         /\ \A a \in sent : a[3] = call[u].client => a[4] # key[u]
  BY <1>2, <1>3, <1>4, <1>5, <1>6 DEF KeysBehind
<1>11. \A a \in sent : a[3] = c => a[4] # key'[t]
  BY <1>2, <1>3, <1>4, <1>7 DEF KeysBehind
<1>12. \A u \in Threads \ {t} : Holding(u)' /\ call[u].client = c => key'[u] # key'[t]
  BY <1>3, <1>4, <1>6, <1>5, <1>10
<1>13. \A u, v \in Threads : Holding(u)' /\ Holding(v)' /\ call[u].client = call[v].client
                               /\ key'[u] = key'[v] => u = v
  BY <1>2, <1>5, <1>10, <1>12 DEF KeysBehind
<1>14. key'[t] <= gen'[c]
  BY <1>1, <1>3, <1>4
<1>15. KeysBehind'
  BY <1>1, <1>9, <1>10, <1>11, <1>13, <1>14 DEF KeysBehind
<1> QED  BY <1>1, <1>2, <1>8, <1>15 DEF DistinctKeys

\* The request is sent with a key no other has had.
LEMMA SendKeepsKeys ==
  ASSUME Types, Keys, NEW t \in Threads, pc[t] \in {"perform", "stdin"},
         call[t].client # "transport",
         sent' = sent \cup {<<t, calls[t], call[t].client, key[t]>>},
         pc' = [pc EXCEPT ![t] = "check"], UNCHANGED <<call, seen, key, gen, raced>>
  PROVE  Keys'
<1> SUFFICES ASSUME ~raced  PROVE OneDraws' /\ KeysBehind' /\ DistinctKeys'
  BY DEF Keys
<1>1. OneDraws /\ KeysBehind /\ DistinctKeys
  BY DEF Keys
<1>2. \A u \in Threads : pc'[u] = IF u = t THEN "check" ELSE pc[u]
  BY DEF Types, TypeOK
<1>3. Holding(t) /\ ~Holding(t)' /\ \A u \in Threads : Holding(u)' => Holding(u)
  BY <1>2 DEF Holding
<1>4. /\ key[t] <= gen[call[t].client]
      /\ \A a \in sent : a[3] = call[t].client => a[4] # key[t]
      /\ \A u \in Threads : Holding(u)' /\ call[u].client = call[t].client => key[u] # key[t]
  BY <1>1, <1>3 DEF KeysBehind
<1>5. OneDraws'
  BY <1>1, <1>2 DEF OneDraws
<1>6. KeysBehind'
  BY <1>1, <1>3, <1>4 DEF KeysBehind
<1>7. DistinctKeys'
  BY <1>1, <1>4 DEF DistinctKeys
<1> QED  BY <1>5, <1>6, <1>7

LEMMA NextKeys == Types /\ Keys /\ [Next]_vars => Keys'
<1> SUFFICES ASSUME Types, Keys, [Next]_vars  PROVE Keys'
  OBVIOUS
<1>1. ASSUME NEW t \in Threads, Begin(t)  PROVE Keys'
  <2>1. PICK c \in Calls : call' = [call EXCEPT ![t] = c]
    BY <1>1 DEF Begin
  <2>2. call'[t] = c
    BY <2>1 DEF Types, TypeOK
  <2>3. PICK p \in {"seed", "prepare", "done"} :
          pc' = [pc EXCEPT ![t] = p] /\ (p = "prepare" => c.client = "transport")
    BY <1>1, <2>2 DEF Begin, Goto, Finish
  <2>4. UNCHANGED <<seen, key, gen, sent, raced>>
    BY <1>1 DEF Begin, shared
  <2> QED  BY <2>1, <2>3, <2>4, KeysKept DEF PCs
<1>2. ASSUME NEW t \in Threads, NEW p \in {"perform", "stdin", "answer", "done"},
             pc[t] # "idle", pc' = [pc EXCEPT ![t] = p],
             p \in {"perform", "stdin"} => pc[t] \in {"prepare", "perform"},
             UNCHANGED <<call, seen, key, gen, sent, raced>>
      PROVE  Keys'
  <2>1. call' = [call EXCEPT ![t] = call[t]]
    BY <1>2 DEF Types, TypeOK
  <2>2. p \in {"prepare", "perform", "stdin"} /\ call[t].client # "transport" => Holding(t)
    BY <1>2 DEF Holding
  <2> QED  BY <1>2, <2>1, <2>2, KeysKept DEF PCs
<1>3. ASSUME NEW t \in Threads, Prepare(t)  PROVE Keys'
  <2>1. PICK p \in {"perform", "done"} : pc' = [pc EXCEPT ![t] = p]
    BY <1>3 DEF Prepare, Goto, Finish
  <2> QED  BY <1>2, <1>3, <2>1 DEF Prepare, shared, hist
<1>4. ASSUME NEW t \in Threads, ReadStdin(t)  PROVE Keys'
  BY <1>2, <1>4 DEF ReadStdin, Goto, local, shared, hist
<1>5. ASSUME NEW t \in Threads, Check(t)  PROVE Keys'
  <2>1. PICK p \in {"answer", "done"} : pc' = [pc EXCEPT ![t] = p]
    BY <1>5 DEF Check, Goto, Finish
  <2> QED  BY <1>2, <1>5, <2>1 DEF Check
<1>6. ASSUME NEW t \in Threads, Answer(t)  PROVE Keys'
  <2>1. pc' = [pc EXCEPT ![t] = "done"]
    BY <1>6, AnswerFinishes DEF Finish, Goto
  <2> QED  BY <1>2, <1>6, <2>1 DEF Answer, shared, hist
<1>7. ASSUME NEW t \in Threads, NEW code, NEW r,
             pc[t] \in {"perform", "stdin"}, Performed(t, code, r)
      PROVE  Keys'
  <2>1. UNCHANGED <<call, seen, key, gen, raced>>
    BY <1>7 DEF Performed, shared
  <2>2. CASE call[t].client = "transport"
    BY <1>2, <1>7, <2>1, <2>2 DEF Performed, Goto
  <2>3. CASE call[t].client # "transport"
    BY <1>7, <2>1, <2>3, SendKeepsKeys DEF Performed, Goto
  <2> QED  BY <2>2, <2>3
<1>8. CASE UNCHANGED vars
  BY <1>8 DEF vars, local, shared, hist, Keys, OneDraws, KeysBehind, DistinctKeys, Holding
<1> QED
  BY <1>1, <1>3, <1>4, <1>5, <1>6, <1>7, <1>8, ReadKeepsKeys, AdvanceKeepsKeys
     DEF Next, Thread, Replied, Fails, StdinFails, Broken
-----------------------------------------------------------------------------
(* The check.                                                              *)

LEMMA InitChecks == Init => Checks
BY DEF Init, Checks, OneFailedCheck

LEMMA NextChecks == Checks /\ [Next]_vars => Checks'
<1> SUFFICES ASSUME Checks, [Next]_vars  PROVE Checks'
  OBVIOUS
<1>1. ASSUME NEW t \in Threads, Check(t)  PROVE Checks'
  <2>1. checked' /\ (checkThrew' = checkThrew \/ ~checked)
    BY <1>1 DEF Check, CheckMayThrow
  <2>2. checkThrew' \subseteq checkThrew \cup {<<t, calls[t]>>}
    BY <1>1 DEF Check
  <2> QED  BY <2>1, <2>2 DEF Checks, OneFailedCheck
<1>2. CASE UNCHANGED <<checked, checkThrew>>
  BY <1>2 DEF Checks, OneFailedCheck
<1>3. ASSUME NEW t \in Threads,
             \/ Begin(t) \/ ReadGenerator(t) \/ AdvanceGenerator(t) \/ Prepare(t)
             \/ ReadStdin(t) \/ Answer(t) \/ Replied(t) \/ Fails(t) \/ StdinFails(t)
      PROVE  UNCHANGED <<checked, checkThrew>>
  BY <1>3 DEF Begin, ReadGenerator, AdvanceGenerator, Prepare, ReadStdin, Answer, Replied,
              Fails, StdinFails, Broken, Performed, local, shared, hist
<1>4. CASE UNCHANGED vars
  BY <1>2, <1>4 DEF vars, shared, hist
<1> QED  BY <1>1, <1>2, <1>3, <1>4 DEF Next, Thread
-----------------------------------------------------------------------------
(* The end of a call, thread by thread.                                    *)

LEMMA ThreadByThread ==
  ASSUME Types, AllTold
  PROVE  OutcomeIsTrue /\ ForeignExceptions /\ HandleReleased
<1>1. OutcomeIsTrue /\ ForeignExceptions
  BY DEF AllTold, Told, OutcomeIsTrue, Truthful, ForeignExceptions, Explained
<1>2. \A t \in Threads : handle[t] \in BOOLEAN
  BY DEF Types, TypeOK
<1>3. HandleReleased
  BY <1>2 DEF AllTold, Told, HandleReleased, Released
<1> QED  BY <1>1, <1>3

Unchanged(u) ==
  /\ pc'[u] = pc[u] /\ call'[u] = call[u] /\ handle'[u] = handle[u] /\ res'[u] = res[u]
  /\ reply'[u] = reply[u] /\ outcome'[u] = outcome[u] /\ Threw(u)' = Threw(u)

LEMMA UnchangedTold ==
  ASSUME NEW u \in Threads, Told(u), Unchanged(u)
  PROVE  Told(u)'
<1>1. Underway(u)' /\ (Over(u)' => Over(u))
  BY DEF Unchanged, Told, Underway, Over
<1>2. Truthful(u) => Truthful(u)'
  BY DEF Unchanged, Truthful
<1>3. Explained(u) => Explained(u)'
  BY DEF Unchanged, Explained
<1>4. Released(u) => Released(u)'
  BY Zenon DEF Unchanged, Released
<1> QED  BY <1>1, <1>2, <1>3, <1>4 DEF Told

\* A step of t leaves the calls of the others alone.
LEMMA OthersUnchanged ==
  ASSUME Types, NEW t \in Threads, NEW u \in Threads \ {t},
         Begin(t) \/ Thread(t) \/ Replied(t) \/ Fails(t) \/ StdinFails(t)
  PROVE  Unchanged(u)
<1>1. CASE Begin(t)
  BY <1>1 DEF Begin, Finish, Goto, Unchanged, Threw, Types, TypeOK
<1>2. CASE ReadGenerator(t) \/ AdvanceGenerator(t) \/ ReadStdin(t) \/ Prepare(t)
  BY <1>2 DEF ReadGenerator, AdvanceGenerator, ReadStdin, Prepare, Finish, Goto, Unchanged,
              Threw, Types, TypeOK, local, hist
<1>3. CASE Check(t)
  <2>1. calls' = calls /\ checkThrew' \subseteq checkThrew \cup {<<t, calls[t]>>}
        /\ checkThrew \subseteq checkThrew'
    BY <1>3 DEF Check
  <2>2. Threw(u)' = Threw(u)
    BY <2>1 DEF Threw
  <2> QED  BY <1>3, <2>2 DEF Check, Finish, Goto, Unchanged, Types, TypeOK
<1>4. CASE Answer(t)
  BY <1>4, AnswerFinishes DEF Answer, Finish, Goto, Unchanged, Threw, Types, TypeOK, hist
<1>5. ASSUME NEW code, NEW r, Performed(t, code, r)  PROVE Unchanged(u)
  BY <1>5 DEF Performed, Cleanup, Goto, Unchanged, Threw, Types, TypeOK
<1> QED
  BY <1>1, <1>2, <1>3, <1>4, <1>5 DEF Thread, Replied, Fails, StdinFails, Broken

\* A step of t that does not end its call.
LEMMA UnderwayTold ==
  ASSUME Types, NEW t \in Threads, NEW p \in PCs \ {"done"},
         pc' = [pc EXCEPT ![t] = p], Underway(t)'
  PROVE  Told(t)'
BY DEF Told, Over, Types, TypeOK

\* A step of t that ends its call with o.
LEMMA FinishTold ==
  ASSUME Types, NEW t \in Threads, NEW o, Finish(t, o)
  PROVE  /\ outcome'[t] = o
         /\ Truthful(t)' /\ Explained(t)' /\ Released(t)' => Told(t)'
BY DEF Finish, Goto, Told, Underway, Types, TypeOK

LEMMA OutcomeClass == \A class, code : Outcome(class, code).class = class
BY DEF Outcome

LEMMA CallTold ==
  ASSUME Types, NEW t \in Threads, Told(t),
         Begin(t) \/ ReadGenerator(t) \/ AdvanceGenerator(t) \/ Prepare(t) \/ ReadStdin(t)
  PROVE  Told(t)'
<1>1. CASE Begin(t)
  <2>1. res'[t] = "none"
    BY <1>1 DEF Begin, Types, TypeOK
  <2>2. ASSUME handle' = [handle EXCEPT ![t] = TRUE], NEW p \in {"seed", "prepare"},
               pc' = [pc EXCEPT ![t] = p]
        PROVE  Told(t)'
    <3>1. handle'[t] /\ pc'[t] = p
      BY <2>2 DEF Types, TypeOK
    <3> QED  BY <2>1, <2>2, <3>1, UnderwayTold DEF Underway, PCs
  <2>3. ASSUME handle' = [handle EXCEPT ![t] = FALSE],
               Finish(t, Outcome("ConnectionException", "CONNECTION_ERROR"))
        PROVE  Told(t)'
    <3>1. handle'[t] = FALSE
      BY <2>3 DEF Types, TypeOK
    <3>2. outcome'[t].class = "ConnectionException"
      BY <2>3, FinishTold, OutcomeClass
    <3> QED  BY <2>1, <2>3, <3>1, <3>2, FinishTold DEF Truthful, Explained, Released
  <2> QED  BY <1>1, <2>2, <2>3 DEF Begin, Goto
<1>2. CASE ReadGenerator(t) \/ AdvanceGenerator(t) \/ ReadStdin(t)
  <2>1. PICK p \in {"advance", "prepare", "stdin"} : pc' = [pc EXCEPT ![t] = p]
    BY <1>2 DEF ReadGenerator, AdvanceGenerator, ReadStdin, Goto
  <2>2. pc[t] \in {"seed", "advance", "perform"} /\ UNCHANGED <<res, handle>>
    BY <1>2 DEF ReadGenerator, AdvanceGenerator, ReadStdin, local
  <2>3. pc'[t] = p
    BY <2>1 DEF Types, TypeOK
  <2> QED  BY <2>1, <2>2, <2>3, UnderwayTold DEF Told, Underway, PCs
<1>3. CASE Prepare(t)
  <2>1. pc[t] = "prepare" /\ res[t] = "none" /\ handle[t]
        /\ UNCHANGED <<call, res, handle, reply>>
    BY <1>3 DEF Prepare, Told, Underway
  <2>2. CASE call[t].payload = "invalid" /\ Finish(t, Outcome("json", ""))
    <3>1. outcome'[t].class = "json"
      BY <2>2, FinishTold, OutcomeClass
    <3> QED  BY <2>1, <2>2, <3>1, FinishTold DEF Truthful, Explained, Released
  <2>3. CASE pc' = [pc EXCEPT ![t] = "perform"]
    <3>1. pc'[t] = "perform"
      BY <2>3 DEF Types, TypeOK
    <3> QED  BY <2>1, <2>3, <3>1, UnderwayTold DEF Underway, PCs
  <2> QED  BY <1>3, <2>2, <2>3 DEF Prepare, Goto
<1> QED  BY <1>1, <1>2, <1>3

LEMMA PerformedTold ==
  ASSUME Types, NEW t \in Threads, NEW code \in {"OK", "ERROR"}, NEW r, Performed(t, code, r)
  PROVE  Told(t)'
<1>1. PICK p \in {"check", "answer"} : pc' = [pc EXCEPT ![t] = p]
  BY DEF Performed, Goto
<1>2. pc'[t] = p /\ res'[t] = code /\ ~handle'[t]
  BY <1>1 DEF Performed, Cleanup, Types, TypeOK
<1> QED  BY <1>1, <1>2, UnderwayTold DEF Underway, PCs

LEMMA CheckTold ==
  ASSUME Types, NEW t \in Threads, Told(t), Check(t)
  PROVE  Told(t)'
<1>1. /\ pc[t] = "check" /\ res[t] \in {"OK", "ERROR"} /\ ~handle[t]
      /\ UNCHANGED <<call, calls, res, handle, reply>>
  BY DEF Check, Told, Underway
<1>2. CASE pc' = [pc EXCEPT ![t] = "answer"]
  <2>1. pc'[t] = "answer"
    BY <1>2 DEF Types, TypeOK
  <2> QED  BY <1>1, <1>2, <2>1, UnderwayTold DEF Underway, PCs
<1>3. CASE /\ Finish(t, Outcome("json", ""))
           /\ checkThrew' = checkThrew \cup {<<t, calls[t]>>}
  <2>1. Threw(t)'
    BY <1>1, <1>3 DEF Threw
  <2>2. outcome'[t].class = "json"
    BY <1>3, FinishTold, OutcomeClass
  <2> QED  BY <1>1, <1>3, <2>1, <2>2, FinishTold DEF Truthful, Explained, Released
<1> QED  BY <1>2, <1>3 DEF Check, Goto

LEMMA AnswerTold ==
  ASSUME Types, NEW t \in Threads, Told(t), Answer(t)
  PROVE  Told(t)'
<1>1. /\ pc[t] = "answer" /\ res[t] \in {"OK", "ERROR"} /\ ~handle[t]
      /\ UNCHANGED <<call, res, handle, reply, calls, checkThrew>>
  BY DEF Answer, Told, Underway, hist
<1>2. res[t] = "OK" => reply[t].status \in 200 .. 599
  BY DEF Types, Received, Response
<1>3. CASE res[t] = "ERROR" /\ Finish(t, Outcome("ConnectionException", "CONNECTION_ERROR"))
  <2>1. outcome'[t].class = "ConnectionException"
    BY <1>3, FinishTold, OutcomeClass
  <2> QED  BY <1>1, <1>3, <2>1, FinishTold DEF Truthful, Explained, Released
<1>4. CASE /\ res[t] = "OK" /\ reply[t].status >= 400
           /\ Finish(t, MapError(reply[t].status, CodeOf(call[t].client, reply[t].body)))
  <2>1. /\ outcome'[t].class = "MuxiException"
        /\ outcome'[t].status = reply[t].status
        /\ ErrorClass(reply[t].status) # "MuxiException" => outcome'[t].code # ""
    <3>1. CodeOf(call[t].client, reply[t].body) \in {"", "given"}
      BY CodeOfType
    <3>2. outcome'[t] = MapError(reply[t].status, CodeOf(call[t].client, reply[t].body))
      BY <1>4, FinishTold
    <3> DEFINE e == MapError(reply[t].status, CodeOf(call[t].client, reply[t].body))
    <3>3. /\ e.class = "MuxiException" /\ e.status = reply[t].status
          /\ ErrorClass(reply[t].status) # "MuxiException" => e.code # ""
      BY <1>2, <1>4, <3>1, MapErrorType
    <3> QED  BY <3>2, <3>3, Zenon
  <2> QED  BY <1>1, <1>4, <2>1, FinishTold DEF Truthful, Explained, Released
<1>5. CASE res[t] = "OK" /\ reply[t].status < 400 /\ Finish(t, Returned(reply[t].body))
  <2>1. outcome'[t].class = IF reply[t].body.form = "text" THEN "json" ELSE "value"
    <3>1. Returned(reply[t].body).class = IF reply[t].body.form = "text" THEN "json" ELSE "value"
      <4>1. \/ /\ reply[t].body.form = "text"
               /\ Returned(reply[t].body) = Outcome("json", "")
            \/ /\ reply[t].body.form # "text"
               /\ Returned(reply[t].body) = Outcome("value", "")
        BY DEF Returned
      <4> QED  BY <4>1, OutcomeClass
    <3> QED  BY <1>5, <3>1, FinishTold
  <2>2. ~(reply[t].status >= 400)
    BY <1>2, <1>5
  <2> QED  BY <1>1, <1>5, <2>1, <2>2, FinishTold DEF Truthful, Explained, Released
<1> QED  BY <1>3, <1>4, <1>5 DEF Answer

LEMMA InitTold == Init => AllTold
BY DEF Init, AllTold, Told, Underway, Over

LEMMA NextTold == Types /\ AllTold /\ [Next]_vars => AllTold'
<1> SUFFICES ASSUME Types, AllTold, [Next]_vars, NEW u \in Threads  PROVE Told(u)'
  BY DEF AllTold
<1>1. ASSUME NEW t \in Threads,
             Begin(t) \/ Thread(t) \/ Replied(t) \/ Fails(t) \/ StdinFails(t)
      PROVE  Told(u)'
  <2>1. Told(t) /\ Told(u)
    BY DEF AllTold
  <2>2. CASE u # t
    BY <1>1, <2>1, <2>2, OthersUnchanged, UnchangedTold
  <2>3. CASE u = t
    BY <1>1, <2>1, <2>3, CallTold, PerformedTold, CheckTold, AnswerTold
       DEF Thread, Replied, Fails, StdinFails, Broken
  <2> QED  BY <2>2, <2>3
<1>2. CASE UNCHANGED vars
  BY <1>2, UnchangedTold DEF AllTold, vars, local, hist, Unchanged, Threw
<1> QED  BY <1>1, <1>2 DEF Next
-----------------------------------------------------------------------------
(* The theorems.                                                           *)

LEMMA Inductive == Spec => []IInv
BY InitTypes, InitKeys, InitChecks, InitTold, NextTypes, NextKeys, NextChecks, NextTold, PTL
   DEF Spec, IInv

\* Every state of request() is of its type, whatever is called and answered.
THEOREM TypesHold == Spec => []TypeOK
<1>1. IInv => TypeOK
  BY DEF IInv, Types
<1> QED  BY <1>1, Inductive, PTL

\* However many threads draw from the unprotected generators of the two clients
\* and however their calls fail, no key is sent twice by a client unless two
\* threads were inside one generate_uuid() at once (generate_uuid of
\* formation_client.cpp and server_client.cpp).
THEOREM KeysAreDistinct == Spec => []DistinctKeys
<1>1. IInv => DistinctKeys
  BY DEF IInv, Keys, DistinctKeys
<1> QED  BY <1>1, Inductive, PTL

\* A bad version cache makes one request of a process fail, however many threads
\* race for the check (the atomic flag of version_check.cpp).
THEOREM ChecksFailOnce == Spec => []OneFailedCheck
<1>1. IInv => OneFailedCheck
  BY DEF IInv, Checks
<1> QED  BY <1>1, Inductive, PTL

\* The outcome of every call agrees with its transfer and with the response the
\* server sent, for every status and body (request() and errors.hpp).
THEOREM OutcomesAreTrue == Spec => []OutcomeIsTrue
<1>1. IInv => OutcomeIsTrue
  BY ThreadByThread DEF IInv
<1> QED  BY <1>1, Inductive, PTL

\* An exception of another library reaches the caller from three places and no
\* other (request() of either client).
THEOREM ForeignAreExplained == Spec => []ForeignExceptions
<1>1. IInv => ForeignExceptions
  BY ThreadByThread DEF IInv
<1> QED  BY <1>1, Inductive, PTL

\* Every path out of a call releases its easy handle but the dump() that throws
\* (request() of either client, and Transport's).
THEOREM HandleIsReleased == Spec => []HandleReleased
<1>1. IInv => HandleReleased
  BY ThreadByThread DEF IInv
<1> QED  BY <1>1, Inductive, PTL
=============================================================================
