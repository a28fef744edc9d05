------------------------------- MODULE Webhook -------------------------------
(***************************************************************************)
(* A webhook from its sender to the receiver that calls                    *)
(* Webhook::verify_signature and, when that says yes, Webhook::parse.  In  *)
(* between the clock moves, the payload may change, and the header may lose *)
(* its end, get another timestamp or be joined with another signature's.   *)
(*                                                                         *)
(* The HMAC is abstract: a signature is the record of what it was made     *)
(* from, so two are equal when secret, timestamp text and payload are.  A  *)
(* header is the sequence of its items between commas.                     *)
(***************************************************************************)
EXTENDS Integers, SequencesExt

CONSTANTS
  Keys,        \* the secrets senders sign with
  Payloads,    \* the documents they send
  Stamps,      \* the seconds they stamp them with
  Tolerances,  \* the receivers' tolerances, in seconds
  MaxClock,    \* a bound on the receiver's clock
  Width        \* bits of a long long

\* A place of a document: the field `name` of what `in` names ("" is the document
\* itself), or of its element `nr` when it is an array; without a name, that
\* element.  The deeper ones are left out.
At(in, nr, name) == [in |-> in, nr |-> nr, name |-> name]

\* The value at a place.
Kind(p, x) == IF x \in DOMAIN p.at THEN p.at[x] ELSE "absent"

\* Where the object or array lies that another place is in.
Home(in) == IF in = "options" THEN At("clarification", 0, "options") ELSE At("", 0, in)

\* A document: what lies at its places, and how long two of its arrays are.
\* Fields are of objects, elements of arrays, and an array has no gaps.
Document(p) ==
  /\ p.form \in {"object", "other", "invalid"}
  /\ p.length \in [{"content", "options"} -> Nat]
  /\ \A x \in DOMAIN p.at :
       /\ p.at[x] \in {"string", "object", "array", "other"}
       /\ x = At(x.in, x.nr, x.name)
       /\ \/ x.in = "" /\ x.nr = 0 /\ x.name # "" /\ p.form = "object"
          \/ x.in # "" /\ x.nr = 0 /\ x.name # "" /\ Kind(p, Home(x.in)) = "object"
          \/ x.in # "" /\ x.nr # 0 /\ x.name = "" /\ Kind(p, Home(x.in)) = "array"
          \/ x.in # "" /\ x.nr # 0 /\ x.name # "" /\ Kind(p, At(x.in, x.nr, "")) = "object"
       /\ x.in \in DOMAIN p.length => x.nr \in 0 .. p.length[x.in]
  /\ \A in \in DOMAIN p.length : \A i \in 1 .. p.length[in] : At(in, i, "") \in DOMAIN p.at

ASSUME WebhookAssumption ==
  /\ \A p \in Payloads : Document(p)
  /\ Width \in Nat \ {0} /\ MaxClock \in 0 .. 2^(Width-1) - 1
  /\ Stamps \subseteq -(2^(Width-1)) .. 2^(Width-1) - 1
  /\ Tolerances \subseteq Int
  /\ IsFiniteSet(Keys) /\ "" \notin Keys

VARIABLES
  receiver,  \* the secret and the tolerance it verifies with
  clock,     \* system_clock of the receiver, in seconds
  message,   \* the payload and the header on their way
  signed,    \* history: the signatures that were made
  altered,   \* history: the message is no longer the one that was sent
  verdict,   \* what verify_signature answered
  event      \* what parse returned

vars == <<receiver, clock, message, signed, altered, verdict, event>>

\* The timestamp a text begins with; "trailed" text has more after it and
\* "word" does not begin with a number a long long holds.
Time(at, form) == [kind |-> "time", at |-> at, form |-> form]
Sign(secret, time, payload) ==
  [kind |-> "signature", secret |-> secret, time |-> time, payload |-> payload]
Empty == [kind |-> "empty"]

\* An item `key=value`, with or without spaces before the key and the value.
\* Every other key, and an item without '=', is "other".
Item(key, value, spaced) == [key |-> key, value |-> value, spaced |-> spaced]

NoMessage == [payload |-> <<>>, header |-> <<>>]
NoEvent   == [kind |-> "none"]
-----------------------------------------------------------------------------
(* verify_signature.                                                       *)

\* Mutant of KeyOf: the spaces stay in the key.
KeyWithSpaces(item) == IF item.spaced THEN "other" ELSE item.key

\* The key once the spaces before it are gone.
KeyOf(item) == item.key

\* Mutant of LastValue: the first item counts.
FirstValue(header, key) ==
  LET i == SelectInSeq(header, LAMBDA item : KeyOf(item) = key)
  IN  IF i = 0 THEN Empty ELSE header[i].value

\* The value of the last item with this key.
LastValue(header, key) ==
  LET i == SelectLastInSeq(header, LAMBDA item : KeyOf(item) = key)
  IN  IF i = 0 THEN Empty ELSE header[i].value

\* stoll takes a number and leaves what follows it.
IsNumber(time) == time.form # "word"

Distance(a, b) == IF a < b THEN b - a ELSE a - b

\* Mutant of Stale: a stamp from the future is never stale.
StaleBehind(at, tolerance) == {clock - at > tolerance}

\* The difference overflows for a stamp far enough in the past, and what the
\* comparison then says is undefined.
Stale(at, tolerance) ==
  IF clock - at > 2^(Width-1) - 1 THEN BOOLEAN ELSE {Distance(clock, at) > tolerance}

\* Mutant of Expected: the number is signed and not its text.
ExpectedNumber(secret, time, payload) == Sign(secret, Time(time.at, "plain"), payload)

\* The signature covers the text of the timestamp, not the number read from it.
Expected(secret, time, payload) == Sign(secret, time, payload)

Answers(payload, header, secret, tolerance) ==
  LET time == LastValue(header, "t")
      signature == LastValue(header, "v1")
  IN  IF secret = "" THEN {"throws"}
      ELSE IF Empty \in {time, signature} \/ ~IsNumber(time) THEN {"no"}
      ELSE {IF stale \/ Expected(secret, time, payload) # signature THEN "no" ELSE "yes" :
              stale \in Stale(time.at, tolerance)}
-----------------------------------------------------------------------------
(* parse.  What a string says is the place it was found at.                *)

Fields      == {"requestId", "sessionId", "userId", "status", "timestamp"}
ItemFields  == {"type", "text", "url"}
ErrorFields == {"code", "message"}
NoText      == At("", 0, "")

\* Mutant of Asked: the options are left out.
AskedButOptions(p) ==
  [in : {""}, nr : {0}, name : Fields]
    \cup (IF Kind(p, At("", 0, "content")) = "array"
          THEN [in : {"content"}, nr : 1 .. p.length["content"], name : ItemFields] ELSE {})
    \cup (IF Kind(p, At("", 0, "error")) = "object"
          THEN [in : {"error"}, nr : {0}, name : ErrorFields] ELSE {})
    \cup (IF Kind(p, At("", 0, "clarification")) = "object"
          THEN {At("clarification", 0, "question")} ELSE {})

\* The places that are read.  error and clarification are when they are objects,
\* content and options when they are arrays; contains() finds nothing in an
\* item, or a document, that is no object.
Asked(p) ==
  AskedButOptions(p)
    \cup IF /\ Kind(p, At("", 0, "clarification")) = "object"
            /\ Kind(p, At("clarification", 0, "options")) = "array"
         THEN [in : {"options"}, nr : 1 .. p.length["options"], name : {""}] ELSE {}

\* get<std::string> throws on a value of another type.
Throws(p) == \E x \in Asked(p) : Kind(p, x) \notin {"absent", "string"}

\* Mutant of Items: a content item that is no object is left out.
ItemsOfObjects(p) == {i \in 1 .. p.length["content"] : Kind(p, At("content", i, "")) = "object"}

\* The elements of content, of which there are none when it is no array; each is
\* pushed, also one that is no object.
Items(p) == 1 .. p.length["content"]

EventOf(p) ==
  [kind |-> "event", items |-> Items(p),
   text |-> [x \in Asked(p) |-> IF Kind(p, x) = "string" THEN x ELSE NoText]]
-----------------------------------------------------------------------------
TypeOK ==
  /\ receiver \in [secret : Keys \cup {""}, tolerance : Tolerances]
  /\ clock \in 0 .. MaxClock /\ altered \in BOOLEAN
  /\ message = NoMessage \/ message.payload \in Payloads
  /\ \A s \in signed : s.secret \in Keys /\ s.payload \in Payloads
  /\ verdict \in {"none", "yes", "no", "throws"}
  /\ event.kind \in {"none", "event", "exception"}
  /\ event.kind = "event" =>
       LET asked == Asked(message.payload) IN event.text \in [asked -> asked \cup {NoText}]

Init ==
  /\ receiver \in [secret : Keys \cup {""}, tolerance : Tolerances]
  /\ clock \in 0 .. MaxClock
  /\ message = NoMessage /\ signed = {} /\ altered = FALSE
  /\ verdict = "none" /\ event = NoEvent

\* The sender (external) signs with one secret or, while it changes from one to
\* another, with several; the order of the items is its own, and it may write
\* spaces and an item of another name.
Send ==
  /\ message = NoMessage
  /\ \E p \in Payloads, at \in Stamps, secrets \in SUBSET Keys, spaced \in BOOLEAN :
       LET time == Time(at, "plain")
           signatures == {Sign(k, time, p) : k \in secrets}
           items == {Item("t", time, spaced)} \cup {Item("v1", s, spaced) : s \in signatures}
                      \cup IF spaced THEN {Item("other", Empty, spaced)} ELSE {}
       IN  /\ secrets # {}
           /\ signed' = signatures
           /\ \E header \in SetToSeqs(items) : message' = [payload |-> p, header |-> header]
  /\ UNCHANGED <<receiver, clock, altered, verdict, event>>

\* Changes on the way: another payload, a header cut short, another timestamp, a
\* longer text of it or one that says nothing, an item without its value.
Alter ==
  /\ message # NoMessage /\ ~altered /\ verdict = "none"
  /\ \/ \E p \in Payloads \ {message.payload} : message' = [message EXCEPT !.payload = p]
     \/ \E n \in 0 .. Len(message.header) - 1 :
          message' = [message EXCEPT !.header = SubSeq(@, 1, n)]
     \/ \E i \in DOMAIN message.header, at \in Stamps, form \in {"plain", "trailed", "word"} :
          /\ message.header[i].key = "t"
          /\ message' = [message EXCEPT !.header[i].value = Time(at, form)]
     \/ \E i \in DOMAIN message.header :
          message' = [message EXCEPT !.header[i].value = Empty]
  /\ altered' = TRUE
  /\ UNCHANGED <<receiver, clock, signed, verdict, event>>

\* The header is joined with that of another signature of the payload, before it
\* or behind it, or with one item of that: the last t and the last v1 may then be
\* of two signatures.
Join ==
  /\ message # NoMessage /\ ~altered /\ verdict = "none"
  /\ \E k \in Keys, at \in Stamps :
       LET time == Time(at, "plain")
           made == Sign(k, time, message.payload)
           t    == Item("t", time, FALSE)
           v1   == Item("v1", made, FALSE)
       IN  /\ signed' = signed \cup {made}
           /\ \E more \in {<<t>>, <<v1>>, <<t, v1>>} :
                message' \in {[message EXCEPT !.header = more \o @],
                              [message EXCEPT !.header = @ \o more]}
  /\ altered' = TRUE
  /\ UNCHANGED <<receiver, clock, verdict, event>>

\* The clock is set, forward or back.
SetClock ==
  /\ verdict = "none" /\ message # NoMessage
  /\ clock' \in 0 .. MaxClock
  /\ UNCHANGED <<receiver, message, signed, altered, verdict, event>>

Verify ==
  /\ message # NoMessage /\ verdict = "none"
  /\ verdict' \in Answers(message.payload, message.header, receiver.secret, receiver.tolerance)
  /\ UNCHANGED <<receiver, clock, message, signed, altered, event>>

\* json::parse throws on a text that is no JSON.
Parse ==
  /\ verdict = "yes" /\ event = NoEvent
  /\ event' = IF message.payload.form = "invalid" \/ Throws(message.payload)
              THEN [kind |-> "exception"] ELSE EventOf(message.payload)
  /\ UNCHANGED <<receiver, clock, message, signed, altered, verdict>>

Next == Send \/ Alter \/ Join \/ SetClock \/ Verify \/ Parse

Spec == Init /\ [][Next]_vars
-----------------------------------------------------------------------------
(* Properties.                                                             *)

TimeReceived ==
  message.header[SelectLastInSeq(message.header, LAMBDA i : i.key = "t")].value

\* What verify_signature accepts is a payload that was signed with the
\* receiver's own secret, together with the very timestamp text received, and
\* within the tolerance on either side, whatever the header went through; only
\* a stamp so old that the difference overflows may pass unseen
\* (webhook.cpp:24-52).
AcceptedIsSigned ==
  verdict = "yes" =>
    /\ Sign(receiver.secret, TimeReceived, message.payload) \in signed
    /\ \/ Distance(clock, TimeReceived.at) <= receiver.tolerance
       \/ clock - TimeReceived.at > 2^(Width-1) - 1

\* A header that reaches the receiver as it was sent, signed with its secret
\* and no other, is refused for its age alone: the order of the items, spaces
\* and unknown items do not matter (webhook.cpp:21-37).
GenuineAccepted ==
  /\ verdict = "no" /\ ~altered
  /\ \A s \in signed : s.secret = receiver.secret
  => \/ Distance(clock, TimeReceived.at) > receiver.tolerance
     \/ clock - TimeReceived.at > 2^(Width-1) - 1

\* A header with the signatures of an old and a new secret serves the receiver
\* whose secret signed last and nobody else: the loop keeps one v1
\* (webhook.cpp:24-25).
LastSignatureCounts ==
  verdict = "yes" => LET last == SelectLastInSeq(message.header, LAMBDA i : i.key = "v1")
                     IN  message.header[last].value.secret = receiver.secret

\* The places WebhookEvent has a string for.
InEvent(x) ==
  \/ x.in = "" /\ x.name \in Fields
  \/ x.in = "content" /\ x.nr # 0 /\ x.name \in ItemFields
  \/ x.in = "error" /\ x.nr = 0 /\ x.name \in ErrorFields
  \/ x.in = "clarification" /\ x.nr = 0 /\ x.name = "question"
  \/ x.in = "options" /\ x.nr # 0 /\ x.name = ""

\* An event holds what the payload has at the places of its strings, each at its
\* own, and one content item for each element of the array, also for one that is
\* no object; a value of another type at one of those places yields an exception
\* and never a half-filled event, and nothing else does but a text that is no
\* JSON.  Nothing is said of what lies elsewhere, which is dropped without a word:
\* what is there instead of an object or an array, as in error: "boom" and
\* content: ["x"], or inside one of the other kind (webhook.cpp:57-95).
EventIsPayload ==
  LET p == message.payload
      ours == {x \in DOMAIN p.at : InEvent(x)}
      readable == p.form # "invalid" /\ \A x \in ours : p.at[x] = "string"
  IN  /\ event.kind = "exception" => ~readable
      /\ event.kind = "event" =>
           /\ readable
           /\ {x \in DOMAIN event.text : event.text[x] = x} = ours
           /\ event.items = 1 .. p.length["content"]
=============================================================================
