----------------------------- MODULE WebhookProofs -----------------------------
(***************************************************************************)
(* Proofs about verify_signature, for any secrets, payloads, stamps and    *)
(* tolerances, any width of a long long and any header made of their items.*)
(***************************************************************************)
EXTENDS Webhook, FiniteSetTheorems, SequenceTheorems, WellFoundedInduction, TLAPS

\* What a header can hold.
Times       == [kind : {"time"}, at : Stamps, form : {"plain", "trailed", "word"}]
Signatures  == [kind : {"signature"}, secret : Keys, time : Times, payload : Payloads]
HeaderItems == [key : {"t", "v1", "other"}, value : {Empty} \cup Times \cup Signatures,
                spaced : BOOLEAN]
Messages    == [payload : Payloads, header : Seq(HeaderItems)]

Types ==
  /\ receiver \in [secret : Keys \cup {""}, tolerance : Tolerances]
  /\ clock \in 0 .. MaxClock
  /\ message = NoMessage \/ message \in Messages
  /\ message = NoMessage => verdict = "none"

Places == 1 .. Len(message.header)

\* Nothing on the way makes a signature.
Provenance ==
  \A i \in Places :
    /\ message.header[i].key = "v1" => message.header[i].value \in {Empty} \cup signed
    /\ message.header[i].key = "t" => message.header[i].value \in {Empty} \cup Times

\* What the sender has sent and nobody changed.
SignedWith(stamp, keys) == signed = {Sign(k, stamp, message.payload) : k \in keys}
Carries(stamp) ==
  \A i \in Places : /\ message.header[i].key = "t" => message.header[i].value = stamp
                    /\ message.header[i].key = "v1" => message.header[i].value \in signed

HasBoth ==
  /\ \E i \in Places : message.header[i].key = "t"
  /\ \E i \in Places : message.header[i].key = "v1"

AsSent ==
  message # NoMessage /\ ~altered =>
    /\ HasBoth
    /\ \E at \in Stamps, keys \in SUBSET Keys : SignedWith(Time(at, "plain"), keys)
                                                /\ Carries(Time(at, "plain"))

IInv == Types /\ Provenance /\ AsSent /\ AcceptedIsSigned /\ GenuineAccepted /\ LastSignatureCounts
-----------------------------------------------------------------------------
(* The last item with a key.                                               *)

LEMMA LastExists ==
  ASSUME NEW n \in Nat, NEW T \in SUBSET (1 .. n), T # {}
  PROVE  Max(T) \in T
<1> DEFINE R == {p \in Nat \X Nat : p[1] < p[2]}
           U == {k \in 0 .. n : n - k \in T}
<1>1. IsWellFoundedOn(R, Nat)
  BY NatLessThanWellFounded DEF OpToRel
<1>2. U \subseteq Nat /\ U # {}
  <2>1. PICK i \in T : TRUE
    OBVIOUS
  <2>2. n - i \in 0 .. n /\ n - (n - i) = i
    BY <2>1
  <2>3. n - i \in U
    BY <2>1, <2>2
  <2>4. U \subseteq Nat
    OBVIOUS
  <2> HIDE DEF U
  <2> QED  BY <2>3, <2>4
<1>3. PICK k \in U : \A j \in U : ~(<<j, k>> \in R)
  <2> HIDE DEF R, U
  <2> QED  BY <1>1, <1>2, WFMin
<1>4. n - k \in T /\ k \in Nat
  OBVIOUS
<1>5. ASSUME NEW j \in T  PROVE n - k >= j
  <2>1. n - j \in U /\ n - j \in Nat /\ j \in Nat
    BY <1>5
  <2>2. ~(n - j < k)
    BY <1>3, <1>4, <2>1
  <2> QED  BY <1>4, <2>1, <2>2
<1> QED  BY <1>4, <1>5 DEF Max

LEMMA LastItem ==
  ASSUME NEW H, NEW header \in Seq(H), NEW key
  PROVE  LET last == SelectLastInSeq(header, LAMBDA i : i.key = key)
         IN  \/ /\ LastValue(header, key) = Empty
                /\ \A i \in 1 .. Len(header) : header[i].key # key
             \/ /\ last \in 1 .. Len(header) /\ header[last].key = key
                /\ LastValue(header, key) = header[last].value
<1> DEFINE T == {i \in 1 .. Len(header) : header[i].key = key}
<1>1. Len(header) \in Nat
  BY LenProperties
<1>2. T # {} => Max(T) \in T
  BY <1>1, LastExists
<1>3. SelectLastInSeq(header, LAMBDA i : i.key = key) = IF T # {} THEN Max(T) ELSE 0
  BY DEF SelectLastInSeq
<1>4. LastValue(header, key) = IF T # {} /\ Max(T) # 0 THEN header[Max(T)].value ELSE Empty
  BY <1>1, <1>2 DEF LastValue, SelectLastInSeq, KeyOf
<1> QED  BY <1>1, <1>2, <1>3, <1>4
-----------------------------------------------------------------------------
(* What the sender sends.                                                  *)

\* A sequence that lists a finite set has each of its elements.
LEMMA ListsAll ==
  ASSUME NEW S, IsFiniteSet(S), NEW header \in SetToSeqs(S)
  PROVE  /\ header \in Seq(S) /\ Len(header) \in Nat
         /\ \A x \in S : \E i \in 1 .. Len(header) : header[i] = x
<1> DEFINE n == Cardinality(S)
<1>1. n \in Nat
  BY FS_CardinalityType
<1>2. header \in [1 .. n -> S] /\ \A i, j \in 1 .. n : i # j => header[i] # header[j]
  BY DEF SetToSeqs
<1>3. header \in Seq(S) /\ Len(header) = n
  BY <1>1, <1>2
<1>4. header \in Injection(1 .. n, S)
  BY <1>2 DEF Injection, IsInjective
<1>5. Cardinality(1 .. n) = n
  BY <1>1, FS_Interval
<1>6. header \in Surjection(1 .. n, S)
  BY <1>4, <1>5, FS_Injection
<1> QED  BY <1>1, <1>3, <1>6 DEF Surjection

\* The items of a message with some signatures of a finite number of keys.
LEMMA ItemsAreFinite ==
  ASSUME NEW secrets \in SUBSET Keys, NEW time, NEW p, NEW spaced
  PROVE  LET signatures == {Sign(k, time, p) : k \in secrets}
         IN  IsFiniteSet({Item("t", time, spaced)}
               \cup {Item("v1", s, spaced) : s \in signatures}
               \cup IF spaced THEN {Item("other", Empty, spaced)} ELSE {})
<1> DEFINE signatures == {Sign(k, time, p) : k \in secrets}
           items == {Item("v1", s, spaced) : s \in signatures}
           f == [k \in secrets |-> Item("v1", Sign(k, time, p), spaced)]
<1>1. IsFiniteSet(secrets)
  BY WebhookAssumption, FS_Subset
<1>2. f \in Surjection(secrets, items)
  BY DEF Surjection
<1>3. IsFiniteSet(items)
  BY <1>1, <1>2, FS_Surjection
<1>4. /\ IsFiniteSet({Item("t", time, spaced)})
      /\ IsFiniteSet(IF spaced THEN {Item("other", Empty, spaced)} ELSE {})
  BY FS_Singleton, FS_EmptySet
<1> HIDE DEF items
<1>5. IsFiniteSet({Item("t", time, spaced)} \cup items)
  BY <1>3, <1>4, FS_Union
<1>6. IsFiniteSet(({Item("t", time, spaced)} \cup items)
                    \cup IF spaced THEN {Item("other", Empty, spaced)} ELSE {})
  BY <1>4, <1>5, FS_Union
<1> QED  BY <1>6 DEF items

LEMMA RecordFields ==
  /\ \A key, value, spaced : /\ Item(key, value, spaced).key = key
                             /\ Item(key, value, spaced).value = value
  /\ \A at, form : Time(at, form).kind = "time" /\ Time(at, form).at = at /\ Time(at, form).form = form
  /\ \A k, time, p : Sign(k, time, p).kind = "signature" /\ Sign(k, time, p).secret = k
  /\ Empty.kind = "empty"
BY DEF Item, Time, Sign, Empty

LEMMA SendKeeps ==
  ASSUME Types, Send
  PROVE  Types' /\ Provenance' /\ AsSent'
<1>1. PICK p \in Payloads, at \in Stamps, secrets \in SUBSET Keys, spaced \in BOOLEAN :
        LET time == Time(at, "plain")
            signatures == {Sign(k, time, p) : k \in secrets}
            items == {Item("t", time, spaced)} \cup {Item("v1", s, spaced) : s \in signatures}
                       \cup IF spaced THEN {Item("other", Empty, spaced)} ELSE {}
        IN  /\ secrets # {}
            /\ signed' = signatures
            /\ \E header \in SetToSeqs(items) : message' = [payload |-> p, header |-> header]
  BY DEF Send
<1>0. PICK time \in Times : time = Time(at, "plain")
  BY DEF Times, Time
<1> DEFINE signatures == {Sign(k, time, p) : k \in secrets}
           items == {Item("t", time, spaced)} \cup {Item("v1", s, spaced) : s \in signatures}
                      \cup IF spaced THEN {Item("other", Empty, spaced)} ELSE {}
<1>2. PICK header \in SetToSeqs(items) : message' = [payload |-> p, header |-> header]
  BY <1>0, <1>1
<1>3. /\ message'.payload = p /\ message'.header = header /\ signed' = signatures
      /\ UNCHANGED <<receiver, clock, altered, verdict>>
  BY <1>0, <1>1, <1>2 DEF Send
<1>4. time \in Times /\ signatures \subseteq Signatures
  <2>1. time \in Times
    BY <1>0 DEF Times, Time
  <2>2. \A k \in secrets : Sign(k, time, p) \in Signatures
    BY <2>1 DEF Signatures, Sign
  <2> QED  BY <2>1, <2>2
<1>5. /\ header \in Seq(items) /\ Len(header) \in Nat
      /\ \A x \in items : \E i \in 1 .. Len(header) : header[i] = x
  <2>1. IsFiniteSet(items)
    BY ItemsAreFinite
  <2> HIDE DEF items
  <2> QED  BY <1>2, <2>1, ListsAll
<1>6. \A i \in 1 .. Len(header) : header[i] \in items
  BY <1>5, ElementOfSeq
<1>7. \A x \in items :
        /\ x \in HeaderItems
        /\ x.key = "t" => x.value = time
        /\ x.key = "v1" => x.value \in signatures
  <2> SUFFICES ASSUME NEW x \in items
               PROVE  /\ x \in HeaderItems
                      /\ x.key = "t" => x.value = time
                      /\ x.key = "v1" => x.value \in signatures
    OBVIOUS
  <2>1. CASE x = Item("t", time, spaced)
    BY <1>4, <2>1, RecordFields DEF Item, HeaderItems
  <2>2. ASSUME NEW s \in signatures, x = Item("v1", s, spaced)
        PROVE  /\ x \in HeaderItems
               /\ x.key = "t" => x.value = time
               /\ x.key = "v1" => x.value \in signatures
    <3>1. s \in Signatures
      BY <1>4, <2>2
    <3> HIDE DEF signatures
    <3>2. x \in HeaderItems /\ x.key = "v1" /\ x.value = s
      BY <2>2, <3>1 DEF Item, HeaderItems
    <3> QED  BY <2>2, <3>2
  <2>3. CASE x = Item("other", Empty, spaced)
    BY <2>3, RecordFields DEF Item, HeaderItems
  <2> QED  BY <2>1, <2>2, <2>3
<1> HIDE DEF signatures
<1>8. /\ \E x \in items : x.key = "t"
      /\ \E x \in items : x.key = "v1"
  <2>1. PICK k \in secrets : Sign(k, time, p) \in signatures
    BY <1>1 DEF signatures
  <2> QED  BY <2>1, RecordFields
<1> HIDE DEF items
<1>9. message' \in Messages
  <2>1. header \in Seq(HeaderItems)
    BY <1>5, <1>7, SeqMonotonic
  <2> QED  BY <1>2, <2>1 DEF Messages
<1>10. Types'
  BY <1>3, <1>9 DEF Types, Send
<1>11. Provenance'
  BY <1>3, <1>4, <1>6, <1>7 DEF Provenance, Places
<1>12. AsSent'
  <2>1. \A i \in Places' : /\ message'.header[i].key = "t" => message'.header[i].value = time
                           /\ message'.header[i].key = "v1" => message'.header[i].value \in signed'
    BY <1>3, <1>6, <1>7 DEF Places
  <2>2. /\ \E i \in Places' : message'.header[i].key = "t"
        /\ \E i \in Places' : message'.header[i].key = "v1"
    <3>1. ASSUME NEW x \in items
          PROVE  \E i \in Places' : message'.header[i] = x
      BY <1>3, <1>5 DEF Places
    <3>2. PICK x, y \in items : x.key = "t" /\ y.key = "v1"
      BY <1>8
    <3>3. /\ \E i \in Places' : message'.header[i] = x
          /\ \E i \in Places' : message'.header[i] = y
      BY <3>1
    <3> QED  BY <3>2, <3>3 
  <2>3. signed' = {Sign(k, time, message'.payload) : k \in secrets}
    BY <1>3 DEF signatures
  <2>4. SignedWith(time, secrets)'
    BY <2>3 DEF SignedWith
  <2>5. Carries(time)'
    BY <2>1 DEF Carries
  <2>6. HasBoth'
    BY <2>2 DEF HasBoth
  <2> QED  BY <1>0, <2>4, <2>5, <2>6 DEF AsSent
<1> QED  BY <1>10, <1>11, <1>12
-----------------------------------------------------------------------------
(* What happens on the way.                                                *)

\* An item with another value.
LEMMA OtherValue ==
  ASSUME message \in Messages, NEW i \in Places, NEW v \in {Empty} \cup Times,
         message' =
           [message EXCEPT !.header =
             [message.header EXCEPT ![i] = [message.header[i] EXCEPT !.value = v]]]
  PROVE  /\ message' \in Messages
         /\ Places' = Places
         /\ \A j \in Places :
              /\ message'.header[j].key = message.header[j].key
              /\ j = i => message'.header[j].value = v
              /\ j # i => message'.header[j].value = message.header[j].value
<1> DEFINE item == [message.header[i] EXCEPT !.value = v]
           header == [message.header EXCEPT ![i] = item]
<1>1. message.header \in Seq(HeaderItems) /\ message.header[i] \in HeaderItems
  BY ElementOfSeq DEF Messages, Places
<1>2. item \in HeaderItems /\ item.key = message.header[i].key /\ item.value = v
  BY <1>1 DEF HeaderItems
<1>3. message' = [message EXCEPT !.header = header]
  OBVIOUS
<1> HIDE DEF item
<1>4. /\ header \in Seq(HeaderItems) /\ Len(header) = Len(message.header)
      /\ \A j \in Places : header[j] = IF j = i THEN item ELSE message.header[j]
  BY <1>1, <1>2, ExceptSeq DEF Places
<1> HIDE DEF header
<1>5. message' \in Messages /\ message'.header = header
  BY <1>3, <1>4 DEF Messages
<1>6. Places' = Places
  BY <1>4, <1>5 DEF Places
<1>7. ASSUME NEW j \in Places
      PROVE  /\ message'.header[j].key = message.header[j].key
             /\ j = i => message'.header[j].value = v
             /\ j # i => message'.header[j].value = message.header[j].value
  <2>1. message'.header[j] = IF j = i THEN item ELSE message.header[j]
    BY <1>4, <1>5, Zenon
  <2>2. CASE j = i
    <3>1. message'.header[j] = item /\ message.header[j] = message.header[i]
      BY <2>1, <2>2, Zenon
    <3>2. message'.header[j].key = item.key /\ message'.header[j].value = item.value
      BY <3>1, Zenon
    <3> QED  BY <1>2, <2>2, <3>1, <3>2, Zenon
  <2>3. CASE j # i
    BY <2>1, <2>3, Zenon
  <2> QED  BY <2>2, <2>3
<1> QED  BY <1>5, <1>6, <1>7

LEMMA AlterKeeps ==
  ASSUME Types, Provenance, AsSent, Alter
  PROVE  Types' /\ Provenance' /\ AsSent'
<1>1. /\ message \in Messages /\ message # NoMessage /\ ~altered /\ altered' = TRUE
      /\ verdict = "none" /\ UNCHANGED <<receiver, clock, signed, verdict, event>>
  BY DEF Alter, Types
<1>2. AsSent'
  BY <1>1 DEF AsSent
<1>3. message' \in Messages => Types'
  BY <1>1 DEF Types
<1>4. ASSUME NEW p \in Payloads, message' = [message EXCEPT !.payload = p]
      PROVE  Types' /\ Provenance'
  <2>1. message' \in Messages /\ message'.header = message.header
    BY <1>1, <1>4 DEF Messages
  <2> QED  BY <1>1, <1>3, <2>1 DEF Provenance, Places
<1>5. ASSUME NEW n \in 0 .. Len(message.header) - 1,
             message' = [message EXCEPT !.header = SubSeq(@, 1, n)]
      PROVE  Types' /\ Provenance'
  <2>1. message.header \in Seq(HeaderItems) /\ Len(message.header) \in Nat
    BY <1>1, LenProperties DEF Messages
  <2>2. \A i \in 1 .. n : i \in 1 .. Len(message.header)
    BY <2>1
  <2>3. /\ SubSeq(message.header, 1, n) \in Seq(HeaderItems)
        /\ Len(SubSeq(message.header, 1, n)) = n
        /\ \A i \in 1 .. n : SubSeq(message.header, 1, n)[i] = message.header[i]
    BY <2>1, <2>2
  <2>4. message' \in Messages /\ message'.header = SubSeq(message.header, 1, n)
    BY <1>1, <1>5, <2>3 DEF Messages
  <2> QED  BY <1>1, <1>3, <2>2, <2>3, <2>4 DEF Provenance, Places
<1>6. ASSUME NEW i \in Places, NEW v \in {Empty} \cup Times,
             message.header[i].key # "t" => v = Empty,
             message' =
               [message EXCEPT !.header =
                 [message.header EXCEPT ![i] = [message.header[i] EXCEPT !.value = v]]]
      PROVE  Types' /\ Provenance'
  <2>1. message' \in Messages
    BY <1>1, <1>6, OtherValue
  <2>2. Provenance'
    BY <1>1, <1>6, OtherValue DEF Provenance
  <2> QED  BY <1>3, <2>1, <2>2
<1>7. ASSUME NEW i \in Places, NEW at \in Stamps, NEW form \in {"plain", "trailed", "word"},
             message.header[i].key = "t",
             message' = [message EXCEPT !.header[i].value = Time(at, form)]
      PROVE  Types' /\ Provenance'
  <2>1. Time(at, form) \in Times
    BY DEF Time, Times
  <2>2. message' =
          [message EXCEPT !.header =
            [message.header EXCEPT ![i] = [message.header[i] EXCEPT !.value = Time(at, form)]]]
    BY <1>7
  <2> QED  BY <1>6, <1>7, <2>1, <2>2
<1>8. ASSUME NEW i \in Places, message' = [message EXCEPT !.header[i].value = Empty]
      PROVE  Types' /\ Provenance'
  <2>1. message' =
          [message EXCEPT !.header =
            [message.header EXCEPT ![i] = [message.header[i] EXCEPT !.value = Empty]]]
    BY <1>8
  <2> QED  BY <1>6, <2>1
<1>9. DOMAIN message.header = Places
  BY <1>1, LenProperties DEF Messages, Places
<1> QED  BY <1>2, <1>4, <1>5, <1>7, <1>8, <1>9 DEF Alter

\* Two headers whose signatures were made, one behind the other.
LEMMA BothMade ==
  ASSUME NEW a \in Seq(HeaderItems), NEW b \in Seq(HeaderItems), NEW made,
         \A h \in {a, b} : \A i \in 1 .. Len(h) :
           /\ h[i].key = "v1" => h[i].value \in {Empty} \cup made
           /\ h[i].key = "t" => h[i].value \in {Empty} \cup Times
  PROVE  /\ a \o b \in Seq(HeaderItems)
         /\ \A i \in 1 .. Len(a \o b) :
              /\ (a \o b)[i].key = "v1" => (a \o b)[i].value \in {Empty} \cup made
              /\ (a \o b)[i].key = "t" => (a \o b)[i].value \in {Empty} \cup Times
<1> DEFINE ab == a \o b
<1>1. /\ ab \in Seq(HeaderItems) /\ Len(ab) = Len(a) + Len(b)
      /\ \A i \in 1 .. Len(a) + Len(b) : ab[i] = IF i <= Len(a) THEN a[i] ELSE b[i - Len(a)]
  BY ConcatProperties
<1>2. Len(a) \in Nat /\ Len(b) \in Nat
  BY LenProperties
<1> HIDE DEF ab
<1>3. ASSUME NEW i \in 1 .. Len(ab)
      PROVE  /\ ab[i].key = "v1" => ab[i].value \in {Empty} \cup made
             /\ ab[i].key = "t" => ab[i].value \in {Empty} \cup Times
  <2>1. CASE i <= Len(a)
    <3>1. i \in 1 .. Len(a) /\ ab[i] = a[i]
      BY <1>1, <1>2, <2>1
    <3> QED  BY <3>1
  <2>2. CASE i > Len(a)
    <3>1. i - Len(a) \in 1 .. Len(b) /\ ab[i] = b[i - Len(a)]
      BY <1>1, <1>2, <2>2
    <3> QED  BY <3>1
  <2> QED  BY <1>1, <1>2, <2>1, <2>2
<1> QED  BY <1>1, <1>3 DEF ab

LEMMA JoinKeeps ==
  ASSUME Types, Provenance, Join
  PROVE  Types' /\ Provenance' /\ AsSent'
<1>1. /\ message \in Messages /\ altered' = TRUE
      /\ verdict = "none" /\ UNCHANGED <<receiver, clock, verdict>>
  BY DEF Join, Types
<1>2. PICK k \in Keys, at \in Stamps :
        LET time == Time(at, "plain")
            made == Sign(k, time, message.payload)
            t    == Item("t", time, FALSE)
            v1   == Item("v1", made, FALSE)
        IN  /\ signed' = signed \cup {made}
            /\ \E more \in {<<t>>, <<v1>>, <<t, v1>>} :
                 message' \in {[message EXCEPT !.header = more \o @],
                               [message EXCEPT !.header = @ \o more]}
  BY DEF Join
<1> DEFINE time == Time(at, "plain")
           made == Sign(k, time, message.payload)
           t    == Item("t", time, FALSE)
           v1   == Item("v1", made, FALSE)
<1>3. PICK more \in {<<t>>, <<v1>>, <<t, v1>>} :
        message' \in {[message EXCEPT !.header = more \o @],
                      [message EXCEPT !.header = @ \o more]}
  BY <1>2
<1>4. signed' = signed \cup {made}
  BY <1>2
<1>5. /\ t \in HeaderItems /\ t.key = "t" /\ t.value \in Times
      /\ v1 \in HeaderItems /\ v1.key = "v1" /\ v1.value = made
  <2>1. time \in Times
    BY DEF Time, Times
  <2>2. made \in Signatures
    BY <1>1, <2>1 DEF Sign, Signatures, Messages
  <2> HIDE DEF time, made
  <2> QED  BY <2>1, <2>2 DEF Item, HeaderItems
<1> HIDE DEF t, v1, made, time
<1>6. /\ more \in Seq(HeaderItems)
      /\ \A i \in 1 .. Len(more) :
           /\ more[i].key = "v1" => more[i].value \in {Empty} \cup signed'
           /\ more[i].key = "t" => more[i].value \in {Empty} \cup Times
  <2>1. CASE more = <<t>>
    BY <1>4, <1>5, <2>1
  <2>2. CASE more = <<v1>>
    BY <1>4, <1>5, <2>2
  <2>3. CASE more = <<t, v1>>
    BY <1>4, <1>5, <2>3
  <2> QED  BY <1>3, <2>1, <2>2, <2>3
<1>7. /\ message.header \in Seq(HeaderItems)
      /\ \A i \in 1 .. Len(message.header) :
           /\ message.header[i].key = "v1" => message.header[i].value \in {Empty} \cup signed'
           /\ message.header[i].key = "t" => message.header[i].value \in {Empty} \cup Times
  BY <1>1, <1>4 DEF Messages, Provenance, Places
<1>8. ASSUME NEW a \in {more, message.header}, NEW b \in {more, message.header},
             message' = [message EXCEPT !.header = a \o b]
      PROVE  Types' /\ Provenance'
  <2>0. /\ a \o b \in Seq(HeaderItems)
        /\ \A i \in 1 .. Len(a \o b) :
             /\ (a \o b)[i].key = "v1" => (a \o b)[i].value \in {Empty} \cup signed'
             /\ (a \o b)[i].key = "t" => (a \o b)[i].value \in {Empty} \cup Times
    <3>1. /\ a \in Seq(HeaderItems) /\ b \in Seq(HeaderItems)
          /\ \A h \in {a, b} : \A i \in 1 .. Len(h) :
               /\ h[i].key = "v1" => h[i].value \in {Empty} \cup signed'
               /\ h[i].key = "t" => h[i].value \in {Empty} \cup Times
      BY <1>6, <1>7, Zenon
    <3> QED  BY <3>1, BothMade
  <2>1. message' \in Messages /\ message'.header = a \o b
    <3> DEFINE ab == a \o b
    <3>1. message' = [message EXCEPT !.header = ab] /\ ab \in Seq(HeaderItems)
      BY <1>8, <2>0
    <3> HIDE DEF ab
    <3>2. message' \in Messages /\ message'.header = ab
      BY <1>1, <3>1 DEF Messages
    <3> QED  BY <3>2 DEF ab
  <2>2. Provenance'
    BY <2>0, <2>1, Zenon DEF Provenance, Places
  <2> QED  BY <1>1, <2>1, <2>2 DEF Types
<1> QED  BY <1>1, <1>3, <1>8 DEF AsSent
-----------------------------------------------------------------------------
(* The answer.                                                             *)

\* The places and values verify_signature judges by.
LastTime      == SelectLastInSeq(message.header, LAMBDA i : i.key = "t")
LastSignature == SelectLastInSeq(message.header, LAMBDA i : i.key = "v1")

\* What verify_signature reads from a header is Empty or at the last place.
LEMMA ReadFromHeader ==
  ASSUME message \in Messages
  PROVE  /\ \/ /\ LastValue(message.header, "t") = Empty
               /\ \A i \in Places : message.header[i].key # "t"
            \/ /\ LastTime \in Places /\ message.header[LastTime].key = "t"
               /\ LastValue(message.header, "t") = message.header[LastTime].value
         /\ \/ /\ LastValue(message.header, "v1") = Empty
               /\ \A i \in Places : message.header[i].key # "v1"
            \/ /\ LastSignature \in Places /\ message.header[LastSignature].key = "v1"
               /\ LastValue(message.header, "v1") = message.header[LastSignature].value
<1>1. message.header \in Seq(HeaderItems)
  BY DEF Messages
<1> QED  BY <1>1, LastItem DEF LastTime, LastSignature, Places

LEMMA TimesAreIntegers ==
  /\ \A t \in Times : t.at \in Int
  /\ \A at \in Stamps : at \in Int
  /\ \A now \in 0 .. MaxClock : now \in Int
<1>1. Stamps \subseteq -(2^(Width-1)) .. 2^(Width-1) - 1
  BY WebhookAssumption, Zenon
<1>2. \A at \in Stamps : at \in Int
  BY <1>1
<1>3. \A t \in Times : t.at \in Stamps
  BY DEF Times
<1> QED  BY <1>2, <1>3

\* A stamp that may pass is not too far away, one that may fail is, unless the
\* difference overflows.
LEMMA StaleMeans ==
  ASSUME clock \in Int, NEW at \in Int, NEW tolerance \in Int
  PROVE  /\ FALSE \in Stale(at, tolerance) =>
              Distance(clock, at) <= tolerance \/ clock - at > 2^(Width-1) - 1
         /\ TRUE \in Stale(at, tolerance) =>
              Distance(clock, at) > tolerance \/ clock - at > 2^(Width-1) - 1
         /\ Stale(at, tolerance) \subseteq BOOLEAN
<1>1. Distance(clock, at) \in Int
  BY DEF Distance
<1>2. PICK d \in Int : d = Distance(clock, at)
  BY <1>1
<1>3. \/ clock - at > 2^(Width-1) - 1 /\ Stale(at, tolerance) = BOOLEAN
      \/ Stale(at, tolerance) = {d > tolerance}
  BY <1>2, Zenon DEF Stale
<1>4. /\ FALSE \in {d > tolerance} => d <= tolerance
      /\ TRUE \in {d > tolerance} => d > tolerance
      /\ {d > tolerance} \subseteq BOOLEAN
  <2>1. FALSE \in {d > tolerance} => d <= tolerance
    <3>1. FALSE \in {d > tolerance} => ~(d > tolerance)
      BY Zenon
    <3> QED  BY <1>2, <3>1
  <2>2. TRUE \in {d > tolerance} => d > tolerance
    BY <1>2
  <2>3. {d > tolerance} \subseteq BOOLEAN
    BY <1>2
  <2> QED  BY <2>1, <2>2, <2>3
<1> QED  BY <1>2, <1>3, <1>4, Zenon

\* Where neither the message nor what it is judged against moves, the three
\* properties are about the answer.
LEMMA VerifyKeeps ==
  ASSUME Types, Provenance, AsSent, Verify
  PROVE  AcceptedIsSigned' /\ GenuineAccepted' /\ LastSignatureCounts'
<1> DEFINE time == LastValue(message.header, "t")
           signature == LastValue(message.header, "v1")
           expected == Sign(receiver.secret, time, message.payload)
<1>1. /\ message \in Messages /\ message # NoMessage
      /\ receiver.tolerance \in Int /\ clock \in Int
      /\ UNCHANGED <<receiver, clock, message, signed, altered>>
      /\ verdict' \in Answers(message.payload, message.header, receiver.secret, receiver.tolerance)
  <2>1. /\ message \in Messages /\ message # NoMessage
        /\ receiver.tolerance \in Tolerances /\ clock \in 0 .. MaxClock
    BY DEF Verify, Types
  <2>2. Tolerances \subseteq Int
    BY WebhookAssumption, Zenon
  <2>3. receiver.tolerance \in Int /\ clock \in Int
    BY <2>1, <2>2, TimesAreIntegers
  <2> QED  BY <2>1, <2>3, Zenon DEF Verify
<1>2. /\ TimeReceived = message.header[LastTime].value /\ TimeReceived' = TimeReceived
      /\ LastSignature' = LastSignature
  BY <1>1 DEF TimeReceived, LastTime, LastSignature, SelectLastInSeq
<1>3. \A t \in Times : t.at \in Int
  BY TimesAreIntegers
<1>4. ASSUME NEW at \in Int
      PROVE  /\ FALSE \in Stale(at, receiver.tolerance) =>
                  \/ Distance(clock, at) <= receiver.tolerance
                  \/ clock - at > 2^(Width-1) - 1
             /\ TRUE \in Stale(at, receiver.tolerance) =>
                  \/ Distance(clock, at) > receiver.tolerance
                  \/ clock - at > 2^(Width-1) - 1
  BY <1>1, StaleMeans
<1>5. ASSUME verdict' = "yes"
      PROVE  /\ time # Empty /\ signature # Empty
             /\ FALSE \in Stale(time.at, receiver.tolerance)
             /\ expected = signature
  <2> DEFINE answers == {IF stale \/ expected # signature THEN "no" ELSE "yes" :
                            stale \in Stale(time.at, receiver.tolerance)}
  <2>1. verdict' \in IF receiver.secret = "" THEN {"throws"}
                     ELSE IF Empty \in {time, signature} \/ ~IsNumber(time) THEN {"no"}
                     ELSE answers
    BY <1>1, Zenon DEF Answers, Expected
  <2> HIDE DEF answers
  <2>2. verdict' \in answers /\ Empty \notin {time, signature}
    BY <1>5, <2>1
  <2>3. PICK stale \in Stale(time.at, receiver.tolerance) :
          "yes" = IF stale \/ expected # signature THEN "no" ELSE "yes"
    BY <1>5, <2>2, Zenon DEF answers
  <2>4. ~stale /\ expected = signature
    BY <2>3
  <2>5. time \in Times
    BY <1>1, <2>2, ReadFromHeader DEF Provenance
  <2>6. time.at \in Int
    BY <1>3, <2>5
  <2>7. stale \in BOOLEAN
    BY <1>1, <2>6, StaleMeans, Zenon
  <2> QED  BY <2>2, <2>4, <2>7
<1>6. ASSUME verdict' = "yes"
      PROVE  AcceptedIsSigned' /\ LastSignatureCounts'
  <2>1. /\ LastTime \in Places /\ message.header[LastTime].key = "t"
        /\ time = message.header[LastTime].value
        /\ LastSignature \in Places /\ message.header[LastSignature].key = "v1"
        /\ signature = message.header[LastSignature].value
    BY <1>1, <1>5, <1>6, ReadFromHeader
  <2>2. signature \in signed /\ time \in Times
    BY <1>5, <1>6, <2>1 DEF Provenance
  <2>3. \/ Distance(clock, time.at) <= receiver.tolerance
        \/ clock - time.at > 2^(Width-1) - 1
    <3>1. FALSE \in Stale(time.at, receiver.tolerance) /\ time.at \in Int
      BY <1>3, <1>5, <1>6, <2>2
    <3> HIDE DEF time
    <3> QED  BY <1>4, <3>1, Zenon
  <2>4. signature.secret = receiver.secret
    BY <1>5, <1>6, RecordFields
  <2> HIDE DEF time, signature
  <2>5. AcceptedIsSigned'
    BY <1>1, <1>2, <1>5, <1>6, <2>1, <2>2, <2>3 DEF AcceptedIsSigned
  <2>6. LastSignatureCounts'
    BY <1>1, <1>2, <2>1, <2>4 DEF LastSignatureCounts, LastSignature
  <2> QED  BY <2>5, <2>6
<1>7. ASSUME verdict' = "no", ~altered, \A s \in signed : s.secret = receiver.secret
      PROVE  \/ Distance(clock, TimeReceived.at) > receiver.tolerance
             \/ clock - TimeReceived.at > 2^(Width-1) - 1
  <2>1. PICK at \in Stamps, keys \in SUBSET Keys : SignedWith(Time(at, "plain"), keys)
                                                   /\ Carries(Time(at, "plain"))
    BY <1>1, <1>7 DEF AsSent
  <2>2. /\ LastTime \in Places /\ message.header[LastTime].key = "t"
        /\ time = message.header[LastTime].value
        /\ LastSignature \in Places /\ message.header[LastSignature].key = "v1"
        /\ signature = message.header[LastSignature].value
    BY <1>1, <1>7, ReadFromHeader DEF AsSent, HasBoth
  <2>3. time = Time(at, "plain") /\ signature \in signed
    BY <2>1, <2>2 DEF Carries
  <2>4. PICK k \in keys : signature = Sign(k, Time(at, "plain"), message.payload)
    BY <2>1, <2>3 DEF SignedWith
  <2>5. k = receiver.secret
    BY <1>7, <2>3, <2>4, RecordFields
  <2>6. signature = expected
    BY <2>3, <2>4, <2>5
  <2>7. time.at = at /\ at \in Int /\ IsNumber(time) /\ time # Empty /\ signature # Empty
    <3>1. time.form = "plain" /\ time.at = at /\ time.kind = "time" /\ signature.kind = "signature"
      BY <2>3, <2>4, RecordFields
    <3>2. "plain" # "word" /\ "time" # "empty" /\ "signature" # "empty"
      OBVIOUS
    <3> QED  BY <3>1, <3>2, RecordFields, TimesAreIntegers, Zenon DEF IsNumber
  <2> HIDE DEF time, signature
  <2>8. TRUE \in Stale(at, receiver.tolerance)
    BY <1>1, <1>7, <2>6, <2>7 DEF Answers, Expected, time, signature
  <2> QED  BY <1>2, <1>4, <2>2, <2>7, <2>8
<1>8. GenuineAccepted'
  BY <1>1, <1>2, <1>7 DEF GenuineAccepted
<1> QED  BY <1>6, <1>8 DEF AcceptedIsSigned, LastSignatureCounts
-----------------------------------------------------------------------------
LEMMA InitIInv ==
  ASSUME Init
  PROVE  IInv
<1>1. Types
  BY DEF Init, Types
<1>2. Provenance
  <2>1. message.header = <<>> /\ Len(<<>>) = 0
    BY DEF Init, NoMessage
  <2>2. \A i \in Places : FALSE
    BY <2>1 DEF Places
  <2> QED  BY <2>2 DEF Provenance
<1>3. AsSent
  BY DEF Init, AsSent
<1>4. AcceptedIsSigned /\ GenuineAccepted /\ LastSignatureCounts
  BY DEF Init, AcceptedIsSigned, GenuineAccepted, LastSignatureCounts
<1> QED  BY <1>1, <1>2, <1>3, <1>4 DEF IInv

LEMMA NextIInv ==
  IInv /\ [Next]_vars => IInv'
<1> SUFFICES ASSUME IInv, [Next]_vars
             PROVE  IInv'
  OBVIOUS
<1> USE DEF IInv
<1>1. ASSUME verdict' = "none"
      PROVE  AcceptedIsSigned' /\ GenuineAccepted' /\ LastSignatureCounts'
  BY <1>1 DEF AcceptedIsSigned, GenuineAccepted, LastSignatureCounts
<1>2. CASE Send
  BY <1>1, <1>2, SendKeeps DEF Send, Types
<1>3. CASE Alter
  BY <1>1, <1>3, AlterKeeps DEF Alter
<1>7. CASE Join
  BY <1>1, <1>7, JoinKeeps DEF Join
<1>4. CASE SetClock
  <2>1. UNCHANGED <<receiver, message, signed, altered, verdict>> /\ clock' \in 0 .. MaxClock
    BY <1>4 DEF SetClock
  <2>2. Types'
    BY <2>1 DEF Types
  <2>3. Provenance' /\ AsSent'
    BY <2>1 DEF Provenance, AsSent, HasBoth, SignedWith, Carries, Places
  <2> QED  BY <1>1, <1>4, <2>1, <2>2, <2>3 DEF SetClock
<1>5. CASE Verify
  <2>1. UNCHANGED <<receiver, clock, message, signed, altered>> /\ message # NoMessage
    BY <1>5 DEF Verify
  <2>2. Types'
    BY <2>1 DEF Types
  <2>3. Provenance' /\ AsSent'
    BY <2>1 DEF Provenance, AsSent, HasBoth, SignedWith, Carries, Places
  <2> QED  BY <1>5, <2>2, <2>3, VerifyKeeps
<1>6. CASE UNCHANGED <<receiver, clock, message, signed, altered, verdict>>
  <2>1. Types'
    BY <1>6 DEF Types
  <2>2. Provenance' /\ AsSent'
    BY <1>6 DEF Provenance, AsSent, HasBoth, SignedWith, Carries, Places
  <2>3. TimeReceived' = TimeReceived
    BY <1>6 DEF TimeReceived, SelectLastInSeq
  <2>4. AcceptedIsSigned'
    BY <1>6, <2>3, Zenon DEF AcceptedIsSigned, Distance
  <2>5. GenuineAccepted'
    BY <1>6, <2>3, Zenon DEF GenuineAccepted, Distance
  <2>6. LastSignatureCounts'
    BY <1>6 DEF LastSignatureCounts, SelectLastInSeq
  <2> QED  BY <2>1, <2>2, <2>4, <2>5, <2>6
<1> QED  BY <1>2, <1>3, <1>4, <1>5, <1>6, <1>7 DEF Next, Parse, vars

LEMMA Inductive ==
  Spec => []IInv
<1>1. Init => IInv
  BY InitIInv
<1> QED  BY <1>1, NextIInv, PTL DEF Spec
-----------------------------------------------------------------------------
\* Whatever happens to a message on its way, what verify_signature accepts was
\* signed with the receiver's secret for the very timestamp text and payload
\* received, and is within the tolerance unless the difference overflows
\* (webhook.cpp:24-52).
THEOREM AcceptedWasSigned ==
  Spec => []AcceptedIsSigned
<1>1. IInv => AcceptedIsSigned
  BY DEF IInv
<1> QED  BY <1>1, Inductive, PTL

\* A header as it was sent, signed with the receiver's secret alone, is refused
\* for its age and for nothing else (webhook.cpp:21-37).
THEOREM GenuineIsAccepted ==
  Spec => []GenuineAccepted
<1>1. IInv => GenuineAccepted
  BY DEF IInv
<1> QED  BY <1>1, Inductive, PTL

\* Of several signatures in a header the last one decides
\* (webhook.cpp:24-25).
THEOREM LastSignatureServes ==
  Spec => []LastSignatureCounts
<1>1. IInv => LastSignatureCounts
  BY DEF IInv
<1> QED  BY <1>1, Inductive, PTL
-----------------------------------------------------------------------------
(* What parse finds: the places it reads and is not refused are those of   *)
(* the event's strings.                                                    *)

LEMMA PlaceFields ==
  \A in, nr, name : /\ At(in, nr, name).in = in /\ At(in, nr, name).nr = nr
                    /\ At(in, nr, name).name = name
BY DEF At

\* A field of the event that the payload has is read: it lies in a container of
\* the kind that parse tests for.
LEMMA OursIsAsked ==
  ASSUME NEW p, Document(p), NEW x \in DOMAIN p.at, InEvent(x)
  PROVE  x \in Asked(p)
<1>1. x = At(x.in, x.nr, x.name) /\ x = [in |-> x.in, nr |-> x.nr, name |-> x.name]
  BY DEF Document, At
<1>2. /\ \/ x.in = "" /\ x.nr = 0 /\ x.name # "" /\ p.form = "object"
         \/ x.in # "" /\ x.nr = 0 /\ x.name # "" /\ Kind(p, Home(x.in)) = "object"
         \/ x.in # "" /\ x.nr # 0 /\ x.name = "" /\ Kind(p, Home(x.in)) = "array"
         \/ x.in # "" /\ x.nr # 0 /\ x.name # "" /\ Kind(p, At(x.in, x.nr, "")) = "object"
      /\ x.in \in DOMAIN p.length => x.nr \in 0 .. p.length[x.in]
  BY DEF Document
<1>3. /\ DOMAIN p.length = {"content", "options"}
      /\ p.length["content"] \in Nat /\ p.length["options"] \in Nat
  BY DEF Document
<1>4. "" \notin Fields \cup ItemFields \cup ErrorFields
  BY DEF Fields, ItemFields, ErrorFields
<1>5. CASE x.in = ""
  <2>1. x.nr = 0 /\ x.name \in Fields
    BY <1>2, <1>5 DEF InEvent
  <2> QED  BY <1>1, <1>5, <2>1 DEF Asked, AskedButOptions
<1>6. CASE x.in = "content"
  <2>1. x.name \in ItemFields /\ x.nr # 0
    BY <1>6 DEF InEvent
  <2>2. x.nr \in 1 .. p.length["content"]
    <3>1. x.nr \in 0 .. p.length["content"]
      BY <1>2, <1>3, <1>6, Zenon
    <3> QED  BY <1>3, <2>1, <3>1
  <2>3. Kind(p, At("content", x.nr, "")) = "object"
    <3>1. x.name # ""
      BY <1>4, <2>1, Zenon
    <3> QED  BY <1>2, <1>6, <2>1, <3>1, Zenon
  <2>4. Kind(p, At("", 0, "content")) = "array"
    <3> DEFINE y == At("content", x.nr, "")
    <3>1. y \in DOMAIN p.at /\ y.in = "content" /\ y.nr = x.nr /\ y.name = ""
      <4>1. y.in = "content" /\ y.nr = x.nr /\ y.name = ""
        BY DEF At
      <4>2. Kind(p, y) # "absent"
        BY <2>3
      <4> HIDE DEF y
      <4> QED  BY <4>1, <4>2 DEF Kind
    <3>2. Kind(p, Home(y.in)) = "array"
      <4> HIDE DEF y
      <4> QED  BY <2>1, <3>1 DEF Document
    <3> QED  BY <3>1, <3>2 DEF Home
  <2> QED  BY <1>1, <1>6, <2>1, <2>2, <2>4 DEF Asked, AskedButOptions
<1>7. CASE x.in = "error"
  <2>1. x.nr = 0 /\ x.name \in ErrorFields
    BY <1>7 DEF InEvent
  <2>2. Kind(p, At("", 0, "error")) = "object"
    BY <1>2, <1>4, <1>7, <2>1 DEF Home
  <2> QED  BY <1>1, <1>7, <2>1, <2>2 DEF Asked, AskedButOptions
<1>8. CASE x.in = "clarification"
  <2>1. x.nr = 0 /\ x.name = "question"
    BY <1>8 DEF InEvent
  <2>2. Kind(p, At("", 0, "clarification")) = "object"
    BY <1>2, <1>8, <2>1 DEF Home
  <2>3. x = At("clarification", 0, "question")
    BY <1>1, <1>8, <2>1
  <2> QED  BY <2>2, <2>3 DEF Asked, AskedButOptions
<1>9. CASE x.in = "options"
  <2>1. x.name = "" /\ x.nr \in 1 .. p.length["options"]
    <3>1. x.name = "" /\ x.nr # 0
      BY <1>9 DEF InEvent
    <3>2. x.nr \in 0 .. p.length["options"]
      BY <1>2, <1>3, <1>9, Zenon
    <3>3. \A n \in Nat : \A i \in 0 .. n : i # 0 => i \in 1 .. n
      OBVIOUS
    <3> QED  BY <1>3, <3>1, <3>2, <3>3, Zenon
  <2>2. Kind(p, At("clarification", 0, "options")) = "array"
    BY <1>2, <1>9, <2>1 DEF Home
  <2>3. Kind(p, At("", 0, "clarification")) = "object"
    <3> DEFINE y == At("clarification", 0, "options")
    <3>1. y \in DOMAIN p.at /\ y.in = "clarification" /\ y.nr = 0 /\ y.name = "options"
      BY <2>2, PlaceFields DEF Kind
    <3>2. Kind(p, Home(y.in)) = "object"
      <4> HIDE DEF y
      <4> QED  BY <3>1 DEF Document
    <3> QED  BY <3>1, <3>2 DEF Home
  <2> QED  BY <1>1, <1>9, <2>1, <2>2, <2>3 DEF Asked
<1> QED  BY <1>5, <1>6, <1>7, <1>8, <1>9 DEF InEvent

LEMMA AskedIsOurs ==
  ASSUME NEW p, Document(p), NEW x \in Asked(p)
  PROVE  InEvent(x)
<1>1. p.length["content"] \in Nat /\ p.length["options"] \in Nat
  BY DEF Document
<1>2. \/ x \in [in : {""}, nr : {0}, name : Fields]
      \/ x \in [in : {"content"}, nr : 1 .. p.length["content"], name : ItemFields]
      \/ x \in [in : {"error"}, nr : {0}, name : ErrorFields]
      \/ x = At("clarification", 0, "question")
      \/ x \in [in : {"options"}, nr : 1 .. p.length["options"], name : {""}]
  BY DEF Asked, AskedButOptions
<1>3. \A n \in Nat : 0 \notin 1 .. n
  OBVIOUS
<1>4. x = At("clarification", 0, "question") => InEvent(x)
  <2>1. x = At("clarification", 0, "question") =>
          x.in = "clarification" /\ x.nr = 0 /\ x.name = "question"
    BY DEF At
  <2> QED  BY <2>1 DEF InEvent
<1> QED  BY <1>1, <1>2, <1>3, <1>4 DEF InEvent

\* The event of a document that does not throw has the strings at its places.
LEMMA EventOfDocument ==
  ASSUME NEW p, Document(p)
  PROVE  LET ours == {x \in DOMAIN p.at : InEvent(x)}
             e == EventOf(p)
         IN  /\ Throws(p) <=> \E x \in ours : p.at[x] # "string"
             /\ ~Throws(p) => {x \in DOMAIN e.text : e.text[x] = x} = ours
             /\ e.kind = "event" /\ e.items = 1 .. p.length["content"]
<1> DEFINE ours == {x \in DOMAIN p.at : InEvent(x)}
           e == EventOf(p)
<1>1. ours \subseteq Asked(p) /\ \A x \in Asked(p) : x \in ours \/ x \notin DOMAIN p.at
  BY OursIsAsked, AskedIsOurs
<1>2. \A x \in DOMAIN p.at : p.at[x] # "absent"
  BY DEF Document
<1>3. Throws(p) <=> \E x \in ours : p.at[x] # "string"
  BY <1>1, <1>2 DEF Throws, Kind
<1>4. e.text = [x \in Asked(p) |-> IF Kind(p, x) = "string" THEN x ELSE NoText]
  BY DEF EventOf
<1>5. NoText \notin Asked(p)
  <2>1. ~InEvent(NoText)
    <3>1. NoText.in = "" /\ NoText.name = ""
      BY DEF NoText, At
    <3>2. "" \notin Fields /\ "" \notin {"content", "error", "clarification", "options"}
      BY DEF Fields
    <3> QED  BY <3>1, <3>2 DEF InEvent
  <2> QED  BY <2>1, AskedIsOurs
<1>6. {x \in DOMAIN e.text : e.text[x] = x} = {x \in Asked(p) : Kind(p, x) = "string"}
  <2> HIDE DEF e
  <2> QED  BY <1>4, <1>5
<1>7. ~Throws(p) => {x \in Asked(p) : Kind(p, x) = "string"} = ours
  BY <1>1, <1>3 DEF Kind
<1>8. e.kind = "event" /\ e.items = 1 .. p.length["content"]
  BY DEF EventOf, Items
<1> QED  BY <1>3, <1>6, <1>7, <1>8

\* An event is there after a yes only, and is that of the payload.
EventInv == (verdict # "yes" => event = NoEvent) /\ EventIsPayload

LEMMA InitEventInv ==
  Init => EventInv
<1> SUFFICES ASSUME Init PROVE EventInv
  OBVIOUS
<1>1. event = NoEvent /\ event.kind = "none"
  BY DEF Init, NoEvent
<1> QED
  BY <1>1 DEF EventInv, EventIsPayload

LEMMA ParseEventInv ==
  ASSUME IInv, Parse
  PROVE  EventInv'
<1>1. /\ verdict = "yes" /\ verdict' = verdict /\ message' = message
      /\ event' = IF message.payload.form = "invalid" \/ Throws(message.payload)
                  THEN [kind |-> "exception"] ELSE EventOf(message.payload)
  BY DEF Parse
<1> DEFINE p == message.payload
           ours == {x \in DOMAIN p.at : InEvent(x)}
<1>2. Document(p)
  <2>1. p \in Payloads
    BY <1>1 DEF IInv, Types, Messages
  <2> QED  BY <2>1, WebhookAssumption
<1>3. /\ Throws(p) <=> \E x \in ours : p.at[x] # "string"
      /\ ~Throws(p) =>
           {x \in DOMAIN EventOf(p).text : EventOf(p).text[x] = x} = ours
      /\ EventOf(p).kind = "event" /\ EventOf(p).items = 1 .. p.length["content"]
  BY <1>2, EventOfDocument
<1>4. message'.payload = p
  BY <1>1
<1> HIDE DEF p
<1>5. CASE p.form = "invalid" \/ Throws(p)
  <2>1. event'.kind = "exception"
    BY <1>1, <1>5 DEF p
  <2> QED  BY <1>1, <1>3, <1>4, <1>5, <2>1 DEF EventInv, EventIsPayload
<1>6. CASE ~(p.form = "invalid" \/ Throws(p))
  <2>1. event' = EventOf(p)
    BY <1>1, <1>6 DEF p
  <2> QED  BY <1>1, <1>3, <1>4, <1>6, <2>1 DEF EventInv, EventIsPayload
<1> QED  BY <1>5, <1>6

LEMMA NextEventInv ==
  IInv /\ EventInv /\ [Next]_vars => EventInv'
<1> SUFFICES ASSUME IInv, EventInv, [Next]_vars
             PROVE  EventInv'
  OBVIOUS
<1>1. ASSUME verdict # "yes", event' = event
      PROVE  EventInv'
  <2>1. event' = NoEvent /\ event'.kind = "none"
    BY <1>1 DEF EventInv, NoEvent
  <2> QED
    BY <2>1 DEF EventInv, EventIsPayload, NoEvent
<1>2. CASE Send \/ Alter \/ Join \/ SetClock \/ Verify
  <2>1. message = NoMessage => verdict = "none"
    BY DEF IInv, Types
  <2> QED
    BY <1>1, <1>2, <2>1 DEF Send, Alter, Join, SetClock, Verify
<1>3. CASE Parse
  BY <1>3, ParseEventInv
<1>4. CASE UNCHANGED vars
  <2>1. verdict' = verdict /\ event' = event /\ message' = message
    BY <1>4 DEF vars
  <2> QED
    BY <2>1 DEF EventInv, EventIsPayload
<1> QED
  BY <1>2, <1>3, <1>4 DEF Next

\* Whatever the payload, an event holds what it has at the places of the event's
\* strings, each at its own and one content item for each of the array; a value
\* of another type at one of them, or a text that is no JSON, yields an exception
\* and nothing else does (webhook.cpp:57-95).
THEOREM EventIsThePayload ==
  Spec => []EventIsPayload
<1>1. Init => EventInv
  BY InitEventInv
<1>2. EventInv => EventIsPayload
  BY DEF EventInv
<1> QED
  BY <1>1, <1>2, NextEventInv, Inductive, PTL DEF Spec
=============================================================================
