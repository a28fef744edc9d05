------------------------- MODULE SseReferenceProofs --------------------------
(***************************************************************************)
(* Lemmas about the event parser and about the reference definition of the *)
(* events of a body, which the proofs of both stream clients rest on: what *)
(* the parser finds in a line and returns, positions in a sequence, the    *)
(* lines and the frames they cut it into, what one line more does to the   *)
(* events, and that the incremental parser keeps up with it.  The          *)
(* reference is defined by positions, without recursion: every lemma that  *)
(* adds an element to a sequence says what that does to the positions.     *)
(***************************************************************************)
EXTENDS SseReference, SequenceTheorems, WellFoundedInduction, FiniteSetTheorems, TLAPS
-----------------------------------------------------------------------------
(* Searching a text.                                                       *)

\* A token that occurs in a text has a first occurrence: std::string::find
\* returns npos only when there is none.
LEMMA FindSucceeds ==
  ASSUME NEW S, NEW s \in Seq(S), NEW t, Has(t, s)
  PROVE  \E i \in 1 .. Len(s) : FindsAt(t, s, i)
<1> DEFINE R == {p \in Nat \X Nat : p[1] < p[2]}
           T == {i \in 1 .. Len(s) : s[i] = t}
<1>1. IsWellFoundedOn(R, Nat)
  BY NatLessThanWellFounded DEF OpToRel
<1>2. T \subseteq Nat /\ T # {}
  BY LenProperties DEF Has
<1>3. PICK i \in T : \A j \in T : ~(<<j, i>> \in R)
  <2> HIDE DEF R, T
  <2> QED  BY <1>1, <1>2, WFMin
<1>4. i \in 1 .. Len(s) /\ s[i] = t
  OBVIOUS
<1>5. ASSUME NEW j \in 1 .. (i - 1), s[j] = t  PROVE FALSE
  <2>1. j \in T /\ j \in Nat /\ i \in Nat /\ j < i
    BY <1>4, <1>5, LenProperties
  <2>2. <<j, i>> \in R
    BY <2>1
  <2> QED  BY <1>3, <2>1, <2>2
<1> QED  BY <1>4, <1>5 DEF FindsAt

\* ... and only one.
LEMMA FindIsUnique ==
  ASSUME NEW s, NEW t, NEW i, NEW j, Len(s) \in Nat,
         FindsAt(t, s, i), FindsAt(t, s, j)
  PROVE  i = j
BY DEF FindsAt

LEMMA ColonAtFinds ==
  ASSUME NEW line \in Text, Has(COLON, line)
  PROVE  FindsAt(COLON, line, ColonAt(line))
BY FindSucceeds DEF ColonAt, Text

\* A piece of a text is a text.
LEMMA SubText ==
  ASSUME NEW s \in Text, NEW m \in Nat \ {0}, NEW n \in 0 .. Len(s)
  PROVE  SubSeq(s, m, n) \in Text
<1>1. Len(s) \in Nat /\ \A i \in m .. n : s[i] \in Token
  BY LenProperties, ElementOfSeq DEF Text
<1> QED  BY <1>1, SubSeqProperties DEF Text

LEMMA StripCRText ==
  ASSUME NEW line \in Text
  PROVE  StripCR(line) \in Text
<1>1. Len(line) \in Nat /\ (line # <<>> => Len(line) - 1 \in 0 .. Len(line))
  BY LenProperties, EmptySeq DEF Text
<1> QED  BY <1>1, SubText DEF StripCR

LEMMA FieldValueText ==
  ASSUME NEW line \in Text
  PROVE  Field(line) \in Text /\ Value(line) \in Text
<1>0. <<>> \in Text /\ Len(line) \in Nat
  BY LenProperties, EmptySeq DEF Text
<1>1. CASE ~Has(COLON, line)
  BY <1>0, <1>1 DEF Field, Value
<1>2. CASE Has(COLON, line)
  <2> DEFINE c == ColonAt(line)
             raw == SubSeq(line, c + 1, Len(line))
  <2>1. c \in 1 .. Len(line)
    BY <1>2, ColonAtFinds DEF FindsAt
  <2> HIDE DEF c
  <2>2. SubSeq(line, 1, c - 1) \in Text
    BY <1>0, <2>1, SubText
  <2>3. raw \in Text
    BY <1>0, <2>1, SubText
  <2>4. raw # <<>> => Tail(raw) \in Text
    BY <2>3, HeadTailProperties DEF Text
  <2>5. Field(line) = SubSeq(line, 1, c - 1)
    BY <1>2 DEF Field, c
  <2>6. Value(line) = IF raw # <<>> /\ raw[1] = SPACE THEN Tail(raw) ELSE raw
    BY <1>2 DEF Value, c
  <2> QED  BY <2>2, <2>3, <2>4, <2>5, <2>6
<1> QED  BY <1>1, <1>2
-----------------------------------------------------------------------------
(* The parser's operations return results.                                 *)

LEMMA NothingType ==
  ASSUME NEW p \in Parser
  PROVE  Nothing(p) \in Result
BY EmptySeq DEF Nothing, Result, Event, Text

LEMMA FlushType ==
  ASSUME NEW p \in Parser
  PROVE  Flush(p) \in Result
<1>1. CASE p.event = <<>> /\ p.data = <<>>
  BY <1>1, NothingType DEF Flush
<1>2. CASE ~(p.event = <<>> /\ p.data = <<>>)
  <2> DEFINE name == IF p.event = <<>> THEN MESSAGE ELSE p.event
  <2>1. <<>> \in Text /\ <<>> \in Seq(Text)
    BY EmptySeq DEF Text
  <2>2. NewParser \in Parser
    BY <2>1 DEF NewParser, Parser
  <2>3. name \in Text
    <3>1. MESSAGE \in Text
      BY DEF MESSAGE, Text, Token
    <3> QED  BY <3>1 DEF Parser
  <2>4. Join(p.data) \in Seq(Text)
    BY <2>1 DEF Join, Parser
  <2>5. Flush(p) = [parser |-> NewParser,
                    kind   |-> IF name = ERROR THEN "throw" ELSE "event",
                    event  |-> [event |-> name, data |-> Join(p.data)]]
    BY <1>2 DEF Flush, Emit, FrameEvent
  <2> HIDE DEF name
  <2> QED  BY <2>2, <2>3, <2>4, <2>5 DEF Result, Event
<1> QED  BY <1>1, <1>2

LEMMA ProcessLineType ==
  ASSUME NEW p \in Parser, NEW line \in Text
  PROVE  ProcessLine(p, line) \in Result
<1> DEFINE named == [p EXCEPT !.event = Value(line)]
           more  == [p EXCEPT !.data = Append(@, Value(line))]
<1>1. Value(line) \in Text
  BY FieldValueText
<1>2. named \in Parser
  BY <1>1 DEF Parser
<1>3. more \in Parser
  BY <1>1, AppendProperties DEF Parser
<1>4. /\ Flush(p) \in Result /\ Nothing(p) \in Result
      /\ Nothing(named) \in Result /\ Nothing(more) \in Result
  <2> HIDE DEF named, more
  <2> QED  BY <1>2, <1>3, FlushType, NothingType
<1>5. ProcessLine(p, line) \in {Flush(p), Nothing(p), Nothing(named), Nothing(more)}
  BY DEF ProcessLine
<1> QED  BY <1>4, <1>5
-----------------------------------------------------------------------------
(* Positions.                                                              *)

\* A set of positions is finite.
LEMMA PositionsFinite ==
  ASSUME NEW n \in Nat, NEW P \in SUBSET (1 .. n)
  PROVE  IsFiniteSet(P) /\ Cardinality(P) \in Nat
<1>1. IsFiniteSet(1 .. n)
  BY FS_Interval
<1> QED  BY <1>1, FS_Subset, FS_CardinalityType

\* The largest natural number with a property that no number above n has.
LEMMA LastExists ==
  ASSUME NEW n \in Nat, NEW P \in SUBSET (1 .. n), P # {}
  PROVE  /\ Max(P) \in P /\ Max(P) \in 1 .. n
         /\ \A j \in P : j <= Max(P)
<1> DEFINE R == {p \in Nat \X Nat : p[1] < p[2]}
           U == {k \in 0 .. n : n - k \in P}
<1>1. IsWellFoundedOn(R, Nat)
  BY NatLessThanWellFounded DEF OpToRel
<1>2. U \subseteq Nat /\ U # {}
  <2>1. PICK i \in P : TRUE
    OBVIOUS
  <2>2. n - i \in 0 .. n /\ n - (n - i) = i
    BY <2>1
  <2>3. n - i \in U
    BY <2>1, <2>2
  <2>4. U \subseteq Nat
    OBVIOUS
  <2> HIDE DEF U
  <2> QED  BY <2>3, <2>4
<1>3. PICK k \in U : \A j \in U : ~(<<j, k>> \in R)
  <2> HIDE DEF R, U
  <2> QED  BY <1>1, <1>2, WFMin
<1>4. n - k \in P /\ k \in Nat
  OBVIOUS
<1>5. ASSUME NEW j \in P  PROVE n - k >= j
  <2>1. n - j \in U /\ n - j \in Nat /\ j \in Nat
    BY <1>5
  <2>2. ~(n - j < k)
    BY <1>3, <1>4, <2>1
  <2> QED  BY <1>4, <2>1, <2>2
<1>6. Max(P) \in P /\ \A j \in P : Max(P) >= j
  BY <1>4, <1>5 DEF Max
<1> QED  BY <1>6

\* The number of positions up to one of them.
LEMMA CountUpTo ==
  ASSUME NEW n \in Nat, NEW P \in SUBSET (1 .. n), NEW m \in Nat
  PROVE  LET below == {j \in P : j <= m}
         IN  /\ IsFiniteSet(below) /\ Cardinality(below) \in Nat
             /\ Cardinality(below) <= Cardinality(P)
<1> DEFINE below == {j \in P : j <= m}
<1>1. below \subseteq P /\ IsFiniteSet(P)
  BY PositionsFinite
<1> HIDE DEF below
<1>2. IsFiniteSet(below) /\ Cardinality(below) \in Nat /\ Cardinality(below) <= Cardinality(P)
  BY <1>1, FS_Subset, FS_CardinalityType
<1> QED  BY <1>2 DEF below

\* A larger position has more positions up to it.
LEMMA CountGrows ==
  ASSUME NEW n \in Nat, NEW P \in SUBSET (1 .. n), NEW i \in P, NEW k \in P, i < k
  PROVE  Cardinality({j \in P : j <= i}) < Cardinality({j \in P : j <= k})
<1> DEFINE lower == {j \in P : j <= i}
           upper == {j \in P : j <= k}
<1>0. \A j \in P : j \in Nat
  OBVIOUS
<1>1. IsFiniteSet(lower) /\ IsFiniteSet(upper) /\ Cardinality(lower) \in Nat
  BY <1>0, CountUpTo
<1>2. lower \subseteq upper /\ k \in upper /\ k \notin lower
  <2>1. k <= k /\ ~(k <= i) /\ \A j \in P : j <= i => j <= k
    BY <1>0
  <2> QED  BY <2>1
<1> HIDE DEF lower, upper
<1>3. Cardinality(lower) <= Cardinality(upper) /\ Cardinality(lower) # Cardinality(upper)
  BY <1>1, <1>2, FS_Subset
<1>4. Cardinality(upper) \in Nat
  BY <1>1, FS_CardinalityType
<1>5. Cardinality(lower) < Cardinality(upper)
  BY <1>1, <1>3, <1>4
<1> QED  BY <1>5 DEF lower, upper

\* An element of a set of positions is the k-th of them, k being how many there
\* are up to it.
LEMMA KthIs ==
  ASSUME NEW n \in Nat, NEW P \in SUBSET (1 .. n), NEW i \in P
  PROVE  Kth(P, Cardinality({j \in P : j <= i})) = i
<1> DEFINE count(k) == Cardinality({j \in P : j <= k})
<1>1. \A k \in P : count(k) = count(i) => k = i
  <2> SUFFICES ASSUME NEW k \in P, count(k) = count(i), k # i  PROVE FALSE
    OBVIOUS
  <2>1. k < i \/ i < k
    OBVIOUS
  <2>2. count(k) < count(i) \/ count(i) < count(k)
    BY <2>1, CountGrows
  <2>3. count(k) \in Nat /\ count(i) \in Nat
    <3>1. \A j \in P : j \in Nat
      OBVIOUS
    <3> QED  BY <3>1, CountUpTo
  <2> HIDE DEF count
  <2> QED  BY <2>2, <2>3
<1> QED  BY <1>1 DEF Kth

\* There is a k-th position for every k up to their number.
LEMMA KthExists ==
  ASSUME NEW n \in Nat, NEW P \in SUBSET (1 .. n), NEW k \in 1 .. Cardinality(P)
  PROVE  /\ Kth(P, k) \in P /\ Kth(P, k) \in 1 .. n
         /\ Cardinality({j \in P : j <= Kth(P, k)}) = k
<1> DEFINE R == {p \in Nat \X Nat : p[1] < p[2]}
           found(Q, c) == \E i \in Q : Cardinality({j \in Q : j <= i}) = c
           U == {m \in Nat : \E Q \in SUBSET (1 .. m) : \E c \in 1 .. Cardinality(Q) : ~found(Q, c)}
<1>1. IsWellFoundedOn(R, Nat)
  BY NatLessThanWellFounded DEF OpToRel
<1>2. ASSUME U # {}  PROVE FALSE
  <2>1. PICK m \in U : \A l \in U : ~(<<l, m>> \in R)
    <3>1. U \subseteq Nat
      OBVIOUS
    <3> HIDE DEF R, U
    <3> QED  BY <1>1, <1>2, <3>1, WFMin
  <2>2. m \in Nat /\ \E Q \in SUBSET (1 .. m) : \E c \in 1 .. Cardinality(Q) : ~found(Q, c)
    BY <2>1
  <2>3. PICK Q \in SUBSET (1 .. m) : \E c \in 1 .. Cardinality(Q) : ~found(Q, c)
    BY <2>2
  <2>4. PICK c \in 1 .. Cardinality(Q) : ~found(Q, c)
    BY <2>3
  <2>5. IsFiniteSet(Q) /\ Cardinality(Q) \in Nat
    BY <2>2, PositionsFinite
  <2>6. Q # {}
    BY <2>4, <2>5, FS_EmptySet
  <2>7. m - 1 \in Nat /\ m - 1 \notin U
    <3>1. m # 0
      <4>1. ASSUME m = 0  PROVE 1 .. m = {}
        BY <4>1
      <4> QED  BY <2>3, <2>6, <4>1
    <3>2. m - 1 \in Nat /\ <<m - 1, m>> \in R
      BY <2>2, <3>1
    <3> HIDE DEF U, R
    <3> QED  BY <2>1, <3>2
  <2>8. \A S \in SUBSET (1 .. (m - 1)) : \A d \in 1 .. Cardinality(S) : found(S, d)
    BY <2>7
  <2>9. m \in Q
    <3>1. ASSUME m \notin Q  PROVE Q \in SUBSET (1 .. (m - 1))
      BY <2>2, <3>1
    <3> HIDE DEF found
    <3> QED  BY <2>4, <2>8, <3>1
  <2> DEFINE S == Q \ {m}
  <2>10. S \in SUBSET (1 .. (m - 1))
    BY <2>2
  <2>11. Cardinality(S) = Cardinality(Q) - 1 /\ Cardinality(S) \in Nat
    BY <2>5, <2>9, <2>10, <2>7, FS_RemoveElement, PositionsFinite
  <2>12. CASE c \in 1 .. Cardinality(S)
    <3>1. found(S, c)
      <4> HIDE DEF found, S
      <4> QED  BY <2>8, <2>10, <2>12
    <3>2. PICK i \in S : Cardinality({j \in S : j <= i}) = c
      BY <3>1
    <3>3. {j \in S : j <= i} = {j \in Q : j <= i}
      BY <2>2, <2>10
    <3>4. i \in Q /\ Cardinality({j \in Q : j <= i}) = c
      BY <3>2, <3>3
    <3> QED  BY <2>4, <3>4
  <2>13. CASE c = Cardinality(Q)
    <3>1. {j \in Q : j <= m} = Q
      <4>1. \A j \in Q : j <= m
        BY <2>2, <2>3
      <4> QED  BY <4>1
    <3> QED  BY <2>4, <2>9, <2>13, <3>1
  <2>14. c \in 1 .. Cardinality(S) \/ c = Cardinality(Q)
    BY <2>4, <2>5, <2>11
  <2> QED  BY <2>12, <2>13, <2>14
<1>3. found(P, k)
  <2>1. n \notin U
    BY <1>2
  <2>2. \A Q \in SUBSET (1 .. n) : \A c \in 1 .. Cardinality(Q) : found(Q, c)
    BY <2>1
  <2> HIDE DEF found
  <2> QED  BY <2>2
<1>4. PICK i \in P : Cardinality({j \in P : j <= i}) = k
  BY <1>3
<1>5. Kth(P, k) = i
  BY <1>4, KthIs
<1> QED  BY <1>4, <1>5

\* Positions beyond the first ones do not change which these are.
LEMMA KthBelow ==
  ASSUME NEW n \in Nat, NEW Q \in SUBSET (1 .. n), NEW m \in 0 .. n
  PROVE  LET P == {i \in Q : i <= m}
         IN  /\ Cardinality(P) \in Nat /\ Cardinality(P) <= Cardinality(Q)
             /\ \A k \in 1 .. Cardinality(P) : Kth(Q, k) = Kth(P, k)
<1> DEFINE P == {i \in Q : i <= m}
<1>0. m \in Nat /\ \A j \in Q : j \in 1 .. n
  OBVIOUS
<1>1. P \in SUBSET (1 .. m)
  <2>1. \A j \in P : j \in 1 .. m
    BY <1>0
  <2> HIDE DEF P
  <2> QED  BY <2>1
<1>2. Cardinality(P) \in Nat /\ Cardinality(P) <= Cardinality(Q)
  BY <1>0, CountUpTo
<1>3. ASSUME NEW k \in 1 .. Cardinality(P)
      PROVE  Kth(Q, k) = Kth(P, k)
  <2> DEFINE i == Kth(P, k)
  <2>1. i \in P /\ i \in 1 .. m /\ Cardinality({j \in P : j <= i}) = k
    <3> HIDE DEF P
    <3> QED  BY <1>1, <1>3, KthExists
  <2> HIDE DEF i
  <2>2. \A j \in Q : j <= i => j <= m
    BY <1>0, <2>1
  <2>3. {j \in P : j <= i} = {j \in Q : j <= i} /\ i \in Q
    BY <2>1, <2>2
  <2>4. Kth(Q, k) = i
    BY <2>1, <2>3, KthIs
  <2> QED  BY <2>4 DEF i
<1> QED  BY <1>2, <1>3

\* One more position is the last one.
LEMMA KthLast ==
  ASSUME NEW n \in Nat, NEW P \in SUBSET (1 .. n), P # {}
  PROVE  Kth(P, Cardinality(P)) = Max(P) /\ Cardinality(P) \in Nat \ {0}
<1>1. Max(P) \in P /\ \A j \in P : j <= Max(P)
  BY LastExists
<1>2. {j \in P : j <= Max(P)} = P
  BY <1>1
<1>3. Kth(P, Cardinality(P)) = Max(P)
  BY <1>1, <1>2, KthIs
<1>4. Cardinality(P) \in Nat /\ Cardinality(P) # 0
  BY PositionsFinite, FS_EmptySet
<1> QED  BY <1>3, <1>4

\* A position behind all the others comes last and leaves them in their places.
LEMMA OnePositionMore ==
  ASSUME NEW n \in Nat, NEW P \in SUBSET (1 .. n), NEW m \in Nat, m > n
  PROVE  /\ Cardinality(P \cup {m}) = Cardinality(P) + 1
         /\ Kth(P \cup {m}, Cardinality(P) + 1) = m
         /\ Max(P \cup {m}) = m
         /\ \A k \in 1 .. Cardinality(P) : Kth(P \cup {m}, k) = Kth(P, k)
<1> DEFINE Q == P \cup {m}
<1>1. Q \in SUBSET (1 .. m) /\ Q # {} /\ m \notin P
  OBVIOUS
<1>2. Cardinality(Q) = Cardinality(P) + 1
  BY <1>1, PositionsFinite, FS_AddElement
<1>3. Max(Q) = m
  <2>1. Max(Q) \in Q /\ Max(Q) \in 1 .. m /\ Max(Q) >= m
    <3> HIDE DEF Q
    <3>1. Max(Q) \in Q /\ Max(Q) \in 1 .. m /\ \A j \in Q : j <= Max(Q)
      BY <1>1, LastExists
    <3>2. m \in Q
      BY DEF Q
    <3> QED  BY <3>1, <3>2
  <2> HIDE DEF Q
  <2> QED  BY <2>1
<1>4. Kth(Q, Cardinality(Q)) = m
  <2> HIDE DEF Q
  <2> QED  BY <1>1, <1>3, KthLast
<1>5. P = {i \in Q : i <= n} /\ n \in 0 .. m
  <2>1. n \in 0 .. m /\ ~(m <= n) /\ \A j \in P : j <= n
    OBVIOUS
  <2> QED  BY <2>1, Zenon
<1>6. \A k \in 1 .. Cardinality(P) : Kth(Q, k) = Kth(P, k)
  <2> HIDE DEF Q
  <2> QED  BY <1>1, <1>5, KthBelow
<1> QED  BY <1>2, <1>3, <1>4, <1>6
-----------------------------------------------------------------------------
(* The elements at positions and the pieces between them.                  *)

\* A beginning is a prefix in the sense of the community modules.
LEMMA BeginsIsPrefix ==
  ASSUME NEW S, NEW s \in Seq(S), NEW t \in Seq(S), Begins(s, t)
  PROVE  IsPrefix(s, t)
<1>1. Len(s) \in Nat /\ Len(t) \in Nat /\ \A i \in 1 .. Len(s) : i \in 1 .. Len(t)
  BY LenProperties DEF Begins
<1>2. /\ SubSeq(s, 1, Len(s)) \in Seq(S) /\ Len(SubSeq(s, 1, Len(s))) = Len(s)
      /\ \A i \in 1 .. Len(s) : SubSeq(s, 1, Len(s))[i] = s[i]
  BY <1>1, ElementOfSeq, SubSeqProperties
<1>3. /\ SubSeq(t, 1, Len(s)) \in Seq(S) /\ Len(SubSeq(t, 1, Len(s))) = Len(s)
      /\ \A i \in 1 .. Len(s) : SubSeq(t, 1, Len(s))[i] = t[i]
  <2>1. \A i \in 1 .. Len(s) : t[i] \in S
    BY <1>1, ElementOfSeq
  <2> QED  BY <1>1, <2>1, SubSeqProperties
<1>4. SubSeq(s, 1, Len(s)) = SubSeq(t, 1, Len(s))
  BY <1>2, <1>3, SeqEqual DEF Begins
<1> QED  BY <1>4 DEF IsPrefix, Begins

\* The elements at some positions are a sequence, one for each position.
LEMMA AtType ==
  ASSUME NEW S, NEW s \in Seq(S), NEW P \in SUBSET (1 .. Len(s))
  PROVE  /\ At(s, P) \in Seq(S)
         /\ Len(At(s, P)) = Cardinality(P) /\ Cardinality(P) \in Nat
         /\ \A k \in 1 .. Cardinality(P) : At(s, P)[k] = s[Kth(P, k)]
<1>1. Len(s) \in Nat /\ Cardinality(P) \in Nat
  BY LenProperties, PositionsFinite
<1>2. \A k \in 1 .. Cardinality(P) : s[Kth(P, k)] \in S
  BY <1>1, KthExists, ElementOfSeq
<1>3. At(s, P) \in [1 .. Cardinality(P) -> S]
  BY <1>2 DEF At
<1>4. At(s, P) \in Seq(S) /\ Len(At(s, P)) = Cardinality(P)
  BY <1>1, <1>3
<1> QED  BY <1>1, <1>4 DEF At

\* The elements at the positions that lie in a beginning of t begin those of t.
LEMMA AtBelow ==
  ASSUME NEW S, NEW s \in Seq(S), NEW t \in Seq(S), Begins(s, t),
         NEW Q \in SUBSET (1 .. Len(t)), NEW P \in SUBSET (1 .. Len(s)),
         P = {i \in Q : i <= Len(s)}
  PROVE  Begins(At(s, P), At(t, Q))
<1>1. Len(s) \in 0 .. Len(t) /\ Len(t) \in Nat
  BY LenProperties DEF Begins
<1>2. /\ Cardinality(P) <= Cardinality(Q)
      /\ \A k \in 1 .. Cardinality(P) : Kth(Q, k) = Kth(P, k)
  BY <1>1, KthBelow
<1>3. /\ Len(At(s, P)) = Cardinality(P) /\ Len(At(t, Q)) = Cardinality(Q)
      /\ Cardinality(P) \in Nat /\ Cardinality(Q) \in Nat
      /\ \A k \in 1 .. Cardinality(P) : At(s, P)[k] = s[Kth(P, k)]
      /\ \A k \in 1 .. Cardinality(Q) : At(t, Q)[k] = t[Kth(Q, k)]
  BY AtType
<1>4. \A k \in 1 .. Cardinality(P) : Kth(P, k) \in 1 .. Len(s) /\ k \in 1 .. Cardinality(Q)
  <2>1. \A k \in 1 .. Cardinality(P) : k \in 1 .. Cardinality(Q)
    BY <1>2, <1>3
  <2>2. Len(s) \in Nat
    BY <1>1
  <2> QED  BY <2>1, <2>2, KthExists
<1>5. ASSUME NEW k \in 1 .. Cardinality(P)
      PROVE  At(t, Q)[k] = At(s, P)[k]
  BY <1>2, <1>3, <1>4 DEF Begins
<1> QED  BY <1>2, <1>3, <1>5 DEF Begins

\* Appending adds an element when its position is one of those asked for, and
\* nothing otherwise.
LEMMA AtAppend ==
  ASSUME NEW S, NEW s \in Seq(S), NEW x \in S, NEW P \in SUBSET (1 .. Len(s))
  PROVE  /\ At(Append(s, x), P) = At(s, P)
         /\ At(Append(s, x), P \cup {Len(s) + 1}) = Append(At(s, P), x)
<1> DEFINE t == Append(s, x)
           Q == P \cup {Len(s) + 1}
<1>1. /\ t \in Seq(S) /\ Len(t) = Len(s) + 1 /\ Len(s) \in Nat
      /\ \A i \in 1 .. Len(s) : t[i] = s[i]
      /\ t[Len(s) + 1] = x
  BY LenProperties, AppendProperties
<1> HIDE DEF t
<1>2. /\ P \in SUBSET (1 .. Len(t)) /\ Q \in SUBSET (1 .. Len(t))
      /\ \A i \in P : i \in 1 .. Len(s)
  <2>1. Len(s) + 1 \in 1 .. Len(t) /\ \A i \in P : i \in 1 .. Len(t)
    BY <1>1
  <2> QED  BY <2>1
<1>3. /\ Cardinality(Q) = Cardinality(P) + 1
      /\ Kth(Q, Cardinality(P) + 1) = Len(s) + 1
      /\ \A k \in 1 .. Cardinality(P) : Kth(Q, k) = Kth(P, k)
  <2>1. Len(s) + 1 \in Nat /\ Len(s) + 1 > Len(s)
    BY <1>1
  <2> QED  BY <1>1, <2>1, OnePositionMore
<1>4. \A k \in 1 .. Cardinality(P) : Kth(P, k) \in 1 .. Len(s)
  BY <1>1, KthExists
<1> HIDE DEF Q
<1>5. /\ At(s, P) \in Seq(S) /\ Len(At(s, P)) = Cardinality(P) /\ Cardinality(P) \in Nat
      /\ \A k \in 1 .. Cardinality(P) : At(s, P)[k] = s[Kth(P, k)]
  BY AtType
<1>6. /\ At(t, P) \in Seq(S) /\ Len(At(t, P)) = Cardinality(P)
      /\ \A k \in 1 .. Cardinality(P) : At(t, P)[k] = t[Kth(P, k)]
  BY <1>1, <1>2, AtType
<1>7. /\ At(t, Q) \in Seq(S) /\ Len(At(t, Q)) = Cardinality(P) + 1
      /\ \A k \in 1 .. Cardinality(P) + 1 : At(t, Q)[k] = t[Kth(Q, k)]
  BY <1>1, <1>2, <1>3, AtType
<1>8. At(t, P) = At(s, P)
  BY <1>1, <1>4, <1>5, <1>6, SeqEqual
<1>9. At(t, Q) = Append(At(s, P), x)
  <2>1. /\ Append(At(s, P), x) \in Seq(S) /\ Len(Append(At(s, P), x)) = Cardinality(P) + 1
        /\ \A k \in 1 .. Cardinality(P) : Append(At(s, P), x)[k] = At(s, P)[k]
        /\ Append(At(s, P), x)[Cardinality(P) + 1] = x
    BY <1>5, AppendProperties
  <2>2. ASSUME NEW k \in 1 .. Cardinality(P) + 1
        PROVE  At(t, Q)[k] = Append(At(s, P), x)[k]
    <3>1. CASE k \in 1 .. Cardinality(P)
      BY <1>1, <1>3, <1>4, <1>5, <1>7, <2>1, <3>1
    <3>2. CASE k = Cardinality(P) + 1
      BY <1>1, <1>3, <1>5, <1>7, <2>1, <3>2
    <3> QED  BY <1>5, <3>1, <3>2
  <2> QED  BY <1>7, <2>1, <2>2, SeqEqual
<1> QED  BY <1>8, <1>9 DEF t, Q

\* The second case of AtAppend, in a form the provers instantiate.
LEMMA AtMore ==
  ASSUME NEW S, NEW s \in Seq(S), NEW x \in S, NEW P \in SUBSET (1 .. Len(s))
  PROVE  At(Append(s, x), P \cup {Len(s) + 1}) = Append(At(s, P), x)
BY AtAppend

\* The pieces of a sequence are sequences, one for each position.
LEMMA PiecesType ==
  ASSUME NEW S, NEW s \in Seq(S), NEW P \in SUBSET (1 .. Len(s))
  PROVE  /\ Pieces(s, P) \in Seq(Seq(S))
         /\ Len(Pieces(s, P)) = Cardinality(P) /\ Cardinality(P) \in Nat
         /\ \A k \in 1 .. Cardinality(P) :
              /\ Pieces(s, P)[k] = SubSeq(s, From(P, k), Kth(P, k) - 1)
              /\ From(P, k) \in 1 .. Len(s) + 1 /\ Kth(P, k) \in 1 .. Len(s)
<1>1. Len(s) \in Nat /\ Cardinality(P) \in Nat
  BY LenProperties, PositionsFinite
<1>2. ASSUME NEW k \in 1 .. Cardinality(P)
      PROVE  /\ Kth(P, k) \in 1 .. Len(s) /\ From(P, k) \in 1 .. Len(s) + 1
             /\ SubSeq(s, From(P, k), Kth(P, k) - 1) \in Seq(S)
  <2>1. Kth(P, k) \in 1 .. Len(s)
    BY <1>1, KthExists
  <2>2. From(P, k) \in 1 .. Len(s) + 1
    <3>1. CASE k = 1
      BY <1>1, <3>1 DEF From
    <3>2. CASE k # 1
      <4>1. k - 1 \in 1 .. Cardinality(P)
        BY <1>1, <3>2
      <4>2. Kth(P, k - 1) \in 1 .. Len(s)
        BY <1>1, <4>1, KthExists
      <4> QED  BY <1>1, <3>2, <4>2 DEF From
    <3> QED  BY <3>1, <3>2
  <2>3. \A i \in From(P, k) .. Kth(P, k) - 1 : s[i] \in S
    BY <1>1, <2>1, <2>2, ElementOfSeq
  <2>4. From(P, k) \in Int /\ Kth(P, k) - 1 \in Int
    BY <1>1, <2>1, <2>2
  <2> QED  BY <2>1, <2>2, <2>3, <2>4, SubSeqProperties
<1>3. Pieces(s, P) \in [1 .. Cardinality(P) -> Seq(S)]
  BY <1>2 DEF Pieces
<1>4. Pieces(s, P) \in Seq(Seq(S)) /\ Len(Pieces(s, P)) = Cardinality(P)
  BY <1>1, <1>3
<1> QED  BY <1>1, <1>2, <1>4 DEF Pieces

\* A piece does not depend on what follows.
LEMMA SamePiece ==
  ASSUME NEW S, NEW s \in Seq(S), NEW t \in Seq(S), Begins(s, t),
         NEW a \in Nat \ {0}, NEW b \in 0 .. Len(s)
  PROVE  SubSeq(t, a, b) = SubSeq(s, a, b) /\ SubSeq(s, a, b) \in Seq(S)
<1>1. Len(s) \in Nat /\ Len(t) \in Nat /\ a \in Int /\ b \in Int
  BY LenProperties
<1>2. \A i \in a .. b : i \in 1 .. Len(s) /\ i \in 1 .. Len(t)
  BY <1>1 DEF Begins
<1>3. \A i \in a .. b : s[i] \in S /\ t[i] \in S /\ t[i] = s[i]
  BY <1>2, ElementOfSeq DEF Begins
<1>4. /\ SubSeq(s, a, b) \in Seq(S) /\ Len(SubSeq(s, a, b)) = IF a <= b THEN b - a + 1 ELSE 0
      /\ \A i \in 1 .. b - a + 1 : SubSeq(s, a, b)[i] = s[a + i - 1]
  BY <1>1, <1>3, SubSeqProperties
<1>5. /\ SubSeq(t, a, b) \in Seq(S) /\ Len(SubSeq(t, a, b)) = IF a <= b THEN b - a + 1 ELSE 0
      /\ \A i \in 1 .. b - a + 1 : SubSeq(t, a, b)[i] = t[a + i - 1]
  BY <1>1, <1>3, SubSeqProperties
<1>6. ASSUME NEW i \in 1 .. Len(SubSeq(t, a, b))
      PROVE  SubSeq(t, a, b)[i] = SubSeq(s, a, b)[i]
  <2>1. i \in 1 .. b - a + 1 /\ a + i - 1 \in a .. b
    BY <1>1, <1>5, <1>6
  <2> QED  BY <1>3, <1>4, <1>5, <2>1
<1>7. Len(SubSeq(t, a, b)) = Len(SubSeq(s, a, b))
  BY <1>4, <1>5
<1> QED  BY <1>4, <1>5, <1>6, <1>7, SeqEqual

\* The pieces that end in a beginning of t are the first pieces of t.
LEMMA PiecesBelow ==
  ASSUME NEW S, NEW s \in Seq(S), NEW t \in Seq(S), Begins(s, t),
         NEW Q \in SUBSET (1 .. Len(t)), NEW P \in SUBSET (1 .. Len(s)),
         P = {i \in Q : i <= Len(s)}
  PROVE  Begins(Pieces(s, P), Pieces(t, Q))
<1>1. Len(s) \in 0 .. Len(t) /\ Len(t) \in Nat
  BY LenProperties DEF Begins
<1>2. /\ Cardinality(P) <= Cardinality(Q)
      /\ \A k \in 1 .. Cardinality(P) : Kth(Q, k) = Kth(P, k)
  BY <1>1, KthBelow
<1>3. /\ Len(Pieces(s, P)) = Cardinality(P) /\ Len(Pieces(t, Q)) = Cardinality(Q)
      /\ Cardinality(P) \in Nat /\ Cardinality(Q) \in Nat
      /\ \A k \in 1 .. Cardinality(P) :
           /\ Pieces(s, P)[k] = SubSeq(s, From(P, k), Kth(P, k) - 1)
           /\ From(P, k) \in 1 .. Len(s) + 1 /\ Kth(P, k) \in 1 .. Len(s)
      /\ \A k \in 1 .. Cardinality(Q) :
           Pieces(t, Q)[k] = SubSeq(t, From(Q, k), Kth(Q, k) - 1)
  BY PiecesType
<1>4. ASSUME NEW k \in 1 .. Cardinality(P)
      PROVE  Pieces(t, Q)[k] = Pieces(s, P)[k]
  <2>1. k \in 1 .. Cardinality(Q)
    BY <1>2, <1>3
  <2>2. From(Q, k) = From(P, k)
    <3>1. CASE k = 1
      BY <3>1 DEF From
    <3>2. CASE k # 1
      <4>1. k - 1 \in 1 .. Cardinality(P)
        BY <1>3, <3>2
      <4> QED  BY <1>2, <4>1 DEF From
    <3> QED  BY <3>1, <3>2
  <2>3. From(P, k) \in Nat \ {0} /\ Kth(P, k) - 1 \in 0 .. Len(s)
    BY <1>1, <1>3
  <2>4. SubSeq(t, From(P, k), Kth(P, k) - 1) = SubSeq(s, From(P, k), Kth(P, k) - 1)
    <3> DEFINE a == From(P, k)
               b == Kth(P, k) - 1
    <3>1. a \in Nat \ {0} /\ b \in 0 .. Len(s)
      BY <2>3
    <3> HIDE DEF a, b
    <3>2. SubSeq(t, a, b) = SubSeq(s, a, b)
      BY <3>1, SamePiece
    <3> QED  BY <3>2 DEF a, b
  <2> QED  BY <1>2, <1>3, <2>1, <2>2, <2>4
<1> QED  BY <1>2, <1>3, <1>4 DEF Begins

\* A largest position is the last one.
LEMMA LastIs ==
  ASSUME NEW n \in Nat, NEW Q \in SUBSET (1 .. n), NEW m \in Q, \A i \in Q : i <= m
  PROVE  LastOf(Q) = m
<1>1. Max(Q) \in Q /\ Max(Q) \in 1 .. n /\ m <= Max(Q) /\ Max(Q) <= m
  BY LastExists
<1> QED  BY <1>1 DEF LastOf

\* One position more, behind the others, ends one piece more.
LEMMA OnePieceMore ==
  ASSUME NEW S, NEW s \in Seq(S), NEW t \in Seq(S), Begins(s, t),
         NEW P \in SUBSET (1 .. Len(s)), NEW m \in Len(s) + 1 .. Len(t),
         NEW Q \in SUBSET (1 .. Len(t)),
         P \subseteq Q, m \in Q, \A i \in Q : i \in P \/ i = m
  PROVE  Pieces(t, Q) = Append(Pieces(s, P), SubSeq(t, LastOf(P) + 1, m - 1))
<1> DEFINE piece == SubSeq(t, LastOf(P) + 1, m - 1)
<1>1. Len(s) \in 0 .. Len(t) /\ Len(t) \in Nat /\ Len(s) \in Nat
  BY LenProperties DEF Begins
<1>2. /\ m \in Nat /\ m > Len(s)
      /\ P = {i \in Q : i <= Len(s)}
  <2>1. \A i \in P : i \in 1 .. Len(t) /\ i <= Len(s)
    BY <1>1
  <2>2. m \in 1 .. Len(t) /\ ~(m <= Len(s)) /\ m \in Nat /\ m > Len(s)
    BY <1>1
  <2> QED  BY <2>1, <2>2, Zenon
<1>3. /\ Cardinality(Q) = Cardinality(P) + 1
      /\ Kth(Q, Cardinality(P) + 1) = m
      /\ Max(Q) = m
      /\ \A k \in 1 .. Cardinality(P) : Kth(Q, k) = Kth(P, k)
  <2>1. PICK R : R = P \cup {m}
    OBVIOUS
  <2>2. /\ Cardinality(R) = Cardinality(P) + 1
        /\ Kth(R, Cardinality(P) + 1) = m
        /\ Max(R) = m
        /\ \A k \in 1 .. Cardinality(P) : Kth(R, k) = Kth(P, k)
    <3>1. /\ Cardinality(P \cup {m}) = Cardinality(P) + 1
          /\ Kth(P \cup {m}, Cardinality(P) + 1) = m
          /\ Max(P \cup {m}) = m
          /\ \A k \in 1 .. Cardinality(P) : Kth(P \cup {m}, k) = Kth(P, k)
      BY <1>1, <1>2, OnePositionMore
    <3> QED  BY <2>1, <3>1, Zenon
  <2>3. R = Q
    BY <2>1
  <2> QED  BY <2>2, <2>3, Zenon
<1>5. /\ Pieces(s, P) \in Seq(Seq(S))
      /\ Len(Pieces(s, P)) = Cardinality(P) /\ Cardinality(P) \in Nat
  BY PiecesType
<1>6. /\ Pieces(t, Q) \in Seq(Seq(S)) /\ Len(Pieces(t, Q)) = Cardinality(P) + 1
      /\ \A k \in 1 .. Cardinality(P) + 1 :
           Pieces(t, Q)[k] = SubSeq(t, From(Q, k), Kth(Q, k) - 1)
  <2>1. /\ Pieces(t, Q) \in Seq(Seq(S)) /\ Len(Pieces(t, Q)) = Cardinality(Q)
        /\ \A k \in 1 .. Cardinality(Q) :
             Pieces(t, Q)[k] = SubSeq(t, From(Q, k), Kth(Q, k) - 1)
    BY <1>2, PiecesType
  <2> QED  BY <1>3, <2>1
<1>7. Begins(Pieces(s, P), Pieces(t, Q))
  BY <1>2, PiecesBelow
<1>8. From(Q, Cardinality(P) + 1) = LastOf(P) + 1
  <2>1. CASE P = {}
    <3>1. Cardinality(P) = 0
      BY <2>1, FS_EmptySet
    <3> QED  BY <2>1, <3>1 DEF From, LastOf
  <2>2. CASE P # {}
    <3>1. Kth(P, Cardinality(P)) = Max(P) /\ Cardinality(P) \in Nat \ {0}
      BY <1>1, <2>2, KthLast
    <3>2. /\ Cardinality(P) + 1 # 1 /\ (Cardinality(P) + 1) - 1 = Cardinality(P)
          /\ Cardinality(P) \in 1 .. Cardinality(P)
      BY <3>1
    <3> QED  BY <1>3, <2>2, <3>1, <3>2 DEF From, LastOf
  <2> QED  BY <2>1, <2>2
<1>9. Pieces(t, Q)[Cardinality(P) + 1] = piece /\ piece \in Seq(S)
  <2>1. Cardinality(P) + 1 \in 1 .. Cardinality(P) + 1
    BY <1>5
  <2> QED  BY <1>3, <1>6, <1>8, <2>1, ElementOfSeq
<1> HIDE DEF piece
<1>10. Pieces(t, Q) = Append(Pieces(s, P), piece)
  <2>1. /\ Append(Pieces(s, P), piece) \in Seq(Seq(S))
        /\ Len(Append(Pieces(s, P), piece)) = Cardinality(P) + 1
        /\ \A k \in 1 .. Cardinality(P) : Append(Pieces(s, P), piece)[k] = Pieces(s, P)[k]
        /\ Append(Pieces(s, P), piece)[Cardinality(P) + 1] = piece
    BY <1>5, <1>9, AppendProperties
  <2>2. ASSUME NEW k \in 1 .. Cardinality(P) + 1
        PROVE  Pieces(t, Q)[k] = Append(Pieces(s, P), piece)[k]
    <3>1. CASE k \in 1 .. Cardinality(P)
      BY <1>5, <1>7, <2>1, <3>1 DEF Begins
    <3>2. CASE k = Cardinality(P) + 1
      BY <1>9, <2>1, <3>2
    <3> QED  BY <1>5, <3>1, <3>2
  <2> QED  BY <1>6, <2>1, <2>2, SeqEqual
<1> QED  BY <1>10 DEF piece
-----------------------------------------------------------------------------
(* Lines.                                                                  *)

\* The line feeds of a text are positions in it.
LEMMA EndsType ==
  ASSUME NEW t \in Text
  PROVE  Ends(t) \in SUBSET (1 .. Len(t)) /\ Len(t) \in Nat
BY LenProperties DEF Ends, Text

\* A beginning of a text has those of its line feeds that lie in it.
LEMMA EndsBelow ==
  ASSUME NEW s \in Text, NEW t \in Text, Begins(s, t)
  PROVE  Ends(s) = {i \in Ends(t) : i <= Len(s)}
<1>1. Len(s) \in Nat /\ Len(t) \in Nat /\ Len(s) <= Len(t)
  BY LenProperties DEF Begins, Text
<1>2. \A i \in 1 .. Len(s) : i \in 1 .. Len(t) /\ i <= Len(s) /\ t[i] = s[i]
  BY <1>1 DEF Begins
<1>3. \A i \in 1 .. Len(t) : i <= Len(s) => i \in 1 .. Len(s)
  BY <1>1
<1> QED  BY <1>2, <1>3 DEF Ends

\* The complete lines of a text are texts, one for each line feed.
LEMMA CompleteLinesType ==
  ASSUME NEW t \in Text
  PROVE  /\ CompleteLines(t) \in Seq(Text)
         /\ Len(CompleteLines(t)) = Len(Pieces(t, Ends(t)))
         /\ Len(Pieces(t, Ends(t))) \in Nat /\ Pieces(t, Ends(t)) \in Seq(Text)
         /\ \A k \in 1 .. Len(Pieces(t, Ends(t))) :
              CompleteLines(t)[k] = StripCR(Pieces(t, Ends(t))[k])
<1> DEFINE pieces == Pieces(t, Ends(t))
<1>1. pieces \in Seq(Text) /\ Len(pieces) \in Nat
  BY EndsType, PiecesType DEF Text
<1> HIDE DEF pieces
<1>2. \A k \in 1 .. Len(pieces) : StripCR(pieces[k]) \in Text
  BY <1>1, ElementOfSeq, StripCRText
<1>3. CompleteLines(t) = [k \in 1 .. Len(pieces) |-> StripCR(pieces[k])]
  BY DEF CompleteLines, pieces
<1>4. CompleteLines(t) \in [1 .. Len(pieces) -> Text]
  BY <1>2, <1>3
<1>5. CompleteLines(t) \in Seq(Text) /\ Len(CompleteLines(t)) = Len(pieces)
  BY <1>1, <1>4
<1> QED  BY <1>1, <1>3, <1>5 DEF pieces

\* The lines complete in a text are lines of every longer one.
LEMMA CompleteLinesBelow ==
  ASSUME NEW s \in Text, NEW t \in Text, Begins(s, t)
  PROVE  Begins(CompleteLines(s), CompleteLines(t))
<1>1. Begins(Pieces(s, Ends(s)), Pieces(t, Ends(t)))
  BY EndsType, EndsBelow, PiecesBelow DEF Text
<1>2. \A k \in 1 .. Len(Pieces(s, Ends(s))) : k \in 1 .. Len(Pieces(t, Ends(t)))
  BY <1>1, CompleteLinesType DEF Begins
<1> QED  BY <1>1, <1>2, CompleteLinesType DEF Begins

\* The empty text has no line.
LEMMA EmptyText ==
  /\ <<>> \in Text /\ Closed(<<>>)
  /\ CompleteLines(<<>>) = <<>> /\ Ends(<<>>) = {}
<1>1. <<>> \in Text /\ Len(<<>>) = 0
  BY EmptySeq DEF Text
<1>2. Ends(<<>>) = {}
  BY <1>1 DEF Ends
<1>3. Len(Pieces(<<>>, {})) = 0
  BY <1>1, PiecesType, FS_EmptySet DEF Text
<1>4. CompleteLines(<<>>) \in Seq(Text) /\ Len(CompleteLines(<<>>)) = 0
  BY <1>1, <1>2, <1>3, CompleteLinesType
<1>5. CompleteLines(<<>>) = <<>>
  BY <1>4, EmptySeq
<1> QED  BY <1>1, <1>2, <1>5 DEF Closed, LastOf

\* A line feed ends one more line ...
LEMMA LineMore ==
  ASSUME NEW s \in Text, NEW t \in Text, Begins(s, t), Closed(s),
         NEW m \in Len(s) + 1 .. Len(t), Len(t) = m, t[m] = LF,
         \A i \in Len(s) + 1 .. m - 1 : t[i] # LF
  PROVE  /\ CompleteLines(t) = Append(CompleteLines(s), StripCR(SubSeq(t, Len(s) + 1, m - 1)))
         /\ Closed(t)
<1> DEFINE line == SubSeq(t, Len(s) + 1, m - 1)
<1>1. Len(s) \in Nat /\ Len(t) \in Nat
  BY EndsType
<1>2. Ends(t) = Ends(s) \cup {m}
  <2>1. \A i \in 1 .. Len(t) : i <= Len(s) \/ i = m \/ i \in Len(s) + 1 .. m - 1
    BY <1>1
  <2>2. \A i \in Ends(t) : i \in Ends(s) \/ i = m
    BY <2>1, EndsBelow DEF Ends
  <2>3. m \in Ends(t)
    BY <1>1 DEF Ends
  <2>4. Ends(s) \subseteq Ends(t)
    BY EndsBelow
  <2> QED  BY <2>2, <2>3, <2>4
<1>3. LastOf(Ends(s)) = Len(s)
  BY DEF Closed
<1>4. /\ Pieces(t, Ends(t)) = Append(Pieces(s, Ends(s)), line) /\ line \in Text
      /\ LastOf(Ends(t)) = m
  <2>1. /\ s \in Seq(Token) /\ t \in Seq(Token)
        /\ Ends(s) \in SUBSET (1 .. Len(s)) /\ m \in Len(s) + 1 .. Len(t)
        /\ Ends(t) \in SUBSET (1 .. Len(t))
    BY EndsType DEF Text
  <2>3. Ends(s) \subseteq Ends(t) /\ m \in Ends(t) /\ \A i \in Ends(t) : i \in Ends(s) \/ i = m
    BY <1>2
  <2>2. Pieces(t, Ends(t)) = Append(Pieces(s, Ends(s)), SubSeq(t, LastOf(Ends(s)) + 1, m - 1))
    BY <2>1, <2>3, OnePieceMore
  <2>4. LastOf(Ends(t)) = m
    <3>1. \A i \in Ends(t) : i <= m
      BY <1>1, <2>1
    <3> QED  BY <1>1, <2>1, <2>3, <3>1, LastIs
  <2>5. line \in Text
    BY <1>1, SubText
  <2> QED  BY <1>3, <2>2, <2>4, <2>5
<1> HIDE DEF line
<1>5. /\ Len(Pieces(t, Ends(t))) = Len(Pieces(s, Ends(s))) + 1
      /\ \A k \in 1 .. Len(Pieces(s, Ends(s))) : Pieces(t, Ends(t))[k] = Pieces(s, Ends(s))[k]
      /\ Pieces(t, Ends(t))[Len(Pieces(s, Ends(s))) + 1] = line
  BY <1>4, CompleteLinesType, AppendProperties
<1> DEFINE n == Len(Pieces(s, Ends(s)))
           lines == Append(CompleteLines(s), StripCR(line))
<1>6. /\ CompleteLines(t) \in Seq(Text) /\ Len(CompleteLines(t)) = n + 1 /\ n \in Nat
      /\ \A k \in 1 .. n + 1 : CompleteLines(t)[k] = StripCR(Pieces(t, Ends(t))[k])
      /\ CompleteLines(s) \in Seq(Text) /\ Len(CompleteLines(s)) = n
      /\ \A k \in 1 .. n : CompleteLines(s)[k] = StripCR(Pieces(s, Ends(s))[k])
  BY <1>5, CompleteLinesType
<1>7. /\ lines \in Seq(Text) /\ Len(lines) = n + 1
      /\ \A k \in 1 .. n : lines[k] = CompleteLines(s)[k]
      /\ lines[n + 1] = StripCR(line)
  BY <1>4, <1>6, StripCRText, AppendProperties
<1> HIDE DEF n, lines
<1>8. ASSUME NEW k \in 1 .. n + 1  PROVE CompleteLines(t)[k] = lines[k]
  <2>1. CASE k \in 1 .. n
    BY <1>5, <1>6, <1>7, <2>1 DEF n
  <2>2. CASE k = n + 1
    BY <1>5, <1>6, <1>7, <2>2 DEF n
  <2> QED  BY <1>6, <2>1, <2>2
<1>9. CompleteLines(t) = lines
  BY <1>6, <1>7, <1>8, SeqEqual
<1> QED  BY <1>4, <1>9 DEF lines, line, Closed

\* ... and text without one none.
LEMMA NoLineMore ==
  ASSUME NEW s \in Text, NEW t \in Text, Begins(s, t), Closed(s),
         \A i \in Len(s) + 1 .. Len(t) : t[i] # LF
  PROVE  /\ CompleteLines(t) = CompleteLines(s)
         /\ Unterminated(t) = SubSeq(t, Len(s) + 1, Len(t))
<1>1. Len(s) \in Nat /\ Len(t) \in Nat
  BY EndsType
<1>2. Ends(t) = Ends(s)
  <2>1. \A i \in 1 .. Len(t) : i <= Len(s) \/ i \in Len(s) + 1 .. Len(t)
    BY <1>1
  <2>2. \A i \in Ends(t) : i <= Len(s)
    BY <2>1 DEF Ends
  <2> QED  BY <2>2, EndsBelow
<1>3. Unterminated(t) = SubSeq(t, Len(s) + 1, Len(t))
  BY <1>2 DEF Unterminated, Left, Closed
<1>4. Begins(Pieces(s, Ends(s)), Pieces(t, Ends(s))) /\ Len(Pieces(s, Ends(s))) = Len(Pieces(t, Ends(s)))
  <2>1. /\ Ends(s) \in SUBSET (1 .. Len(s)) /\ Ends(s) \in SUBSET (1 .. Len(t))
        /\ Ends(s) = {i \in Ends(s) : i <= Len(s)}
    BY <1>2, EndsType, EndsBelow
  <2> QED  BY <2>1, PiecesBelow, PiecesType DEF Text
<1>5. Pieces(s, Ends(s)) = Pieces(t, Ends(t))
  <2>1. Pieces(s, Ends(s)) \in Seq(Text) /\ Pieces(t, Ends(t)) \in Seq(Text)
    BY CompleteLinesType
  <2> QED  BY <1>2, <1>4, <2>1, SeqEqual DEF Begins
<1> QED  BY <1>3, <1>5 DEF CompleteLines
-----------------------------------------------------------------------------
(* Frames.                                                                 *)

\* The blank lines are positions too.
LEMMA BlanksType ==
  ASSUME NEW lines \in Seq(Text)
  PROVE  Blanks(lines) \in SUBSET (1 .. Len(lines)) /\ Len(lines) \in Nat
BY LenProperties DEF Blanks

\* The frames of some lines are sequences of texts.
LEMMA FramesType ==
  ASSUME NEW lines \in Seq(Text)
  PROVE  Frames(lines) \in Seq(Seq(Text)) /\ Len(Frames(lines)) \in Nat
BY BlanksType, PiecesType DEF Frames

\* The frames of some lines are frames of any lines that go on from there.
LEMMA FramesBelow ==
  ASSUME NEW lines \in Seq(Text), NEW more \in Seq(Text), Begins(lines, more)
  PROVE  Begins(Frames(lines), Frames(more))
<1>1. Len(lines) \in Nat /\ Len(more) \in Nat /\ Len(lines) <= Len(more)
  BY BlanksType DEF Begins
<1>2. \A i \in 1 .. Len(lines) : i \in 1 .. Len(more) /\ i <= Len(lines) /\ more[i] = lines[i]
  BY <1>1 DEF Begins
<1>3. \A i \in 1 .. Len(more) : i <= Len(lines) => i \in 1 .. Len(lines)
  BY <1>1
<1>4. Blanks(lines) = {i \in Blanks(more) : i <= Len(lines)}
  BY <1>2, <1>3 DEF Blanks
<1> QED  BY <1>4, BlanksType, PiecesBelow DEF Frames

\* A sequence is the beginning of what appending makes of it.
LEMMA AppendBegins ==
  ASSUME NEW S, NEW s \in Seq(S), NEW x \in S
  PROVE  Begins(s, Append(s, x))
<1>1. Len(s) \in Nat
  BY LenProperties
<1> QED  BY <1>1, AppendProperties DEF Begins

\* The lines after the last blank one.
LEMMA UnfinishedType ==
  ASSUME NEW lines \in Seq(Text)
  PROVE  /\ Unfinished(lines) \in Seq(Text)
         /\ LastOf(Blanks(lines)) \in 0 .. Len(lines)
<1>1. Blanks(lines) \in SUBSET (1 .. Len(lines)) /\ Len(lines) \in Nat
  BY BlanksType
<1>2. LastOf(Blanks(lines)) \in 0 .. Len(lines)
  BY <1>1, LastExists DEF LastOf
<1> DEFINE m == LastOf(Blanks(lines)) + 1
<1>3. m \in Int /\ Len(lines) \in Int /\ \A i \in m .. Len(lines) : i \in 1 .. Len(lines)
  BY <1>1, <1>2
<1>4. \A i \in m .. Len(lines) : lines[i] \in Text
  BY <1>3, ElementOfSeq
<1> HIDE DEF m
<1>5. SubSeq(lines, m, Len(lines)) \in Seq(Text)
  BY <1>3, <1>4, SubSeqProperties
<1> QED  BY <1>2, <1>5 DEF Unfinished, Left, m

\* A blank line ends a frame ...
LEMMA FrameMore ==
  ASSUME NEW lines \in Seq(Text)
  PROVE  /\ Frames(Append(lines, <<>>)) = Append(Frames(lines), Unfinished(lines))
         /\ Unfinished(Append(lines, <<>>)) = <<>>
<1> DEFINE more == Append(lines, <<>>)
           n == Len(lines)
           line == SubSeq(more, LastOf(Blanks(lines)) + 1, (n + 1) - 1)
<1>1. /\ more \in Seq(Text) /\ Len(more) = n + 1 /\ n \in Nat
      /\ Begins(lines, more) /\ more[n + 1] = <<>>
  <2>1. <<>> \in Text
    BY EmptyText
  <2> QED  BY <2>1, AppendProperties, AppendBegins, LenProperties
<1> HIDE DEF more
<1>2. Blanks(more) = Blanks(lines) \cup {n + 1}
  <2>1. /\ \A i \in 1 .. n + 1 : i \in 1 .. n \/ i = n + 1
        /\ n + 1 \in 1 .. n + 1 /\ \A i \in 1 .. n : i \in 1 .. n + 1
    BY <1>1
  <2>2. \A i \in 1 .. n : more[i] = lines[i]
    BY <1>1 DEF Begins
  <2> QED  BY <1>1, <2>1, <2>2 DEF Blanks
<1>3. /\ Pieces(more, Blanks(more)) = Append(Pieces(lines, Blanks(lines)), line)
      /\ LastOf(Blanks(more)) = n + 1
  <2>1. PICK m \in Int : m = n + 1
    BY <1>1
  <2>2. /\ Blanks(lines) \in SUBSET (1 .. Len(lines)) /\ Blanks(more) \in SUBSET (1 .. Len(more))
        /\ m \in Len(lines) + 1 .. Len(more)
    BY <1>1, <2>1, BlanksType
  <2>3. /\ Blanks(lines) \subseteq Blanks(more) /\ m \in Blanks(more)
        /\ \A i \in Blanks(more) : i \in Blanks(lines) \/ i = m
    BY <1>2, <2>1
  <2>4. LastOf(Blanks(more)) = m
    <3>1. \A i \in Blanks(more) : i <= m
      BY <1>1, <2>1, <2>2
    <3>2. Len(more) \in Nat
      BY <1>1
    <3> QED  BY <2>2, <2>3, <3>1, <3>2, LastIs
  <2>5. Pieces(more, Blanks(more)) =
          Append(Pieces(lines, Blanks(lines)), SubSeq(more, LastOf(Blanks(lines)) + 1, m - 1))
    <3> DEFINE P == Blanks(lines)
               Q == Blanks(more)
    <3>1. /\ Begins(lines, more) /\ lines \in Seq(Text) /\ more \in Seq(Text)
          /\ P \in SUBSET (1 .. Len(lines)) /\ Q \in SUBSET (1 .. Len(more))
          /\ m \in Len(lines) + 1 .. Len(more)
          /\ P \subseteq Q /\ m \in Q /\ \A i \in Q : i \in P \/ i = m
      BY <1>1, <2>2, <2>3
    <3> HIDE DEF n, P, Q
    <3>2. Pieces(more, Q) = Append(Pieces(lines, P), SubSeq(more, LastOf(P) + 1, m - 1))
      BY <3>1, OnePieceMore
    <3> QED  BY <3>2 DEF P, Q
  <2> QED  BY <2>1, <2>4, <2>5
<1>4. line = Unfinished(lines)
  <2> DEFINE a == LastOf(Blanks(lines)) + 1
  <2>1. (n + 1) - 1 = n /\ a \in Nat \ {0} /\ n \in 0 .. n
    BY <1>1, UnfinishedType
  <2> HIDE DEF a
  <2>2. SubSeq(more, a, n) = SubSeq(lines, a, n)
    BY <1>1, <2>1, SamePiece
  <2> QED  BY <2>1, <2>2 DEF Unfinished, Left, a
<1>5. Unfinished(more) = <<>>
  <2>1. Unfinished(more) = SubSeq(more, n + 1 + 1, n + 1)
    BY <1>1, <1>3 DEF Unfinished, Left
  <2>2. n + 1 + 1 \in Int /\ n + 1 \in Int /\ n + 1 < n + 1 + 1
    BY <1>1
  <2> QED  BY <2>1, <2>2, SubSeqEmpty
<1> HIDE DEF line
<1> QED  BY <1>3, <1>4, <1>5 DEF Frames, more

\* ... and any other one goes on with it.
LEMMA FrameGoesOn ==
  ASSUME NEW lines \in Seq(Text), NEW line \in Text, line # <<>>
  PROVE  /\ Frames(Append(lines, line)) = Frames(lines)
         /\ Unfinished(Append(lines, line)) = Append(Unfinished(lines), line)
<1> DEFINE more == Append(lines, line)
           n == Len(lines)
<1>1. /\ more \in Seq(Text) /\ Len(more) = n + 1 /\ n \in Nat
      /\ Begins(lines, more) /\ more[n + 1] = line
  BY AppendProperties, AppendBegins, LenProperties
<1> HIDE DEF more
<1>2. Blanks(more) = Blanks(lines)
  <2>1. /\ \A i \in 1 .. n + 1 : i \in 1 .. n \/ i = n + 1
        /\ \A i \in 1 .. n : i \in 1 .. n + 1
    BY <1>1
  <2>2. \A i \in 1 .. n : more[i] = lines[i]
    BY <1>1 DEF Begins
  <2> QED  BY <1>1, <2>1, <2>2 DEF Blanks
<1>3. Frames(more) = Frames(lines)
  <2>1. Begins(Frames(lines), Frames(more))
    BY <1>1, FramesBelow
  <2>2. /\ Frames(lines) \in Seq(Seq(Text)) /\ Frames(more) \in Seq(Seq(Text))
        /\ Len(Frames(lines)) = Cardinality(Blanks(lines))
        /\ Len(Frames(more)) = Cardinality(Blanks(lines))
    BY <1>1, <1>2, BlanksType, PiecesType DEF Frames
  <2> QED  BY <2>1, <2>2, SeqEqual DEF Begins
<1>4. Unfinished(more) = Append(Unfinished(lines), line)
  <2> DEFINE a == LastOf(Blanks(lines)) + 1
             old == SubSeq(lines, a, n)
             new == SubSeq(more, a, n + 1)
  <2>1. a \in 1 .. n + 1 /\ a \in Nat \ {0}
    BY <1>1, UnfinishedType
  <2>2. Unfinished(lines) = old /\ Unfinished(more) = new /\ old \in Seq(Text)
    <3>1. Unfinished(lines) = old /\ Unfinished(more) = new
      BY <1>1, <1>2 DEF Unfinished, Left
    <3> QED  BY <3>1, UnfinishedType
  <2> HIDE DEF a
  <2>3. /\ Len(old) = n - a + 1
        /\ \A i \in 1 .. n - a + 1 : old[i] = lines[a + i - 1]
    <3>1. \A i \in a .. n : lines[i] \in Text
      BY <1>1, <2>1, ElementOfSeq
    <3>2. a \in Int /\ n \in Int /\ (a <= n \/ n - a + 1 = 0)
      BY <1>1, <2>1
    <3> QED  BY <3>1, <3>2, SubSeqProperties
  <2>4. /\ new \in Seq(Text) /\ Len(new) = n - a + 2
        /\ \A i \in 1 .. n - a + 2 : new[i] = more[a + i - 1]
    <3>1. \A i \in a .. n + 1 : more[i] \in Text
      BY <1>1, <2>1, ElementOfSeq
    <3>2. a \in Int /\ n + 1 \in Int /\ a <= n + 1 /\ (n + 1) - a + 1 = n - a + 2
      BY <1>1, <2>1
    <3> QED  BY <3>1, <3>2, SubSeqProperties
  <2> HIDE DEF old, new
  <2>5. /\ Append(old, line) \in Seq(Text) /\ Len(Append(old, line)) = n - a + 2
        /\ \A i \in 1 .. n - a + 1 : Append(old, line)[i] = old[i]
        /\ Append(old, line)[n - a + 2] = line
    <3>1. n - a + 1 + 1 = n - a + 2
      BY <1>1, <2>1
    <3> QED  BY <2>2, <2>3, <3>1, AppendProperties
  <2>6. ASSUME NEW i \in 1 .. n - a + 2  PROVE new[i] = Append(old, line)[i]
    <3>1. CASE i \in 1 .. n - a + 1
      <4>1. a + i - 1 \in 1 .. n
        BY <1>1, <2>1, <3>1
      <4>2. more[a + i - 1] = lines[a + i - 1]
        BY <1>1, <4>1 DEF Begins
      <4> QED  BY <2>3, <2>4, <2>5, <3>1, <4>2
    <3>2. CASE i = n - a + 2
      <4>1. a + i - 1 = n + 1
        BY <1>1, <2>1, <3>2
      <4> QED  BY <1>1, <2>4, <2>5, <3>2, <4>1
    <3>3. i \in 1 .. n - a + 1 \/ i = n - a + 2
      <4>1. n \in Int /\ a \in Int
        BY <1>1, <2>1
      <4> QED  BY <2>6, <4>1
    <3> QED  BY <3>1, <3>2, <3>3
  <2>7. new = Append(old, line)
    BY <2>4, <2>5, <2>6, SeqEqual
  <2> QED  BY <2>2, <2>7
<1> QED  BY <1>3, <1>4 DEF more
-----------------------------------------------------------------------------
(* What a function makes of the elements of a sequence that lie in a set.  *)

Maps(f, S, R)   == f \in [S -> R]
Images(s, f)    == [i \in 1 .. Len(s) |-> f[s[i]]]
Places(s, T)    == {i \in 1 .. Len(s) : s[i] \in T}
Sifted(s, f, T) == At(Images(s, f), Places(s, T))
Latest(s, T)    == s[Max(Places(s, T))]

\* Images applies f to every element.
LEMMA ImagesAre ==
  ASSUME NEW s, NEW f, Len(s) \in Nat
  PROVE  Len(Images(s, f)) = Len(s) /\ \A i \in 1 .. Len(s) : Images(s, f)[i] = f[s[i]]
BY DEF Images

\* The images are of the type of the results of f.
LEMMA ImagesType ==
  ASSUME NEW S, NEW R, NEW f, Maps(f, S, R), NEW s \in Seq(S)
  PROVE  Images(s, f) \in Seq(R)
<1>1. Len(s) \in Nat /\ \A i \in 1 .. Len(s) : f[s[i]] \in R
  BY LenProperties, ElementOfSeq DEF Maps
<1>2. Images(s, f) \in [1 .. Len(s) -> R]
  BY <1>1 DEF Images
<1> QED  BY <1>1, <1>2

\* The places lie in the sequence.
LEMMA PlacesType ==
  ASSUME NEW s, NEW T
  PROVE  Places(s, T) \in SUBSET (1 .. Len(s))
BY DEF Places

\* Appending adds a place exactly when the element lies in T.
LEMMA PlacesAppend ==
  ASSUME NEW S, NEW s \in Seq(S), NEW x \in S, NEW T
  PROVE  /\ x \in T => Places(Append(s, x), T) = Places(s, T) \cup {Len(s) + 1}
         /\ x \notin T => Places(Append(s, x), T) = Places(s, T)
<1> DEFINE more == Append(s, x)
<1>1. /\ Len(more) = Len(s) + 1 /\ Len(s) \in Nat
      /\ \A i \in 1 .. Len(s) : more[i] = s[i]
      /\ more[Len(s) + 1] = x
  BY AppendProperties, LenProperties
<1> HIDE DEF more
<1>2. /\ \A i \in 1 .. Len(more) : i \in 1 .. Len(s) \/ i = Len(s) + 1
      /\ \A i \in 1 .. Len(s) : i \in 1 .. Len(more)
      /\ Len(s) + 1 \in 1 .. Len(more)
  BY <1>1
<1>3. ASSUME x \in T  PROVE Places(more, T) = Places(s, T) \cup {Len(s) + 1}
  <2>1. \A i \in Places(more, T) : i \in Places(s, T) \/ i = Len(s) + 1
    BY <1>1, <1>2 DEF Places
  <2>2. \A i \in Places(s, T) : i \in Places(more, T)
    BY <1>1, <1>2 DEF Places
  <2>3. Len(s) + 1 \in Places(more, T)
    BY <1>1, <1>2, <1>3 DEF Places
  <2> QED  BY <2>1, <2>2, <2>3
<1>4. ASSUME x \notin T  PROVE Places(more, T) = Places(s, T)
  <2>1. \A i \in Places(more, T) : i \in Places(s, T)
    BY <1>1, <1>2, <1>4 DEF Places
  <2>2. \A i \in Places(s, T) : i \in Places(more, T)
    BY <1>1, <1>2 DEF Places
  <2> QED  BY <2>1, <2>2
<1> QED  BY <1>3, <1>4 DEF more

\* Appending adds one image.
LEMMA ImagesAppend ==
  ASSUME NEW S, NEW R, NEW f, Maps(f, S, R), NEW s \in Seq(S), NEW x \in S
  PROVE  Images(Append(s, x), f) = Append(Images(s, f), f[x])
<1> DEFINE n    == Len(s)
           more == Append(s, x)
           old  == Images(s, f)
           new  == Images(more, f)
           y    == f[x]
<1>1. /\ more \in Seq(S) /\ Len(more) = n + 1 /\ n \in Nat
      /\ \A k \in 1 .. n : more[k] = s[k]
      /\ more[n + 1] = x
  BY AppendProperties, LenProperties
<1> HIDE DEF more
<1>2. old \in Seq(R) /\ Len(old) = n /\ \A k \in 1 .. n : old[k] = f[s[k]]
  BY <1>1, ImagesType, ImagesAre
<1>3. new \in Seq(R) /\ Len(new) = n + 1 /\ \A k \in 1 .. n + 1 : new[k] = f[more[k]]
  BY <1>1, ImagesType, ImagesAre
<1>4. y \in R
  BY DEF Maps
<1> HIDE DEF old, new, y
<1>5. /\ Append(old, y) \in Seq(R) /\ Len(Append(old, y)) = n + 1
      /\ \A k \in 1 .. n : Append(old, y)[k] = old[k]
      /\ Append(old, y)[n + 1] = y
  BY <1>2, <1>4, AppendProperties
<1>6. ASSUME NEW k \in 1 .. n + 1  PROVE new[k] = Append(old, y)[k]
  <2>1. k \in 1 .. n \/ k = n + 1
    BY <1>1
  <2> QED  BY <1>1, <1>2, <1>3, <1>5, <2>1 DEF y
<1>7. new = Append(old, y)
  BY <1>3, <1>5, <1>6, SeqEqual
<1> QED  BY <1>4, <1>7 DEF new, old, y, more

\* What is sifted is a sequence of results of f.
LEMMA SiftedType ==
  ASSUME NEW S, NEW R, NEW f, Maps(f, S, R), NEW s \in Seq(S), NEW T
  PROVE  Sifted(s, f, T) \in Seq(R)
<1> DEFINE im == Images(s, f)
           P  == Places(s, T)
<1>1. im \in Seq(R) /\ P \in SUBSET (1 .. Len(im))
  BY LenProperties, ImagesType, ImagesAre, PlacesType
<1> HIDE DEF im, P
<1>2. At(im, P) \in Seq(R)
  BY <1>1, AtType
<1> QED  BY <1>2 DEF Sifted, im, P

\* One element more is one image more, if it lies in the set.
LEMMA SiftedAppend ==
  ASSUME NEW S, NEW R, NEW f, Maps(f, S, R), NEW s \in Seq(S), NEW x \in S, NEW T
  PROVE  /\ x \in T => Sifted(Append(s, x), f, T) = Append(Sifted(s, f, T), f[x])
         /\ x \notin T => Sifted(Append(s, x), f, T) = Sifted(s, f, T)
<1> DEFINE im == Images(s, f)
           P  == Places(s, T)
           y  == f[x]
<1>1. im \in Seq(R) /\ Len(im) = Len(s) /\ P \in SUBSET (1 .. Len(im))
  <2>1. Len(im) = Len(s)
    BY LenProperties, ImagesAre
  <2>2. im \in Seq(R) /\ P \in SUBSET (1 .. Len(s))
    BY ImagesType, PlacesType
  <2> HIDE DEF im, P
  <2> QED  BY <2>1, <2>2
<1>2. y \in R /\ Images(Append(s, x), f) = Append(im, y)
  <2>1. y \in R
    BY DEF Maps
  <2>2. Images(Append(s, x), f) = Append(Images(s, f), f[x])
    BY ImagesAppend
  <2> QED  BY <2>1, <2>2
<1>3. /\ x \in T => Places(Append(s, x), T) = P \cup {Len(im) + 1}
      /\ x \notin T => Places(Append(s, x), T) = P
  BY <1>1, PlacesAppend
<1> HIDE DEF im, P, y
<1>4. At(Append(im, y), P) = At(im, P)
  BY <1>1, <1>2, AtAppend
<1>5. At(Append(im, y), P \cup {Len(im) + 1}) = Append(At(im, P), y)
  BY <1>1, <1>2, AtMore
<1>6. Sifted(s, f, T) = At(im, P)
  BY DEF Sifted, im, P
<1>7. Sifted(Append(s, x), f, T) = At(Append(im, y), Places(Append(s, x), T))
  BY <1>2 DEF Sifted
<1>8. x \in T => Sifted(Append(s, x), f, T) = Append(Sifted(s, f, T), y)
  BY <1>3, <1>5, <1>6, <1>7
<1>9. x \notin T => Sifted(Append(s, x), f, T) = Sifted(s, f, T)
  BY <1>3, <1>4, <1>6, <1>7
<1> QED  BY <1>8, <1>9 DEF y

\* An element of T adds its image.
LEMMA SiftedMore ==
  ASSUME NEW S, NEW R, NEW f, Maps(f, S, R), NEW s \in Seq(S), NEW T, NEW x \in S, x \in T
  PROVE  Sifted(Append(s, x), f, T) = Append(Sifted(s, f, T), f[x])
BY SiftedAppend

\* Another element adds nothing.
LEMMA SiftedSame ==
  ASSUME NEW S, NEW R, NEW f, Maps(f, S, R), NEW s \in Seq(S), NEW T, NEW x \in S, x \notin T
  PROVE  Sifted(Append(s, x), f, T) = Sifted(s, f, T)
BY SiftedAppend

\* What is sifted from a sequence is how a longer one's begins.
LEMMA SiftedBelow ==
  ASSUME NEW S, NEW R, NEW f, Maps(f, S, R), NEW s \in Seq(S), NEW t \in Seq(S), Begins(s, t), NEW T
  PROVE  Begins(Sifted(s, f, T), Sifted(t, f, T))
<1> DEFINE old == Images(s, f)
           new == Images(t, f)
           P   == Places(s, T)
           Q   == Places(t, T)
<1>1. Len(s) \in Nat /\ Len(t) \in Nat /\ Len(s) <= Len(t)
  BY LenProperties DEF Begins
<1>2. \A k \in 1 .. Len(s) : k \in 1 .. Len(t) /\ k <= Len(s) /\ t[k] = s[k]
  BY <1>1 DEF Begins
<1>3. \A k \in 1 .. Len(t) : k <= Len(s) => k \in 1 .. Len(s)
  BY <1>1
<1>4. old \in Seq(R) /\ Len(old) = Len(s) /\ \A i \in 1 .. Len(s) : old[i] = f[s[i]]
  BY <1>1, ImagesType, ImagesAre
<1>5. new \in Seq(R) /\ Len(new) = Len(t) /\ \A i \in 1 .. Len(t) : new[i] = f[t[i]]
  BY <1>1, ImagesType, ImagesAre
<1>6. P \in SUBSET (1 .. Len(old)) /\ Q \in SUBSET (1 .. Len(new))
  BY <1>4, <1>5, PlacesType
<1>7. P = {k \in Q : k <= Len(old)}
  <2>1. P = {k \in Q : k <= Len(s)}
    BY <1>2, <1>3 DEF Places
  <2> QED  BY <1>4, <2>1
<1> HIDE DEF old, new, P, Q
<1>8. Begins(old, new)
  BY <1>1, <1>2, <1>4, <1>5 DEF Begins
<1>9. Begins(At(old, P), At(new, Q))
  BY <1>4, <1>5, <1>6, <1>7, <1>8, AtBelow
<1> QED  BY <1>9 DEF Sifted, old, new, P, Q

\* Nothing comes of the empty sequence.
LEMMA SiftedEmpty ==
  ASSUME NEW S, NEW R, NEW f, Maps(f, S, R), NEW T
  PROVE  Sifted(<<>>, f, T) = <<>>
<1>1. <<>> \in Seq(S) /\ Len(<<>>) = 0
  BY EmptySeq
<1> DEFINE im == Images(<<>>, f)
           P  == Places(<<>>, T)
<1>2. P = {}
  BY <1>1 DEF Places
<1>3. im \in Seq(R) /\ P \in SUBSET (1 .. Len(im))
  BY <1>1, <1>2, ImagesType, PlacesType
<1> HIDE DEF im, P
<1>4. At(im, P) \in Seq(R) /\ Len(At(im, P)) = 0
  BY <1>2, <1>3, AtType, FS_EmptySet
<1> QED  BY <1>4, EmptySeq DEF Sifted, im, P

\* The last element that lies in the set.
LEMMA LatestMore ==
  ASSUME NEW S, NEW s \in Seq(S), NEW T, NEW x \in S, x \in T
  PROVE  /\ Places(Append(s, x), T) # {}
         /\ Latest(Append(s, x), T) = x
<1> DEFINE n == Len(s)
           P == Places(s, T)
           more == Append(s, x)
<1>1. /\ P \in SUBSET (1 .. n) /\ n \in Nat
      /\ more[n + 1] = x
  BY LenProperties, AppendProperties DEF Places
<1>2. Places(more, T) = P \cup {n + 1}
  BY PlacesAppend
<1>3. Max(P \cup {n + 1}) = n + 1
  <2>1. n + 1 \in Nat /\ n + 1 > n
    BY <1>1
  <2> HIDE DEF n, P
  <2> QED  BY <1>1, <2>1, OnePositionMore
<1> HIDE DEF n, P, more
<1>4. Places(more, T) # {} /\ more[Max(Places(more, T))] = x
  BY <1>1, <1>2, <1>3
<1> QED  BY <1>4 DEF more, Latest

\* An element outside T leaves the latest one in T what it was.
LEMMA LatestSame ==
  ASSUME NEW S, NEW s \in Seq(S), NEW T, NEW x \in S, x \notin T
  PROVE  /\ Places(Append(s, x), T) = Places(s, T)
         /\ Places(s, T) # {} => Latest(Append(s, x), T) = Latest(s, T)
<1> DEFINE n == Len(s)
           P == Places(s, T)
           more == Append(s, x)
<1>1. /\ P \in SUBSET (1 .. n) /\ n \in Nat
      /\ \A i \in 1 .. n : more[i] = s[i]
  BY LenProperties, AppendProperties DEF Places
<1>2. Places(more, T) = P
  BY PlacesAppend
<1>3. P # {} => Max(P) \in 1 .. n
  <2> HIDE DEF n, P
  <2> QED  BY <1>1, LastExists
<1> HIDE DEF n, P, more
<1>4. Places(more, T) = P /\ (P # {} => more[Max(P)] = s[Max(P)])
  BY <1>1, <1>2, <1>3
<1> QED  BY <1>4 DEF more, P, Latest
-----------------------------------------------------------------------------
(* Fields of a frame.                                                      *)

\* The positions of the elements that satisfy a field test: those of a longer
\* frame are the same, and perhaps its last.
LEMMA FieldsType ==
  ASSUME NEW frame \in Seq(Text), NEW name
  PROVE  Fields(frame, name) \in SUBSET (1 .. Len(frame)) /\ Len(frame) \in Nat
BY LenProperties DEF Fields

\* A line adds a field exactly when it is one.
LEMMA FieldsAppend ==
  ASSUME NEW frame \in Seq(Text), NEW line \in Text, NEW name
  PROVE  Fields(Append(frame, line), name) =
           IF IsField(line, name) THEN Fields(frame, name) \cup {Len(frame) + 1}
                                  ELSE Fields(frame, name)
<1> DEFINE more == Append(frame, line)
<1>1. /\ Len(more) = Len(frame) + 1 /\ Len(frame) \in Nat
      /\ \A i \in 1 .. Len(frame) : more[i] = frame[i]
      /\ more[Len(frame) + 1] = line
  BY AppendProperties, LenProperties
<1> HIDE DEF more
<1>2. /\ \A i \in 1 .. Len(more) : i \in 1 .. Len(frame) \/ i = Len(frame) + 1
      /\ \A i \in 1 .. Len(frame) : i \in 1 .. Len(more)
      /\ Len(frame) + 1 \in 1 .. Len(more)
  BY <1>1
<1>3. CASE IsField(line, name)
  <2>1. \A i \in Fields(more, name) : i \in Fields(frame, name) \/ i = Len(frame) + 1
    BY <1>1, <1>2 DEF Fields
  <2>2. \A i \in Fields(frame, name) : i \in Fields(more, name)
    BY <1>1, <1>2 DEF Fields
  <2>3. Len(frame) + 1 \in Fields(more, name)
    BY <1>1, <1>2, <1>3 DEF Fields
  <2>4. Fields(more, name) = Fields(frame, name) \cup {Len(frame) + 1}
    BY <2>1, <2>2, <2>3
  <2> QED  BY <1>3, <2>4 DEF more
<1>4. CASE ~IsField(line, name)
  <2>1. \A i \in Fields(more, name) : i \in Fields(frame, name)
    BY <1>1, <1>2, <1>4 DEF Fields
  <2>2. \A i \in Fields(frame, name) : i \in Fields(more, name)
    BY <1>1, <1>2 DEF Fields
  <2>3. Fields(more, name) = Fields(frame, name)
    BY <2>1, <2>2
  <2> QED  BY <1>4, <2>3 DEF more
<1> QED  BY <1>3, <1>4

\* The values of the lines of a frame are texts, and a line adds its own.
LEMMA ValuesAppend ==
  ASSUME NEW frame \in Seq(Text), NEW line \in Text
  PROVE  /\ [i \in 1 .. Len(frame) |-> Value(frame[i])] \in Seq(Text)
         /\ Len([i \in 1 .. Len(frame) |-> Value(frame[i])]) = Len(frame)
         /\ [i \in 1 .. Len(Append(frame, line)) |-> Value(Append(frame, line)[i])] =
              Append([i \in 1 .. Len(frame) |-> Value(frame[i])], Value(line))
<1> DEFINE more == Append(frame, line)
           old == [i \in 1 .. Len(frame) |-> Value(frame[i])]
           new == [i \in 1 .. Len(more) |-> Value(more[i])]
<1>1. /\ Len(more) = Len(frame) + 1 /\ Len(frame) \in Nat /\ more \in Seq(Text)
      /\ \A i \in 1 .. Len(frame) : more[i] = frame[i]
      /\ more[Len(frame) + 1] = line
  BY AppendProperties, LenProperties
<1> HIDE DEF more
<1>2. /\ \A i \in 1 .. Len(frame) : Value(frame[i]) \in Text
      /\ \A i \in 1 .. Len(more) : Value(more[i]) \in Text
      /\ Value(line) \in Text
  BY <1>1, ElementOfSeq, FieldValueText
<1>3. /\ old \in Seq(Text) /\ Len(old) = Len(frame)
      /\ \A i \in 1 .. Len(frame) : old[i] = Value(frame[i])
  <2>1. old \in [1 .. Len(frame) -> Text]
    BY <1>2
  <2> QED  BY <1>1, <2>1
<1>4. /\ new \in Seq(Text) /\ Len(new) = Len(frame) + 1
      /\ \A i \in 1 .. Len(frame) + 1 : new[i] = Value(more[i])
  <2>1. new \in [1 .. Len(more) -> Text]
    BY <1>2
  <2> QED  BY <1>1, <2>1
<1> HIDE DEF old, new
<1>5. /\ Append(old, Value(line)) \in Seq(Text) /\ Len(Append(old, Value(line))) = Len(frame) + 1
      /\ \A i \in 1 .. Len(frame) : Append(old, Value(line))[i] = old[i]
      /\ Append(old, Value(line))[Len(frame) + 1] = Value(line)
  BY <1>2, <1>3, AppendProperties
<1>6. ASSUME NEW i \in 1 .. Len(frame) + 1  PROVE new[i] = Append(old, Value(line))[i]
  <2>1. i \in 1 .. Len(frame) \/ i = Len(frame) + 1
    BY <1>1
  <2> QED  BY <1>1, <1>3, <1>4, <1>5, <2>1
<1>7. new = Append(old, Value(line))
  BY <1>4, <1>5, <1>6, SeqEqual
<1> QED  BY <1>3, <1>7 DEF old, new, more

\* The name of a frame is that of its last "event" line ...
LEMMA NamedAppend ==
  ASSUME NEW frame \in Seq(Text), NEW line \in Text
  PROVE  Named(Append(frame, line)) =
           IF IsField(line, "event") THEN Value(line) ELSE Named(frame)
<1> DEFINE n == Len(frame)
           names == Fields(frame, "event")
           more == Append(frame, line)
<1>1. names \in SUBSET (1 .. n) /\ n \in Nat
  BY FieldsType
<1>2. /\ \A i \in 1 .. n : more[i] = frame[i]
      /\ more[n + 1] = line
  BY AppendProperties
<1>3. CASE IsField(line, "event")
  <2>1. Fields(more, "event") = names \cup {n + 1}
    BY <1>3, FieldsAppend
  <2>2. Max(names \cup {n + 1}) = n + 1
    <3>1. n + 1 \in Nat /\ n + 1 > n
      BY <1>1
    <3> HIDE DEF n, names
    <3> QED  BY <1>1, <3>1, OnePositionMore
  <2> HIDE DEF n, names, more
  <2>3. Fields(more, "event") # {} /\ Max(Fields(more, "event")) = n + 1
    BY <2>1, <2>2
  <2>5. Named(more) = Value(line)
    BY <1>2, <2>3 DEF Named
  <2> QED  BY <1>3, <2>5 DEF more
<1>4. CASE ~IsField(line, "event")
  <2>1. Fields(more, "event") = names
    BY <1>4, FieldsAppend
  <2>2. names # {} => Max(names) \in 1 .. n
    <3> HIDE DEF n, names
    <3> QED  BY <1>1, LastExists
  <2> HIDE DEF n, more
  <2>3. Named(more) = Named(frame)
    BY <1>2, <2>1, <2>2 DEF Named
  <2> QED  BY <1>4, <2>3 DEF more
<1> QED  BY <1>3, <1>4

\* ... and its data all its "data" lines.
LEMMA DataAppend ==
  ASSUME NEW frame \in Seq(Text), NEW line \in Text
  PROVE  /\ DataOf(frame) \in Seq(Text)
         /\ DataOf(Append(frame, line)) =
              IF IsField(line, "data") THEN Append(DataOf(frame), Value(line)) ELSE DataOf(frame)
<1> DEFINE values == [i \in 1 .. Len(frame) |-> Value(frame[i])]
           P == Fields(frame, "data")
           more == Append(frame, line)
<1>1. /\ values \in Seq(Text) /\ Len(values) = Len(frame) /\ Value(line) \in Text
      /\ [i \in 1 .. Len(more) |-> Value(more[i])] = Append(values, Value(line))
  BY ValuesAppend, FieldValueText
<1>2. P \in SUBSET (1 .. Len(values))
  BY <1>1, FieldsType
<1>3. Fields(more, "data") = IF IsField(line, "data") THEN P \cup {Len(values) + 1} ELSE P
  BY <1>1, FieldsAppend
<1>4. DataOf(frame) = At(values, P) /\ DataOf(more) = At(Append(values, Value(line)), Fields(more, "data"))
  BY <1>1 DEF DataOf
<1> HIDE DEF values, P, more
<1>5. /\ At(Append(values, Value(line)), P) = At(values, P)
      /\ At(Append(values, Value(line)), P \cup {Len(values) + 1}) =
           Append(At(values, P), Value(line))
      /\ At(values, P) \in Seq(Text)
  <2> DEFINE x == Value(line)
  <2>1. values \in Seq(Text) /\ x \in Text /\ P \in SUBSET (1 .. Len(values))
    BY <1>1, <1>2
  <2> HIDE DEF x
  <2>2. At(Append(values, x), P) = At(values, P)
    BY <2>1, AtAppend
  <2>3. At(Append(values, x), P \cup {Len(values) + 1}) = Append(At(values, P), x)
    BY <2>1, AtAppend
  <2>4. At(values, P) \in Seq(Text)
    BY <2>1, AtType
  <2> QED  BY <2>2, <2>3, <2>4 DEF x
<1> QED  BY <1>3, <1>4, <1>5 DEF more

\* A frame without lines has neither a name nor data.
LEMMA EmptyFrame ==
  Named(<<>>) = <<>> /\ DataOf(<<>>) = <<>>
<1>1. Len(<<>>) = 0 /\ <<>> \in Seq(Text)
  BY EmptySeq
<1>2. Fields(<<>>, "event") = {} /\ Fields(<<>>, "data") = {}
  BY <1>1 DEF Fields
<1>3. Named(<<>>) = <<>>
  BY <1>2 DEF Named
<1>4. DataOf(<<>>) = <<>>
  <2>1. [i \in 1 .. Len(<<>>) |-> Value(<<>>[i])] \in Seq(Text)
    BY <1>1, EmptySeq
  <2>2. DataOf(<<>>) = At([i \in 1 .. Len(<<>>) |-> Value(<<>>[i])], {})
    BY <1>2, Zenon DEF DataOf
  <2> DEFINE values == [i \in 1 .. Len(<<>>) |-> Value(<<>>[i])]
  <2> HIDE DEF values
  <2>3. At(values, {}) \in Seq(Text) /\ Len(At(values, {})) = 0
    BY <2>1, AtType, FS_EmptySet DEF values
  <2> QED  BY <2>2, <2>3, EmptySeq DEF values
<1> QED  BY <1>3, <1>4
-----------------------------------------------------------------------------
(* Events.                                                                 *)

\* What flush() hands to the handler is an event.
LEMMA FrameEventType ==
  ASSUME NEW p \in Parser
  PROVE  FrameEvent(p) \in Event
<1> DEFINE name == IF p.event = <<>> THEN MESSAGE ELSE p.event
<1>1. name \in Text
  <2>1. MESSAGE \in Text
    BY DEF MESSAGE, Text, Token
  <2> QED  BY <2>1 DEF Parser
<1>2. Join(p.data) \in Seq(Text)
  BY EmptySeq DEF Join, Parser
<1>3. FrameEvent(p) = [event |-> name, data |-> Join(p.data)]
  BY DEF FrameEvent
<1> HIDE DEF name
<1> QED  BY <1>1, <1>2, <1>3 DEF Event

\* The types of what is read from a frame.
LEMMA FrameTypes ==
  ASSUME NEW frame \in Seq(Text)
  PROVE  /\ Named(frame) \in Text /\ DataOf(frame) \in Seq(Text)
         /\ EventOf(frame) \in Event
<1>1. Fields(frame, "event") \in SUBSET (1 .. Len(frame)) /\ Len(frame) \in Nat
  BY FieldsType
<1>2. Named(frame) \in Text
  <2> DEFINE names == Fields(frame, "event")
  <2>1. CASE names = {}
    BY <2>1, EmptySeq DEF Named, Text
  <2>2. CASE names # {}
    <3> HIDE DEF names
    <3>1. Max(names) \in 1 .. Len(frame)
      BY <1>1, <2>2, LastExists DEF names
    <3>2. Value(frame[Max(names)]) \in Text
      BY <1>1, <3>1, ElementOfSeq, FieldValueText
    <3> QED  BY <2>2, <3>2 DEF Named, names
  <2> QED  BY <2>1, <2>2
<1>3. DataOf(frame) \in Seq(Text)
  <2>1. <<>> \in Text
    BY EmptySeq DEF Text
  <2> QED  BY <2>1, DataAppend
<1> DEFINE p == [event |-> Named(frame), data |-> DataOf(frame)]
<1>4. p \in Parser
  BY <1>2, <1>3 DEF Parser
<1>5. EventOf(frame) = FrameEvent(p)
  BY DEF EventOf
<1> HIDE DEF p
<1> QED  BY <1>2, <1>3, <1>4, <1>5, FrameEventType

\* The types of what is read from several frames.
LEMMA EventsType ==
  ASSUME NEW frames \in Seq(Seq(Text))
  PROVE  /\ [k \in 1 .. Len(frames) |-> EventOf(frames[k])] \in Seq(Event)
         /\ Len([k \in 1 .. Len(frames) |-> EventOf(frames[k])]) = Len(frames)
         /\ Full(frames) \in SUBSET (1 .. Len(frames)) /\ Len(frames) \in Nat
         /\ FrameEvents(frames) \in Seq(Event)
<1> DEFINE events == [k \in 1 .. Len(frames) |-> EventOf(frames[k])]
<1>1. Len(frames) \in Nat /\ \A k \in 1 .. Len(frames) : EventOf(frames[k]) \in Event
  BY LenProperties, ElementOfSeq, FrameTypes
<1>2. events \in [1 .. Len(frames) -> Event]
  BY <1>1
<1>3. events \in Seq(Event) /\ Len(events) = Len(frames)
  BY <1>1, <1>2
<1>4. Full(frames) \in SUBSET (1 .. Len(frames))
  BY DEF Full
<1>5. FrameEvents(frames) = At(events, Full(frames))
  BY DEF FrameEvents
<1> HIDE DEF events
<1>6. FrameEvents(frames) \in Seq(Event)
  BY <1>3, <1>4, <1>5, AtType
<1> QED  BY <1>1, <1>3, <1>4, <1>6 DEF events

\* The events of some frames are events of any frames that go on from there.
LEMMA EventsBelow ==
  ASSUME NEW fs \in Seq(Seq(Text)), NEW gs \in Seq(Seq(Text)), Begins(fs, gs)
  PROVE  Begins(FrameEvents(fs), FrameEvents(gs))
<1> DEFINE old == [k \in 1 .. Len(fs) |-> EventOf(fs[k])]
           new == [k \in 1 .. Len(gs) |-> EventOf(gs[k])]
<1>1. Len(fs) \in Nat /\ Len(gs) \in Nat /\ Len(fs) <= Len(gs)
  BY LenProperties DEF Begins
<1>2. \A k \in 1 .. Len(fs) : k \in 1 .. Len(gs) /\ k <= Len(fs) /\ gs[k] = fs[k]
  <2>1. \A k \in 1 .. Len(fs) : k \in 1 .. Len(gs) /\ k <= Len(fs)
    BY <1>1
  <2>2. \A k \in 1 .. Len(fs) : gs[k] = fs[k]
    BY DEF Begins
  <2> QED  BY <2>1, <2>2
<1>3. \A k \in 1 .. Len(gs) : k <= Len(fs) => k \in 1 .. Len(fs)
  BY <1>1
<1>4. Full(fs) = {k \in Full(gs) : k <= Len(fs)}
  BY <1>2, <1>3 DEF Full
<1>5. /\ old \in Seq(Event) /\ new \in Seq(Event) /\ Len(old) = Len(fs) /\ Len(new) = Len(gs)
      /\ Full(fs) \in SUBSET (1 .. Len(old)) /\ Full(gs) \in SUBSET (1 .. Len(new))
      /\ FrameEvents(fs) = At(old, Full(fs)) /\ FrameEvents(gs) = At(new, Full(gs))
  BY EventsType DEF FrameEvents
<1>6. \A k \in 1 .. Len(fs) : new[k] = old[k]
  BY <1>2
<1> HIDE DEF old, new
<1>7. Begins(old, new)
  BY <1>1, <1>5, <1>6 DEF Begins
<1>8. Full(fs) = {k \in Full(gs) : k <= Len(old)}
  BY <1>4, <1>5
<1> DEFINE P == Full(fs)
           Q == Full(gs)
<1>9. P \in SUBSET (1 .. Len(old)) /\ Q \in SUBSET (1 .. Len(new)) /\ P = {k \in Q : k <= Len(old)}
  BY <1>5, <1>8
<1> HIDE DEF P, Q
<1>10. Begins(At(old, P), At(new, Q))
  BY <1>5, <1>7, <1>9, AtBelow
<1> QED  BY <1>5, <1>10 DEF P, Q

\* One more frame is one more event, if it has one.
LEMMA EventsAppend ==
  ASSUME NEW fs \in Seq(Seq(Text)), NEW frame \in Seq(Text)
  PROVE  FrameEvents(Append(fs, frame)) =
           IF HasEvent(frame) THEN Append(FrameEvents(fs), EventOf(frame)) ELSE FrameEvents(fs)
<1> DEFINE more == Append(fs, frame)
           n == Len(fs)
           old == [k \in 1 .. Len(fs) |-> EventOf(fs[k])]
           new == [k \in 1 .. Len(more) |-> EventOf(more[k])]
           x == EventOf(frame)
<1>1. /\ more \in Seq(Seq(Text)) /\ Len(more) = n + 1 /\ n \in Nat
      /\ \A k \in 1 .. n : more[k] = fs[k]
      /\ more[n + 1] = frame
  BY AppendProperties, LenProperties
<1> HIDE DEF more
<1>2. /\ old \in Seq(Event) /\ new \in Seq(Event) /\ Len(old) = n /\ Len(new) = n + 1
      /\ Full(fs) \in SUBSET (1 .. Len(old)) /\ x \in Event
      /\ FrameEvents(fs) = At(old, Full(fs)) /\ FrameEvents(more) = At(new, Full(more))
  BY <1>1, EventsType, FrameTypes DEF FrameEvents
<1>3. /\ \A k \in 1 .. n : old[k] = EventOf(fs[k])
      /\ \A k \in 1 .. n + 1 : new[k] = EventOf(more[k])
  BY <1>1
<1>4. /\ \A k \in 1 .. n + 1 : k \in 1 .. n \/ k = n + 1
      /\ \A k \in 1 .. n : k \in 1 .. n + 1
      /\ n + 1 \in 1 .. n + 1
  BY <1>1
<1>5. new = Append(old, x)
  <2> HIDE DEF old, new
  <2>1. /\ Append(old, x) \in Seq(Event) /\ Len(Append(old, x)) = n + 1
        /\ \A k \in 1 .. n : Append(old, x)[k] = old[k]
        /\ Append(old, x)[n + 1] = x
    <3> HIDE DEF x
    <3> QED  BY <1>2, AppendProperties
  <2>2. ASSUME NEW k \in 1 .. n + 1  PROVE new[k] = Append(old, x)[k]
    BY <1>1, <1>3, <1>4, <2>1
  <2> QED  BY <1>2, <2>1, <2>2, SeqEqual
<1>6. HasEvent(frame) => Full(more) = Full(fs) \cup {n + 1}
  <2> SUFFICES ASSUME HasEvent(frame)  PROVE Full(more) = Full(fs) \cup {n + 1}
    OBVIOUS
  <2>1. \A k \in Full(more) : k \in Full(fs) \/ k = n + 1
    BY <1>1, <1>4 DEF Full
  <2>2. \A k \in Full(fs) : k \in Full(more)
    BY <1>1, <1>4 DEF Full
  <2>3. n + 1 \in Full(more)
    BY <1>1, <1>4 DEF Full
  <2> QED  BY <2>1, <2>2, <2>3
<1>7. ~HasEvent(frame) => Full(more) = Full(fs)
  <2> SUFFICES ASSUME ~HasEvent(frame)  PROVE Full(more) = Full(fs)
    OBVIOUS
  <2>1. \A k \in Full(more) : k \in Full(fs)
    BY <1>1, <1>4 DEF Full
  <2>2. \A k \in Full(fs) : k \in Full(more)
    BY <1>1, <1>4 DEF Full
  <2> QED  BY <2>1, <2>2
<1> DEFINE P == Full(fs)
<1>8. /\ At(Append(old, x), P) = At(old, P)
      /\ At(Append(old, x), P \cup {n + 1}) = Append(At(old, P), x)
  <2>0. P \in SUBSET (1 .. Len(old)) /\ x \in Event /\ old \in Seq(Event)
    BY <1>2
  <2> HIDE DEF old, new, x, P
  <2>1. At(Append(old, x), P) = At(old, P)
    BY <2>0, AtAppend
  <2>2. At(Append(old, x), P \cup {Len(old) + 1}) = Append(At(old, P), x)
    BY <2>0, AtMore
  <2> QED  BY <1>2, <2>1, <2>2
<1> HIDE DEF old, new, x
<1>9. CASE HasEvent(frame)
  <2>1. FrameEvents(more) = Append(FrameEvents(fs), x)
    BY <1>2, <1>5, <1>6, <1>8, <1>9
  <2> QED  BY <1>9, <2>1 DEF more, x
<1>10. CASE ~HasEvent(frame)
  <2>1. FrameEvents(more) = FrameEvents(fs)
    BY <1>2, <1>5, <1>7, <1>8, <1>10
  <2> QED  BY <1>10, <2>1 DEF more
<1> QED  BY <1>9, <1>10
-----------------------------------------------------------------------------
(* The parser after some lines, and the events they are worth.             *)

\* What some lines leave is a parser, and their events are events.
LEMMA ParserAfterType ==
  ASSUME NEW lines \in Seq(Text)
  PROVE  /\ ParserAfter(lines) \in Parser
         /\ ParserAfter(lines).event = Named(Unfinished(lines))
         /\ ParserAfter(lines).data = DataOf(Unfinished(lines))
         /\ EventsOf(lines) \in Seq(Event)
<1>1. Unfinished(lines) \in Seq(Text) /\ Frames(lines) \in Seq(Seq(Text))
  BY UnfinishedType, FramesType
<1> DEFINE u == Unfinished(lines)
<1>2. Named(u) \in Text /\ DataOf(u) \in Seq(Text)
  BY <1>1, FrameTypes
<1> HIDE DEF u
<1>3. /\ [event |-> Named(u), data |-> DataOf(u)] \in Parser
      /\ [event |-> Named(u), data |-> DataOf(u)].event = Named(u)
      /\ [event |-> Named(u), data |-> DataOf(u)].data = DataOf(u)
  BY <1>2 DEF Parser
<1>4. EventsOf(lines) \in Seq(Event)
  BY <1>1, EventsType DEF EventsOf
<1> QED  BY <1>3, <1>4 DEF ParserAfter, u

\* Nothing is unfinished before the first line.
LEMMA NoLines ==
  /\ <<>> \in Seq(Text)
  /\ ParserAfter(<<>>) = NewParser /\ EventsOf(<<>>) = <<>>
<1>1. <<>> \in Seq(Text) /\ Len(<<>>) = 0
  BY EmptySeq
<1>2. Blanks(<<>>) = {}
  BY <1>1 DEF Blanks
<1>3. Unfinished(<<>>) = <<>>
  <2>1. Unfinished(<<>>) = SubSeq(<<>>, 0 + 1, Len(<<>>))
    BY <1>2 DEF Unfinished, Left, LastOf
  <2>2. 0 + 1 \in Int /\ Len(<<>>) \in Int /\ Len(<<>>) < 0 + 1
    BY <1>1
  <2> QED  BY <2>1, <2>2, SubSeqEmpty
<1>4. ParserAfter(<<>>) = NewParser
  BY <1>3, EmptyFrame DEF ParserAfter, NewParser
<1>5. Frames(<<>>) = <<>>
  <2>1. Len(Frames(<<>>)) = 0 /\ Frames(<<>>) \in Seq(Seq(Text))
    BY <1>1, <1>2, PiecesType, FS_EmptySet DEF Frames
  <2> QED  BY <2>1, EmptySeq
<1>6. EventsOf(<<>>) = <<>>
  <2>1. FrameEvents(<<>>) = <<>>
    <3>1. PICK fs \in Seq(Seq(Text)) : fs = <<>>
      BY EmptySeq
    <3>2. Full(fs) = {}
      <4>1. Len(fs) = 0
        BY <3>1, EmptySeq
      <4> QED  BY <4>1 DEF Full
    <3> DEFINE events == [k \in 1 .. Len(fs) |-> EventOf(fs[k])]
    <3>3. FrameEvents(fs) = At(events, {}) /\ events \in Seq(Event)
      BY <3>2, EventsType DEF FrameEvents
    <3> HIDE DEF events
    <3>4. At(events, {}) \in Seq(Event) /\ Len(At(events, {})) = 0
      BY <3>3, AtType, FS_EmptySet
    <3>5. FrameEvents(fs) = <<>>
      BY <3>3, <3>4, EmptySeq
    <3> QED  BY <3>1, <3>5, Zenon
  <2> QED  BY <1>5, <2>1 DEF EventsOf
<1> QED  BY <1>1, <1>4, <1>6

\* Neither an empty line nor a comment names a field.
LEMMA NoField ==
  ASSUME NEW line \in Text, line = <<>> \/ line[1] = COLON
  PROVE  Field(line) # <<"event">> /\ Field(line) # <<"data">>
<1>1. Len(line) \in Nat /\ (line = <<>> => Len(line) = 0)
  BY LenProperties, EmptySeq DEF Text
<1>2. Len(<<"event">>) = 1 /\ Len(<<"data">>) = 1
  OBVIOUS
<1>3. Len(Field(line)) = 0
  <2>1. CASE ~Has(COLON, line)
    <3>1. line = <<>>
      <4>1. line # <<>> => 1 \in 1 .. Len(line)
        BY <1>1, EmptySeq DEF Text
      <4> QED  BY <2>1, <4>1 DEF Has
    <3> QED  BY <1>1, <2>1, <3>1 DEF Field
  <2>2. CASE Has(COLON, line)
    <3> DEFINE c == ColonAt(line)
    <3>1. FindsAt(COLON, line, c)
      BY <2>2, ColonAtFinds
    <3> HIDE DEF c
    <3>2. c \in 1 .. Len(line) /\ line[1] = COLON
      BY <1>1, <3>1 DEF FindsAt
    <3>3. c = 1
      <4>1. c # 1 => 1 \in 1 .. (c - 1)
        BY <1>1, <3>2
      <4> QED  BY <3>1, <3>2, <4>1 DEF FindsAt
    <3>4. Field(line) = SubSeq(line, 1, c - 1)
      BY <2>2 DEF Field, c
    <3>5. SubSeq(line, 1, 0) = <<>>
      BY SubSeqEmpty
    <3> QED  BY <3>3, <3>4, <3>5, EmptySeq
  <2> QED  BY <2>1, <2>2
<1> QED  BY <1>2, <1>3

\* What SseParser.process_line does with a line, case by case: a blank line ends
\* the frame, an event or data line goes into the parser, any other is ignored.
LEMMA ProcessLineIs ==
  ASSUME NEW p, NEW line \in Text
  PROVE  /\ line = <<>> => ProcessLine(p, line) = Flush(p)
         /\ line # <<>> /\ IsField(line, "event") =>
              ProcessLine(p, line) = Nothing([p EXCEPT !.event = Value(line)])
         /\ line # <<>> /\ IsField(line, "data") =>
              ProcessLine(p, line) = Nothing([p EXCEPT !.data = Append(p.data, Value(line))])
         /\ line # <<>> /\ ~IsField(line, "event") /\ ~IsField(line, "data") =>
              ProcessLine(p, line) = Nothing(p)
<1>1. <<"event">> # <<"data">>
  OBVIOUS
<1>2. line = <<>> => ProcessLine(p, line) = Flush(p)
  BY NoField DEF ProcessLine
<1>3. line # <<>> /\ line[1] = COLON => ProcessLine(p, line) = Nothing(p)
  BY NoField DEF ProcessLine
<1>4. line # <<>> /\ IsField(line, "event") =>
        ProcessLine(p, line) = Nothing([p EXCEPT !.event = Value(line)])
  BY <1>1 DEF ProcessLine, IsField
<1>5. line # <<>> /\ IsField(line, "data") =>
        ProcessLine(p, line) = Nothing([p EXCEPT !.data = Append(p.data, Value(line))])
  BY <1>1 DEF ProcessLine, IsField
<1>6. line # <<>> /\ line[1] # COLON /\ ~IsField(line, "event") /\ ~IsField(line, "data") =>
        ProcessLine(p, line) = Nothing(p)
  BY DEF ProcessLine, IsField
<1> QED  BY <1>2, <1>3, <1>4, <1>5, <1>6

\* A line without an event leaves the parser it names.
LEMMA NothingIs ==
  ASSUME NEW p
  PROVE  Nothing(p).parser = p /\ Nothing(p).kind = "none"
BY DEF Nothing

\* A line takes the parser after some lines to the parser after one more, and
\* returns the event that line completes, if any.
LEMMA LineInterpreted ==
  ASSUME NEW lines \in Seq(Text), NEW line \in Text, NEW p, p = ParserAfter(lines)
  PROVE  /\ ProcessLine(p, line).parser = ParserAfter(Append(lines, line))
         /\ ProcessLine(p, line).kind = "none" =>
              EventsOf(Append(lines, line)) = EventsOf(lines)
         /\ ProcessLine(p, line).kind # "none" =>
              /\ ProcessLine(p, line).parser = NewParser
              /\ EventsOf(Append(lines, line)) =
                   Append(EventsOf(lines), ProcessLine(p, line).event)
              /\ ProcessLine(p, line).event \in Event
              /\ ProcessLine(p, line).kind = "throw" <=> IsError(ProcessLine(p, line).event)
<1> DEFINE u == Unfinished(lines)
           more == Append(lines, line)
           r == ProcessLine(p, line)
<1>1. /\ p \in Parser /\ p.event = Named(u) /\ p.data = DataOf(u)
      /\ u \in Seq(Text) /\ Frames(lines) \in Seq(Seq(Text))
  BY ParserAfterType, UnfinishedType, FramesType
<1>2. CASE line = <<>>
  <2>1. /\ Frames(more) = Append(Frames(lines), u) /\ Unfinished(more) = <<>>
    BY <1>2, FrameMore
  <2>2. ParserAfter(more) = NewParser
    BY <2>1, EmptyFrame DEF ParserAfter, NewParser
  <2>3. EventsOf(more) = IF HasEvent(u) THEN Append(EventsOf(lines), EventOf(u)) ELSE EventsOf(lines)
    <3> HIDE DEF u, more
    <3> QED  BY <1>1, <2>1, EventsAppend DEF EventsOf
  <2>4. r = Flush(p)
    <3> QED  BY <1>2, ProcessLineIs
  <2>5. p = [event |-> Named(u), data |-> DataOf(u)] /\ EventOf(u) = FrameEvent(p)
    BY DEF ParserAfter, EventOf
  <2>6. EventOf(u) \in Event
    BY <1>1, FrameTypes
  <2>7. EventOf(u) = FrameEvent(p) /\ (HasEvent(u) <=> ~(p.event = <<>> /\ p.data = <<>>))
    BY <1>1, <2>5 DEF HasEvent
  <2>8. CASE HasEvent(u)
    <3>1. r = Emit(NewParser, EventOf(u))
      <4> HIDE DEF u, r
      <4> QED  BY <2>4, <2>7, <2>8 DEF Flush
    <3>2. /\ r.parser = NewParser /\ r.event = EventOf(u)
          /\ r.kind = IF EventOf(u).event = ERROR THEN "throw" ELSE "event"
      BY <3>1 DEF Emit
    <3> HIDE DEF r, u, more
    <3>3. r.kind # "none" /\ (r.kind = "throw" <=> IsError(r.event))
      BY <3>2 DEF IsError
    <3>4. EventsOf(more) = Append(EventsOf(lines), r.event) /\ r.parser = ParserAfter(more)
      BY <2>2, <2>3, <2>8, <3>2
    <3> QED  BY <2>6, <3>2, <3>3, <3>4 DEF r, more
  <2>9. CASE ~HasEvent(u)
    <3>1. r = Nothing(p) /\ p.event = <<>> /\ p.data = <<>>
      <4> HIDE DEF u, r
      <4> QED  BY <2>4, <2>7, <2>9 DEF Flush
    <3>2. p = NewParser
      <4> HIDE DEF r, u
      <4> QED  BY <1>1, <3>1 DEF Parser, NewParser
    <3>3. r.parser = p /\ r.kind = "none"
      <4> HIDE DEF r
      <4> QED  BY <3>1, NothingIs
    <3> HIDE DEF r, u, more
    <3>4. r.parser = ParserAfter(more) /\ EventsOf(more) = EventsOf(lines)
      BY <2>2, <2>3, <2>9, <3>2, <3>3
    <3> QED  BY <3>3, <3>4 DEF r, more
  <2> QED  BY <2>8, <2>9
<1>3. CASE line # <<>>
  <2> DEFINE q == [event |-> Named(Append(u, line)), data |-> DataOf(Append(u, line))]
  <2>1. Frames(more) = Frames(lines) /\ Unfinished(more) = Append(u, line)
    BY <1>3, FrameGoesOn
  <2>2. EventsOf(more) = EventsOf(lines) /\ ParserAfter(more) = q
    BY <2>1 DEF EventsOf, ParserAfter
  <2>3. /\ Named(Append(u, line)) = IF IsField(line, "event") THEN Value(line) ELSE p.event
        /\ DataOf(Append(u, line)) = IF IsField(line, "data") THEN Append(p.data, Value(line)) ELSE p.data
    <3> HIDE DEF u
    <3> QED  BY <1>1, NamedAppend, DataAppend
  <2>4. ~(IsField(line, "event") /\ IsField(line, "data"))
    BY DEF IsField
  <2> HIDE DEF u
  <2>5. CASE IsField(line, "event")
    <3>1. q = [p EXCEPT !.event = Value(line)]
      BY <1>1, <2>3, <2>4, <2>5 DEF Parser
    <3>2. r = Nothing([p EXCEPT !.event = Value(line)])
      BY <1>3, <2>5, ProcessLineIs
    <3> HIDE DEF q, r
    <3>3. r.parser = q /\ r.kind = "none"
      BY <3>1, <3>2, NothingIs
    <3> QED  BY <2>2, <3>3 DEF r, more
  <2>6. CASE IsField(line, "data")
    <3>1. q = [p EXCEPT !.data = Append(p.data, Value(line))]
      <4> DEFINE v == Append(p.data, Value(line))
      <4>1. q = [event |-> p.event, data |-> v]
        BY <2>3, <2>4, <2>6
      <4> HIDE DEF v, q
      <4>2. q = [p EXCEPT !.data = v]
        BY <1>1, <4>1 DEF Parser
      <4> QED  BY <4>2 DEF v
    <3>2. r = Nothing([p EXCEPT !.data = Append(p.data, Value(line))])
      BY <1>3, <2>6, ProcessLineIs
    <3> HIDE DEF q, r
    <3>3. r.parser = q /\ r.kind = "none"
      BY <3>1, <3>2, NothingIs
    <3> QED  BY <2>2, <3>3 DEF r, more
  <2>7. CASE ~IsField(line, "event") /\ ~IsField(line, "data")
    <3>1. q = p
      BY <1>1, <2>3, <2>7 DEF Parser
    <3>2. r = Nothing(p)
      BY <1>3, <2>7, ProcessLineIs
    <3> HIDE DEF q, r
    <3>3. r.parser = q /\ r.kind = "none"
      BY <3>1, <3>2, NothingIs
    <3> QED  BY <2>2, <3>3 DEF r, more
  <2> QED  BY <2>5, <2>6, <2>7
<1> QED  BY <1>2, <1>3
-----------------------------------------------------------------------------
(* A text received in parts.                                               *)

\* The part of a text between two positions.
Part(s, a, b) == SubSeq(s, a + 1, b)

\* The part between two positions, position by position.
LEMMA PartIs ==
  ASSUME NEW s \in Text, NEW a \in Nat, NEW b \in Nat, a <= b, b <= Len(s)
  PROVE  /\ Part(s, a, b) \in Text /\ Len(Part(s, a, b)) = b - a
         /\ \A i \in 1 .. b - a : Part(s, a, b)[i] = s[a + i]
<1>1. Len(s) \in Nat
  BY EndsType
<1>2. \A i \in a + 1 .. b : s[i] \in Token
  BY <1>1, ElementOfSeq DEF Text
<1>3. a + 1 \in Int /\ b \in Int /\ b - (a + 1) + 1 = b - a
  OBVIOUS
<1>4. /\ SubSeq(s, a + 1, b) \in Seq(Token)
      /\ Len(SubSeq(s, a + 1, b)) = IF a + 1 <= b THEN b - a ELSE 0
      /\ \A i \in 1 .. b - a : SubSeq(s, a + 1, b)[i] = s[a + 1 + i - 1]
  BY <1>2, <1>3, SubSeqProperties
<1> QED  BY <1>4 DEF Part, Text

\* The same for a part that starts where the text does.
LEMMA FromStart ==
  ASSUME NEW s \in Text, NEW b \in Nat, b <= Len(s)
  PROVE  /\ Part(s, 0, b) \in Text /\ Len(Part(s, 0, b)) = b
         /\ \A i \in 1 .. b : Part(s, 0, b)[i] = s[i]
<1>1. PICK a \in Nat : a = 0
  OBVIOUS
<1>2. a <= b /\ b - a = b /\ \A i \in 1 .. b : a + i = i
  BY <1>1
<1>3. /\ Part(s, a, b) \in Text /\ Len(Part(s, a, b)) = b - a
      /\ \A i \in 1 .. b - a : Part(s, a, b)[i] = s[a + i]
  BY <1>2, PartIs
<1> QED  BY <1>1, <1>2, <1>3

\* A part of a part is a part.
LEMMA PartOfPart ==
  ASSUME NEW s \in Text, NEW a \in Nat, NEW b \in Nat, a <= b, b <= Len(s),
         NEW c \in Nat, NEW d \in Nat, c <= d, d <= b - a
  PROVE  Part(Part(s, a, b), c, d) = Part(s, a + c, a + d)
<1> DEFINE w == Part(s, a, b)
<1>0. Len(s) \in Nat
  BY EndsType
<1>1. w \in Text /\ Len(w) = b - a /\ \A i \in 1 .. b - a : w[i] = s[a + i]
  BY PartIs
<1>2. a + c \in Nat /\ a + d \in Nat /\ a + c <= a + d /\ a + d <= Len(s)
  BY <1>0
<1> HIDE DEF w
<1>3. /\ Part(w, c, d) \in Text /\ Len(Part(w, c, d)) = d - c
      /\ \A i \in 1 .. d - c : Part(w, c, d)[i] = w[c + i]
  BY <1>1, PartIs
<1>4. /\ Part(s, a + c, a + d) \in Text /\ Len(Part(s, a + c, a + d)) = (a + d) - (a + c)
      /\ \A i \in 1 .. (a + d) - (a + c) : Part(s, a + c, a + d)[i] = s[a + c + i]
  <2> DEFINE x == a + c
             y == a + d
  <2>1. x \in Nat /\ y \in Nat /\ x <= y /\ y <= Len(s)
    BY <1>2
  <2> HIDE DEF x, y
  <2>2. /\ Part(s, x, y) \in Text /\ Len(Part(s, x, y)) = y - x
        /\ \A i \in 1 .. y - x : Part(s, x, y)[i] = s[x + i]
    BY <2>1, PartIs
  <2> QED  BY <2>2 DEF x, y
<1>5. (a + d) - (a + c) = d - c
  OBVIOUS
<1>6. ASSUME NEW i \in 1 .. d - c
      PROVE  Part(w, c, d)[i] = Part(s, a + c, a + d)[i]
  <2>1. c + i \in 1 .. b - a /\ a + (c + i) = a + c + i
    OBVIOUS
  <2> QED  BY <1>1, <1>3, <1>4, <1>5, <2>1
<1> QED  BY <1>3, <1>4, <1>5, <1>6, SeqEqual DEF Text, w

\* Adjacent parts join.
LEMMA PartsJoin ==
  ASSUME NEW s \in Text, NEW a \in Nat, NEW b \in Nat, NEW c \in Nat, a <= b, b <= c, c <= Len(s)
  PROVE  Part(s, a, b) \o Part(s, b, c) = Part(s, a, c)
<1>1. Len(s) \in Nat
  BY EndsType
<1>2. a + 1 \in 1 .. Len(s) + 1 /\ b \in (a + 1) - 1 .. Len(s) /\ c \in b .. Len(s)
  BY <1>1
<1> QED  BY <1>2, ConcatAdjacentSubSeq DEF Part, Text

\* Of two parts from the start the shorter one begins the longer.
LEMMA PartsBegin ==
  ASSUME NEW s \in Text, NEW b \in Nat, NEW c \in Nat, b <= c, c <= Len(s)
  PROVE  /\ Begins(Part(s, 0, b), Part(s, 0, c))
         /\ Begins(Part(s, 0, c), s) /\ Part(s, 0, Len(s)) = s
<1>1. Len(s) \in Nat /\ b <= Len(s)
  BY EndsType
<1>2. /\ Len(Part(s, 0, b)) = b /\ \A i \in 1 .. b : Part(s, 0, b)[i] = s[i]
      /\ Len(Part(s, 0, c)) = c /\ \A i \in 1 .. c : Part(s, 0, c)[i] = s[i]
  BY <1>1, FromStart
<1>3. \A i \in 1 .. b : i \in 1 .. c
  OBVIOUS
<1>4. Part(s, 0, Len(s)) = s
  <2>1. 0 + 1 = 1
    OBVIOUS
  <2> QED  BY <2>1, SubSeqFull DEF Part, Text
<1> QED  BY <1>1, <1>2, <1>3, <1>4 DEF Begins

\* Begins is transitive.
LEMMA BeginsTrans ==
  ASSUME NEW S, NEW r \in Seq(S), NEW s \in Seq(S), NEW t \in Seq(S), Begins(r, s), Begins(s, t)
  PROVE  Begins(r, t)
<1>1. Len(r) \in Nat /\ Len(s) \in Nat /\ Len(t) \in Nat
  BY LenProperties
<1>2. \A i \in 1 .. Len(r) : i \in 1 .. Len(s)
  BY <1>1 DEF Begins
<1> QED  BY <1>1, <1>2 DEF Begins

\* A chunk goes from what is still to come to the end of what has come.
LEMMA ChunkMoves ==
  ASSUME NEW s \in Text, NEW p \in Nat, NEW a \in Nat, p <= a, a <= Len(s),
         NEW n \in 1 .. (Len(s) - a)
  PROVE  /\ SubSeq(Part(s, a, Len(s)), n + 1, Len(s) - a) = Part(s, a + n, Len(s))
         /\ Len(Part(s, a + n, Len(s))) = Len(s) - (a + n)
         /\ Part(s, p, a) \o SubSeq(Part(s, a, Len(s)), 1, n) = Part(s, p, a + n)
         /\ Len(Part(s, p, a + n)) = (a + n) - p
         /\ Part(s, 0, a + n) \in Text
         /\ Begins(Part(s, 0, a), Part(s, 0, a + n))
<1> DEFINE b == Len(s)
           x == a + n
           d == b - a
<1>1. /\ b \in Nat /\ b <= Len(s) /\ x \in Nat /\ x <= Len(s) /\ a <= x /\ p <= x /\ x <= b
      /\ d \in Nat /\ n \in Nat /\ n <= d /\ d <= b - a /\ a + d = b /\ a <= b
      /\ 0 \in Nat /\ 0 <= n /\ a + 0 = a /\ 0 + 1 = 1
  BY EndsType
<1> HIDE DEF b, d
<1>2. Part(Part(s, a, b), n, d) = Part(s, a + n, a + d)
  BY <1>1, PartOfPart
<1>3. Part(Part(s, a, b), 0, n) = Part(s, a + 0, a + n)
  BY <1>1, PartOfPart
<1> HIDE DEF x
<1>4. Len(Part(s, x, b)) = b - x /\ Len(Part(s, p, x)) = x - p
  <2>1. Len(Part(s, x, b)) = b - x
    BY <1>1, PartIs
  <2>2. Len(Part(s, p, x)) = x - p
    BY <1>1, PartIs
  <2> QED  BY <2>1, <2>2
<1>5. Part(s, p, a) \o Part(s, a, x) = Part(s, p, x)
  BY <1>1, PartsJoin
<1>6. Part(s, 0, x) \in Text /\ Begins(Part(s, 0, a), Part(s, 0, x))
  BY <1>1, FromStart, PartsBegin
<1>7. SubSeq(Part(s, a, b), n + 1, d) = Part(s, x, b) /\ SubSeq(Part(s, a, b), 1, n) = Part(s, a, x)
  BY <1>1, <1>2, <1>3 DEF Part, x
<1> QED  BY <1>4, <1>5, <1>6, <1>7 DEF b, d, x

\* A line taken from the text after the consumed one is a line more.
LEMMA LineConsumed ==
  ASSUME NEW s \in Text, NEW c \in Nat, NEW n \in Nat, c <= n, n <= Len(s), Closed(Part(s, 0, c)),
         NEW k \in 1 .. (n - c), FindsAt(LF, Part(s, c, n), k)
  PROVE  /\ CompleteLines(Part(s, 0, c + k)) =
              Append(CompleteLines(Part(s, 0, c)), StripCR(SubSeq(Part(s, c, n), 1, k - 1)))
         /\ Closed(Part(s, 0, c + k))
         /\ SubSeq(Part(s, c, n), k + 1, n - c) = Part(s, c + k, n)
<1> DEFINE m == c + k
           old == Part(s, 0, c)
           new == Part(s, 0, m)
           buf == Part(s, c, n)
<1>0. Len(s) \in Nat /\ c <= Len(s) /\ m \in Nat /\ m <= Len(s) /\ c <= m
  BY EndsType
<1>1. /\ old \in Text /\ new \in Text /\ buf \in Text
      /\ Len(old) = c /\ Len(new) = m /\ Len(buf) = n - c
      /\ \A i \in 1 .. n - c : buf[i] = s[c + i]
      /\ \A i \in 1 .. m : new[i] = s[i]
  <2>1. old \in Text /\ Len(old) = c
    BY <1>0, FromStart
  <2>2. /\ new \in Text /\ Len(new) = m /\ \A i \in 1 .. m : new[i] = s[i]
    <3> HIDE DEF m
    <3> QED  BY <1>0, FromStart
  <2>3. buf \in Text /\ Len(buf) = n - c /\ \A i \in 1 .. n - c : buf[i] = s[c + i]
    BY PartIs
  <2> QED  BY <2>1, <2>2, <2>3
<1>2. Begins(old, new)
  <2> HIDE DEF m
  <2> QED  BY <1>0, PartsBegin
<1>3. /\ m \in Len(old) + 1 .. Len(new) /\ Len(new) = m /\ new[m] = LF
      /\ \A i \in Len(old) + 1 .. m - 1 : new[i] # LF
  <2>1. \A i \in 1 .. k : c + i \in 1 .. m /\ i \in 1 .. n - c
    BY <1>0
  <2>2. \A i \in 1 .. k : new[c + i] = buf[i]
    BY <1>1, <2>1
  <2>3. new[c + k] = LF
    BY <2>2 DEF FindsAt
  <2>4. ASSUME NEW i \in c + 1 .. m - 1  PROVE new[i] # LF
    <3>1. i - c \in 1 .. k - 1 /\ i - c \in 1 .. k /\ c + (i - c) = i
      BY <1>0
    <3>2. new[i] = buf[i - c]
      BY <2>2, <3>1
    <3> QED  BY <3>1, <3>2 DEF FindsAt
  <2>5. m \in c + 1 .. m
    BY <1>0
  <2> QED  BY <1>1, <2>3, <2>4, <2>5
<1>4. SubSeq(new, Len(old) + 1, m - 1) = SubSeq(buf, 1, k - 1)
  <2>1. Part(new, c, m - 1) = Part(s, 0 + c, 0 + (m - 1))
    <3> DEFINE d == m - 1
    <3>1. 0 \in Nat /\ 0 <= m /\ d \in Nat /\ c <= d /\ d <= m - 0
      BY <1>0
    <3> HIDE DEF d, m
    <3>2. Part(new, c, d) = Part(s, 0 + c, 0 + d)
      BY <1>0, <3>1, PartOfPart
    <3> QED  BY <3>2 DEF d
  <2>2. Part(buf, 0, k - 1) = Part(s, c + 0, c + (k - 1))
    <3> DEFINE d == k - 1
    <3>1. 0 \in Nat /\ d \in Nat /\ 0 <= d /\ d <= n - c
      BY <1>0
    <3> HIDE DEF d
    <3>2. Part(buf, 0, d) = Part(s, c + 0, c + d)
      BY <1>0, <3>1, PartOfPart
    <3> QED  BY <3>2 DEF d
  <2>3. 0 + c = c + 0 /\ 0 + (m - 1) = c + (k - 1) /\ 0 + 1 = 1
    BY <1>0
  <2>4. Part(new, c, m - 1) = Part(buf, 0, k - 1)
    <3> HIDE DEF new, buf
    <3> QED  BY <2>1, <2>2, <2>3
  <2> QED  BY <1>1, <2>3, <2>4 DEF Part
<1>5. SubSeq(buf, k + 1, n - c) = Part(s, m, n)
  <2> DEFINE d == n - c
  <2>1. k \in Nat /\ d \in Nat /\ k <= d /\ d <= n - c /\ c + d = n
    BY <1>0
  <2> HIDE DEF d
  <2>2. Part(buf, k, d) = Part(s, c + k, c + d)
    BY <2>1, PartOfPart
  <2> QED  BY <2>1, <2>2 DEF Part, d
<1>6. /\ CompleteLines(new) = Append(CompleteLines(old), StripCR(SubSeq(new, Len(old) + 1, m - 1)))
      /\ Closed(new)
  <2>1. Closed(old)
    OBVIOUS
  <2> HIDE DEF old, new, m
  <2> QED  BY <1>1, <1>2, <1>3, <2>1, LineMore
<1> HIDE DEF old, new, buf, m
<1>7. CompleteLines(new) = Append(CompleteLines(old), StripCR(SubSeq(buf, 1, k - 1)))
  BY <1>4, <1>6
<1> QED  BY <1>5, <1>6, <1>7 DEF old, new, buf, m

\* What holds no line feed is an unterminated line.
LEMMA RestUnterminated ==
  ASSUME NEW s \in Text, NEW c \in Nat, NEW n \in Nat, c <= n, n <= Len(s), Closed(Part(s, 0, c)),
         ~Has(LF, Part(s, c, n))
  PROVE  /\ CompleteLines(Part(s, 0, n)) = CompleteLines(Part(s, 0, c))
         /\ Unterminated(Part(s, 0, n)) = Part(s, c, n)
<1> DEFINE old == Part(s, 0, c)
           new == Part(s, 0, n)
           buf == Part(s, c, n)
<1>0. Len(s) \in Nat /\ c <= Len(s) /\ 0 \in Nat /\ 0 <= n /\ n - 0 = n /\ 0 + c = c /\ 0 + n = n
  BY EndsType
<1>1. /\ old \in Text /\ new \in Text /\ buf \in Text
      /\ Len(old) = c /\ Len(new) = n /\ Len(buf) = n - c
      /\ \A i \in 1 .. n - c : buf[i] = s[c + i]
      /\ \A i \in 1 .. n : new[i] = s[i]
  <2>1. old \in Text /\ Len(old) = c
    BY <1>0, FromStart
  <2>2. new \in Text /\ Len(new) = n /\ \A i \in 1 .. n : new[i] = s[i]
    BY FromStart
  <2>3. buf \in Text /\ Len(buf) = n - c /\ \A i \in 1 .. n - c : buf[i] = s[c + i]
    BY PartIs
  <2> QED  BY <2>1, <2>2, <2>3
<1>2. Begins(old, new)
  BY <1>0, PartsBegin
<1>3. \A i \in Len(old) + 1 .. Len(new) : new[i] # LF
  <2>1. ASSUME NEW i \in c + 1 .. n  PROVE new[i] # LF
    <3>1. i - c \in 1 .. n - c /\ c + (i - c) = i /\ i \in 1 .. n
      OBVIOUS
    <3>2. new[i] = buf[i - c]
      BY <1>1, <3>1
    <3> QED  BY <1>1, <3>1, <3>2 DEF Has
  <2> QED  BY <1>1, <2>1
<1>4. SubSeq(new, Len(old) + 1, Len(new)) = buf
  <2>1. Part(new, c, n) = Part(s, 0 + c, 0 + n)
    BY <1>0, PartOfPart
  <2> HIDE DEF new, old, buf
  <2> QED  BY <1>0, <1>1, <2>1 DEF Part, buf
<1>5. /\ CompleteLines(new) = CompleteLines(old)
      /\ Unterminated(new) = SubSeq(new, Len(old) + 1, Len(new))
  <2>1. Closed(old)
    OBVIOUS
  <2> HIDE DEF old, new
  <2> QED  BY <1>1, <1>2, <1>3, <2>1, NoLineMore
<1> QED  BY <1>4, <1>5
-----------------------------------------------------------------------------
(* The events of a text.                                                   *)

\* The lines of a text are texts, and the complete ones come first.
LEMMA AllLinesType ==
  ASSUME NEW t \in Text
  PROVE  /\ Unterminated(t) \in Text
         /\ AllLines(t) \in Seq(Text)
         /\ CompleteLines(t) \in Seq(Text)
         /\ Begins(CompleteLines(t), AllLines(t))
<1>1. Ends(t) \in SUBSET (1 .. Len(t)) /\ Len(t) \in Nat /\ CompleteLines(t) \in Seq(Text)
  BY EndsType, CompleteLinesType
<1>2. Unterminated(t) \in Text
  <2> DEFINE m == LastOf(Ends(t))
  <2>1. m \in 0 .. Len(t)
    <3> DEFINE P == Ends(t)
    <3> HIDE DEF P
    <3>1. P \in SUBSET (1 .. Len(t))
      BY <1>1 DEF P
    <3>2. LastOf(P) \in 0 .. Len(t)
      BY <1>1, <3>1, LastExists DEF LastOf
    <3> QED  BY <3>2 DEF P
  <2> HIDE DEF m
  <2>2. SubSeq(t, m + 1, Len(t)) \in Text
    <3>1. m + 1 \in Nat \ {0} /\ Len(t) \in 0 .. Len(t)
      BY <1>1, <2>1
    <3> QED  BY <3>1, SubText
  <2> QED  BY <2>2 DEF Unterminated, Left, m
<1>3. StripCR(Unterminated(t)) \in Text
  BY <1>2, StripCRText
<1>4. CASE Unterminated(t) = <<>>
  <2>1. AllLines(t) = CompleteLines(t)
    BY <1>4 DEF AllLines
  <2>2. Begins(CompleteLines(t), CompleteLines(t))
    BY <1>1, LenProperties DEF Begins
  <2> QED  BY <1>1, <1>2, <2>1, <2>2
<1>5. CASE Unterminated(t) # <<>>
  <2>1. AllLines(t) = Append(CompleteLines(t), StripCR(Unterminated(t)))
    BY <1>5 DEF AllLines
  <2> DEFINE x == StripCR(Unterminated(t))
             lines == CompleteLines(t)
  <2> HIDE DEF x, lines
  <2>2. Append(lines, x) \in Seq(Text) /\ Begins(lines, Append(lines, x))
    BY <1>1, <1>3, AppendProperties, AppendBegins DEF x, lines
  <2> QED  BY <1>1, <1>2, <2>1, <2>2 DEF x, lines
<1> QED  BY <1>4, <1>5

\* The events of some lines are events of any lines that go on from there.
LEMMA EventsOfBelow ==
  ASSUME NEW lines \in Seq(Text), NEW more \in Seq(Text), Begins(lines, more)
  PROVE  Begins(EventsOf(lines), EventsOf(more))
<1>1. Begins(Frames(lines), Frames(more))
  BY FramesBelow
<1>2. Frames(lines) \in Seq(Seq(Text)) /\ Frames(more) \in Seq(Seq(Text))
  BY FramesType
<1> QED  BY <1>1, <1>2, EventsBelow DEF EventsOf

\* The events complete in a beginning of a text are the first ones of the text:
\* what has been delivered never has to be taken back.
LEMMA CompleteEventsBelow ==
  ASSUME NEW s \in Text, NEW t \in Text, Begins(s, t)
  PROVE  /\ Begins(CompleteEvents(s), CompleteEvents(t))
         /\ CompleteEvents(s) \in Seq(Event) /\ CompleteEvents(t) \in Seq(Event)
<1>1. /\ CompleteLines(s) \in Seq(Text) /\ CompleteLines(t) \in Seq(Text)
      /\ Begins(CompleteLines(s), CompleteLines(t))
  BY CompleteLinesType, CompleteLinesBelow
<1> QED  BY <1>1, EventsOfBelow, ParserAfterType DEF CompleteEvents

\* The events complete in a text are the first of its events.
LEMMA AllEventsType ==
  ASSUME NEW t \in Text
  PROVE  /\ CompleteEvents(t) \in Seq(Event) /\ AllEvents(t) \in Seq(Event)
         /\ Begins(CompleteEvents(t), AllEvents(t))
<1> DEFINE lines == CompleteLines(t)
           all == AllLines(t)
           more == Append(AllLines(t), <<>>)
<1>1. lines \in Seq(Text) /\ all \in Seq(Text) /\ Begins(lines, all)
  BY AllLinesType
<1>2. more \in Seq(Text) /\ Begins(all, more)
  <2>1. <<>> \in Text
    BY EmptyText
  <2> HIDE DEF all
  <2> QED  BY <1>1, <2>1, AppendProperties, AppendBegins DEF all
<1> HIDE DEF lines, all, more
<1>3. Begins(lines, more)
  BY <1>1, <1>2, BeginsTrans
<1>4. /\ EventsOf(lines) \in Seq(Event) /\ EventsOf(more) \in Seq(Event)
      /\ Begins(EventsOf(lines), EventsOf(more))
  BY <1>1, <1>2, <1>3, EventsOfBelow, ParserAfterType
<1> QED  BY <1>4 DEF CompleteEvents, AllEvents, lines, more

\* The events before the first error frame.
LEMMA BeforeErrorIs ==
  ASSUME NEW events \in Seq(Event), NEW calls \in Seq(Event), Begins(calls, events),
         ~HasError(calls), Len(calls) < Len(events), IsError(events[Len(calls) + 1])
  PROVE  HasError(events) /\ BeforeError(events) = calls
<1> DEFINE n == Len(calls)
           I == {i \in 1 .. Len(events) : IsError(events[i])}
<1>1. n \in Nat /\ Len(events) \in Nat /\ n + 1 \in 1 .. Len(events)
  BY LenProperties
<1>2. n + 1 \in I
  BY <1>1
<1>3. \A i \in I : i >= n + 1
  <2> SUFFICES ASSUME NEW i \in I, i < n + 1  PROVE FALSE
    BY <1>1
  <2>1. i \in 1 .. n /\ events[i] = calls[i]
    BY <1>1 DEF Begins
  <2> QED  BY <2>1 DEF HasError
<1>4. Min(I) = n + 1
  <2>1. \A i \in I : i \in Int
    OBVIOUS
  <2> HIDE DEF I
  <2>2. \A i \in I : (\A j \in I : i <= j) => i = n + 1
    BY <1>1, <1>2, <1>3, <2>1
  <2> QED  BY <1>2, <1>3, <2>2 DEF Min
<1>5. SelectInSeq(events, IsError) = n + 1
  <2>1. SelectInSeq(events, IsError) = IF I # {} THEN Min(I) ELSE 0
    BY DEF SelectInSeq
  <2> HIDE DEF I
  <2> QED  BY <1>2, <1>4, <2>1
<1>6. BeforeError(events) = SubSeq(events, 1, n)
  <2>1. n + 1 # 0 /\ (n + 1) - 1 = n
    BY <1>1
  <2> HIDE DEF n
  <2> QED  BY <1>5, <2>1 DEF BeforeError
<1>7. SubSeq(events, 1, n) = calls
  <2>1. 1 \in Nat \ {0} /\ n \in 0 .. Len(calls)
    BY <1>1
  <2> HIDE DEF n
  <2>2. SubSeq(events, 1, n) = SubSeq(calls, 1, n)
    BY <2>1, SamePiece
  <2> QED  BY <2>2, SubSeqFull DEF n
<1>8. HasError(events)
  BY <1>1 DEF HasError
<1> QED  BY <1>6, <1>7, <1>8

\* All but the last element.
LEMMA FrontType ==
  ASSUME NEW S, NEW s \in Seq(S), s # <<>>
  PROVE  Front(s) \in Seq(S) /\ Len(Front(s)) = Len(s) - 1
<1>1. Len(s) \in Nat /\ Len(s) # 0
  BY LenProperties, EmptySeq
<1> DEFINE n == Len(s) - 1
<1>2. n \in Nat /\ \A i \in 1 .. n : s[i] \in S
  BY <1>1, ElementOfSeq
<1> HIDE DEF n
<1>3. SubSeq(s, 1, n) \in Seq(S) /\ Len(SubSeq(s, 1, n)) = n
  <2>1. 1 \in Int /\ n \in Int /\ (n = 0 \/ 1 <= n) /\ n - 1 + 1 = n
    BY <1>2
  <2>2. /\ SubSeq(s, 1, n) \in Seq(S)
        /\ Len(SubSeq(s, 1, n)) = IF 1 <= n THEN n - 1 + 1 ELSE 0
    BY <1>2, <2>1, SubSeqProperties
  <2> QED  BY <2>1, <2>2
<1> QED  BY <1>3 DEF Front, n

\* One event more without an error is none with one.
LEMMA OneMoreEvent ==
  ASSUME NEW calls \in Seq(Event), NEW e \in Event, ~HasError(calls)
  PROVE  /\ Append(calls, e) \in Seq(Event)
         /\ HasError(Append(calls, e)) <=> IsError(e)
         /\ Len(Append(calls, e)) = Len(calls) + 1 /\ Append(calls, e)[Len(calls) + 1] = e
         /\ Begins(calls, Append(calls, e))
         /\ Front(Append(calls, e)) = calls
<1> DEFINE n == Len(calls)
           more == Append(calls, e)
<1>1. /\ more \in Seq(Event) /\ Len(more) = n + 1 /\ n \in Nat
      /\ \A i \in 1 .. n : more[i] = calls[i]
      /\ more[n + 1] = e
  BY AppendProperties, LenProperties
<1>2. Begins(calls, more)
  BY AppendBegins
<1> HIDE DEF more
<1>3. HasError(more) <=> IsError(e)
  <2>1. \A i \in 1 .. n + 1 : i \in 1 .. n \/ i = n + 1
    BY <1>1
  <2>2. n + 1 \in 1 .. n + 1
    BY <1>1
  <2> QED  BY <1>1, <2>1, <2>2 DEF HasError
<1>4. Front(more) = calls
  <2>1. Front(more) = SubSeq(more, 1, n)
    <3>1. (n + 1) - 1 = n
      BY <1>1
    <3> QED  BY <1>1, <3>1 DEF Front
  <2>2. 1 \in Nat \ {0} /\ n \in 0 .. Len(calls)
    BY <1>1
  <2> HIDE DEF n
  <2>3. SubSeq(more, 1, n) = SubSeq(calls, 1, n)
    BY <1>1, <1>2, <2>2, SamePiece
  <2> QED  BY <2>1, <2>3, SubSeqFull DEF n
<1> QED  BY <1>1, <1>2, <1>3, <1>4 DEF more
=============================================================================
