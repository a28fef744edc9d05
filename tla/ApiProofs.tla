------------------------------- MODULE ApiProofs ------------------------------
(***************************************************************************)
(* Proofs about the calls of the two clients, for any arguments, responses *)
(* and digests.                                                            *)
(***************************************************************************)
EXTENDS ApiProps, FiniteSetTheorems, SequenceTheorems, WellFoundedInduction, TLAPS

-----------------------------------------------------------------------------
(* Texts: what joining them makes, and what stands before and after a      *)
(* character of them.                                                      *)

\* Induction over the numbers, for a set of them.
LEMMA Induct ==
  ASSUME NEW G, 0 \in G, \A n \in Nat : n \in G => n + 1 \in G
  PROVE  \A n \in Nat : n \in G
<1> DEFINE R == {p \in Nat \X Nat : p[1] < p[2]}  U == {n \in Nat : n \notin G}
<1>1. IsWellFoundedOn(R, Nat)
  BY NatLessThanWellFounded DEF OpToRel
<1>2. ASSUME U # {}  PROVE FALSE
  <2>1. PICK k \in U : \A j \in U : ~(<<j, k>> \in R)
    <3>1. U \subseteq Nat
      OBVIOUS
    <3> HIDE DEF R, U
    <3> QED  BY <1>1, <1>2, <3>1, WFMin
  <2>2. k \in Nat /\ k \notin G /\ k # 0
    BY <2>1
  <2>3. k - 1 \in Nat /\ k - 1 + 1 = k
    BY <2>2
  <2>4. k - 1 \notin G
    BY <2>2, <2>3
  <2>5. k - 1 \in U /\ <<k - 1, k>> \in R
    BY <2>2, <2>3, <2>4
  <2> HIDE DEF R, U
  <2> QED  BY <2>1, <2>5
<1> QED  BY <1>2

\* g[i] is what the first i sequences of s make, one after the other.
Sums(s, n, g) == \A i \in 1 .. n : g[i] = IF i = 1 THEN s[i] ELSE g[i - 1] \o s[i]

\* There is such a g, up to every n.
LEMMA SumsExist ==
  ASSUME NEW S, NEW s \in Seq(Seq(S))
  PROVE  \A n \in Nat : n <= Len(s) => \E g \in [1 .. n -> Seq(S)] : Sums(s, n, g)
<1> DEFINE G == {n \in Nat : n <= Len(s) => \E g \in [1 .. n -> Seq(S)] : Sums(s, n, g)}
<1>1. 0 \in G
  <2>1. \A z : z = 0 => 1 .. z = {}
    OBVIOUS
  <2>2. [i \in 1 .. 0 |-> <<>>] \in [1 .. 0 -> Seq(S)] /\ Sums(s, 0, [i \in 1 .. 0 |-> <<>>])
    BY <2>1 DEF Sums
  <2> QED  BY <2>2
<1>2. ASSUME NEW n \in Nat, n \in G  PROVE n + 1 \in G
  <2> SUFFICES ASSUME n + 1 <= Len(s)
               PROVE  \E g \in [1 .. n + 1 -> Seq(S)] : Sums(s, n + 1, g)
    OBVIOUS
  <2>0. Len(s) \in Nat /\ n <= Len(s)
    OBVIOUS
  <2>1. PICK g \in [1 .. n -> Seq(S)] : Sums(s, n, g)
    BY <1>2, <2>0
  <2> DEFINE last == IF n = 0 THEN s[1] ELSE g[n] \o s[n + 1]
             h == [i \in 1 .. n + 1 |-> IF i = n + 1 THEN last ELSE g[i]]
  <2>2. last \in Seq(S)
    <3>1. s[n + 1] \in Seq(S) /\ s[1] \in Seq(S)
      BY <2>0
    <3>2. n # 0 => g[n] \in Seq(S)
      BY <2>1
    <3> QED  BY <3>1, <3>2, ConcatProperties
  <2>3. h \in [1 .. n + 1 -> Seq(S)]
    BY <2>1, <2>2
  <2>4. ASSUME NEW i \in 1 .. n + 1
        PROVE  h[i] = IF i = 1 THEN s[i] ELSE h[i - 1] \o s[i]
    <3>1. CASE i = n + 1
      <4> HIDE DEF last
      <4>1. h[i] = last /\ (n # 0 => h[n] = g[n])
        BY <3>1
      <4> QED  BY <3>1, <4>1 DEF last
    <3>2. CASE i # n + 1
      <4>1. i \in 1 .. n /\ h[i] = g[i] /\ (i # 1 => h[i - 1] = g[i - 1])
        BY <3>2
      <4> QED  BY <2>1, <4>1 DEF Sums
    <3> QED  BY <3>1, <3>2
  <2> HIDE DEF h
  <2> QED  BY <2>3, <2>4 DEF Sums
<1> HIDE DEF G
<1>3. \A n \in Nat : n \in G
  BY <1>1, <1>2, Induct
<1> QED  BY <1>3 DEF G

\* The last step of it.
LEMMA SumsNext ==
  ASSUME NEW t, NEW n \in Nat, n # 0, NEW h, Sums(t, n + 1, h)
  PROVE  Sums(t, n, h) /\ h[n + 1] = h[n] \o t[n + 1]
<1>1. \A i \in 1 .. n : i \in 1 .. n + 1
  OBVIOUS
<1>2. n + 1 \in 1 .. n + 1 /\ n + 1 - 1 = n /\ n + 1 # 1
  OBVIOUS
<1>3. Sums(t, n, h)
  BY <1>1 DEF Sums
<1>4. h[n + 1] = h[n] \o t[n + 1]
  <2>1. PICK m \in Nat : m = n + 1
    OBVIOUS
  <2>2. m \in 1 .. m /\ m # 1 /\ m - 1 = n /\ Sums(t, m, h)
    BY <2>1
  <2>3. h[m] = h[m - 1] \o t[m]
    BY <2>2 DEF Sums
  <2> QED  BY <2>1, <2>2, <2>3
<1> QED  BY <1>3, <1>4

\* The two begin alike.
SameUpTo(n, s, t) == \A i \in 1 .. n : s[i] = t[i]

\* There is one such g only.
LEMMA SumsAgree ==
  ASSUME NEW s, NEW t, NEW n \in Nat, NEW g, NEW h, Sums(s, n, g), Sums(t, n, h),
         SameUpTo(n, s, t)
  PROVE  SameUpTo(n, g, h)
<1> DEFINE G == {i \in Nat : i \in 1 .. n => g[i] = h[i]}
<1>1. 0 \in G
  OBVIOUS
<1>2. ASSUME NEW i \in Nat, i \in G  PROVE i + 1 \in G
  <2> SUFFICES ASSUME i + 1 \in 1 .. n  PROVE g[i + 1] = h[i + 1]
    OBVIOUS
  <2>1. /\ g[i + 1] = IF i + 1 = 1 THEN s[i + 1] ELSE g[i + 1 - 1] \o s[i + 1]
        /\ h[i + 1] = IF i + 1 = 1 THEN t[i + 1] ELSE h[i + 1 - 1] \o t[i + 1]
        /\ s[i + 1] = t[i + 1] /\ i + 1 - 1 = i
    BY DEF Sums, SameUpTo
  <2>2. CASE i = 0
    BY <2>1, <2>2
  <2>3. CASE i # 0
    <3>1. g[i] = h[i]
      BY <1>2, <2>3
    <3> QED  BY <2>1, <2>3, <3>1
  <2> QED  BY <2>2, <2>3
<1> HIDE DEF G
<1>3. \A i \in Nat : i \in G
  BY <1>1, <1>2, Induct
<1> QED  BY <1>3 DEF G, SameUpTo

\* FlattenSeq is the last value of it.
LEMMA FlattenIs ==
  ASSUME NEW S, NEW s \in Seq(Seq(S)), s # <<>>
  PROVE  \E g \in [1 .. Len(s) -> Seq(S)] : Sums(s, Len(s), g) /\ FlattenSeq(s) = g[Len(s)]
<1>1. PICK n \in Nat : n = Len(s) /\ n # 0 /\ n \in 1 .. n /\ n <= Len(s)
  BY EmptySeq
<1>2. PICK g \in [1 .. n -> Seq(S)] : Sums(s, n, g)
  BY <1>1, SumsExist
<1> DEFINE IsSums(f) == f = [i \in 1 .. Len(s) |-> IF i = 1 THEN s[i] ELSE f[i - 1] \o s[i]]
           f == CHOOSE f : IsSums(f)
<1>3. IsSums(g)
  BY <1>1, <1>2 DEF Sums
<1>4. IsSums(f)
  BY <1>3
<1>5. FlattenSeq(s) = f[n]
  BY <1>1 DEF FlattenSeq
<1> HIDE DEF f
<1>6. Sums(s, n, f)
  BY <1>1, <1>4 DEF Sums
<1>7. SameUpTo(n, f, g)
  BY <1>1, <1>2, <1>6, SumsAgree DEF SameUpTo
<1>8. FlattenSeq(s) = g[n]
  BY <1>1, <1>5, <1>7 DEF SameUpTo
<1> QED  BY <1>1, <1>2, <1>8

\* Nothing to join is the empty sequence.
LEMMA FlattenEmpty == FlattenSeq(<<>>) = <<>>
BY DEF FlattenSeq

\* A sequence more to join is a concatenation more.
LEMMA FlattenAppend ==
  ASSUME NEW S, NEW s \in Seq(Seq(S)), NEW x \in Seq(S)
  PROVE  /\ FlattenSeq(s) \in Seq(S)
         /\ FlattenSeq(Append(s, x)) = FlattenSeq(s) \o x
<1> DEFINE t == Append(s, x)
<1>1. /\ t \in Seq(Seq(S)) /\ t # <<>> /\ Len(t) = Len(s) + 1 /\ Len(s) \in Nat
      /\ \A i \in 1 .. Len(s) : t[i] = s[i]
      /\ t[Len(s) + 1] = x
  BY AppendProperties
<1> HIDE DEF t
<1>2. PICK h \in [1 .. Len(t) -> Seq(S)] : Sums(t, Len(t), h) /\ FlattenSeq(t) = h[Len(t)]
  BY <1>1, FlattenIs
<1>3. CASE s = <<>>
  <2>1. Len(s) = 0 /\ Len(t) = 1
    BY <1>1, <1>3
  <2>2. FlattenSeq(t) = x
    BY <1>1, <1>2, <2>1 DEF Sums
  <2>3. FlattenSeq(s) = <<>>
    BY <1>3, FlattenEmpty
  <2> QED  BY <2>2, <2>3, ConcatEmptySeq DEF t
<1>4. CASE s # <<>>
  <2>1. PICK g \in [1 .. Len(s) -> Seq(S)] : Sums(s, Len(s), g) /\ FlattenSeq(s) = g[Len(s)]
    BY <1>4, FlattenIs
  <2>2. PICK n \in Nat : n = Len(s) /\ n # 0 /\ n \in 1 .. n /\ n + 1 = Len(t)
    BY <1>1, <1>4, EmptySeq
  <2>3. Sums(t, n, h) /\ h[n + 1] = h[n] \o t[n + 1]
    <3>1. Sums(t, n + 1, h)
      BY <1>2, <2>2
    <3> QED  BY <2>2, <3>1, SumsNext
  <2>4. SameUpTo(n, g, h)
    <3>1. Sums(s, n, g)
      BY <2>1, <2>2
    <3>2. SameUpTo(n, s, t)
      BY <1>1, <2>2 DEF SameUpTo
    <3>3. Sums(t, n, h)
      BY <2>3
    <3> QED  BY <3>1, <3>2, <3>3, SumsAgree
  <2>5. FlattenSeq(t) = g[n] \o x
    BY <1>1, <1>2, <2>2, <2>3, <2>4 DEF SameUpTo
  <2>6. FlattenSeq(s) \in Seq(S) /\ FlattenSeq(s) = g[n]
    BY <2>1, <2>2
  <2> QED  BY <2>5, <2>6 DEF t
<1> QED  BY <1>3, <1>4

\* What is joined has the letters of its parts.
LEMMA FlattenIn ==
  ASSUME NEW S, NEW s \in Seq(Seq(S))
  PROVE  FlattenSeq(s) \in Seq(S)
<1>1. <<>> \in Seq(S)
  OBVIOUS
<1> QED  BY <1>1, FlattenAppend

\* One part is itself.
LEMMA FlattenOne ==
  ASSUME NEW S, NEW x \in Seq(S)
  PROVE  FlattenSeq(<<x>>) = x
<1>1. <<>> \in Seq(Seq(S)) /\ Append(<<>>, x) = <<x>>
  OBVIOUS
<1>2. FlattenSeq(Append(<<>>, x)) = FlattenSeq(<<>>) \o x
  BY <1>1, FlattenAppend
<1>3. <<>> \o x = x
  BY ConcatEmptySeq
<1> QED  BY <1>1, <1>2, <1>3, FlattenEmpty

\* Two parts are concatenated.
LEMMA FlattenTwo ==
  ASSUME NEW S, NEW x \in Seq(S), NEW y \in Seq(S)
  PROVE  FlattenSeq(<<x, y>>) = x \o y
<1>1. <<x>> \in Seq(Seq(S)) /\ Append(<<x>>, y) = <<x, y>>
  <2>1. <<x>> \in Seq(Seq(S)) /\ <<x, y>> \in Seq(Seq(S))
    OBVIOUS
  <2>2. /\ Append(<<x>>, y) \in Seq(Seq(S)) /\ Len(Append(<<x>>, y)) = 2
        /\ Append(<<x>>, y)[1] = x /\ Append(<<x>>, y)[2] = y
    BY <2>1, AppendProperties
  <2> DEFINE z == Append(<<x>>, y)
  <2>3. /\ z \in Seq(Seq(S)) /\ Len(z) = 2 /\ z[1] = x /\ z[2] = y
    BY <2>2
  <2> HIDE DEF z
  <2>4. \A i \in 1 .. Len(z) : z[i] = <<x, y>>[i]
    BY <2>3
  <2>5. z = <<x, y>>
    BY <2>1, <2>3, <2>4, SeqEqual
  <2> QED  BY <2>1, <2>5 DEF z
<1>2. FlattenSeq(Append(<<x>>, y)) = FlattenSeq(<<x>>) \o y
  BY <1>1, FlattenAppend
<1> QED  BY <1>1, <1>2, FlattenOne

\* The first character of a kind.
LEMMA FirstIs ==
  ASSUME NEW I, NEW k \in I, I \subseteq Int, \A i \in I : k <= i
  PROVE  Min(I) = k
<1>1. ASSUME NEW x \in I, \A y \in I : x =< y  PROVE x = k
  BY <1>1
<1> QED  BY <1>1 DEF Min

\* Before, told by the place of the first of the characters.
LEMMA BeforeIs ==
  ASSUME NEW S, NEW text \in Seq(S), NEW characters, NEW n \in 0 .. Len(text),
         \A i \in 1 .. n : text[i] \notin characters,
         n < Len(text) => text[n + 1] \in characters
  PROVE  Before(text, characters) = SubSeq(text, 1, n)
<1> DEFINE I == {i \in 1 .. Len(text) : text[i] \in characters}
<1>1. Before(text, characters) =
        LET i == IF I # {} THEN Min(I) ELSE 0
        IN  IF i = 0 THEN text ELSE SubSeq(text, 1, i - 1)
  BY DEF Before, SelectInSeq
<1>2. CASE n < Len(text)
  <2>1. n + 1 \in I /\ I \subseteq Int /\ n + 1 # 0 /\ n + 1 - 1 = n
    BY <1>2
  <2>2. \A i \in I : n + 1 <= i
    OBVIOUS
  <2> HIDE DEF I
  <2>3. Min(I) = n + 1
    BY <2>1, <2>2, FirstIs
  <2> QED  BY <1>1, <2>1, <2>3
<1>3. CASE n = Len(text)
  <2>1. I = {}
    BY <1>3
  <2>2. Before(text, characters) = text
    BY <1>1, <2>1
  <2> QED  BY <1>3, <2>2, SubSeqFull
<1> QED  BY <1>2, <1>3

\* After, told by the place of the character.
LEMMA AfterIs ==
  ASSUME NEW S, NEW text \in Seq(S), NEW character, NEW n \in 0 .. Len(text),
         \A i \in 1 .. n : text[i] # character, n < Len(text), text[n + 1] = character
  PROVE  After(text, character) = SubSeq(text, n + 2, Len(text))
<1> DEFINE I == {i \in 1 .. Len(text) : text[i] = character}
<1>1. After(text, character) =
        LET i == IF I # {} THEN Min(I) ELSE 0
        IN  IF i = 0 THEN <<>> ELSE SubSeq(text, i + 1, Len(text))
  BY DEF After, SelectInSeq
<1>2. n + 1 \in I /\ I \subseteq Int /\ n + 1 # 0 /\ n + 1 + 1 = n + 2
  OBVIOUS
<1>3. \A i \in I : n + 1 <= i
  OBVIOUS
<1> HIDE DEF I
<1>4. Min(I) = n + 1
  BY <1>2, <1>3, FirstIs
<1> QED  BY <1>1, <1>2, <1>4

\* The positions of a text put together of two.
Joins(t, x, y) == /\ Len(t) = Len(x) + Len(y)
                  /\ \A i \in 1 .. Len(x) : t[i] = x[i]
                  /\ \A i \in 1 .. Len(y) : t[Len(x) + i] = y[i]

\* A concatenation is that.
LEMMA ConcatJoins ==
  ASSUME NEW S, NEW x \in Seq(S), NEW y \in Seq(S)
  PROVE  x \o y \in Seq(S) /\ Joins(x \o y, x, y)
<1> DEFINE t == x \o y
<1>1. PICK n \in Nat, m \in Nat : n = Len(x) /\ m = Len(y)
  OBVIOUS
<1>2. /\ t \in Seq(S) /\ Len(t) = n + m
      /\ \A i \in 1 .. n + m : t[i] = IF i <= n THEN x[i] ELSE y[i - n]
  <2>1. /\ t \in Seq(S) /\ Len(t) = Len(x) + Len(y)
        /\ \A i \in 1 .. Len(x) + Len(y) : t[i] = IF i <= Len(x) THEN x[i] ELSE y[i - Len(x)]
    BY ConcatProperties
  <2> HIDE DEF t
  <2> QED  BY <1>1, <2>1
<1> HIDE DEF t
<1>3. \A i \in 1 .. n : t[i] = x[i]
  BY <1>2
<1>4. ASSUME NEW i \in 1 .. m  PROVE t[n + i] = y[i]
  <2>1. n + i \in 1 .. n + m /\ ~(n + i <= n) /\ n + i - n = i
    OBVIOUS
  <2>2. t[n + i] = y[n + i - n]
    BY <1>2, <2>1
  <2> QED  BY <2>1, <2>2
<1> QED  BY <1>1, <1>2, <1>3, <1>4 DEF Joins, t

\* The same with a character in between.
Parted(t, x, character, y) ==
  /\ Len(t) = Len(x) + 1 + Len(y)
  /\ \A i \in 1 .. Len(x) : t[i] = x[i]
  /\ t[Len(x) + 1] = character
  /\ \A i \in 1 .. Len(y) : t[Len(x) + 1 + i] = y[i]

\* So is this concatenation.
LEMMA ConcatParted ==
  ASSUME NEW S, NEW x \in Seq(S), NEW y \in Seq(S), NEW character \in S
  PROVE  /\ x \o (<<character>> \o y) \in Seq(S)
         /\ Parted(x \o (<<character>> \o y), x, character, y)
<1> DEFINE c == <<character>>
<1>1. c \in Seq(S) /\ Len(c) = 1 /\ c[1] = character
  OBVIOUS
<1> HIDE DEF c
<1> DEFINE z == c \o y
<1>2. z \in Seq(S) /\ Joins(z, c, y)
  BY <1>1, ConcatJoins
<1> HIDE DEF z
<1> DEFINE t == x \o z
<1>3. t \in Seq(S) /\ Joins(t, x, z)
  BY <1>2, ConcatJoins
<1> HIDE DEF t
<1>4. PICK n \in Nat, m \in Nat : n = Len(x) /\ m = Len(y)
  OBVIOUS
<1>5. Len(z) = 1 + m /\ z[1] = character /\ \A i \in 1 .. m : z[1 + i] = y[i]
  BY <1>1, <1>2, <1>4 DEF Joins
<1>6. Len(t) = n + 1 + m /\ \A i \in 1 .. n : t[i] = x[i]
  BY <1>3, <1>4, <1>5 DEF Joins
<1>7. \A i \in 1 .. 1 + m : t[n + i] = z[i]
  BY <1>3, <1>4, <1>5 DEF Joins
<1>8. t[n + 1] = character
  <2>1. 1 \in 1 .. 1 + m
    OBVIOUS
  <2> QED  BY <1>5, <1>7, <2>1
<1>9. ASSUME NEW i \in 1 .. m  PROVE t[n + 1 + i] = y[i]
  <2>1. 1 + i \in 1 .. 1 + m /\ n + (1 + i) = n + 1 + i
    OBVIOUS
  <2>2. t[n + (1 + i)] = z[1 + i]
    BY <1>7, <2>1
  <2> QED  BY <1>5, <2>1, <2>2
<1> QED  BY <1>3, <1>4, <1>6, <1>8, <1>9 DEF Parted, t, z, c

\* A piece of a text, by its positions.
LEMMA SubSeqIs ==
  ASSUME NEW S, NEW t \in Seq(S), NEW x \in Seq(S), NEW k \in Nat, k + Len(x) <= Len(t),
         \A i \in 1 .. Len(x) : t[k + i] = x[i]
  PROVE  SubSeq(t, k + 1, k + Len(x)) = x
<1>1. PICK n \in Nat, a \in Int, b \in Int : n = Len(x) /\ a = k + 1 /\ b = k + n
  <2>1. Len(x) \in Nat /\ k + 1 \in Int /\ k + Len(x) \in Int
    OBVIOUS
  <2> QED  BY <2>1, Zenon
<1>2. \A i \in a .. b : t[i] \in S
  <2>1. \A i \in a .. b : i \in 1 .. Len(t)
    BY <1>1
  <2> QED  BY <2>1, ElementOfSeq
<1>3. /\ SubSeq(t, a, b) \in Seq(S)
      /\ Len(SubSeq(t, a, b)) = IF a <= b THEN b - a + 1 ELSE 0
      /\ \A i \in 1 .. b - a + 1 : SubSeq(t, a, b)[i] = t[a + i - 1]
  BY <1>2, SubSeqProperties
<1>4. b - a + 1 = n /\ (a <= b <=> n # 0) /\ \A i \in 1 .. n : a + i - 1 = k + i
  BY <1>1
<1>5. Len(SubSeq(t, a, b)) = Len(x)
  BY <1>1, <1>3, <1>4
<1>6. \A i \in 1 .. Len(x) : SubSeq(t, a, b)[i] = x[i]
  BY <1>1, <1>3, <1>4
<1>7. SubSeq(t, a, b) = x
  BY <1>3, <1>5, <1>6, SeqEqual
<1> QED  BY <1>1, <1>7

\* A text is cut where it was put together.
LEMMA BeforeConcat ==
  ASSUME NEW S, NEW x \in Seq(S), NEW y \in Seq(S), NEW characters,
         \A i \in 1 .. Len(x) : x[i] \notin characters, y # <<>> => y[1] \in characters
  PROVE  Before(x \o y, characters) = x
<1>1. PICK t : t = x \o y
  OBVIOUS
<1>2. PICK n \in Nat, m \in Nat : n = Len(x) /\ m = Len(y)
  OBVIOUS
<1>3. /\ t \in Seq(S) /\ Len(t) = n + m
      /\ \A i \in 1 .. n : t[i] = x[i]
      /\ \A i \in 1 .. m : t[n + i] = y[i]
  BY <1>1, <1>2, ConcatJoins DEF Joins
<1>4. \A i \in 1 .. n : t[i] \notin characters
  BY <1>2, <1>3
<1>5. n < Len(t) => t[n + 1] \in characters
  <2> SUFFICES ASSUME n < Len(t)  PROVE t[n + 1] \in characters
    OBVIOUS
  <2>1. m # 0 /\ 1 \in 1 .. m
    BY <1>3
  <2>2. y # <<>>
    BY <1>2, <2>1
  <2>3. t[n + 1] = y[1]
    BY <1>3, <2>1
  <2> QED  BY <2>2, <2>3
<1>6. n \in 0 .. Len(t)
  BY <1>3
<1>7. Before(t, characters) = SubSeq(t, 1, n)
  BY ONLY <1>3, <1>4, <1>5, <1>6, n \in Nat, BeforeIs
<1>8. SubSeq(t, 1, n) = x
  <2>1. PICK z \in Nat : z = 0
    OBVIOUS
  <2>2. z + Len(x) <= Len(t) /\ z + 1 = 1 /\ z + Len(x) = n /\ \A i \in 1 .. Len(x) : t[z + i] = x[i]
    BY <1>2, <1>3, <2>1
  <2>3. SubSeq(t, z + 1, z + Len(x)) = x
    BY <1>3, <2>2, SubSeqIs
  <2> QED  BY <2>2, <2>3
<1> QED  BY <1>1, <1>7, <1>8

\* After finds what stands behind the first such character.
LEMMA AfterConcat ==
  ASSUME NEW S, NEW x \in Seq(S), NEW y \in Seq(S), NEW character \in S,
         \A i \in 1 .. Len(x) : x[i] # character
  PROVE  After(x \o (<<character>> \o y), character) = y
<1>1. PICK t : t = x \o (<<character>> \o y)
  OBVIOUS
<1>2. PICK n \in Nat, m \in Nat : n = Len(x) /\ m = Len(y)
  OBVIOUS
<1>3. /\ t \in Seq(S) /\ Len(t) = n + 1 + m
      /\ \A i \in 1 .. n : t[i] = x[i]
      /\ t[n + 1] = character
      /\ \A i \in 1 .. m : t[n + 1 + i] = y[i]
  BY <1>1, <1>2, ConcatParted DEF Parted
<1>4. n \in 0 .. Len(t) /\ n < Len(t)
  BY <1>3
<1>5. \A i \in 1 .. n : t[i] # character
  BY <1>2, <1>3
<1>6. After(t, character) = SubSeq(t, n + 2, Len(t))
  BY ONLY <1>3, <1>4, <1>5, n \in Nat, AfterIs
<1>7. SubSeq(t, n + 2, Len(t)) = y
  <2>1. PICK k \in Nat : k = n + 1
    OBVIOUS
  <2>2. /\ k + Len(y) <= Len(t) /\ k + 1 = n + 2 /\ k + Len(y) = Len(t)
        /\ \A i \in 1 .. Len(y) : t[k + i] = y[i]
    BY <1>2, <1>3, <2>1
  <2>3. SubSeq(t, k + 1, k + Len(y)) = y
    BY <1>3, <2>2, SubSeqIs
  <2> QED  BY <2>2, <2>3
<1> QED  BY <1>1, <1>6, <1>7

\* The last slash of a text parts it in one way only.
LEMMA LastSlash ==
  ASSUME NEW S, "/" \in S, NEW s \in Seq(S), NEW t \in Seq(S),
         NEW x \in Seq(S \ {"/"}), NEW y \in Seq(S \ {"/"}),
         s \o (<<"/">> \o x) = t \o (<<"/">> \o y)
  PROVE  s = t /\ x = y
<1>1. PICK w : w = s \o (<<"/">> \o x) /\ w = t \o (<<"/">> \o y)
  OBVIOUS
<1>2. x \in Seq(S) /\ y \in Seq(S)
  <2>1. S \ {"/"} \subseteq S
    OBVIOUS
  <2> QED  BY <2>1, SeqMonotonic
<1>3. Parted(w, s, "/", x)
  BY <1>1, <1>2, ConcatParted
<1>4. Parted(w, t, "/", y)
  BY <1>1, <1>2, ConcatParted
<1>5. PICK n \in Nat, m \in Nat, k \in Nat, l \in Nat :
        n = Len(s) /\ m = Len(t) /\ k = Len(x) /\ l = Len(y)
  <2>1. Len(s) \in Nat /\ Len(t) \in Nat /\ Len(x) \in Nat /\ Len(y) \in Nat
    OBVIOUS
  <2> QED  BY <2>1, Zenon
<1>6. (\A i \in 1 .. k : x[i] # "/") /\ (\A i \in 1 .. l : y[i] # "/")
  <2>1. (\A i \in 1 .. Len(x) : x[i] \in S \ {"/"}) /\ (\A i \in 1 .. Len(y) : y[i] \in S \ {"/"})
    BY ElementOfSeq
  <2> QED  BY <1>5, <2>1
<1>7. /\ Len(w) = n + 1 + k /\ w[n + 1] = "/"
      /\ \A i \in 1 .. k : w[n + 1 + i] = x[i]
      /\ \A i \in 1 .. n : w[i] = s[i]
  BY <1>3, <1>5 DEF Parted
<1>8. /\ Len(w) = m + 1 + l /\ w[m + 1] = "/"
      /\ \A i \in 1 .. l : w[m + 1 + i] = y[i]
      /\ \A i \in 1 .. m : w[i] = t[i]
  BY <1>4, <1>5 DEF Parted
<1>9. ASSUME n < m  PROVE FALSE
  <2>1. PICK i \in Int : i = m - n
    OBVIOUS
  <2>2. i \in 1 .. k /\ n + 1 + i = m + 1
    BY <1>7, <1>8, <1>9, <2>1
  <2>3. w[n + 1 + i] = x[i] /\ x[i] # "/"
    BY <1>6, <1>7, <2>2
  <2> QED  BY <1>8, <2>2, <2>3
<1>10. ASSUME m < n  PROVE FALSE
  <2>1. PICK i \in Int : i = n - m
    OBVIOUS
  <2>2. i \in 1 .. l /\ m + 1 + i = n + 1
    BY <1>7, <1>8, <1>10, <2>1
  <2>3. w[m + 1 + i] = y[i] /\ y[i] # "/"
    BY <1>6, <1>8, <2>2
  <2> QED  BY <1>7, <2>2, <2>3
<1>11. n = m /\ k = l
  BY <1>7, <1>8, <1>9, <1>10
<1>12. s = t
  <2>1. Len(s) = Len(t) /\ \A i \in 1 .. Len(s) : s[i] = t[i]
    BY <1>5, <1>7, <1>8, <1>11
  <2> QED  BY <2>1, SeqEqual
<1>13. x = y
  <2>1. Len(x) = Len(y)
    BY <1>5, <1>11
  <2>2. \A i \in 1 .. Len(x) : x[i] = y[i]
    BY <1>5, <1>7, <1>8, <1>11
  <2> QED  BY <1>2, <2>1, <2>2, SeqEqual
<1> QED  BY <1>12, <1>13

\* A row of segments, each after its slash.
Slashed(S, s) ==
  s \in Seq(Seq(S)) /\ \A i \in 1 .. Len(s) : \E x \in Seq(S \ {"/"}) : s[i] = <<"/">> \o x

\* The last segment of such a row.
LEMMA LastSlashed ==
  ASSUME NEW S, NEW s, Slashed(S, s), s # <<>>
  PROVE  \E u : \E x \in Seq(S \ {"/"}) :
           Slashed(S, u) /\ s = Append(u, <<"/">> \o x) /\ Len(s) = Len(u) + 1
             /\ <<"/">> \o x \in Seq(S)
<1>1. s \in Seq(Seq(S)) /\ s # <<>>
  BY DEF Slashed
<1>2. PICK u \in Seq(Seq(S)), p \in Seq(S) : s = Append(u, p)
  BY <1>1, SequenceEmptyOrAppend
<1>3. /\ Len(u) \in Nat /\ Len(s) = Len(u) + 1
      /\ \A i \in 1 .. Len(u) : s[i] = u[i]
      /\ s[Len(u) + 1] = p
  BY <1>2, AppendProperties
<1>4. PICK x \in Seq(S \ {"/"}) : p = <<"/">> \o x
  <2>1. Len(u) + 1 \in 1 .. Len(s)
    BY <1>3
  <2> QED  BY <1>3, <2>1 DEF Slashed
<1>5. Slashed(S, u)
  <2>1. \A i \in 1 .. Len(u) : i \in 1 .. Len(s)
    BY <1>3
  <2> QED  BY <1>2, <1>3, <2>1 DEF Slashed
<1> QED  BY <1>2, <1>3, <1>4, <1>5

\* Such a row is known from its text.
LEMMA SlashedUnique ==
  ASSUME NEW S, "/" \in S, NEW s, NEW t, Slashed(S, s), Slashed(S, t), FlattenSeq(s) = FlattenSeq(t)
  PROVE  s = t
<1> DEFINE G == {n \in Nat : \A p, q : Slashed(S, p) /\ Slashed(S, q) /\ Len(p) = n
                               /\ FlattenSeq(p) = FlattenSeq(q) => p = q}
<1>1. ASSUME NEW p, Slashed(S, p), FlattenSeq(p) = <<>>  PROVE p = <<>>
  <2> SUFFICES ASSUME p # <<>>  PROVE FALSE
    OBVIOUS
  <2>1. PICK u : \E x \in Seq(S \ {"/"}) : Slashed(S, u) /\ p = Append(u, <<"/">> \o x)
                                         /\ <<"/">> \o x \in Seq(S)
    BY <1>1, LastSlashed
  <2>11. PICK x \in Seq(S \ {"/"}) : Slashed(S, u) /\ p = Append(u, <<"/">> \o x)
                                         /\ <<"/">> \o x \in Seq(S)
    BY <2>1
  <2>2. /\ FlattenSeq(u) \in Seq(S)
        /\ FlattenSeq(p) = FlattenSeq(u) \o (<<"/">> \o x)
    BY <2>11, FlattenAppend DEF Slashed
  <2>3. x \in Seq(S)
    <3>1. S \ {"/"} \subseteq S
      OBVIOUS
    <3> QED  BY <3>1, SeqMonotonic
  <2>4. Parted(FlattenSeq(p), FlattenSeq(u), "/", x)
    BY <2>2, <2>3, ConcatParted
  <2>5. Len(FlattenSeq(u)) \in Nat /\ Len(x) \in Nat /\ Len(<<>>) = 0
    BY <2>2, <2>3
  <2> QED  BY <1>1, <2>4, <2>5 DEF Parted
<1>2. 0 \in G
  <2> SUFFICES ASSUME NEW p, NEW q, Slashed(S, p), Slashed(S, q), Len(p) = 0,
                      FlattenSeq(p) = FlattenSeq(q)
               PROVE  p = q
    OBVIOUS
  <2>1. p = <<>>
    BY EmptySeq DEF Slashed
  <2>2. q = <<>>
    BY <1>1, <2>1, FlattenEmpty
  <2> QED  BY <2>1, <2>2
<1>3. ASSUME NEW n \in Nat, n \in G  PROVE n + 1 \in G
  <2> SUFFICES ASSUME NEW p, NEW q, Slashed(S, p), Slashed(S, q), Len(p) = n + 1,
                      FlattenSeq(p) = FlattenSeq(q)
               PROVE  p = q
    OBVIOUS
  <2>1. p # <<>>
    <3>1. Len(<<>>) = 0 /\ n + 1 # 0
      OBVIOUS
    <3> QED  BY <3>1
  <2>2. q # <<>>
    BY <1>1, <2>1, FlattenEmpty
  <2>23. PICK u : \E x \in Seq(S \ {"/"}) : Slashed(S, u) /\ p = Append(u, <<"/">> \o x)
                                        /\ Len(p) = Len(u) + 1 /\ <<"/">> \o x \in Seq(S)
    BY <2>1, LastSlashed
  <2>24. PICK v : \E y \in Seq(S \ {"/"}) : Slashed(S, v) /\ q = Append(v, <<"/">> \o y)
                                        /\ <<"/">> \o y \in Seq(S)
    BY <2>2, LastSlashed
  <2>3. PICK x \in Seq(S \ {"/"}) : Slashed(S, u) /\ p = Append(u, <<"/">> \o x)
                                        /\ Len(p) = Len(u) + 1 /\ <<"/">> \o x \in Seq(S)
    BY <2>23
  <2>4. PICK y \in Seq(S \ {"/"}) : Slashed(S, v) /\ q = Append(v, <<"/">> \o y)
                                        /\ <<"/">> \o y \in Seq(S)
    BY <2>24
  <2>5. /\ FlattenSeq(u) \in Seq(S)
        /\ FlattenSeq(p) = FlattenSeq(u) \o (<<"/">> \o x)
    BY <2>3, FlattenAppend DEF Slashed
  <2>6. /\ FlattenSeq(v) \in Seq(S)
        /\ FlattenSeq(q) = FlattenSeq(v) \o (<<"/">> \o y)
    BY <2>4, FlattenAppend DEF Slashed
  <2>7. FlattenSeq(u) = FlattenSeq(v) /\ x = y
    <3>1. PICK fu \in Seq(S), fv \in Seq(S) : fu = FlattenSeq(u) /\ fv = FlattenSeq(v)
      BY <2>5, <2>6
    <3>2. fu \o (<<"/">> \o x) = fv \o (<<"/">> \o y)
      BY <2>5, <2>6, <3>1
    <3>4. x \in Seq(S \ {"/"}) /\ y \in Seq(S \ {"/"})
      BY <2>3, <2>4
    <3>5. fu \in Seq(S) /\ fv \in Seq(S)
      BY <3>1
    <3>3. fu = fv /\ x = y
      BY ONLY <3>4, <3>5, <3>2, LastSlash, "/" \in S
    <3> QED  BY <3>1, <3>3
  <2>8. Len(u) = n
    <3>1. Len(u) \in Nat
      BY <2>3 DEF Slashed
    <3> QED  BY <2>3, <3>1
  <2>9. u = v
    BY <1>3, <2>3, <2>4, <2>7, <2>8
  <2> QED  BY <2>3, <2>4, <2>7, <2>9
<1> HIDE DEF G
<1>4. \A n \in Nat : n \in G
  BY <1>2, <1>3, Induct
<1>5. Len(s) \in Nat
  BY DEF Slashed
<1> QED  BY <1>4, <1>5 DEF G

-----------------------------------------------------------------------------
(* The signature: base64 there and back.                                   *)

\* Four at a time.
InFours(S, s) ==
  /\ FlattenSeq(s) \in Seq(S) /\ Len(FlattenSeq(s)) = 4 * Len(s)
  /\ \A g \in 1 .. Len(s) : \A j \in 1 .. 4 : FlattenSeq(s)[4 * g - 4 + j] = s[g][j]

\* FlattenSeq does that.
LEMMA FlattenFours ==
  ASSUME NEW S, NEW s \in Seq(Seq(S)), \A g \in 1 .. Len(s) : Len(s[g]) = 4
  PROVE  InFours(S, s)
<1> DEFINE All(t) == \A g \in 1 .. Len(t) : Len(t[g]) = 4
           G == {n \in Nat : \A t \in Seq(Seq(S)) : Len(t) = n /\ All(t) => InFours(S, t)}
<1>1. 0 \in G
  <2> SUFFICES ASSUME NEW t \in Seq(Seq(S)), Len(t) = 0  PROVE InFours(S, t)
    OBVIOUS
  <2>1. t = <<>>
    BY EmptySeq
  <2>2. FlattenSeq(t) = <<>> /\ <<>> \in Seq(S) /\ Len(<<>>) = 0
    BY <2>1, FlattenEmpty, EmptySeq
  <2> QED  BY <2>2 DEF InFours
<1>2. ASSUME NEW n \in Nat, n \in G  PROVE n + 1 \in G
  <2> SUFFICES ASSUME NEW t \in Seq(Seq(S)), Len(t) = n + 1, All(t)  PROVE InFours(S, t)
    OBVIOUS
  <2>1. t # <<>>
    BY EmptySeq
  <2>2. PICK u \in Seq(Seq(S)), x \in Seq(S) : t = Append(u, x)
    BY <2>1, SequenceEmptyOrAppend
  <2>3. /\ Len(u) = n /\ t[n + 1] = x
        /\ \A i \in 1 .. n : t[i] = u[i]
    BY <2>2, AppendProperties
  <2>4. All(u) /\ Len(x) = 4
    BY <2>3
  <2>5. InFours(S, u)
    BY <1>2, <2>3, <2>4
  <2>6. FlattenSeq(t) = FlattenSeq(u) \o x
    BY <2>2, FlattenAppend
  <2> DEFINE f == FlattenSeq(u)  h == FlattenSeq(t)
  <2>7. f \in Seq(S) /\ Len(f) = 4 * n
    BY <2>3, <2>5 DEF InFours
  <2> HIDE DEF f, All, G
  <2>8. /\ h \in Seq(S) /\ Len(h) = 4 * n + 4
        /\ \A i \in 1 .. 4 * n + 4 : h[i] = IF i <= 4 * n THEN f[i] ELSE x[i - 4 * n]
    <3>1. h = f \o x
      BY <2>6 DEF f
    <3> HIDE DEF h
    <3>2. PICK k \in Nat : k = 4 * n
      OBVIOUS
    <3>3. /\ f \o x \in Seq(S) /\ Len(f \o x) = Len(f) + Len(x)
          /\ \A i \in 1 .. Len(f) + Len(x) :
               (f \o x)[i] = IF i <= Len(f) THEN f[i] ELSE x[i - Len(f)]
      BY <2>7, ConcatProperties
    <3>4. Len(f) = k /\ Len(x) = 4
      BY <2>4, <2>7, <3>2
    <3> QED  BY <3>1, <3>2, <3>3, <3>4
  <2>9. ASSUME NEW g \in 1 .. n + 1, NEW j \in 1 .. 4
        PROVE  h[4 * g - 4 + j] = t[g][j]
    <3> HIDE DEF h
    <3>1. CASE g <= n
      <4>1. 4 * g - 4 + j \in 1 .. 4 * n + 4 /\ 4 * g - 4 + j <= 4 * n /\ g \in 1 .. n
        BY <3>1
      <4>2. f[4 * g - 4 + j] = u[g][j]
        BY <2>3, <2>5, <4>1 DEF InFours, f
      <4> QED  BY <2>3, <2>8, <4>1, <4>2
    <3>2. CASE g = n + 1
      <4>1. /\ 4 * g - 4 + j \in 1 .. 4 * n + 4 /\ ~(4 * g - 4 + j <= 4 * n)
            /\ 4 * g - 4 + j - 4 * n = j
        BY <3>2
      <4>2. h[4 * g - 4 + j] = x[4 * g - 4 + j - 4 * n]
        BY <2>8, <4>1
      <4> QED  BY <2>3, <3>2, <4>1, <4>2
    <3> QED  BY <3>1, <3>2
  <2> QED  BY <2>8, <2>9 DEF InFours
<1> HIDE DEF G
<1>3. \A n \in Nat : n \in G
  BY <1>1, <1>2, Induct
<1>4. Len(s) \in Nat
  OBVIOUS
<1> QED  BY <1>3, <1>4 DEF G

\* The bits of a byte, split where the sextets are.
LEMMA BitsOf ==
  ASSUME NEW a \in Int, 0 <= a, a <= 255
  PROVE  /\ \E x, y \in Int : 0 <= x /\ x <= 63 /\ 0 <= y /\ y <= 3 /\ a = 4 * x + y
         /\ \E x, y \in Int : 0 <= x /\ x <= 15 /\ 0 <= y /\ y <= 15 /\ a = 16 * x + y
         /\ \E x, y \in Int : 0 <= x /\ x <= 3 /\ 0 <= y /\ y <= 63 /\ a = 64 * x + y
<1>1. \E x, y \in Int : 0 <= x /\ x <= 63 /\ 0 <= y /\ y <= 3 /\ a = 4 * x + y
  <2>1. a \div 4 \in Int
    BY SMT
  <2>2. a % 4 \in Int
    BY SMT
  <2>3. 0 <= a \div 4
    BY SMT
  <2>4. a \div 4 <= 63
    BY SMT
  <2>5. 0 <= a % 4
    BY SMT
  <2>6. a % 4 <= 3
    BY SMT
  <2>7. a = 4 * (a \div 4) + (a % 4)
    BY SMT
  <2> QED  BY <2>1, <2>2, <2>3, <2>4, <2>5, <2>6, <2>7, Zenon
<1>2. \E x, y \in Int : 0 <= x /\ x <= 15 /\ 0 <= y /\ y <= 15 /\ a = 16 * x + y
  <2>1. a \div 16 \in Int
    BY SMT
  <2>2. a % 16 \in Int
    BY SMT
  <2>3. 0 <= a \div 16
    BY SMT
  <2>4. a \div 16 <= 15
    BY SMT
  <2>5. 0 <= a % 16
    BY SMT
  <2>6. a % 16 <= 15
    BY SMT
  <2>7. a = 16 * (a \div 16) + (a % 16)
    BY SMT
  <2> QED  BY <2>1, <2>2, <2>3, <2>4, <2>5, <2>6, <2>7, Zenon
<1>3. \E x, y \in Int : 0 <= x /\ x <= 3 /\ 0 <= y /\ y <= 63 /\ a = 64 * x + y
  <2>1. a \div 64 \in Int
    BY SMT
  <2>2. a % 64 \in Int
    BY SMT
  <2>3. 0 <= a \div 64
    BY SMT
  <2>4. a \div 64 <= 3
    BY SMT
  <2>5. 0 <= a % 64
    BY SMT
  <2>6. a % 64 <= 63
    BY SMT
  <2>7. a = 64 * (a \div 64) + (a % 64)
    BY SMT
  <2> QED  BY <2>1, <2>2, <2>3, <2>4, <2>5, <2>6, <2>7, Zenon
<1> QED  BY <1>1, <1>2, <1>3

\* The same for an element of Byte.
LEMMA Bits ==
  ASSUME NEW a \in Byte
  PROVE  /\ a \in Int /\ 0 <= a /\ a <= 255
         /\ \E x, y \in Int : 0 <= x /\ x <= 63 /\ 0 <= y /\ y <= 3 /\ a = 4 * x + y
         /\ \E x, y \in Int : 0 <= x /\ x <= 15 /\ 0 <= y /\ y <= 15 /\ a = 16 * x + y
         /\ \E x, y \in Int : 0 <= x /\ x <= 3 /\ 0 <= y /\ y <= 63 /\ a = 64 * x + y
<1>1. a \in Int /\ 0 <= a /\ a <= 255
  BY DEF Byte
<1> QED  BY <1>1, BitsOf

Bits24(a, b, c) == a * 65536 + b * 256 + c

\* Six bits.
IsSextet(s) == s \in Int /\ 0 <= s /\ s <= 63

\* Three bytes make four sextets, and two neighbours give one back.
MakesAndGivesBack(n, a, b, c, s1, s2, s3, s4) ==
  /\ IsSextet(s1) /\ IsSextet(s2) /\ IsSextet(s3) /\ IsSextet(s4)
  /\ n \div 262144 = s1 /\ (n \div 4096) % 64 = s2 /\ (n \div 64) % 64 = s3 /\ n % 64 = s4
  /\ ((s1 * 64 + s2) \div 16) % 256 = a
  /\ ((s2 * 64 + s3) \div 4) % 256 = b
  /\ ((s3 * 64 + s4) \div 1) % 256 = c

\* There are such sextets for any three bytes.
LEMMA ThereAndBack ==
  ASSUME NEW a \in Byte, NEW b \in Byte, NEW c \in Byte
  PROVE  \E s1, s2, s3, s4 : MakesAndGivesBack(Bits24(a, b, c), a, b, c, s1, s2, s3, s4)
<1>1. PICK a1, a0 \in Int : 0 <= a1 /\ a1 <= 63 /\ 0 <= a0 /\ a0 <= 3 /\ a = 4 * a1 + a0
  BY Bits
<1>2. PICK b1, b0 \in Int : 0 <= b1 /\ b1 <= 15 /\ 0 <= b0 /\ b0 <= 15 /\ b = 16 * b1 + b0
  BY Bits
<1>3. PICK c1, c0 \in Int : 0 <= c1 /\ c1 <= 3 /\ 0 <= c0 /\ c0 <= 63 /\ c = 64 * c1 + c0
  BY Bits
<1>4. /\ a \in Int /\ 0 <= a /\ a <= 255 /\ b \in Int /\ 0 <= b /\ b <= 255
      /\ c \in Int /\ 0 <= c /\ c <= 255
  BY Bits
<1>5. PICK s2, s3 \in Int : s2 = 16 * a0 + b1 /\ s3 = 4 * b0 + c1
  BY <1>1, <1>2, <1>3, SMT
<1>6. 0 <= s2 /\ s2 <= 63 /\ 0 <= s3 /\ s3 <= 63
  BY <1>1, <1>2, <1>3, <1>5, SMT
<1>7. PICK n \in Int : n = Bits24(a, b, c)
  BY <1>4, SMT DEF Bits24
<1>8. n = 262144 * a1 + 65536 * a0 + 4096 * b1 + 256 * b0 + 64 * c1 + c0
  BY <1>1, <1>2, <1>3, <1>4, <1>7, SMT DEF Bits24
<1>9. n \div 262144 = a1
  BY <1>1, <1>2, <1>3, <1>8, SMT
<1>10. (n \div 4096) % 64 = s2
  <2>1. n = 4096 * (64 * a1 + s2) + 256 * b0 + 64 * c1 + c0
    BY <1>1, <1>2, <1>3, <1>5, <1>8, SMT
  <2>2. n \div 4096 = 64 * a1 + s2
    BY <1>1, <1>2, <1>3, <1>5, <1>6, <2>1, SMT
  <2>3. (64 * a1 + s2) % 64 = s2
    BY <1>1, <1>6, SMT
  <2> QED  BY <2>2, <2>3
<1>11. (n \div 64) % 64 = s3
  <2>1. PICK m \in Int : m = 64 * a1 + s2
    BY <1>1, <1>5, SMT
  <2>2. n = 64 * (64 * m + s3) + c0
    BY <1>1, <1>2, <1>3, <1>5, <1>8, <2>1, SMT
  <2>3. n \div 64 = 64 * m + s3
    BY <1>3, <2>2, SMT
  <2>4. (64 * m + s3) % 64 = s3
    BY <1>6, SMT
  <2> QED  BY <2>3, <2>4
<1>12. n % 64 = c0
  <2>1. PICK m \in Int : m = 4096 * a1 + 1024 * a0 + 64 * b1 + 4 * b0 + c1
    BY <1>1, <1>2, <1>3, SMT
  <2>2. n = 64 * m + c0
    BY <1>1, <1>2, <1>3, <1>8, <2>1, SMT
  <2> QED  BY <1>3, <2>2
<1>13. ((a1 * 64 + s2) \div 16) % 256 = a
  <2>1. a1 * 64 + s2 = 16 * a + b1
    BY <1>1, <1>2, <1>4, <1>5, SMT
  <2>2. (16 * a + b1) \div 16 = a
    BY <1>2, <1>4, SMT
  <2>3. a % 256 = a
    BY <1>4, SMT
  <2> QED  BY <2>1, <2>2, <2>3
<1>14. ((s2 * 64 + s3) \div 4) % 256 = b
  <2>1. s2 * 64 + s3 = 4 * (256 * a0 + b) + c1
    BY <1>1, <1>2, <1>3, <1>4, <1>5, SMT
  <2>2. (4 * (256 * a0 + b) + c1) \div 4 = 256 * a0 + b
    BY <1>1, <1>3, <1>4, SMT
  <2>3. (256 * a0 + b) % 256 = b
    BY <1>1, <1>4, SMT
  <2> QED  BY <2>1, <2>2, <2>3
<1>15. ((s3 * 64 + c0) \div 1) % 256 = c
  <2>1. s3 * 64 + c0 = 256 * b0 + c
    BY <1>2, <1>3, <1>4, <1>5, SMT
  <2>2. (256 * b0 + c) \div 1 = 256 * b0 + c
    BY <1>2, <1>4, SMT
  <2>3. (256 * b0 + c) % 256 = c
    BY <1>2, <1>4, SMT
  <2> QED  BY <2>1, <2>2, <2>3
<1>16. IsSextet(a1) /\ IsSextet(s2) /\ IsSextet(s3) /\ IsSextet(c0)
  BY <1>1, <1>3, <1>6, SMT DEF IsSextet
<1>17. MakesAndGivesBack(n, a, b, c, a1, s2, s3, c0)
  BY ONLY <1>9, <1>10, <1>11, <1>12, <1>13, <1>14, <1>15, <1>16, SMT DEF MakesAndGivesBack
<1> QED  BY <1>7, <1>17

\* A byte, or nothing behind the last of them.
At(bytes, k) == IF k <= Len(bytes) THEN bytes[k] ELSE 0

\* A group as the padding leaves it.
IsGroup(bytes, i, s1, s2, s3, s4) ==
  /\ MakesAndGivesBack(Bits24(At(bytes, i), At(bytes, i + 1), At(bytes, i + 2)),
                       At(bytes, i), At(bytes, i + 1), At(bytes, i + 2), s1, s2, s3, s4)
  /\ Group(bytes, i) = <<s1, s2, IF i + 1 <= Len(bytes) THEN s3 ELSE Pad,
                         IF i + 2 <= Len(bytes) THEN s4 ELSE Pad>>

\* Either is a byte.
LEMMA AtIsByte ==
  ASSUME NEW bytes \in Seq(Byte), NEW k \in Nat \ {0}
  PROVE  At(bytes, k) \in Byte
<1>1. CASE k <= Len(bytes)
  <2>1. k \in 1 .. Len(bytes)
    BY <1>1
  <2> QED  BY <1>1, <2>1, ElementOfSeq DEF At
<1>2. CASE ~(k <= Len(bytes))
  BY <1>2 DEF At, Byte
<1> QED  BY <1>1, <1>2

\* Every group is of that form.
LEMMA GroupIs ==
  ASSUME NEW bytes \in Seq(Byte), NEW i \in Nat \ {0}
  PROVE  \E s1, s2, s3, s4 : IsGroup(bytes, i, s1, s2, s3, s4)
<1> DEFINE a == At(bytes, i)  b == At(bytes, i + 1)  c == At(bytes, i + 2)  n == Bits24(a, b, c)
<1>1. a \in Byte /\ b \in Byte /\ c \in Byte
  <2>1. i + 1 \in Nat \ {0} /\ i + 2 \in Nat \ {0}
    OBVIOUS
  <2> QED  BY <2>1, AtIsByte
<1>2. GroupUnpadded(bytes, i) = <<n \div 262144, (n \div 4096) % 64, (n \div 64) % 64, n % 64>>
  BY SMT DEF GroupUnpadded, At, Bits24
<1> DEFINE g == GroupUnpadded(bytes, i)
<1>3. Group(bytes, i) = [g EXCEPT ![3] = IF i + 1 <= Len(bytes) THEN @ ELSE Pad,
                                  ![4] = IF i + 2 <= Len(bytes) THEN @ ELSE Pad]
  BY DEF Group
<1> HIDE DEF a, b, c
<1>4. PICK s1, s2, s3, s4 : MakesAndGivesBack(n, a, b, c, s1, s2, s3, s4)
  BY <1>1, ThereAndBack
<1> HIDE DEF n, g
<1>5. n \div 262144 = s1 /\ (n \div 4096) % 64 = s2 /\ (n \div 64) % 64 = s3 /\ n % 64 = s4
  BY <1>4, SMT DEF MakesAndGivesBack
<1>6. g = <<s1, s2, s3, s4>>
  BY <1>2, <1>5, SMT DEF g
<1>7. Group(bytes, i) = <<s1, s2, IF i + 1 <= Len(bytes) THEN s3 ELSE Pad,
                          IF i + 2 <= Len(bytes) THEN s4 ELSE Pad>>
  BY <1>3, <1>6
<1> QED  BY <1>4, <1>7 DEF IsGroup, n, a, b, c

\* How many groups there are, and how much of the last one is missing.
LEMMA GroupCount ==
  ASSUME NEW n \in Nat
  PROVE  \E m \in Nat : \E r \in {0, 1, 2} :
           m = (n + 2) \div 3 /\ n = 3 * m - r /\ (3 * (4 * m - r)) \div 4 = n
             /\ 4 * m - r \in Nat /\ (m = 0 => r = 0)
<1>1. PICK m \in Int : m = (n + 2) \div 3
  OBVIOUS
<1>2. 3 * m <= n + 2 /\ n + 2 < 3 * m + 3
  BY <1>1
<1>3. PICK r \in Int : r = 3 * m - n
  <2>1. 3 * m - n \in Int
    OBVIOUS
  <2> QED  BY <2>1, Zenon
<1>4. r \in {0, 1, 2} /\ n = 3 * m - r /\ m \in Nat
  BY <1>2, <1>3
<1>5. (3 * (4 * m - r)) \div 4 = n
  <2>1. 3 * (4 * m - r) = 4 * n + r
    BY <1>4
  <2>2. (4 * n + r) \div 4 = n
    BY <1>4
  <2> QED  BY <2>1, <2>2
<1>6. 4 * m - r \in Nat /\ (m = 0 => r = 0)
  BY <1>4
<1> QED  BY <1>1, <1>4, <1>5, <1>6

\* The byte number j of a group, from the two sextets it lies in.
Joined(x, y, j) == ((x * 64 + y) \div (IF j = 1 THEN 16 ELSE IF j = 2 THEN 4 ELSE 1)) % 256

\* What the sextets are: the last r of them are padding, and two neighbours
\* give a byte.
IsBase64(bytes, t, m, r) ==
  /\ t \in Seq(0 .. Pad) /\ Len(t) = 4 * m
  /\ \A i \in 1 .. 4 * m : t[i] = Pad <=> i > 4 * m - r
  /\ \A k \in 1 .. Len(bytes) :
       \A g \in 1 .. m : \A j \in 1 .. 3 : k = 3 * g - 3 + j =>
         Joined(t[4 * g - 4 + j], t[4 * g - 3 + j], j) = bytes[k]

\* Base64 makes such sextets.
LEMMA Base64Is ==
  ASSUME NEW bytes \in Seq(Byte), NEW m \in Nat, NEW r \in {0, 1, 2},
         m = (Len(bytes) + 2) \div 3, Len(bytes) = 3 * m - r
  PROVE  IsBase64(bytes, Base64(bytes), m, r)
<1> DEFINE groups == [g \in 1 .. (Len(bytes) + 2) \div 3 |-> Group(bytes, 3 * g - 2)]
           t == Base64(bytes)
<1>1. ASSUME NEW g \in 1 .. m
      PROVE  /\ groups[g] \in Seq(0 .. Pad) /\ Len(groups[g]) = 4
             /\ \A j \in 1 .. 4 : groups[g][j] = Pad <=> g = m /\ j > 4 - r
             /\ \A j \in 1 .. 3 : 3 * g - 3 + j <= Len(bytes) =>
                  Joined(groups[g][j], groups[g][j + 1], j) = bytes[3 * g - 3 + j]
  <2>1. 3 * g - 2 \in Nat \ {0} /\ 3 * g - 2 <= Len(bytes) /\ Len(bytes) \in Nat
    BY <1>1
  <2>2. PICK i \in Nat \ {0} : i = 3 * g - 2
    BY <2>1
  <2>3. PICK s1, s2, s3, s4 : IsGroup(bytes, i, s1, s2, s3, s4)
    BY GroupIs
  <2>4. groups[g] = Group(bytes, i)
    BY <2>2
  <2> DEFINE x3 == IF i + 1 <= Len(bytes) THEN s3 ELSE Pad
             x4 == IF i + 2 <= Len(bytes) THEN s4 ELSE Pad
             x == <<s1, s2, x3, x4>>
  <2>5. groups[g] = x
    BY <2>3, <2>4 DEF IsGroup
  <2> HIDE DEF groups
  <2>6. IsSextet(s1) /\ IsSextet(s2) /\ IsSextet(s3) /\ IsSextet(s4)
    BY <2>3, SMT DEF IsGroup, MakesAndGivesBack
  <2>7. /\ s1 \in 0 .. Pad /\ s1 # Pad /\ s2 \in 0 .. Pad /\ s2 # Pad
        /\ s3 \in 0 .. Pad /\ s3 # Pad /\ s4 \in 0 .. Pad /\ s4 # Pad
    BY <2>6 DEF IsSextet, Pad
  <2>8. x \in Seq(0 .. Pad) /\ Len(x) = 4
    <3>1. x3 \in 0 .. Pad /\ x4 \in 0 .. Pad
      BY <2>7 DEF Pad
    <3> HIDE DEF x3, x4
    <3> QED  BY <2>7, <3>1
  <2>9. (i + 1 <= Len(bytes) <=> ~(g = m /\ 3 > 4 - r)) /\ (i + 2 <= Len(bytes) <=> ~(g = m /\ 4 > 4 - r))
    BY <2>2
  <2>10. \A j \in 1 .. 4 : x[j] = Pad <=> g = m /\ j > 4 - r
    <3>1. (x3 = Pad <=> g = m /\ 3 > 4 - r) /\ (x4 = Pad <=> g = m /\ 4 > 4 - r)
      BY <2>7, <2>9
    <3>2. ~(g = m /\ 1 > 4 - r) /\ ~(g = m /\ 2 > 4 - r)
      OBVIOUS
    <3> HIDE DEF x3, x4
    <3>3. x[1] = s1 /\ x[2] = s2 /\ x[3] = x3 /\ x[4] = x4
      OBVIOUS
    <3>4. \A j \in 1 .. 4 : j = 1 \/ j = 2 \/ j = 3 \/ j = 4
      OBVIOUS
    <3> HIDE DEF x
    <3>5. ASSUME NEW j \in 1 .. 4
          PROVE  x[j] = Pad <=> g = m /\ j > 4 - r
      <4>1. CASE j = 1
        BY <2>7, <3>2, <3>3, <4>1
      <4>2. CASE j = 2
        BY <2>7, <3>2, <3>3, <4>2
      <4>3. CASE j = 3
        BY <3>1, <3>3, <4>3
      <4>4. CASE j = 4
        BY <3>1, <3>3, <4>4
      <4> QED  BY <3>4, <4>1, <4>2, <4>3, <4>4
    <3> QED  BY <3>5
  <2>11. ASSUME NEW j \in 1 .. 3, 3 * g - 3 + j <= Len(bytes)
         PROVE  Joined(x[j], x[j + 1], j) = bytes[3 * g - 3 + j]
    <3>1. /\ ((s1 * 64 + s2) \div 16) % 256 = At(bytes, i)
          /\ ((s2 * 64 + s3) \div 4) % 256 = At(bytes, i + 1)
          /\ ((s3 * 64 + s4) \div 1) % 256 = At(bytes, i + 2)
      BY <2>3, SMT DEF IsGroup, MakesAndGivesBack
    <3>2. CASE j = 1
      <4>1. x[j] = s1 /\ x[j + 1] = s2 /\ 3 * g - 3 + j = i /\ At(bytes, i) = bytes[i]
        BY <2>2, <2>11, <3>2 DEF At
      <4>2. Joined(s1, s2, 1) = ((s1 * 64 + s2) \div 16) % 256
        BY DEF Joined
      <4> QED  BY ONLY <3>1, <3>2, <4>1, <4>2
    <3>3. CASE j = 2
      <4>1. x[j] = s2 /\ x[j + 1] = s3 /\ 3 * g - 3 + j = i + 1 /\ At(bytes, i + 1) = bytes[i + 1]
        BY <2>2, <2>11, <3>3 DEF At
      <4>2. Joined(s2, s3, 2) = ((s2 * 64 + s3) \div 4) % 256
        BY DEF Joined
      <4> QED  BY ONLY <3>1, <3>3, <4>1, <4>2
    <3>4. CASE j = 3
      <4>1. x[j] = s3 /\ x[j + 1] = s4 /\ 3 * g - 3 + j = i + 2 /\ At(bytes, i + 2) = bytes[i + 2]
        BY <2>2, <2>11, <3>4 DEF At
      <4>2. Joined(s3, s4, 3) = ((s3 * 64 + s4) \div 1) % 256
        BY DEF Joined
      <4> QED  BY ONLY <3>1, <3>4, <4>1, <4>2
    <3> QED  BY <3>2, <3>3, <3>4
  <2> QED  BY <2>5, <2>8, <2>10, <2>11
<1>2. groups \in Seq(Seq(0 .. Pad)) /\ Len(groups) = m
  <2>1. groups = [g \in 1 .. m |-> groups[g]]
    OBVIOUS
  <2> HIDE DEF groups
  <2>2. \A g \in 1 .. m : groups[g] \in Seq(0 .. Pad)
    BY <1>1
  <2>3. groups \in [1 .. m -> Seq(0 .. Pad)]
    BY <2>1, <2>2
  <2>4. DOMAIN groups = 1 .. m
    BY <2>1
  <2> QED  BY ONLY <2>3, <2>4, m \in Nat
<1>3. t = FlattenSeq(groups)
  BY DEF Base64
<1> HIDE DEF groups, t
<1>4. InFours(0 .. Pad, groups)
  BY <1>1, <1>2, FlattenFours
<1>5. /\ t \in Seq(0 .. Pad) /\ Len(t) = 4 * m
      /\ \A g \in 1 .. m : \A j \in 1 .. 4 : t[4 * g - 4 + j] = groups[g][j]
  BY <1>2, <1>3, <1>4 DEF InFours
<1>6. ASSUME NEW i \in 1 .. 4 * m
      PROVE  t[i] = Pad <=> i > 4 * m - r
  <2>1. PICK g \in 1 .. m, j \in 1 .. 4 : i = 4 * g - 4 + j
    <3>1. PICK q \in Int : q = (i - 1) \div 4
      OBVIOUS
    <3>2. 4 * q <= i - 1 /\ i - 1 < 4 * q + 4
      BY <3>1
    <3>3. q + 1 \in 1 .. m /\ i - 4 * q \in 1 .. 4 /\ i = 4 * (q + 1) - 4 + (i - 4 * q)
      BY <3>2
    <3> QED  BY <3>3
  <2>2. t[i] = groups[g][j]
    BY <1>5, <2>1
  <2>3. g = m /\ j > 4 - r <=> i > 4 * m - r
    <3>1. i \in Int /\ g \in Int /\ j \in Int /\ 1 <= j /\ j <= 4 /\ g <= m /\ i = 4 * g - 4 + j
      BY <2>1
    <3>2. CASE g = m
      <4>1. i = 4 * m - 4 + j
        BY <3>1, <3>2
      <4>2. r \in Int /\ m \in Int
        OBVIOUS
      <4>3. j > 4 - r <=> i > 4 * m - r
        BY ONLY <3>1, <4>1, <4>2
      <4> QED  BY <3>2, <4>3
    <3>3. CASE g # m
      <4>1. g <= m - 1
        BY <3>1, <3>3
      <4>2. i <= 4 * m - 4 /\ 4 * m - 4 < 4 * m - r
        BY <3>1, <4>1
      <4> QED  BY <3>1, <3>3, <4>2
    <3> QED  BY <3>2, <3>3
  <2>4. groups[g][j] = Pad <=> g = m /\ j > 4 - r
    BY <1>1
  <2> QED  BY <2>2, <2>3, <2>4
<1>7. ASSUME NEW k \in 1 .. Len(bytes), NEW g \in 1 .. m, NEW j \in 1 .. 3, k = 3 * g - 3 + j
      PROVE  Joined(t[4 * g - 4 + j], t[4 * g - 3 + j], j) = bytes[k]
  <2>1. /\ j \in 1 .. 4 /\ j + 1 \in 1 .. 4 /\ 4 * g - 3 + j = 4 * g - 4 + (j + 1)
        /\ 3 * g - 3 + j <= Len(bytes)
    BY <1>7
  <2>2. t[4 * g - 4 + j] = groups[g][j] /\ t[4 * g - 3 + j] = groups[g][j + 1]
    BY <1>5, <2>1
  <2>3. Joined(groups[g][j], groups[g][j + 1], j) = bytes[3 * g - 3 + j]
    BY <1>1, <2>1
  <2> QED  BY <1>7, <2>2, <2>3
<1> QED  BY <1>5, <1>6, <1>7 DEF IsBase64, t

\* The decoder gives back every byte, and the text is of whole groups.
LEMMA DecodesBack ==
  ASSUME NEW bytes \in Seq(Byte)
  PROVE  Decoded(Base64(bytes)) = bytes /\ Len(Base64(bytes)) % 4 = 0
<1> DEFINE t == Base64(bytes)
<1>1. PICK n \in Nat : n = Len(bytes)
  OBVIOUS
<1>2. PICK m \in Nat, r \in {0, 1, 2} :
        m = (n + 2) \div 3 /\ n = 3 * m - r /\ (3 * (4 * m - r)) \div 4 = n
          /\ 4 * m - r \in Nat /\ (m = 0 => r = 0)
  BY GroupCount
<1>3. IsBase64(bytes, t, m, r)
  BY <1>1, <1>2, Base64Is
<1> HIDE DEF t
<1>4. PICK d \in Nat : d = 4 * m - r
  BY <1>2
<1>5. /\ t \in Seq(0 .. Pad) /\ Len(t) = 4 * m
      /\ \A i \in 1 .. 4 * m : t[i] = Pad <=> i > d
  BY <1>3, <1>4 DEF IsBase64
<1>6. d \in 0 .. Len(t) /\ d <= 4 * m
  BY <1>4, <1>5
<1> DEFINE data == Before(t, {Pad})
<1>7. data = SubSeq(t, 1, d)
  <2>1. \A i \in 1 .. d : t[i] \notin {Pad}
    BY <1>5, <1>6
  <2>2. d < Len(t) => t[d + 1] \in {Pad}
    BY <1>5, <1>6
  <2> QED  BY <1>5, <1>6, <2>1, <2>2, BeforeIs
<1>8. Len(data) = d /\ \A i \in 1 .. d : data[i] = t[i]
  <2>1. \A i \in 1 .. d : t[i] \in 0 .. Pad
    <3>1. \A i \in 1 .. d : i \in 1 .. Len(t)
      BY <1>6
    <3> QED  BY <1>5, <3>1, ElementOfSeq
  <2>2. /\ Len(SubSeq(t, 1, d)) = IF 1 <= d THEN d - 1 + 1 ELSE 0
        /\ \A i \in 1 .. d - 1 + 1 : SubSeq(t, 1, d)[i] = t[1 + i - 1]
    BY <2>1, SubSeqProperties
  <2>3. d - 1 + 1 = d /\ \A i \in 1 .. d : 1 + i - 1 = i
    OBVIOUS
  <2> HIDE DEF data
  <2> QED  BY <1>7, <2>2, <2>3
<1> DEFINE at(k) == (4 * (k - 1)) \div 3 + 1
           below(k) == IF k % 3 = 1 THEN 16 ELSE IF k % 3 = 2 THEN 4 ELSE 1
           byte(k) == ((data[at(k)] * 64 + data[at(k) + 1]) \div below(k)) % 256
<1>9. Decoded(t) = [k \in 1 .. (3 * Len(data)) \div 4 |-> byte(k)]
  BY DEF Decoded
<1> HIDE DEF data
<1>10. ASSUME NEW k \in 1 .. n
       PROVE  byte(k) = bytes[k]
  <2>1. PICK g \in 1 .. m, j \in 1 .. 3 : k = 3 * g - 3 + j
    <3>1. PICK q \in Int : q = (k - 1) \div 3
      OBVIOUS
    <3>2. 3 * q <= k - 1 /\ k - 1 < 3 * q + 3
      BY <3>1
    <3>3. q + 1 \in 1 .. m /\ k - 3 * q \in 1 .. 3 /\ k = 3 * (q + 1) - 3 + (k - 3 * q)
      BY <1>2, <3>2
    <3> QED  BY <3>3
  <2>2. at(k) = 4 * g - 4 + j
    <3>1. CASE j = 1
      BY <2>1, <3>1
    <3>2. CASE j = 2
      BY <2>1, <3>2
    <3>3. CASE j = 3
      BY <2>1, <3>3
    <3> QED  BY <3>1, <3>2, <3>3
  <2>3. below(k) = IF j = 1 THEN 16 ELSE IF j = 2 THEN 4 ELSE 1
    <3>1. CASE j = 1
      BY <2>1, <3>1
    <3>2. CASE j = 2
      BY <2>1, <3>2
    <3>3. CASE j = 3
      BY <2>1, <3>3
    <3> QED  BY <3>1, <3>2, <3>3
  <2>4. 4 * g - 4 + j \in 1 .. d /\ 4 * g - 3 + j \in 1 .. d /\ 4 * g - 4 + j + 1 = 4 * g - 3 + j
    BY <1>2, <1>4, <2>1
  <2>5. Joined(t[4 * g - 4 + j], t[4 * g - 3 + j], j) = bytes[k]
    BY <1>1, <1>3, <2>1 DEF IsBase64
  <2>6. /\ data[at(k)] = t[4 * g - 4 + j] /\ data[at(k) + 1] = t[4 * g - 3 + j]
    BY <1>8, <2>2, <2>4
  <2> HIDE DEF at, below
  <2> QED  BY <2>3, <2>5, <2>6 DEF Joined
<1> HIDE DEF byte
<1>11. Decoded(t) = [k \in 1 .. n |-> bytes[k]]
  <2>1. (3 * Len(data)) \div 4 = n
    BY <1>2, <1>4, <1>8
  <2> QED  BY <1>9, <1>10, <2>1
<1>12. bytes = [k \in 1 .. n |-> bytes[k]]
  BY <1>1
<1>13. Len(t) % 4 = 0
  BY <1>5
<1> QED  BY <1>11, <1>12, <1>13 DEF t

-----------------------------------------------------------------------------
(* The methods: which row of Endpoints a request is from.                  *)

\* A method of a table.
LEMMA OpsAre ==
  ASSUME NEW method, NEW key, NEW user, NEW body, NEW routes, NEW op \in Ops(method, key, user, body, routes)
  PROVE  /\ op.method = method /\ op.key = key /\ op.user = user /\ op.body = body
         /\ op.name \in DOMAIN routes /\ op.path = routes[op.name]
         /\ op = [name |-> op.name, method |-> method, key |-> key, user |-> user, body |-> body,
                  path |-> op.path]
BY DEF Ops

\* An argument may make the one path of the other.
Fits(p, q) == Len(p) = Len(q) /\ \A i \in 1 .. Len(p) : p[i] = q[i] \/ p[i] = "*" \/ q[i] = "*"

\* The same, element by element.
LEMMA FitsAt ==
  ASSUME NEW p, NEW q, Fits(p, q), Len(p) \in Nat
  PROVE  /\ Len(p) = Len(q)
         /\ 1 <= Len(p) => (p[1] = q[1] \/ p[1] = "*" \/ q[1] = "*")
         /\ 2 <= Len(p) => (p[2] = q[2] \/ p[2] = "*" \/ q[2] = "*")
         /\ 3 <= Len(p) => (p[3] = q[3] \/ p[3] = "*" \/ q[3] = "*")
         /\ 4 <= Len(p) => (p[4] = q[4] \/ p[4] = "*" \/ q[4] = "*")
BY DEF Fits

\* A row of a table of methods.
Row(method, key, user, body, n, path) ==
  [name |-> n, method |-> method, key |-> key, user |-> user, body |-> body, path |-> path]

\* Its fields.
LEMMA RowIs ==
  ASSUME NEW method, NEW key, NEW user, NEW body, NEW n, NEW path
  PROVE  LET op == Row(method, key, user, body, n, path)
         IN  /\ op.name = n /\ op.method = method /\ op.key = key /\ op.user = user
             /\ op.body = body /\ op.path = path
BY DEF Row

\* Rows by the length of their path.
One(op, m, k, u, y, n, a) == op = Row(m, k, u, y, n, <<a>>)
Two(op, m, k, u, y, n, a, b) == op = Row(m, k, u, y, n, <<a, b>>)
Three(op, m, k, u, y, n, a, b, c) == op = Row(m, k, u, y, n, <<a, b, c>>)
Four(op, m, k, u, y, n, a, b, c, d) == op = Row(m, k, u, y, n, <<a, b, c, d>>)
Five(op, m, k, u, y, n, a, b, c, d, e) == op = Row(m, k, u, y, n, <<a, b, c, d, e>>)

\* The same rows as values.
OneRow(m, k, u, y, n, a) == Row(m, k, u, y, n, <<a>>)
TwoRow(m, k, u, y, n, a, b) == Row(m, k, u, y, n, <<a, b>>)
ThreeRow(m, k, u, y, n, a, b, c) == Row(m, k, u, y, n, <<a, b, c>>)
FourRow(m, k, u, y, n, a, b, c, d) == Row(m, k, u, y, n, <<a, b, c, d>>)
FiveRow(m, k, u, y, n, a, b, c, d, e) == Row(m, k, u, y, n, <<a, b, c, d, e>>)

\* A method of a table is a row.
LEMMA RowOf ==
  ASSUME NEW method, NEW key, NEW user, NEW body, NEW routes,
         NEW op \in Ops(method, key, user, body, routes)
  PROVE  op.name \in DOMAIN routes /\ op = Row(method, key, user, body, op.name, routes[op.name])
BY DEF Ops, Row

\* What a row says, once for each length of path.
LEMMA OneIs ==
  ASSUME NEW op, NEW m, NEW k, NEW u, NEW y, NEW n, NEW a,
         One(op, m, k, u, y, n, a)
  PROVE  /\ op.name = n /\ op.method = m /\ op.key = k /\ op.user = u /\ op.body = y
         /\ op = OneRow(m, k, u, y, n, a) /\ Len(op.path) = 1
         /\ op.path[1] = a
<1>1. op = Row(m, k, u, y, n, <<a>>)
  BY DEF One
<1>2. op.path = <<a>>
  BY <1>1, RowIs
<1> QED  BY <1>1, <1>2, RowIs DEF OneRow

\* ... for two
LEMMA TwoIs ==
  ASSUME NEW op, NEW m, NEW k, NEW u, NEW y, NEW n, NEW a, NEW b,
         Two(op, m, k, u, y, n, a, b)
  PROVE  /\ op.name = n /\ op.method = m /\ op.key = k /\ op.user = u /\ op.body = y
         /\ op = TwoRow(m, k, u, y, n, a, b) /\ Len(op.path) = 2
         /\ op.path[1] = a /\ op.path[2] = b
<1>1. op = Row(m, k, u, y, n, <<a, b>>)
  BY DEF Two
<1>2. op.path = <<a, b>>
  BY <1>1, RowIs
<1> QED  BY <1>1, <1>2, RowIs DEF TwoRow

\* ... for three
LEMMA ThreeIs ==
  ASSUME NEW op, NEW m, NEW k, NEW u, NEW y, NEW n, NEW a, NEW b, NEW c,
         Three(op, m, k, u, y, n, a, b, c)
  PROVE  /\ op.name = n /\ op.method = m /\ op.key = k /\ op.user = u /\ op.body = y
         /\ op = ThreeRow(m, k, u, y, n, a, b, c) /\ Len(op.path) = 3
         /\ op.path[1] = a /\ op.path[2] = b /\ op.path[3] = c
<1>1. op = Row(m, k, u, y, n, <<a, b, c>>)
  BY DEF Three
<1>2. op.path = <<a, b, c>>
  BY <1>1, RowIs
<1> QED  BY <1>1, <1>2, RowIs DEF ThreeRow

\* ... for four
LEMMA FourIs ==
  ASSUME NEW op, NEW m, NEW k, NEW u, NEW y, NEW n, NEW a, NEW b, NEW c, NEW d,
         Four(op, m, k, u, y, n, a, b, c, d)
  PROVE  /\ op.name = n /\ op.method = m /\ op.key = k /\ op.user = u /\ op.body = y
         /\ op = FourRow(m, k, u, y, n, a, b, c, d) /\ Len(op.path) = 4
         /\ op.path[1] = a /\ op.path[2] = b /\ op.path[3] = c /\ op.path[4] = d
<1>1. op = Row(m, k, u, y, n, <<a, b, c, d>>)
  BY DEF Four
<1>2. op.path = <<a, b, c, d>>
  BY <1>1, RowIs
<1> QED  BY <1>1, <1>2, RowIs DEF FourRow

\* ... for five
LEMMA FiveIs ==
  ASSUME NEW op, NEW m, NEW k, NEW u, NEW y, NEW n, NEW a, NEW b, NEW c, NEW d, NEW e,
         Five(op, m, k, u, y, n, a, b, c, d, e)
  PROVE  /\ op.name = n /\ op.method = m /\ op.key = k /\ op.user = u /\ op.body = y
         /\ op = FiveRow(m, k, u, y, n, a, b, c, d, e) /\ Len(op.path) = 5
         /\ op.path[1] = a /\ op.path[2] = b /\ op.path[3] = c /\ op.path[4] = d /\ op.path[5] = e
<1>1. op = Row(m, k, u, y, n, <<a, b, c, d, e>>)
  BY DEF Five
<1>2. op.path = <<a, b, c, d, e>>
  BY <1>1, RowIs
<1> QED  BY <1>1, <1>2, RowIs DEF FiveRow

\* The tables of Endpoints, row by row.
AdminReadsRows(op) ==
  \/ One(op, "GET", "admin", {}, "none", "get_status", "status")
  \/ One(op, "GET", "admin", {}, "none", "get_config", "config")
  \/ One(op, "GET", "admin", {}, "none", "get_formation_info", "formation")
  \/ One(op, "GET", "admin", {}, "none", "get_agents", "agents")
  \/ Two(op, "GET", "admin", {}, "none", "get_agent", "agents", "*")
  \/ Two(op, "GET", "admin", {}, "none", "get_mcp_servers", "mcp", "servers")
  \/ Three(op, "GET", "admin", {}, "none", "get_mcp_server", "mcp", "servers", "*")
  \/ Two(op, "GET", "admin", {}, "none", "get_mcp_tools", "mcp", "tools")
  \/ One(op, "GET", "admin", {}, "none", "get_secrets", "secrets")
  \/ Two(op, "GET", "admin", {}, "none", "get_secret", "secrets", "*")
  \/ One(op, "GET", "admin", {}, "none", "get_memory_config", "memory")
  \/ Two(op, "GET", "admin", {}, "none", "get_buffer_stats", "memory", "stats")
  \/ One(op, "GET", "admin", {}, "none", "get_scheduler_config", "scheduler")
  \/ Three(op, "GET", "admin", {}, "none", "get_scheduler_job", "scheduler", "jobs", "*")
  \/ One(op, "GET", "admin", {}, "none", "get_async_config", "async")
  \/ One(op, "GET", "admin", {}, "none", "get_a2a_config", "a2a")
  \/ One(op, "GET", "admin", {}, "none", "get_logging_config", "logging")
  \/ Two(op, "GET", "admin", {}, "none", "get_logging_destinations", "logging", "destinations")
  \/ One(op, "GET", "admin", {}, "none", "get_overlord_config", "overlord")
  \/ Two(op, "GET", "admin", {}, "none", "get_overlord_soul", "overlord", "soul")
  \/ Two(op, "GET", "admin", {}, "none", "get_llm_settings", "llm", "settings")
  \/ One(op, "GET", "admin", {}, "none", "get_audit_log", "audit")
  \/ Two(op, "GET", "admin", {}, "none", "list_credential_services", "credentials", "services")
  \/ Three(op, "GET", "admin", {}, "none", "get_user_identifiers", "users", "identifiers", "*")

\* Every method of such a table is one of its rows.
LEMMA AdminReadsAreRows ==
  ASSUME NEW op \in AdminReads  PROVE AdminReadsRows(op)
BY RowOf, SMTT(100) DEF AdminReads, AdminReadsRows, One, Two, Three

AdminWritesRows(op) ==
  \/ Two(op, "PUT", "admin", {}, "made", "set_secret", "secrets", "*")
  \/ Three(op, "PUT", "admin", {}, "payload", "update_scheduler_job", "scheduler", "jobs", "*")
  \/ Two(op, "DELETE", "admin", {}, "none", "delete_secret", "secrets", "*")
  \/ Two(op, "DELETE", "admin", {}, "none", "clear_all_buffers", "memory", "buffer")
  \/ Three(op, "DELETE", "admin", {}, "none", "delete_scheduler_job", "scheduler", "jobs", "*")
  \/ One(op, "DELETE", "admin", {}, "none", "clear_audit_log", "audit")
  \/ Three(op, "DELETE", "admin", {}, "none", "unlink_user_identifier", "users", "identifiers", "*")
  \/ Four(op, "POST", "admin", {}, "none", "pause_scheduler_job", "scheduler", "jobs", "*", "pause")
  \/ Four(op, "POST", "admin", {}, "none", "resume_scheduler_job", "scheduler", "jobs", "*", "resume")
  \/ Two(op, "POST", "admin", {"body"}, "made", "create_scheduler_job", "scheduler", "jobs")
  \/ Two(op, "POST", "admin", {"body"}, "made", "link_user_identifier", "users", "identifiers")

\* The same.
LEMMA AdminWritesAreRows ==
  ASSUME NEW op \in AdminWrites  PROVE AdminWritesRows(op)
BY RowOf, SMTT(100) DEF AdminWrites, AdminWritesRows, One, Two, Three, Four

UserReadsRows(op) ==
  \/ One(op, "GET", "client", {}, "none", "health", "health")
  \/ One(op, "GET", "client", {}, "none", "get_triggers", "triggers")
  \/ Two(op, "GET", "client", {}, "none", "get_trigger", "triggers", "*")
  \/ One(op, "GET", "client", {}, "none", "get_sops", "sops")
  \/ Two(op, "GET", "client", {}, "none", "get_sop", "sops", "*")
  \/ Two(op, "GET", "client", {"header"}, "none", "get_session", "sessions", "*")
  \/ Three(op, "GET", "client", {"header"}, "none", "get_session_messages", "sessions", "*", "messages")
  \/ One(op, "GET", "client", {"header"}, "none", "get_requests", "requests")
  \/ Two(op, "GET", "client", {"header"}, "none", "get_request_status", "requests", "*")
  \/ One(op, "GET", "client", {"header"}, "none", "list_credentials", "credentials")
  \/ Two(op, "GET", "client", {"header"}, "none", "get_credential", "credentials", "*")
  \/ One(op, "GET", "client", {"query", "header"}, "none", "get_sessions", "sessions")
  \/ One(op, "GET", "client", {"query", "header"}, "none", "get_memories", "memories")
  \/ Two(op, "GET", "client", {"query"}, "none", "get_user_buffer", "memory", "buffer")
  \/ Two(op, "GET", "admin", {"query"}, "none", "get_scheduler_jobs", "scheduler", "jobs")

\* The same.
LEMMA UserReadsAreRows ==
  ASSUME NEW op \in UserReads  PROVE UserReadsRows(op)
BY RowOf, SMTT(100) DEF UserReads, UserReadsRows, One, Two, Three

ChatsRows(op) ==
  \/ One(op, "POST", "client", {"header"}, "payload", "chat", "chat")
  \/ One(op, "POST", "client", {"header"}, "payload", "audio_chat", "audiochat")

\* The same.
LEMMA ChatsAreRows ==
  ASSUME NEW op \in Chats  PROVE ChatsRows(op)
BY RowOf, SMTT(100) DEF Chats, ChatsRows, One

UserWritesRows(op) ==
  \/ Two(op, "POST", "client", {"header"}, "payload", "fire_trigger", "triggers", "*")
  \/ One(op, "POST", "client", {"header"}, "payload", "create_credential", "credentials")
  \/ Three(op, "POST", "client", {"header"}, "made", "restore_session", "sessions", "*", "restore")
  \/ One(op, "POST", "client", {"body", "header"}, "made", "add_memory", "memories")
  \/ Two(op, "POST", "client", {"body"}, "made", "resolve_user", "users", "resolve")
  \/ Two(op, "DELETE", "client", {"header"}, "none", "cancel_request", "requests", "*")
  \/ Two(op, "DELETE", "client", {"header"}, "none", "delete_credential", "credentials", "*")
  \/ Two(op, "DELETE", "client", {"query", "header"}, "none", "delete_memory", "memories", "*")
  \/ Two(op, "DELETE", "client", {"query"}, "none", "clear_user_buffer", "memory", "buffer")
  \/ Three(op, "DELETE", "client", {"query"}, "none", "clear_session_buffer", "memory", "buffer", "*")

\* The same.
LEMMA UserWritesAreRows ==
  ASSUME NEW op \in UserWrites  PROVE UserWritesRows(op)
BY RowOf, SMTT(100) DEF UserWrites, UserWritesRows, One, Two, Three

FormationStreamsRows(op) ==
  \/ One(op, "POST", "client", {"header"}, "stream", "chat_stream", "chat")
  \/ One(op, "POST", "client", {"header"}, "stream", "audio_chat_stream", "audiochat")
  \/ One(op, "GET", "client", {"query", "header"}, "none", "stream_events", "events")
  \/ One(op, "GET", "admin", {}, "none", "stream_logs", "logs")

\* The same.
LEMMA FormationStreamsAreRows ==
  ASSUME NEW op \in FormationStreams  PROVE FormationStreamsRows(op)
BY RowOf, SMTT(100) DEF FormationStreams, FormationStreamsRows, One

ServerReadsRows(op) ==
  \/ One(op, "GET", "none", {}, "none", "health", "health")
  \/ Three(op, "GET", "signed", {}, "none", "status", "rpc", "server", "status")
  \/ Two(op, "GET", "signed", {}, "none", "list_formations", "rpc", "formations")
  \/ Three(op, "GET", "signed", {}, "none", "get_formation", "rpc", "formations", "*")
  \/ Four(op, "GET", "signed", {}, "none", "get_formation_logs", "rpc", "formations", "*", "logs")
  \/ Three(op, "GET", "signed", {}, "none", "get_server_logs", "rpc", "server", "logs")

\* The same.
LEMMA ServerReadsAreRows ==
  ASSUME NEW op \in ServerReads  PROVE ServerReadsRows(op)
BY RowOf, SMTT(100) DEF ServerReads, ServerReadsRows, One, Two, Three, Four

ServerWritesRows(op) ==
  \/ Four(op, "POST", "signed", {}, "made", "stop_formation", "rpc", "formations", "*", "stop")
  \/ Four(op, "POST", "signed", {}, "made", "start_formation", "rpc", "formations", "*", "start")
  \/ Four(op, "POST", "signed", {}, "made", "restart_formation", "rpc", "formations", "*", "restart")
  \/ Four(op, "POST", "signed", {}, "made", "rollback_formation", "rpc", "formations", "*", "rollback")
  \/ Four(op, "POST", "signed", {}, "made", "cancel_update", "rpc", "formations", "*", "cancel-update")
  \/ Four(op, "POST", "signed", {}, "payload", "deploy_formation", "rpc", "formations", "*", "deploy")
  \/ Four(op, "POST", "signed", {}, "payload", "update_formation", "rpc", "formations", "*", "update")
  \/ Three(op, "DELETE", "signed", {}, "none", "delete_formation", "rpc", "formations", "*")

\* The same.
LEMMA ServerWritesAreRows ==
  ASSUME NEW op \in ServerWrites  PROVE ServerWritesRows(op)
BY RowOf, SMTT(100) DEF ServerWrites, Lifecycle, ServerWritesRows, Three, Four

ServerStreamsRows(op) ==
  \/ Five(op, "POST", "signed", {}, "payload", "deploy_formation_stream", "rpc", "formations", "*", "deploy", "stream")
  \/ Five(op, "GET", "signed", {}, "none", "stream_formation_logs", "rpc", "formations", "*", "logs", "stream")

\* The same.
LEMMA ServerStreamsAreRows ==
  ASSUME NEW op \in ServerStreams  PROVE ServerStreamsRows(op)
BY RowOf, SMTT(100) DEF ServerStreams, ServerStreamsRows, Five

\* The methods that stream nothing.
FormationCalls(op) ==
  \/ AdminReadsRows(op) \/ AdminWritesRows(op)
  \/ UserReadsRows(op) \/ ChatsRows(op) \/ UserWritesRows(op)

ServerCalls(op) == ServerReadsRows(op) \/ ServerWritesRows(op)

\* Two methods with the same HTTP method and key have paths that no argument
\* makes the same: for the calls of FormationClient, its streams, and the same
\* of ServerClient.
LEMMA FormationCallsDiffer ==
  ASSUME NEW o, NEW q, FormationCalls(o), FormationCalls(q),
         Fits(o.path, q.path), o.method = q.method, o.key = q.key
  PROVE  o = q
<1>1. Len(o.path) \in Nat
  BY OneIs, TwoIs, ThreeIs, FourIs, SMTT(100)
  DEF FormationCalls, AdminReadsRows, AdminWritesRows, UserReadsRows, ChatsRows, UserWritesRows
<1>2. /\ Len(o.path) = Len(q.path)
      /\ 1 <= Len(o.path) => (o.path[1] = q.path[1] \/ o.path[1] = "*" \/ q.path[1] = "*")
      /\ 2 <= Len(o.path) => (o.path[2] = q.path[2] \/ o.path[2] = "*" \/ q.path[2] = "*")
      /\ 3 <= Len(o.path) => (o.path[3] = q.path[3] \/ o.path[3] = "*" \/ q.path[3] = "*")
      /\ 4 <= Len(o.path) => (o.path[4] = q.path[4] \/ o.path[4] = "*" \/ q.path[4] = "*")
  BY <1>1, FitsAt
<1> QED
  BY ONLY <1>1, <1>2, FormationCalls(o), FormationCalls(q), o.method = q.method, o.key = q.key,
     OneIs, TwoIs, ThreeIs, FourIs, SMTT(100)
     DEF FormationCalls, AdminReadsRows, AdminWritesRows, UserReadsRows, ChatsRows, UserWritesRows

\* The same.
LEMMA FormationStreamsDiffer ==
  ASSUME NEW o, NEW q, FormationStreamsRows(o), FormationStreamsRows(q),
         Fits(o.path, q.path), o.method = q.method, o.key = q.key
  PROVE  o = q
<1>1. Len(o.path) \in Nat
  BY OneIs, SMTT(100) DEF FormationStreamsRows
<1>2. /\ Len(o.path) = Len(q.path)
      /\ 1 <= Len(o.path) => (o.path[1] = q.path[1] \/ o.path[1] = "*" \/ q.path[1] = "*")
      /\ 2 <= Len(o.path) => (o.path[2] = q.path[2] \/ o.path[2] = "*" \/ q.path[2] = "*")
      /\ 3 <= Len(o.path) => (o.path[3] = q.path[3] \/ o.path[3] = "*" \/ q.path[3] = "*")
      /\ 4 <= Len(o.path) => (o.path[4] = q.path[4] \/ o.path[4] = "*" \/ q.path[4] = "*")
  BY <1>1, FitsAt
<1> QED
  BY ONLY <1>1, <1>2, FormationStreamsRows(o), FormationStreamsRows(q), o.method = q.method, o.key = q.key,
     OneIs, SMTT(100)
     DEF FormationStreamsRows

\* The same.
LEMMA ServerCallsDiffer ==
  ASSUME NEW o, NEW q, ServerCalls(o), ServerCalls(q),
         Fits(o.path, q.path), o.method = q.method, o.key = q.key
  PROVE  o = q
<1>1. Len(o.path) \in Nat
  BY OneIs, TwoIs, ThreeIs, FourIs, SMTT(100) DEF ServerCalls, ServerReadsRows, ServerWritesRows
<1>2. /\ Len(o.path) = Len(q.path)
      /\ 1 <= Len(o.path) => (o.path[1] = q.path[1] \/ o.path[1] = "*" \/ q.path[1] = "*")
      /\ 2 <= Len(o.path) => (o.path[2] = q.path[2] \/ o.path[2] = "*" \/ q.path[2] = "*")
      /\ 3 <= Len(o.path) => (o.path[3] = q.path[3] \/ o.path[3] = "*" \/ q.path[3] = "*")
      /\ 4 <= Len(o.path) => (o.path[4] = q.path[4] \/ o.path[4] = "*" \/ q.path[4] = "*")
  BY <1>1, FitsAt
<1> QED
  BY ONLY <1>1, <1>2, ServerCalls(o), ServerCalls(q), o.method = q.method, o.key = q.key,
     OneIs, TwoIs, ThreeIs, FourIs, SMTT(100)
     DEF ServerCalls, ServerReadsRows, ServerWritesRows

\* The same.
LEMMA ServerStreamsDiffer ==
  ASSUME NEW o, NEW q, ServerStreamsRows(o), ServerStreamsRows(q),
         Fits(o.path, q.path), o.method = q.method, o.key = q.key
  PROVE  o = q
<1>1. Len(o.path) \in Nat
  BY FiveIs, SMTT(100) DEF ServerStreamsRows
<1>2. /\ Len(o.path) = Len(q.path)
      /\ 1 <= Len(o.path) => (o.path[1] = q.path[1] \/ o.path[1] = "*" \/ q.path[1] = "*")
      /\ 2 <= Len(o.path) => (o.path[2] = q.path[2] \/ o.path[2] = "*" \/ q.path[2] = "*")
      /\ 3 <= Len(o.path) => (o.path[3] = q.path[3] \/ o.path[3] = "*" \/ q.path[3] = "*")
      /\ 4 <= Len(o.path) => (o.path[4] = q.path[4] \/ o.path[4] = "*" \/ q.path[4] = "*")
  BY <1>1, FitsAt
<1> QED
  BY ONLY <1>1, <1>2, ServerStreamsRows(o), ServerStreamsRows(q), o.method = q.method, o.key = q.key,
     FiveIs, SMTT(100)
     DEF ServerStreamsRows

-----------------------------------------------------------------------------
(* The invariant.                                                          *)

\* What is sent is what the running call asks for, and what the caller gets is
\* what the client makes of the answer.
AsAsked ==
  Sent => /\ call \in CallsTo(config.client) /\ ~MethodThrows(call)
          /\ request.base = BaseUrl(config)
          /\ request.is = RequestOf(call, config.app, request.digest)
          /\ call.op.key = "signed" => request.digest \in Digests

AsAnswered ==
  reply.kind = "frame" => reply.is \in Frames /\ result.of = ErrorOf(reply.is)

IInv == config \in Configs /\ AsAsked /\ AsAnswered

\* It holds at the start.
LEMMA InitIInv == Init => IInv
BY DEF Init, IInv, AsAsked, AsAnswered, Sent, None

\* Every step keeps it.
LEMMA NextIInv == IInv /\ [Next]_vars => IInv'
<1> SUFFICES ASSUME IInv, [Next]_vars  PROVE IInv'
  OBVIOUS
<1>1. CASE Call
  <2>1. PICK c \in CallsTo(config.client) :
          \E digest \in IF c.op.key = "signed" THEN Digests ELSE {<<>>} :
            /\ call' = c
            /\ request' = IF MethodThrows(c) THEN [kind |-> "thrown"]
                          ELSE [kind |-> "sent", digest |-> digest, base |-> BaseUrl(config),
                                is |-> RequestOf(c, config.app, digest)]
    BY <1>1 DEF Call
  <2>2. PICK digest \in IF c.op.key = "signed" THEN Digests ELSE {<<>>} :
            /\ call' = c
            /\ request' = IF MethodThrows(c) THEN [kind |-> "thrown"]
                          ELSE [kind |-> "sent", digest |-> digest, base |-> BaseUrl(config),
                                is |-> RequestOf(c, config.app, digest)]
    BY <2>1
  <2>3. AsAsked'
    <3>1. CASE MethodThrows(c)
      BY <2>2, <3>1 DEF AsAsked, Sent
    <3>2. CASE ~MethodThrows(c)
      <4>1. /\ request'.digest = digest /\ request'.base = BaseUrl(config)
            /\ request'.is = RequestOf(c, config.app, digest)
        BY <2>2, <3>2
      <4>2. config' = config /\ call' = c
        BY <1>1, <2>2 DEF Call
      <4>3. c.op.key = "signed" => digest \in Digests
        BY <2>2
      <4> QED  BY <2>1, <3>2, <4>1, <4>2, <4>3 DEF AsAsked
    <3> QED  BY <3>1, <3>2
  <2>4. AsAnswered' /\ config' \in Configs
    BY <1>1 DEF Call, AsAnswered, None, IInv
  <2> QED  BY <2>3, <2>4 DEF IInv
<1>2. CASE NoHost
  BY <1>2 DEF NoHost, Over, IInv, AsAsked, AsAnswered, Sent, None
<1>3. CASE Respond
  BY <1>3 DEF Respond, Over, IInv, AsAsked, AsAnswered, Sent, None
<1>4. CASE UiFrame
  BY <1>4 DEF UiFrame, IInv, AsAsked, AsAnswered, Sent
<1>5. CASE ErrorFrame
  BY <1>5 DEF ErrorFrame, Over, IInv, AsAsked, AsAnswered, Sent, None
<1>6. CASE StreamEnds
  BY <1>6 DEF StreamEnds, Over, IInv, AsAsked, AsAnswered, Sent, None
<1>7. CASE UNCHANGED vars
  BY <1>7 DEF vars, IInv, AsAsked, AsAnswered, Sent
<1> QED  BY <1>1, <1>2, <1>3, <1>4, <1>5, <1>6, <1>7 DEF Next

\* It holds in every reachable state.
LEMMA Invariance == Spec => []IInv
<1> QED  BY InitIInv, NextIInv, PTL DEF Spec

-----------------------------------------------------------------------------
(* What a caller gets of an answer.                                        *)

\* The first of two places that is there.
LEMMA FirstOfTwo ==
  ASSUME NEW f, NEW p, NEW q
  PROVE  FirstOf(f, <<p, q>>) = IF f.at[p] # "absent" THEN p
                                ELSE IF f.at[q] # "absent" THEN q ELSE "absent"
<1> DEFINE there == {i \in DOMAIN <<p, q>> : f.at[<<p, q>>[i]] # "absent"}
<1>1. FirstOf(f, <<p, q>>) =
        IF there = {} THEN "absent"
        ELSE <<p, q>>[CHOOSE i \in there : \A j \in there : i <= j]
  BY DEF FirstOf
<1>2. \A i : i \in there <=> (i = 1 /\ f.at[p] # "absent") \/ (i = 2 /\ f.at[q] # "absent")
  OBVIOUS
<1> HIDE DEF there
<1> QED  BY <1>1, <1>2

\* The same of three.
LEMMA FirstOfThree ==
  ASSUME NEW f, NEW p, NEW q, NEW r
  PROVE  FirstOf(f, <<p, q, r>>) = IF f.at[p] # "absent" THEN p
                                   ELSE IF f.at[q] # "absent" THEN q
                                   ELSE IF f.at[r] # "absent" THEN r ELSE "absent"
<1> DEFINE there == {i \in DOMAIN <<p, q, r>> : f.at[<<p, q, r>>[i]] # "absent"}
<1>1. FirstOf(f, <<p, q, r>>) =
        IF there = {} THEN "absent"
        ELSE <<p, q, r>>[CHOOSE i \in there : \A j \in there : i <= j]
  BY DEF FirstOf
<1>2. \A i : i \in there <=> \/ i = 1 /\ f.at[p] # "absent"
                             \/ i = 2 /\ f.at[q] # "absent"
                             \/ i = 3 /\ f.at[r] # "absent"
  OBVIOUS
<1> HIDE DEF there
<1> QED  BY <1>1, <1>2

\* What gives way to what in an error frame.
GivesWay(p, e) ==
  \/ p = "code" /\ e.code = "type"
  \/ p = "message" /\ e.message = "error"

\* What the two reads of an error frame find, and what becomes of them.
LEMMA SaysWhatItCan ==
  ASSUME NEW f, IsFrame(f), NEW e, e = ErrorOf(f)
  PROVE  /\ \A p \in {e.code, e.message} \cap ErrorPlaces : f.at[p] = "string"
         /\ f.form # "empty" => e.message \in ErrorPlaces \cup {"data"}
         /\ e.message # "data" =>
              \A p \in ErrorPlaces : f.at[p] # "absent" /\ p \notin {e.code, e.message}
                                      => GivesWay(p, e)
<1> DEFINE code    == FirstOf(f, <<"type", "code", "error">>)
           message == FirstOf(f, <<"error", "message">>)
<1>1. /\ code = IF f.at["type"] # "absent" THEN "type"
                ELSE IF f.at["code"] # "absent" THEN "code"
                ELSE IF f.at["error"] # "absent" THEN "error" ELSE "absent"
      /\ message = IF f.at["error"] # "absent" THEN "error"
                   ELSE IF f.at["message"] # "absent" THEN "message" ELSE "absent"
  BY FirstOfTwo, FirstOfThree
<1> DEFINE both == ErrorOfBoth(f)
<1>2. both = [code    |-> IF code # "absent" /\ f.at[code] = "string" THEN code ELSE "STREAM_ERROR",
              message |-> IF message # "absent" /\ f.at[message] = "string" THEN message
                          ELSE IF f.form = "empty" THEN "stream error" ELSE "data"]
  BY DEF ErrorOfBoth
<1>3. e = IF code # "absent" /\ f.at[code] # "string" THEN [both EXCEPT !.message = "data"] ELSE both
  BY DEF ErrorOf
<1> HIDE DEF code, message, both
<1>4. /\ both.code = IF code # "absent" /\ f.at[code] = "string" THEN code ELSE "STREAM_ERROR"
      /\ both.message = IF message # "absent" /\ f.at[message] = "string" THEN message
                        ELSE IF f.form = "empty" THEN "stream error" ELSE "data"
  BY <1>2
<1>5. /\ e.code = both.code
      /\ e.message = IF code # "absent" /\ f.at[code] # "string" THEN "data" ELSE both.message
  BY <1>2, <1>3
<1>6. f.form = "empty" => \A p \in ErrorPlaces : f.at[p] = "absent"
  BY DEF IsFrame
<1>7. \A p \in {e.code, e.message} \cap ErrorPlaces : f.at[p] = "string"
  BY <1>1, <1>4, <1>5 DEF ErrorPlaces
<1>8. f.form # "empty" => e.message \in ErrorPlaces \cup {"data"}
  BY <1>1, <1>4, <1>5 DEF ErrorPlaces
<1>9. ASSUME e.message # "data", NEW p \in ErrorPlaces, f.at[p] # "absent",
             p # e.code, p # e.message
      PROVE  GivesWay(p, e)
  <2>1. p \in {"type", "code", "error", "message"}
    BY DEF ErrorPlaces
  <2> QED  BY <1>1, <1>4, <1>5, <1>6, <1>9, <2>1 DEF GivesWay
<1> QED  BY <1>7, <1>8, <1>9

\* The exception of an error frame says what the frame says, but for what gives
\* way to a type and to an error (ErrorFrameLoses), for any frame.
THEOREM ErrorFramesLose == Spec => []ErrorFrameLoses
<1>1. IInv => ErrorFrameLoses
  <2> SUFFICES ASSUME IInv, reply.kind = "frame"
               PROVE  ErrorFrameLoses
    BY DEF ErrorFrameLoses
  <2> DEFINE f == reply.is  e == result.of
  <2>1. e = ErrorOf(f) /\ IsFrame(f)
    BY ApiAssumption DEF IInv, AsAnswered
  <2>2. /\ \A p \in {e.code, e.message} \cap ErrorPlaces : f.at[p] = "string"
        /\ f.form # "empty" => e.message \in ErrorPlaces \cup {"data"}
        /\ e.message # "data" =>
             \A p \in ErrorPlaces : f.at[p] # "absent" /\ p \notin {e.code, e.message}
                                     => GivesWay(p, e)
    <3> HIDE DEF f, e
    <3> QED  BY <2>1, SaysWhatItCan
  <2> QED  BY <2>2 DEF ErrorFrameLoses, GivesWay
<1> QED  BY <1>1, Invariance, PTL

-----------------------------------------------------------------------------
(* Bodies: who waits for standard input.                                   *)

\* The methods that POST nothing.
StdinOps == {"pause_scheduler_job", "resume_scheduler_job"}

\* Two methods alone POST nothing.
LEMMA BareOps ==
  ASSUME NEW client \in Clients, NEW op \in OpsOf(client), op.method = "POST", op.body = "none"
  PROVE  op.name \in StdinOps
<1>1. op \in AdminReads => op.method = "GET"
  BY OpsAre DEF AdminReads
<1>2. op \in AdminWrites => op.name \in StdinOps
  BY OpsAre DEF AdminWrites, StdinOps
<1>3. op \in UserReads => op.method = "GET"
  BY OpsAre DEF UserReads
<1>4. op \in Chats => op.body = "payload"
  BY OpsAre DEF Chats
<1>5. op \in UserWrites => op.method = "DELETE" \/ op.body \in {"payload", "made"}
  BY OpsAre DEF UserWrites
<1>6. op \in FormationStreams => op.method = "GET" \/ op.body = "stream"
  BY OpsAre DEF FormationStreams
<1>7. op \in ServerReads => op.method = "GET"
  BY OpsAre DEF ServerReads
<1>8. op \in ServerWrites => op.method = "DELETE" \/ op.body \in {"payload", "made"}
  BY OpsAre DEF ServerWrites, Lifecycle
<1>9. op \in ServerStreams => op.method = "GET" \/ op.body = "payload"
  BY OpsAre DEF ServerStreams
<1> QED
  BY <1>1, <1>2, <1>3, <1>4, <1>5, <1>6, <1>7, <1>8, <1>9 DEF OpsOf, FormationOps, ServerOps

\* What the arguments of a call can be.
LEMMA CallsAre ==
  ASSUME NEW client, NEW c \in CallsTo(client)
  PROVE  /\ c.op \in OpsOf(client)
         /\ c.id = <<>> \/ c.id \in Ids
         /\ c.user = <<>> \/ c.user \in Users
         /\ c.op.user = {} => c.user = <<>>
         /\ (\A i \in DOMAIN c.op.path : c.op.path[i] # "*") => c.id = <<>>
         /\ c.option \in BOOLEAN
         /\ c.option => c.op.name \in DOMAIN Options \cup {"fire_trigger"}
         /\ c.payload \in Payloads
         /\ DOMAIN c = {"op", "id", "user", "option", "payload"}
<1>1. PICK op \in OpsOf(client) : c \in CallsOf(op)
  BY DEF CallsTo
<1>2. /\ c.op = op
      /\ c.id \in IF \E i \in DOMAIN op.path : op.path[i] = "*" THEN Ids ELSE {<<>>}
      /\ c.user \in IF op.user # {} THEN Users ELSE {<<>>}
      /\ c.option \in IF op.name \in DOMAIN Options \cup {"fire_trigger"} THEN BOOLEAN ELSE {FALSE}
      /\ c.payload \in IF op.body \in {"payload", "stream"} \/ op.name = "stream_logs"
                      THEN Payloads ELSE {"null"}
      /\ DOMAIN c = {"op", "id", "user", "option", "payload"}
  BY <1>1 DEF CallsOf
<1> HIDE DEF CallsTo
<1>3. (\A i \in DOMAIN op.path : op.path[i] # "*") => c.id \in {<<>>}
  BY <1>2
<1>4. op.user = {} => c.user \in {<<>>}
  BY <1>2
<1>5. /\ c.id = <<>> \/ c.id \in Ids
      /\ c.user = <<>> \/ c.user \in Users
  BY <1>2
<1>6. c.option \in BOOLEAN /\ (c.option => c.op.name \in DOMAIN Options \cup {"fire_trigger"})
  BY <1>2
<1>7. c.payload \in Payloads
  BY <1>2 DEF Payloads
<1> QED  BY <1>1, <1>2, <1>3, <1>4, <1>5, <1>6, <1>7

\* The fields of a request.
LEMMA RequestFields ==
  ASSUME NEW c, NEW app, NEW digest
  PROVE  /\ RequestOf(c, app, digest).method = c.op.method
         /\ RequestOf(c, app, digest).text = Text(c)
         /\ RequestOf(c, app, digest).headers = Headers(c, app)
         /\ RequestOf(c, app, digest).key = c.op.key
         /\ RequestOf(c, app, digest).user = IF "header" \in c.op.user THEN c.user ELSE <<>>
         /\ RequestOf(c, app, digest).body.form = Body(c)
         /\ RequestOf(c, app, digest).body.user = IF "body" \in c.op.user THEN c.user ELSE <<>>
         /\ RequestOf(c, app, digest).auth =
              IF c.op.key = "signed" THEN AuthHeader(Text(c), digest) ELSE NoAuthHeader
BY DEF RequestOf

\* The body, for each form of it.
LEMMA BodyIs ==
  ASSUME NEW c
  PROVE  /\ c.op.body = "none" => Body(c) = "none"
         /\ c.op.body = "made" => Body(c) = "made"
         /\ c.op.body = "stream" => Body(c) = "stream"
         /\ c.op.body = "payload" => Body(c) = IF c.payload = "null" THEN "none" ELSE c.payload
BY DEF Body

\* There are four of these forms.
LEMMA BodyKinds ==
  ASSUME NEW client \in Clients, NEW op \in OpsOf(client)
  PROVE  op.body \in {"none", "made", "stream", "payload"}
<1>1. op \in AdminReads \cup UserReads \cup ServerReads => op.body = "none"
  BY OpsAre DEF AdminReads, UserReads, ServerReads
<1>2. op \in AdminWrites => op.body \in {"none", "made", "payload"}
  BY OpsAre DEF AdminWrites
<1>3. op \in Chats \cup UserWrites => op.body \in {"none", "made", "payload"}
  BY OpsAre DEF Chats, UserWrites
<1>4. op \in FormationStreams \cup ServerStreams => op.body \in {"none", "stream", "payload"}
  BY OpsAre DEF FormationStreams, ServerStreams
<1>5. op \in ServerWrites => op.body \in {"none", "made", "payload"}
  BY OpsAre DEF ServerWrites, Lifecycle
<1> QED
  BY <1>1, <1>2, <1>3, <1>4, <1>5 DEF OpsOf, FormationOps, ServerOps

\* Nothing waits for standard input but these two and a payload of null
\* (StdinOnlyForNull).
THEOREM StdinIsExplained == Spec => []StdinOnlyForNull
<1>1. IInv => StdinOnlyForNull
  <2> SUFFICES ASSUME IInv, Sent, ReadsStdin(request.is)
               PROVE  \/ call.op.name \in {"pause_scheduler_job", "resume_scheduler_job"}
                      \/ call.op.body = "payload" /\ call.payload = "null"
    BY DEF StdinOnlyForNull
  <2>1. /\ call \in CallsTo(config.client) /\ config.client \in Clients
        /\ request.is = RequestOf(call, config.app, request.digest)
    BY DEF IInv, AsAsked, Configs
  <2>2. call.op \in OpsOf(config.client) /\ call.op.method = "POST" /\ Body(call) = "none"
    BY <2>1, CallsAre, RequestFields DEF ReadsStdin
  <2>3. call.op.body \in {"none", "made", "stream", "payload"}
    BY <2>1, <2>2, BodyKinds
  <2>4. call.op.body = "none" \/ (call.op.body = "payload" /\ call.payload = "null")
    BY <2>1, <2>2, <2>3, BodyIs, CallsAre DEF Payloads
  <2>5. call.op.body = "none" => call.op.name \in StdinOps
    BY <2>1, <2>2, BareOps
  <2> QED  BY <2>4, <2>5 DEF StdinOps
<1> QED  BY <1>1, Invariance, PTL

-----------------------------------------------------------------------------
(* The base URL.                                                           *)

\* Stripped cuts at the last character that is no slash.
LEMMA StrippedIs ==
  ASSUME NEW text, NEW n \in 0 .. Len(text), Len(text) \in Nat,
         \A i \in n + 1 .. Len(text) : text[i] = "/", n # 0 => text[n] # "/"
  PROVE  Stripped(text) = SubSeq(text, 1, n)
<1> DEFINE ends == {m \in 0 .. Len(text) : \A i \in m + 1 .. Len(text) : text[i] = "/"}
<1>1. n \in ends
  OBVIOUS
<1>2. ASSUME NEW m \in ends  PROVE n <= m
  <2> SUFFICES ASSUME m < n  PROVE FALSE
    OBVIOUS
  <2>1. n \in m + 1 .. Len(text)
    OBVIOUS
  <2> QED  BY <2>1
<1>3. ends \subseteq Int
  OBVIOUS
<1>4. Stripped(text) = SubSeq(text, 1, CHOOSE k \in ends : \A m \in ends : k <= m)
  BY DEF Stripped
<1> HIDE DEF ends
<1>5. ASSUME NEW k \in ends, \A m \in ends : k <= m  PROVE k = n
  BY <1>1, <1>2, <1>3, <1>5
<1>6. (CHOOSE k \in ends : \A m \in ends : k <= m) = n
  BY <1>1, <1>2, <1>5
<1> QED  BY <1>4, <1>6

\* What a text is that ends in no slash.
LEMMA StrippedKeeps ==
  ASSUME NEW S, NEW text \in Seq(S), text # <<>>, text[Len(text)] # "/"
  PROVE  Stripped(text) = text
<1>1. PICK n \in Nat : n = Len(text) /\ n # 0
  BY EmptySeq
<1>2. \A i \in n + 1 .. Len(text) : FALSE
  BY <1>1
<1>3. n \in 0 .. Len(text)
  BY <1>1
<1>4. Stripped(text) = SubSeq(text, 1, n)
  BY <1>1, <1>2, <1>3, StrippedIs
<1> QED  BY <1>1, <1>4, SubSeqFull

\* Nothing is stripped of nothing.
LEMMA StrippedEmpty == Stripped(<<>>) = <<>>
<1>1. PICK z \in Nat : z = Len(<<>>) /\ z = 0
  OBVIOUS
<1>2. Stripped(<<>>) = SubSeq(<<>>, 1, z)
  <2>1. \A i \in z + 1 .. Len(<<>>) : FALSE
    BY <1>1
  <2> QED  BY <1>1, <2>1, StrippedIs
<1> QED  BY <1>1, <1>2, SubSeqEmpty

\* A host without the slashes after it.
LEMMA StrippedSpelled ==
  ASSUME NEW c, c.slashes \in Nat, NEW url \in {<<>>, <<"host">>}
  PROVE  Stripped(Spelled(c, url)) = url
<1>1. CASE url = <<>>
  BY <1>1, StrippedEmpty DEF Spelled
<1>2. CASE url = <<"host">>
  <2> DEFINE S == {"host", "/"}  tail == [i \in 1 .. c.slashes |-> "/"]  text == <<"host">> \o tail
  <2>1. <<"host">> \in Seq(S) /\ Len(<<"host">>) = 1
    OBVIOUS
  <2>2. tail \in Seq(S) /\ Len(tail) = c.slashes /\ \A i \in 1 .. c.slashes : tail[i] = "/"
    OBVIOUS
  <2> HIDE DEF tail, S
  <2>3. /\ text \in Seq(S) /\ Len(text) = 1 + c.slashes
        /\ \A i \in 1 .. 1 + c.slashes : text[i] = IF i <= 1 THEN <<"host">>[i] ELSE tail[i - 1]
    BY <2>1, <2>2, ConcatProperties
  <2>4. text[1] = "host" /\ \A i \in 2 .. Len(text) : text[i] = "/"
    BY <2>2, <2>3
  <2>5. Spelled(c, url) = text
    BY <1>2 DEF Spelled, tail
  <2> HIDE DEF text
  <2>6. PICK n \in Nat : n = 1
    OBVIOUS
  <2>7. n \in 0 .. Len(text) /\ Len(text) \in Nat
    BY <2>3, <2>6
  <2>8. \A i \in n + 1 .. Len(text) : text[i] = "/"
    BY <2>4, <2>6
  <2>9. Stripped(text) = SubSeq(text, 1, n)
    BY <2>4, <2>6, <2>7, <2>8, StrippedIs
  <2>10. SubSeq(text, 1, n) = <<"host">>
    <3>1. \A i \in 1 .. 1 : text[i] \in S
      BY <2>3
    <3>2. /\ SubSeq(text, 1, 1) \in Seq(S) /\ Len(SubSeq(text, 1, 1)) = 1
          /\ SubSeq(text, 1, 1)[1] = text[1]
      BY <2>3
    <3>3. \A i \in 1 .. Len(SubSeq(text, 1, 1)) : SubSeq(text, 1, 1)[i] = <<"host">>[i]
      BY <2>4, <3>2
    <3>4. SubSeq(text, 1, 1) = <<"host">>
      BY <2>1, <3>2, <3>3, SeqEqual
    <3> QED  BY <2>6, <3>4
  <2> QED  BY <1>2, <2>5, <2>9, <2>10
<1> QED  BY <1>1, <1>2

\* A sequence with two more elements ends in the second.
LEMMA EndsIn ==
  ASSUME NEW S, NEW s \in Seq(S), NEW a \in S, NEW b \in S
  PROVE  LET t == s \o <<a, b>>
         IN  t \in Seq(S) /\ t # <<>> /\ t[Len(t)] = b
<1>1. <<a, b>> \in Seq(S) /\ Len(<<a, b>>) = 2
  OBVIOUS
<1>2. PICK n \in Nat : n = Len(s)
  OBVIOUS
<1> DEFINE t == s \o <<a, b>>
<1>3. /\ t \in Seq(S) /\ Len(t) = n + 2
      /\ \A i \in 1 .. n + 2 : t[i] = IF i <= n THEN s[i] ELSE <<a, b>>[i - n]
  BY <1>1, <1>2, ConcatProperties
<1>4. n + 2 \in 1 .. n + 2 /\ ~(n + 2 <= n) /\ n + 2 - n = 2 /\ n + 2 # 0
  OBVIOUS
<1> HIDE DEF t
<1>5. t[n + 2] = <<a, b>>[n + 2 - n]
  BY <1>3, <1>4
<1>6. t # <<>>
  BY <1>3, <1>4, EmptySeq
<1> QED  BY <1>3, <1>4, <1>5, <1>6 DEF t

\* The URL of a formation behind a server.
Proxied(prefix) == <<"host">> \o <<"/", prefix, "/">> \o <<"formation">> \o <<"/", "v1">>

\* It ends in no slash, so stripping keeps it.
LEMMA ProxiedIs ==
  ASSUME NEW prefix
  PROVE  /\ Proxied(prefix) # <<>> /\ Proxied(prefix)[Len(Proxied(prefix))] # "/"
         /\ Stripped(Proxied(prefix)) = Proxied(prefix)
<1> DEFINE S == {"host", "/", prefix, "formation", "v1"}
           s == <<"host">> \o <<"/", prefix, "/">> \o <<"formation">>
<1>1. s \in Seq(S)
  <2>1. <<"host">> \in Seq(S) /\ <<"/", prefix, "/">> \in Seq(S) /\ <<"formation">> \in Seq(S)
    OBVIOUS
  <2> HIDE DEF S
  <2>2. <<"host">> \o <<"/", prefix, "/">> \in Seq(S)
    BY <2>1, ConcatProperties
  <2> QED  BY <2>1, <2>2, ConcatProperties
<1>2. "/" \in S /\ "v1" \in S
  OBVIOUS
<1>3. Proxied(prefix) = s \o <<"/", "v1">>
  BY DEF Proxied
<1> HIDE DEF S, s
<1>4. /\ Proxied(prefix) \in Seq(S) /\ Proxied(prefix) # <<>>
      /\ Proxied(prefix)[Len(Proxied(prefix))] = "v1"
  BY <1>1, <1>2, <1>3, EndsIn
<1>5. Stripped(Proxied(prefix)) = Proxied(prefix)
  BY <1>4, StrippedKeeps
<1> QED  BY <1>4, <1>5

\* The URL the requests of a client go to.
LEMMA BaseUrlIs ==
  ASSUME NEW c \in Configs
  PROVE  BaseUrl(c) = IF c.url # <<>> \/ c.client = "server" THEN c.url
                      ELSE IF c.server_url # <<>> /\ c.formation_id # <<>>
                      THEN Proxied(IF c.mode = "draft" THEN "draft" ELSE "api")
                      ELSE <<>>
<1>1. /\ c.slashes \in Nat /\ c.url \in {<<>>, <<"host">>} /\ c.server_url \in {<<>>, <<"host">>}
      /\ c.formation_id \in {<<>>, <<"formation">>}
  BY ApiAssumption DEF Configs
<1>2. /\ Stripped(Spelled(c, c.url)) = c.url
      /\ Stripped(Spelled(c, c.server_url)) = c.server_url
  BY <1>1, StrippedSpelled
<1> DEFINE prefix == IF c.mode = "draft" THEN "draft" ELSE "api"
           proxied == Stripped(Spelled(c, c.server_url))
                        \o <<"/", prefix, "/">> \o c.formation_id \o <<"/", "v1">>
<1>3. BaseUrl(c) = Stripped(IF c.url # <<>> \/ c.client = "server" THEN Spelled(c, c.url)
               ELSE IF c.server_url # <<>> /\ c.formation_id # <<>> THEN proxied
               ELSE <<>>)
  BY DEF BaseUrl
<1>4. ASSUME c.server_url # <<>>, c.formation_id # <<>>
      PROVE  proxied = Proxied(prefix)
  <2>1. Stripped(Spelled(c, c.server_url)) = <<"host">> /\ c.formation_id = <<"formation">>
    BY <1>1, <1>2, <1>4
  <2> QED  BY <2>1 DEF Proxied
<1>5. Stripped(Proxied(prefix)) = Proxied(prefix)
  BY ProxiedIs
<1> HIDE DEF proxied
<1> QED  BY <1>2, <1>3, <1>4, <1>5, StrippedEmpty

\* SlashesDontMatter follows from what is asked.
LEMMA SlashesAside == IInv => SlashesDontMatter
<1> SUFFICES ASSUME IInv, Sent
             PROVE  /\ request.base = BaseUrl([config EXCEPT !.slashes = 0])
                    /\ request.base # <<>> => Last(request.base) # "/"
  BY DEF SlashesDontMatter
<1> DEFINE bare == [config EXCEPT !.slashes = 0]
<1>1. config \in Configs /\ request.base = BaseUrl(config)
  BY DEF IInv, AsAsked
<1>2. bare \in Configs
  BY <1>1, ApiAssumption DEF Configs
<1>3. /\ bare.url = config.url /\ bare.client = config.client /\ bare.mode = config.mode
      /\ bare.server_url = config.server_url /\ bare.formation_id = config.formation_id
  BY <1>1 DEF Configs
<1> HIDE DEF bare
<1>4. BaseUrl(bare) = BaseUrl(config)
  BY <1>1, <1>2, <1>3, BaseUrlIs
<1>5. config.url \in {<<>>, <<"host">>}
  BY <1>1 DEF Configs
<1>6. request.base # <<>> => Last(request.base) # "/"
  <2>1. CASE config.url # <<>> \/ config.client = "server"
    <3>1. request.base \in {<<>>, <<"host">>}
      BY <1>1, <1>5, <2>1, BaseUrlIs
    <3> QED  BY <3>1 DEF Last
  <2>2. CASE ~(config.url # <<>> \/ config.client = "server")
    <3>1. request.base = <<>> \/ \E prefix \in {"draft", "api"} : request.base = Proxied(prefix)
      BY <1>1, <2>2, BaseUrlIs
    <3> QED  BY <3>1, ProxiedIs DEF Last
  <2> QED  BY <2>1, <2>2
<1> QED  BY <1>1, <1>4, <1>6 DEF bare

\* The base URL does not depend on the slashes behind the configured one, and
\* does not end in one (SlashesDontMatter), for any number of them.
THEOREM SlashesAreAside == Spec => []SlashesDontMatter
BY SlashesAside, Invariance, PTL

-----------------------------------------------------------------------------
(* Paths, keys and users of the methods.                                   *)
\* A path that is a sequence of words, none of them reserved.
PlainPath(path) ==
  /\ Len(path) \in Nat /\ path \in Seq({path[i] : i \in 1 .. Len(path)})
  /\ \A i \in 1 .. Len(path) : path[i] \notin Reserved

\* The paths of the tables are, by their length.
LEMMA OnePlain ==
  ASSUME NEW op, NEW m, NEW k, NEW u, NEW y, NEW n, NEW a,
         One(op, m, k, u, y, n, a), a \notin Reserved
  PROVE  PlainPath(op.path)
<1>1. op.path = <<a>>
  BY RowIs DEF One
<1> QED  BY <1>1 DEF PlainPath

\* ... of two
LEMMA TwoPlain ==
  ASSUME NEW op, NEW m, NEW k, NEW u, NEW y, NEW n, NEW a, NEW b,
         Two(op, m, k, u, y, n, a, b), a \notin Reserved, b \notin Reserved
  PROVE  PlainPath(op.path)
<1>1. op.path = <<a, b>>
  BY RowIs DEF Two
<1> QED  BY <1>1 DEF PlainPath

\* ... of three
LEMMA ThreePlain ==
  ASSUME NEW op, NEW m, NEW k, NEW u, NEW y, NEW n, NEW a, NEW b, NEW c,
         Three(op, m, k, u, y, n, a, b, c), a \notin Reserved, b \notin Reserved, c \notin Reserved
  PROVE  PlainPath(op.path)
<1>1. op.path = <<a, b, c>>
  BY RowIs DEF Three
<1> QED  BY <1>1 DEF PlainPath

\* ... of four
LEMMA FourPlain ==
  ASSUME NEW op, NEW m, NEW k, NEW u, NEW y, NEW n, NEW a, NEW b, NEW c, NEW d,
         Four(op, m, k, u, y, n, a, b, c, d),
         a \notin Reserved, b \notin Reserved, c \notin Reserved, d \notin Reserved
  PROVE  PlainPath(op.path)
<1>1. op.path = <<a, b, c, d>>
  BY RowIs DEF Four
<1> QED  BY <1>1 DEF PlainPath

\* ... of five
LEMMA FivePlain ==
  ASSUME NEW op, NEW m, NEW k, NEW u, NEW y, NEW n, NEW a, NEW b, NEW c, NEW d, NEW e,
         Five(op, m, k, u, y, n, a, b, c, d, e),
         a \notin Reserved, b \notin Reserved, c \notin Reserved, d \notin Reserved, e \notin Reserved
  PROVE  PlainPath(op.path)
<1>1. op.path = <<a, b, c, d, e>>
  BY RowIs DEF Five
<1> QED  BY <1>1 DEF PlainPath

\* Every method is in one of four groups of rows.
FormationRows(op) == FormationCalls(op) \/ FormationStreamsRows(op)

ServerRows(op) == ServerCalls(op) \/ ServerStreamsRows(op)

\* A method of FormationClient is a row; if it is no stream, a row of the
\* calls.
LEMMA FormationOpsAreRows ==
  ASSUME NEW op \in FormationOps
  PROVE  /\ FormationRows(op)
         /\ op \notin FormationStreams => FormationCalls(op)
BY AdminReadsAreRows, AdminWritesAreRows, UserReadsAreRows, ChatsAreRows, UserWritesAreRows,
   FormationStreamsAreRows DEF FormationOps, FormationRows, FormationCalls

\* The same for ServerClient.
LEMMA ServerOpsAreRows ==
  ASSUME NEW op \in ServerOps
  PROVE  /\ ServerRows(op)
         /\ op \notin ServerStreams => ServerCalls(op)
BY ServerReadsAreRows, ServerWritesAreRows, ServerStreamsAreRows
   DEF ServerOps, ServerRows, ServerCalls

\* No path of a table holds a reserved character.
LEMMA FormationPaths ==
  ASSUME NEW op, FormationRows(op)
  PROVE  PlainPath(op.path)
BY OnePlain, TwoPlain, ThreePlain, FourPlain, SMTT(60)
   DEF FormationRows, FormationCalls, AdminReadsRows, AdminWritesRows, UserReadsRows, ChatsRows,
       UserWritesRows, FormationStreamsRows, Reserved

\* The same for ServerClient.
LEMMA ServerPaths ==
  ASSUME NEW op, ServerRows(op)
  PROVE  PlainPath(op.path)
BY TwoPlain, OnePlain, ThreePlain, FourPlain, FivePlain, SMTT(60)
   DEF ServerRows, ServerCalls, ServerReadsRows, ServerWritesRows, ServerStreamsRows, Reserved

\* The methods with a pair of their own in the query.
Asides == {"fire_trigger", "clear_audit_log", "stream_logs"}

\* Keys and users: none of the methods that name a user in the query adds a
\* pair of its own to it, and ServerClient names nobody.
LEMMA FormationUsers ==
  ASSUME NEW op, FormationRows(op)
  PROVE  /\ op.key \in {"admin", "client"}
         /\ op.user \subseteq {"query", "header", "body"}
         /\ "query" \in op.user => op.name \notin Asides
BY OneIs, TwoIs, ThreeIs, FourIs, SMTT(60)
   DEF FormationRows, FormationCalls, AdminReadsRows, AdminWritesRows, UserReadsRows, ChatsRows,
       UserWritesRows, FormationStreamsRows, Asides

\* ServerClient names nobody.
LEMMA ServerUsers ==
  ASSUME NEW op, ServerRows(op)
  PROVE  /\ op.key \in {"none", "signed"}
         /\ op.user = {}
         /\ op.name \notin Asides
BY OneIs, TwoIs, ThreeIs, FourIs, FiveIs, SMTT(60)
   DEF ServerRows, ServerCalls, ServerReadsRows, ServerWritesRows, ServerStreamsRows, Asides

\* The methods that take a limit.
LEMMA OptionNames ==
  DOMAIN Options = {"get_sessions", "get_memories", "get_formation_logs", "get_server_logs"}
BY DEF Options

-----------------------------------------------------------------------------
(* Queries.                                                                *)
\* Two elements, one after the other.
LEMMA OneAndOne ==
  ASSUME NEW a, NEW b
  PROVE  <<a>> \o <<b>> = <<a, b>>
<1> DEFINE S == {a, b}  t == <<a>> \o <<b>>
<1>1. <<a>> \in Seq(S) /\ <<b>> \in Seq(S) /\ <<a, b>> \in Seq(S)
  OBVIOUS
<1>2. /\ t \in Seq(S) /\ Len(t) = 2
      /\ \A i \in 1 .. 2 : t[i] = IF i <= 1 THEN <<a>>[i] ELSE <<b>>[i - 1]
  <2> HIDE DEF S
  <2>1. /\ t \in Seq(S) /\ Len(t) = Len(<<a>>) + Len(<<b>>)
        /\ \A i \in 1 .. Len(<<a>>) + Len(<<b>>) :
             t[i] = IF i <= Len(<<a>>) THEN <<a>>[i] ELSE <<b>>[i - Len(<<a>>)]
    BY <1>1, ConcatProperties
  <2> QED  BY <2>1
<1> HIDE DEF S, t
<1>3. \A i \in 1 .. Len(t) : t[i] = <<a, b>>[i]
  BY <1>2
<1>4. t = <<a, b>>
  BY <1>1, <1>2, <1>3, SeqEqual
<1> QED  BY <1>4 DEF t

\* The texts of a query with up to two pairs.
LEMMA QueryTexts ==
  ASSUME NEW S, "?" \in S, "&" \in S, NEW p \in Seq(S), NEW q \in Seq(S)
  PROVE  /\ QueryText(<<>>) = <<>>
         /\ QueryText(<<p>>) = <<"?">> \o p
         /\ QueryText(<<p, q>>) = (<<"?">> \o p) \o (<<"&">> \o q)
<1>1. /\ <<"?">> \o p \in Seq(S) /\ <<"&">> \o q \in Seq(S)
  <2>1. <<"?">> \in Seq(S) /\ <<"&">> \in Seq(S)
    OBVIOUS
  <2> QED  BY <2>1, ConcatProperties
<1>2. QueryText(<<>>) = <<>>
  <2>1. [i \in DOMAIN <<>> |-> <<IF i = 1 THEN "?" ELSE "&">> \o <<>>[i]] = <<>>
    OBVIOUS
  <2> QED  BY <2>1, FlattenEmpty DEF QueryText
<1> DEFINE x == <<"?">> \o p  y == <<"&">> \o q
<1>3. QueryText(<<p>>) = x
  <2> DEFINE row == [i \in DOMAIN <<p>> |-> <<IF i = 1 THEN "?" ELSE "&">> \o <<p>>[i]]
  <2>1. DOMAIN row = 1 .. 1 /\ row[1] = x
    OBVIOUS
  <2>2. row = <<x>>
    <3>1. row = [i \in 1 .. 1 |-> x]
      OBVIOUS
    <3> HIDE DEF row, x
    <3> QED  BY <3>1
  <2>3. QueryText(<<p>>) = FlattenSeq(row)
    BY DEF QueryText
  <2>4. x \in Seq(S)
    BY <1>1
  <2> HIDE DEF row, x
  <2> QED  BY <2>2, <2>3, <2>4, FlattenOne
<1>4. QueryText(<<p, q>>) = x \o y
  <2> DEFINE row == [i \in DOMAIN <<p, q>> |-> <<IF i = 1 THEN "?" ELSE "&">> \o <<p, q>>[i]]
  <2>2. row = <<x, y>>
    <3>1. row = [i \in 1 .. 2 |-> IF i = 1 THEN x ELSE y]
      OBVIOUS
    <3> HIDE DEF row, x, y
    <3> QED  BY <3>1
  <2>3. QueryText(<<p, q>>) = FlattenSeq(row)
    BY DEF QueryText
  <2>4. x \in Seq(S) /\ y \in Seq(S)
    BY <1>1
  <2> HIDE DEF row, x, y
  <2> QED  BY <2>2, <2>3, <2>4, FlattenTwo
<1> QED  BY <1>2, <1>3, <1>4

\* A limit is in the query.
Limits(c) == c.option /\ c.op.name \in DOMAIN Options
Limit(c)  == <<Options[c.op.name], "=", "number">>

\* What the query is when the method adds no pair of its own.
LEMMA PlainQuery ==
  ASSUME NEW c, c.op.name \notin Asides
  PROVE  /\ "query" \in c.op.user /\ Limits(c) => Query(c) = <<UserQuery(c), Limit(c)>>
         /\ "query" \in c.op.user /\ ~Limits(c) => Query(c) = <<UserQuery(c)>>
         /\ "query" \notin c.op.user /\ Limits(c) => Query(c) = <<Limit(c)>>
         /\ "query" \notin c.op.user /\ ~Limits(c) => Query(c) = <<>>
<1> DEFINE u == IF "query" \in c.op.user THEN <<UserQuery(c)>> ELSE <<>>
           l == IF Limits(c) THEN <<Limit(c)>> ELSE <<>>
<1>1. Query(c) = u \o l \o <<>>
  BY DEF Query, Asides, Limits, Limit
<1>2. PICK T : T = {UserQuery(c), Limit(c)}
  OBVIOUS
<1>3. u \in Seq(T) /\ l \in Seq(T)
  <2>1. PICK a \in T, b \in T : a = UserQuery(c) /\ b = Limit(c)
    BY <1>2
  <2>2. <<a>> \in Seq(T) /\ <<b>> \in Seq(T) /\ <<>> \in Seq(T)
    OBVIOUS
  <2> QED  BY <2>1, <2>2
<1> HIDE DEF u, l
<1>4. Query(c) = u \o l
  <2>1. u \o l \in Seq(T)
    BY <1>3, ConcatProperties
  <2> QED  BY <1>1, <2>1, ConcatEmptySeq
<1>5. u \o <<>> = u /\ <<>> \o l = l
  BY <1>3, ConcatEmptySeq
<1> QED  BY <1>4, <1>5, OneAndOne DEF u, l

\* And when it does: no user and no limit is there.
LEMMA AsideQuery ==
  ASSUME NEW c, c.op.name \in Asides, "query" \notin c.op.user
  PROVE  /\ c.op.name = "fire_trigger" =>
              Query(c) = <<<<"async", "=", IF c.option THEN "true" ELSE "false">>>>
         /\ c.op.name = "clear_audit_log" =>
              Query(c) = <<<<"confirm", "=", "clear-audit-log">>>>
         /\ c.op.name = "stream_logs" =>
              Query(c) = IF c.payload = "object"
                         THEN <<<<"level", "=", "info">>, <<"agent", "=", "a">>>> ELSE <<>>
<1> DEFINE own == CASE c.op.name = "fire_trigger" ->
                         <<<<"async", "=", IF c.option THEN "true" ELSE "false">>>>
                    [] c.op.name = "clear_audit_log" -> <<<<"confirm", "=", "clear-audit-log">>>>
                    [] c.op.name = "stream_logs" /\ c.payload = "object" ->
                         <<<<"level", "=", "info">>, <<"agent", "=", "a">>>>
                    [] OTHER -> <<>>
<1>1. ~Limits(c)
  BY OptionNames DEF Limits, Asides
<1>2. Query(c) = <<>> \o <<>> \o own
  BY <1>1 DEF Query, Limits
<1>3. <<>> \o <<>> = <<>> /\ \A s : s \in Seq({s[i] : i \in 1 .. Len(s)}) => <<>> \o s = s
  BY ConcatEmptySeq
<1>4. own \in Seq({own[i] : i \in 1 .. Len(own)})
  <2>1. CASE c.op.name = "fire_trigger"
    BY <2>1
  <2>2. CASE c.op.name = "clear_audit_log"
    BY <2>2
  <2>3. CASE c.op.name = "stream_logs"
    BY <2>3
  <2> QED  BY <2>1, <2>2, <2>3 DEF Asides
<1>5. Query(c) = own
  <2> HIDE DEF own
  <2> QED  BY <1>2, <1>3, <1>4
<1> QED  BY <1>5

-----------------------------------------------------------------------------
(* What the texts of a call are made of.                                   *)
\* What texts are made of.
QueryWords == {"user_id", "limit", "number", "async", "true", "false", "confirm",
               "clear-audit-log", "level", "info", "agent", "a"}
PathWords  == UNION {{op.path[i] : i \in 1 .. Len(op.path)} : op \in FormationOps \cup ServerOps}

Characters == STRING \cup Reserved \cup QueryWords \cup PathWords

\* A text in which nothing is reserved.
LEMMA PlainText ==
  ASSUME NEW text \in Seq(STRING), Plain(text)
  PROVE  text \in Seq(Characters \ Reserved)
<1>1. Len(text) \in Nat /\ DOMAIN text = 1 .. Len(text)
  OBVIOUS
<1>2. \A i \in 1 .. Len(text) : text[i] \in Characters \ Reserved
  BY <1>1, ElementOfSeq DEF Plain, Characters
<1>3. text = [i \in 1 .. Len(text) |-> text[i]]
  OBVIOUS
<1> QED  BY <1>1, <1>2, <1>3

\* A path without its slashes.
Segment(c, i) == IF c.op.path[i] = "*" THEN c.id ELSE <<c.op.path[i]>>

Pieces(c) == [i \in 1 .. Len(c.op.path) |-> <<"/">> \o Segment(c, i)]

\* The text of a path is its segments, each after its slash.
LEMMA PathIs ==
  ASSUME NEW c, PlainPath(c.op.path)
  PROVE  /\ PathText(c) = FlattenSeq(Pieces(c))
         /\ Len(c.op.path) \in Nat /\ Len(Pieces(c)) = Len(c.op.path)
         /\ \A i \in 1 .. Len(c.op.path) : Pieces(c)[i] = <<"/">> \o Segment(c, i)
<1>1. Len(c.op.path) \in Nat /\ DOMAIN c.op.path = 1 .. Len(c.op.path)
  BY DEF PlainPath
<1>2. Pieces(c) = [i \in DOMAIN c.op.path |->
                     <<"/">> \o IF c.op.path[i] = "*" THEN c.id ELSE <<c.op.path[i]>>]
  BY <1>1 DEF Pieces, Segment
<1>3. PathText(c) = FlattenSeq(Pieces(c))
  BY <1>2 DEF PathText
<1>4. Len(Pieces(c)) = Len(c.op.path)
  BY <1>1 DEF Pieces
<1> QED  BY <1>1, <1>3, <1>4 DEF Pieces

\* What the segments are made of, when the argument is.
LEMMA SegmentIn ==
  ASSUME NEW S, NEW c, c.op \in FormationOps \cup ServerOps, PlainPath(c.op.path), c.id \in Seq(S),
         PathWords \ Reserved \subseteq S, NEW i \in 1 .. Len(c.op.path)
  PROVE  Segment(c, i) \in Seq(S)
<1>1. c.op.path[i] \in PathWords /\ c.op.path[i] \notin Reserved
  BY DEF PathWords, PlainPath
<1>2. PICK x \in S : x = c.op.path[i]
  BY <1>1
<1>3. <<x>> \in Seq(S)
  OBVIOUS
<1> QED  BY <1>2, <1>3 DEF Segment

\* And the path.
LEMMA PathTextIn ==
  ASSUME NEW S, NEW c, c.op \in FormationOps \cup ServerOps, PlainPath(c.op.path), c.id \in Seq(S),
         PathWords \ Reserved \subseteq S, "/" \in S
  PROVE  PathText(c) \in Seq(S)
<1>1. ASSUME NEW i \in 1 .. Len(c.op.path)  PROVE <<"/">> \o Segment(c, i) \in Seq(S)
  <2>1. PICK x \in Seq(S) : x = Segment(c, i)
    BY SegmentIn
  <2>2. <<"/">> \in Seq(S)
    OBVIOUS
  <2> QED  BY <2>1, <2>2, ConcatProperties
<1>2. Pieces(c) \in Seq(Seq(S))
  <2>1. Len(c.op.path) \in Nat
    BY PathIs
  <2> QED  BY <1>1, <2>1 DEF Pieces
<1> QED  BY <1>2, FlattenIn, PathIs

\* Nothing reserved in the argument, so each segment is one.
LEMMA PathSlashed ==
  ASSUME NEW S, NEW c, c.op \in FormationOps \cup ServerOps, PlainPath(c.op.path),
         c.id \in Seq(S \ {"/"}), PathWords \ Reserved \subseteq S, "/" \in S
  PROVE  Slashed(S, Pieces(c))
<1> DEFINE T == S \ {"/"}
<1>1. PathWords \ Reserved \subseteq T
  BY DEF Reserved
<1>2. T \subseteq S
  OBVIOUS
<1>3. c.id \in Seq(T)
  OBVIOUS
<1>4. Len(c.op.path) \in Nat /\ Len(Pieces(c)) = Len(c.op.path)
      /\ \A i \in 1 .. Len(c.op.path) : Pieces(c)[i] = <<"/">> \o Segment(c, i)
  BY PathIs
<1>5. Slashed(S, Pieces(c)) <=>
        /\ Pieces(c) \in Seq(Seq(S))
        /\ \A i \in 1 .. Len(Pieces(c)) : \E x \in Seq(T) : Pieces(c)[i] = <<"/">> \o x
  BY DEF Slashed
<1> HIDE DEF T
<1>6. ASSUME NEW i \in 1 .. Len(c.op.path)
      PROVE  Segment(c, i) \in Seq(T) /\ <<"/">> \o Segment(c, i) \in Seq(S)
  <2>1. PICK x \in Seq(T) : x = Segment(c, i)
    BY <1>1, <1>3, SegmentIn
  <2>2. <<"/">> \in Seq(S) /\ x \in Seq(S)
    BY <1>2, SeqMonotonic
  <2> QED  BY <2>1, <2>2, ConcatProperties
<1>7. Pieces(c) \in Seq(Seq(S))
  BY <1>4, <1>6 DEF Pieces
<1> QED  BY <1>4, <1>5, <1>6, <1>7

\* What a query is made of, and what it begins with.
IsQuery(S, text) == text = <<>> \/ \E x \in Seq(S) : x # <<>> /\ text = <<"?">> \o x

\* What begins with something is something.
LEMMA LongerStill ==
  ASSUME NEW S, NEW x \in Seq(S), NEW y \in Seq(S), x # <<>>
  PROVE  x \o y # <<>>
<1>1. PICK n \in Nat, m \in Nat : n = Len(x) /\ m = Len(y)
  OBVIOUS
<1>2. n # 0
  BY <1>1, EmptySeq
<1>3. Len(x \o y) = n + m
  BY <1>1, ConcatProperties
<1>4. Len(x \o y) # 0
  BY <1>2, <1>3
<1> QED  BY <1>4

\* Up to two pairs make such a text.
LEMMA PairsMakeQuery ==
  ASSUME NEW S, "?" \in S, "&" \in S, NEW pairs,
         \/ pairs = <<>>
         \/ \E p \in Seq(S) : p # <<>> /\ pairs = <<p>>
         \/ \E p, q \in Seq(S) : p # <<>> /\ pairs = <<p, q>>
  PROVE  IsQuery(S, QueryText(pairs)) /\ QueryText(pairs) \in Seq(S)
<1>1. CASE pairs = <<>>
  <2>1. <<>> \in Seq(S)
    OBVIOUS
  <2>2. QueryText(pairs) = <<>>
    BY <1>1, <2>1, QueryTexts
  <2> QED  BY <2>1, <2>2 DEF IsQuery
<1>2. ASSUME NEW p \in Seq(S), p # <<>>, pairs = <<p>>
      PROVE  IsQuery(S, QueryText(pairs)) /\ QueryText(pairs) \in Seq(S)
  <2>1. QueryText(pairs) = <<"?">> \o p
    BY <1>2, QueryTexts
  <2>2. <<"?">> \in Seq(S)
    OBVIOUS
  <2>3. QueryText(pairs) \in Seq(S)
    BY <2>1, <2>2, ConcatProperties
  <2> QED  BY <1>2, <2>1, <2>3 DEF IsQuery
<1>3. ASSUME NEW p \in Seq(S), NEW q \in Seq(S), p # <<>>, pairs = <<p, q>>
      PROVE  IsQuery(S, QueryText(pairs)) /\ QueryText(pairs) \in Seq(S)
  <2>1. QueryText(pairs) = (<<"?">> \o p) \o (<<"&">> \o q)
    BY <1>3, QueryTexts
  <2>2. PICK a \in Seq(S), b \in Seq(S) : a = <<"?">> /\ b = <<"&">> \o q
    <3>1. <<"?">> \in Seq(S) /\ <<"&">> \in Seq(S)
      OBVIOUS
    <3> QED  BY <3>1, ConcatProperties
  <2>3. p \o b \in Seq(S) /\ (a \o p) \o b = a \o (p \o b)
    BY <2>2, ConcatProperties, ConcatAssociative
  <2>4. QueryText(pairs) = <<"?">> \o (p \o b)
    BY <2>1, <2>2, <2>3
  <2>5. a \o (p \o b) \in Seq(S)
    BY <2>3, ConcatProperties
  <2>6. p \o b # <<>>
    BY <1>3, <2>2, LongerStill
  <2> QED  BY <2>2, <2>3, <2>4, <2>5, <2>6 DEF IsQuery
<1> QED  BY <1>1, <1>2, <1>3

\* A call of one of the clients: its method and its arguments.
LEMMA CallIs ==
  ASSUME NEW client \in Clients, NEW c \in CallsTo(client)
  PROVE  /\ c.op \in FormationOps \cup ServerOps /\ PlainPath(c.op.path)
         /\ c.id \in Seq(STRING) /\ c.user \in Seq(STRING)
         /\ c.op.user \subseteq {"query", "header", "body"}
         /\ "query" \in c.op.user => c.op.name \notin Asides
         /\ c.op.key = "signed" => c.op.user = {} /\ c.op.name \notin Asides
<1>1. c.op \in OpsOf(client)
  BY CallsAre
<1>2. c.op \in FormationOps \/ c.op \in ServerOps
  BY <1>1 DEF OpsOf
<1>3. CASE c.op \in FormationOps
  <2>1. FormationRows(c.op)
    BY <1>3, FormationOpsAreRows
  <2>2. PlainPath(c.op.path)
    BY <2>1, FormationPaths
  <2>3. /\ c.op.key \in {"admin", "client"}
        /\ c.op.user \subseteq {"query", "header", "body"}
        /\ "query" \in c.op.user => c.op.name \notin Asides
    BY <2>1, FormationUsers
  <2>4. c.id \in Seq(STRING) /\ c.user \in Seq(STRING)
    <3>1. <<>> \in Seq(STRING)
      OBVIOUS
    <3> QED  BY <3>1, CallsAre, ApiAssumption
  <2> QED  BY <1>3, <2>2, <2>3, <2>4
<1>4. CASE c.op \in ServerOps
  <2>1. ServerRows(c.op)
    BY <1>4, ServerOpsAreRows
  <2>2. PlainPath(c.op.path)
    BY <2>1, ServerPaths
  <2>3. c.op.user = {} /\ c.op.name \notin Asides
    BY <2>1, ServerUsers
  <2>4. c.id \in Seq(STRING) /\ c.user \in Seq(STRING)
    <3>1. <<>> \in Seq(STRING)
      OBVIOUS
    <3> QED  BY <3>1, CallsAre, ApiAssumption
  <2> QED  BY <1>4, <2>2, <2>3, <2>4
<1> QED  BY <1>2, <1>3, <1>4

\* What a limit adds.
LEMMA LimitIs ==
  ASSUME NEW S, QueryWords \subseteq S, "=" \in S, NEW c, Limits(c)
  PROVE  Limit(c) = <<"limit", "=", "number">> /\ Limit(c) \in Seq(S) /\ Limit(c) # <<>>
<1>1. Options[c.op.name] = "limit"
  BY DEF Limits, Options
<1>2. "limit" \in S /\ "number" \in S
  BY DEF QueryWords
<1> QED  BY <1>1, <1>2 DEF Limit

\* What a user adds.
LEMMA UserQueryIn ==
  ASSUME NEW S, QueryWords \subseteq S, "=" \in S, NEW c, c.user \in Seq(S)
  PROVE  UserQuery(c) \in Seq(S) /\ UserQuery(c) # <<>>
<1>1. "user_id" \in S
  BY DEF QueryWords
<1>2. <<"user_id", "=">> \in Seq(S) /\ <<"user_id", "=">> # <<>>
  BY <1>1
<1> QED  BY <1>2, ConcatProperties, LongerStill DEF UserQuery

\* No query has more than two pairs.
LEMMA QueryPairs ==
  ASSUME NEW S, QueryWords \subseteq S, "=" \in S, "?" \in S, "&" \in S,
         NEW client \in Clients, NEW c \in CallsTo(client), c.user \in Seq(S)
  PROVE  IsQuery(S, QueryText(Query(c))) /\ QueryText(Query(c)) \in Seq(S)
<1>1. \/ Query(c) = <<>>
      \/ \E p \in Seq(S) : p # <<>> /\ Query(c) = <<p>>
      \/ \E p, q \in Seq(S) : p # <<>> /\ Query(c) = <<p, q>>
  <2>1. CASE c.op.name \notin Asides
    <3>1. /\ UserQuery(c) \in Seq(S) /\ UserQuery(c) # <<>>
          /\ Limits(c) => Limit(c) \in Seq(S) /\ Limit(c) # <<>>
      BY UserQueryIn, LimitIs
    <3> QED  BY <2>1, <3>1, PlainQuery
  <2>2. CASE c.op.name \in Asides
    <3>1. "query" \notin c.op.user
      BY <2>2, CallIs
    <3>2. /\ <<"async", "=", IF c.option THEN "true" ELSE "false">> \in Seq(S)
          /\ <<"confirm", "=", "clear-audit-log">> \in Seq(S)
          /\ <<"level", "=", "info">> \in Seq(S)
          /\ <<"agent", "=", "a">> \in Seq(S)
      <4>1. {"async", "true", "false", "confirm", "clear-audit-log",
             "level", "info", "agent", "a"} \subseteq S
        BY DEF QueryWords
      <4> QED  BY <4>1
    <3>3. CASE c.op.name = "fire_trigger"
      <4>1. Query(c) = <<<<"async", "=", IF c.option THEN "true" ELSE "false">>>>
        BY <2>2, <3>1, <3>3, AsideQuery
      <4> QED  BY <3>2, <4>1
    <3>4. CASE c.op.name = "clear_audit_log"
      <4>1. Query(c) = <<<<"confirm", "=", "clear-audit-log">>>>
        BY <2>2, <3>1, <3>4, AsideQuery
      <4> QED  BY <3>2, <4>1
    <3>5. CASE c.op.name = "stream_logs"
      <4>1. Query(c) = IF c.payload = "object"
                       THEN <<<<"level", "=", "info">>, <<"agent", "=", "a">>>> ELSE <<>>
        BY <2>2, <3>1, <3>5, AsideQuery
      <4> QED  BY <3>2, <4>1
    <3> QED  BY <2>2, <3>3, <3>4, <3>5 DEF Asides
  <2> QED  BY <2>1, <2>2
<1>2. PICK pairs : pairs = Query(c)
  OBVIOUS
<1> QED  BY <1>1, <1>2, PairsMakeQuery

-----------------------------------------------------------------------------
(* What is signed.                                                         *)
\* Where one of the characters is first, or else the end.
Cut(text, characters, n) ==
  /\ n \in 0 .. Len(text) /\ \A i \in 1 .. n : text[i] \notin characters
  /\ n < Len(text) => text[n + 1] \in characters

\* There is such a place.
LEMMA CutExists ==
  ASSUME NEW S, NEW text \in Seq(S), NEW characters
  PROVE  \E n \in 0 .. Len(text) : Cut(text, characters, n)
<1> SUFFICES ASSUME \A n \in 0 .. Len(text) : ~Cut(text, characters, n)  PROVE FALSE
  OBVIOUS
<1> DEFINE G == {n \in Nat : n <= Len(text) /\ \A i \in 1 .. n : text[i] \notin characters}
<1>1. Len(text) \in Nat
  OBVIOUS
<1>2. 0 \in G
  BY <1>1
<1>3. ASSUME NEW n \in Nat, n \in G  PROVE n + 1 \in G
  <2>1. n \in 0 .. Len(text) /\ \A i \in 1 .. n : text[i] \notin characters
    BY <1>1, <1>3
  <2>2. n < Len(text) /\ text[n + 1] \notin characters
    BY <2>1 DEF Cut
  <2>3. \A i \in 1 .. n + 1 : i \in 1 .. n \/ i = n + 1
    OBVIOUS
  <2> QED  BY <1>1, <2>1, <2>2, <2>3
<1>4. \A n \in Nat : n \in G
  <2> HIDE DEF G
  <2> QED  BY <1>2, <1>3, Induct
<1>5. Len(text) + 1 \in G
  BY <1>1, <1>4
<1> QED  BY <1>1, <1>5

\* What stands before it.
LEMMA CutIs ==
  ASSUME NEW S, NEW text \in Seq(S), NEW characters, NEW n, Cut(text, characters, n)
  PROVE  /\ Before(text, characters) \in Seq(S) /\ Len(Before(text, characters)) = n
         /\ \A i \in 1 .. n : Before(text, characters)[i] = text[i]
<1>1. n \in 0 .. Len(text) /\ Len(text) \in Nat
  BY DEF Cut
<1>2. Before(text, characters) = SubSeq(text, 1, n)
  BY BeforeIs DEF Cut
<1>3. PICK a \in Int, b \in Int : a = 1 /\ b = n
  BY <1>1
<1>4. \A i \in a .. b : text[i] \in S
  <2>1. \A i \in a .. b : i \in 1 .. Len(text)
    BY <1>1, <1>3
  <2> QED  BY <2>1, ElementOfSeq
<1>5. /\ SubSeq(text, a, b) \in Seq(S)
      /\ Len(SubSeq(text, a, b)) = IF a <= b THEN b - a + 1 ELSE 0
      /\ \A i \in 1 .. b - a + 1 : SubSeq(text, a, b)[i] = text[a + i - 1]
  BY <1>4, SubSeqProperties
<1>6. b - a + 1 = n /\ (a <= b <=> n # 0) /\ \A i \in 1 .. n : a + i - 1 = i
  BY <1>1, <1>3
<1> QED  BY <1>2, <1>3, <1>5, <1>6

\* A '#' ends what is sent before what is signed, and only a '#' does.
LEMMA FragmentEnds ==
  ASSUME NEW S, NEW text \in Seq(S)
  PROVE  LET signed == Before(text, {"?"})  sent == Before(text, {"#", "?"})
         IN  /\ signed \in Seq(S) /\ sent \in Seq(S)
             /\ Contains(signed, "#") => Len(sent) < Len(signed)
             /\ ~Contains(signed, "#") => sent = signed
<1> DEFINE signed == Before(text, {"?"})  sent == Before(text, {"#", "?"})
<1>1. PICK m \in 0 .. Len(text) : Cut(text, {"?"}, m)
  BY CutExists
<1>2. PICK n \in 0 .. Len(text) : Cut(text, {"#", "?"}, n)
  BY CutExists
<1>3. /\ signed \in Seq(S) /\ Len(signed) = m /\ \A i \in 1 .. m : signed[i] = text[i]
      /\ sent \in Seq(S) /\ Len(sent) = n /\ \A i \in 1 .. n : sent[i] = text[i]
  BY <1>1, <1>2, CutIs
<1> HIDE DEF signed, sent
<1>4. m \in Nat /\ n \in Nat /\ m <= Len(text) /\ n <= Len(text) /\ Len(text) \in Nat
  OBVIOUS
<1>5. /\ m < Len(text) => text[m + 1] = "?"
      /\ \A i \in 1 .. n : text[i] # "#" /\ text[i] # "?"
      /\ n < Len(text) => text[n + 1] \in {"#", "?"}
      /\ \A i \in 1 .. m : text[i] # "?"
  BY <1>1, <1>2 DEF Cut
<1>6. n <= m
  <2> SUFFICES ASSUME m < n  PROVE FALSE
    BY <1>4
  <2>1. m + 1 \in 1 .. n /\ m < Len(text)
    BY <1>4
  <2> QED  BY <1>5, <2>1
<1>7. Contains(signed, "#") => n < m
  <2> SUFFICES ASSUME NEW i \in 1 .. m, text[i] = "#"  PROVE n < m
    BY <1>3 DEF Contains
  <2>1. i \notin 1 .. n
    BY <1>5
  <2> QED  BY <1>4, <2>1
<1>8. ~Contains(signed, "#") => n = m
  <2> SUFFICES ASSUME \A i \in 1 .. m : text[i] # "#", n < m  PROVE FALSE
    BY <1>3, <1>4, <1>6 DEF Contains
  <2>1. n + 1 \in 1 .. m /\ n < Len(text)
    BY <1>4
  <2> QED  BY <1>5, <2>1
<1>9. n = m => sent = signed
  BY <1>3, SeqEqual
<1> QED  BY <1>3, <1>7, <1>8, <1>9 DEF signed, sent

\* A path without dot segments stays, one with them gets shorter.
LEMMA DotsGo ==
  ASSUME NEW C, NEW path \in Seq(C)
  PROVE  /\ DotSegments(path) = {} => Resolved(path) = path
         /\ DotSegments(path) # {} =>
              Len(Resolved(path)) \in Nat /\ Len(Resolved(path)) < Len(path)
<1> DEFINE dots  == DotSegments(path)
           ups   == {i \in dots : path[i + 1] = ".."}
           names == Slashes(path) \ dots
           within(S, i, j) == Cardinality({k \in S : i < k /\ k <= j})
           stay  == {i \in names : \A j \in ups : within(ups, i, j) <= within(names, i, j)}
           kept  == {k \in DOMAIN path :
                       \/ \E i \in stay : i <= k /\ \A j \in Slashes(path) : i < j => k < j
                       \/ k \in dots /\ \A j \in Slashes(path) : j <= k}
           place(n) == CHOOSE k \in kept : Cardinality({i \in kept : i <= k}) = n
<1>1. Resolved(path) = IF dots = {} THEN path
                       ELSE [n \in 1 .. Cardinality(kept) |-> path[place(n)]]
  BY DEF Resolved
<1>2. Len(path) \in Nat /\ DOMAIN path = 1 .. Len(path)
  OBVIOUS
<1>3. ASSUME dots # {}
      PROVE  Cardinality(kept) \in Nat /\ Cardinality(kept) < Len(path)
  <2>1. PICK d \in dots : TRUE
    BY <1>3
  <2>2. /\ d \in Slashes(path) /\ d \in 1 .. Len(path) /\ d < Len(path)
        /\ path[d + 1] \in {".", ".."}
    BY <1>2, <2>1 DEF DotSegments, Slashes
  <2>3. d + 1 \in 1 .. Len(path) /\ d + 1 \notin Slashes(path)
    BY <1>2, <2>2 DEF Slashes
  <2>4. d + 1 \notin dots
    BY <2>3 DEF DotSegments
  <2>5. ~\E i \in stay : i <= d + 1 /\ \A j \in Slashes(path) : i < j => d + 1 < j
    <3> SUFFICES ASSUME NEW i \in Slashes(path), i \notin dots, i <= d + 1,
                        \A j \in Slashes(path) : i < j => d + 1 < j
                 PROVE  FALSE
      OBVIOUS
    <3>1. i \in Int /\ d \in Int /\ i # d /\ i # d + 1
      BY <1>2, <2>1, <2>2, <2>3 DEF Slashes
    <3>2. i < d
      BY <3>1
    <3> QED  BY <2>2, <3>1, <3>2
  <2>6. kept \subseteq 1 .. Len(path) /\ d + 1 \notin kept
    BY <1>2, <2>4, <2>5
  <2> HIDE DEF kept, dots
  <2>7. IsFiniteSet(1 .. Len(path)) /\ Cardinality(1 .. Len(path)) = Len(path)
    <3>1. PICK a \in Int, b \in Int : a = 1 /\ b = Len(path) /\ b > 0
      <4>1. Len(path) \in Int /\ Len(path) > 0 /\ 1 \in Int
        BY <1>2, <2>2
      <4> QED  BY <4>1, Zenon
    <3>2. IsFiniteSet(a .. b) /\ Cardinality(a .. b) = IF a > b THEN 0 ELSE b - a + 1
      BY FS_Interval
    <3>3. ~(a > b) /\ b - a + 1 = b
      BY <3>1
    <3> QED  BY <3>1, <3>2, <3>3
  <2>8. /\ IsFiniteSet(kept) /\ Cardinality(kept) <= Len(path)
        /\ Cardinality(kept) # Len(path)
    BY <2>3, <2>6, <2>7, FS_Subset
  <2>9. Cardinality(kept) \in Nat
    BY <2>8, FS_CardinalityType
  <2> QED  BY <1>2, <2>8, <2>9
<1> HIDE DEF kept, dots
<1>4. ASSUME dots # {}
      PROVE  Len(Resolved(path)) = Cardinality(kept)
  BY <1>1, <1>3, <1>4
<1> QED  BY <1>1, <1>3, <1>4 DEF dots

\* Without '#' a fragment and a query end a text at the same place.
LEMMA NoFragment ==
  ASSUME NEW S, NEW text \in Seq(S), "#" \notin S
  PROVE  /\ Before(text, {"#", "?"}) = Before(text, {"?"})
         /\ Before(text, {"#"}) = text
<1>1. Len(text) \in Nat /\ \A i \in 1 .. Len(text) : text[i] # "#"
  BY ElementOfSeq
<1>2. {i \in 1 .. Len(text) : text[i] \in {"#", "?"}} = {i \in 1 .. Len(text) : text[i] \in {"?"}}
  BY <1>1
<1>3. {i \in 1 .. Len(text) : text[i] \in {"#"}} = {}
  BY <1>1
<1>4. SelectInSeq(text, LAMBDA x : x \in {"#", "?"}) = SelectInSeq(text, LAMBDA x : x \in {"?"})
  BY <1>2 DEF SelectInSeq
<1>5. SelectInSeq(text, LAMBDA x : x \in {"#"}) = 0
  BY <1>3 DEF SelectInSeq
<1> QED  BY <1>4, <1>5 DEF Before

\* What is signed, and how.
LEMMA HeaderFields ==
  ASSUME NEW text, NEW digest
  PROVE  /\ AuthHeader(text, digest).signed = Before(text, {"?"})
         /\ AuthHeader(text, digest).signature = Base64(digest)
BY DEF AuthHeader, CleanPath

\* ServerClient's requests go to a URL without a path.
LEMMA SignedBase ==
  ASSUME IInv, Sent, request.is.key = "signed"
  PROVE  SubSeq(request.base, 2, Len(request.base)) = <<>>
<1>1. /\ call \in CallsTo(config.client) /\ config \in Configs /\ config.client \in Clients
      /\ request.is = RequestOf(call, config.app, request.digest)
      /\ request.base = BaseUrl(config)
  BY DEF IInv, AsAsked, Configs
<1>2. call.op.key = "signed" /\ call.op \in OpsOf(config.client)
  BY <1>1, RequestFields, CallsAre
<1>3. config.client = "server"
  <2>1. call.op \notin FormationOps
    BY <1>2, FormationOpsAreRows, FormationUsers
  <2> QED  BY <1>1, <1>2, <2>1 DEF OpsOf, Clients
<1>4. request.base = config.url
  BY <1>1, <1>3, BaseUrlIs
<1>5. request.base \in {<<>>, <<"host">>}
  BY <1>1, <1>4 DEF Configs
<1>6. PICK k \in Int : k = Len(request.base) /\ k < 2
  <2>1. Len(<<>>) \in Int /\ Len(<<>>) < 2 /\ Len(<<"host">>) \in Int /\ Len(<<"host">>) < 2
    OBVIOUS
  <2> QED  BY <1>5, <2>1, Zenon
<1> QED  BY <1>6, SubSeqEmpty

\* The path that is signed is the path that is sent exactly when it holds no
\* fragment and no dot segment (SignedIsSent), for any argument.
THEOREM SignedPathIsSent == Spec => []SignedIsSent
<1>1. IInv => SignedIsSent
  <2> SUFFICES ASSUME IInv, Sent, request.is.key = "signed"
               PROVE  request.is.auth.signed = PathSent(request.base, request.is)
                        <=> /\ ~Contains(request.is.auth.signed, "#")
                            /\ DotSegments(request.is.auth.signed) = {}
    BY DEF SignedIsSent
  <2>1. /\ call \in CallsTo(config.client) /\ config.client \in Clients
        /\ request.is = RequestOf(call, config.app, request.digest)
    BY DEF IInv, AsAsked, Configs
  <2>2. call.op.key = "signed" /\ request.is.text = Text(call)
    BY <2>1, RequestFields
  <2>3. request.is.auth.signed = Before(Text(call), {"?"})
    <3>1. request.is.auth = AuthHeader(Text(call), request.digest)
      BY <2>1, <2>2, RequestFields
    <3> QED  BY <3>1, HeaderFields
  <2> DEFINE S == Characters
  <2>4. /\ call.op \in FormationOps \cup ServerOps /\ PlainPath(call.op.path)
        /\ call.id \in Seq(STRING) /\ call.user \in Seq(STRING)
    BY <2>1, CallIs
  <2>5. /\ PathWords \ Reserved \subseteq S /\ QueryWords \subseteq S /\ STRING \subseteq S
        /\ "/" \in S /\ "=" \in S /\ "?" \in S /\ "&" \in S
    BY DEF Characters, Reserved, QueryWords
  <2> HIDE DEF S
  <2>6. call.id \in Seq(S) /\ call.user \in Seq(S)
    BY <2>4, <2>5, SeqMonotonic
  <2>7. PathText(call) \in Seq(S) /\ QueryText(Query(call)) \in Seq(S)
    BY <2>1, <2>4, <2>5, <2>6, PathTextIn, QueryPairs
  <2>8. PICK text \in Seq(S) : text = Text(call)
    BY <2>7, ConcatProperties DEF Text
  <2> DEFINE signed == Before(text, {"?"})  sent == Before(text, {"#", "?"})
  <2>9. /\ signed \in Seq(S) /\ sent \in Seq(S)
        /\ Contains(signed, "#") => Len(sent) < Len(signed)
        /\ ~Contains(signed, "#") => sent = signed
    BY FragmentEnds
  <2> HIDE DEF signed, sent
  <2>10. PathSent(request.base, request.is) = Resolved(sent)
    <3>1. PathSent(request.base, request.is) = Resolved(<<>> \o sent)
      BY <2>2, <2>8, SignedBase DEF PathSent, sent
    <3> QED  BY <2>9, <3>1, ConcatEmptySeq
  <2>11. /\ DotSegments(sent) = {} => Resolved(sent) = sent
         /\ DotSegments(sent) # {} =>
              Len(Resolved(sent)) \in Nat /\ Len(Resolved(sent)) < Len(sent)
    BY <2>9, DotsGo
  <2>12. Len(sent) \in Nat /\ Len(signed) \in Nat
    BY <2>9
  <2>13. CASE Contains(signed, "#")
    <3>1. Len(Resolved(sent)) < Len(signed) /\ Len(Resolved(sent)) \in Nat
      BY <2>9, <2>11, <2>12, <2>13
    <3>2. Resolved(sent) # signed
      BY <2>12, <3>1
    <3> QED  BY <2>3, <2>8, <2>10, <2>13, <3>2 DEF signed
  <2>14. CASE ~Contains(signed, "#")
    <3>1. sent = signed
      BY <2>9, <2>14
    <3>2. Resolved(signed) = signed <=> DotSegments(signed) = {}
      BY <2>11, <2>12, <3>1
    <3> QED  BY <2>3, <2>8, <2>10, <2>14, <3>1, <3>2 DEF signed
  <2> QED  BY <2>13, <2>14
<1> QED  BY <1>1, Invariance, PTL

\* The signature decodes to the HMAC (SignatureDecodes), for any digest of any
\* length.
THEOREM SignatureGivesDigest == Spec => []SignatureDecodes
<1>1. IInv => SignatureDecodes
  <2> SUFFICES ASSUME IInv, Sent, request.is.key = "signed"
               PROVE  /\ Decoded(request.is.auth.signature) = request.digest
                      /\ Len(request.is.auth.signature) % 4 = 0
    BY DEF SignatureDecodes
  <2>1. request.is = RequestOf(call, config.app, request.digest)
    BY DEF IInv, AsAsked
  <2>2. call.op.key = "signed"
    BY <2>1, RequestFields
  <2>3. request.digest \in Seq(Byte)
    BY <2>2, ApiAssumption DEF IInv, AsAsked
  <2>4. request.is.auth.signature = Base64(request.digest)
    <3>1. request.is.auth = AuthHeader(Text(call), request.digest)
      BY <2>1, <2>2, RequestFields
    <3> QED  BY <3>1, HeaderFields
  <2> QED  BY <2>3, <2>4, DecodesBack
<1> QED  BY <1>1, Invariance, PTL

\* A signature is made of sextets.
LEMMA SignatureIn ==
  ASSUME NEW c, NEW app, NEW digest, c.op.key = "signed" => digest \in Seq(Byte)
  PROVE  RequestOf(c, app, digest).auth.signature \in Seq(0 .. Pad)
<1>1. CASE c.op.key = "signed"
  <2>1. RequestOf(c, app, digest).auth.signature = Base64(digest)
    BY <1>1, RequestFields, HeaderFields
  <2>2. Base64(digest) \in Seq(0 .. Pad)
    <3>1. PICK n \in Nat : n = Len(digest)
      BY <1>1
    <3>2. PICK m \in Nat, r \in {0, 1, 2} : m = (n + 2) \div 3 /\ n = 3 * m - r
      BY <3>1, GroupCount
    <3>3. IsBase64(digest, Base64(digest), m, r)
      BY <1>1, <3>1, <3>2, Base64Is
    <3> QED  BY <3>3 DEF IsBase64
  <2> QED  BY <2>1, <2>2
<1>2. CASE c.op.key # "signed"
  <2>1. RequestOf(c, app, digest).auth = NoAuthHeader
    BY <1>2, RequestFields
  <2>2. NoAuthHeader.signature = <<>> /\ <<>> \in Seq(0 .. Pad)
    BY DEF NoAuthHeader
  <2> QED  BY <2>1, <2>2
<1> QED  BY <1>1, <1>2

\* Every variable is what TypeOK says.
THEOREM TypeCorrect == Spec => []TypeOK
<1>1. Init => TypeOK
  BY DEF Init, TypeOK, None
<1>2. TypeOK /\ IInv /\ [Next]_vars => TypeOK'
  <2> SUFFICES ASSUME TypeOK, IInv, [Next]_vars  PROVE TypeOK'
    OBVIOUS
  <2>1. CASE Call
    <3>1. PICK c \in CallsTo(config.client) :
            \E digest \in IF c.op.key = "signed" THEN Digests ELSE {<<>>} :
              /\ call' = c
              /\ request' = IF MethodThrows(c) THEN [kind |-> "thrown"]
                            ELSE [kind |-> "sent", digest |-> digest, base |-> BaseUrl(config),
                                  is |-> RequestOf(c, config.app, digest)]
      BY <2>1 DEF Call
    <3>2. PICK digest \in IF c.op.key = "signed" THEN Digests ELSE {<<>>} :
              /\ call' = c
              /\ request' = IF MethodThrows(c) THEN [kind |-> "thrown"]
                            ELSE [kind |-> "sent", digest |-> digest, base |-> BaseUrl(config),
                                  is |-> RequestOf(c, config.app, digest)]
      BY <3>1
    <3>3. c.op.key = "signed" => digest \in Seq(Byte)
      BY <3>2, ApiAssumption
    <3>4. request'.kind \in {"thrown", "sent"}
          /\ (request'.kind = "sent" => request'.is.auth.signature \in Seq(0 .. Pad))
      <4>1. CASE MethodThrows(c)
        BY <3>2, <4>1
      <4>2. CASE ~MethodThrows(c)
        <5>1. request'.kind = "sent" /\ request'.is = RequestOf(c, config.app, digest)
          BY <3>2, <4>2
        <5> QED  BY <3>3, <5>1, SignatureIn
      <4> QED  BY <4>1, <4>2
    <3>5. config' = config /\ reply' = None /\ result' = None
      BY <2>1 DEF Call
    <3> QED  BY <3>1, <3>2, <3>4, <3>5 DEF TypeOK, None
  <2>2. CASE NoHost
    BY <2>2 DEF NoHost, Over, TypeOK, None
  <2>3. CASE Respond
    BY <2>3 DEF Respond, Over, TypeOK, None
  <2>4. CASE UiFrame
    BY <2>4 DEF UiFrame, TypeOK
  <2>5. CASE ErrorFrame
    BY <2>5 DEF ErrorFrame, Over, TypeOK, None
  <2>6. CASE StreamEnds
    BY <2>6 DEF StreamEnds, Over, TypeOK, None
  <2>7. CASE UNCHANGED vars
    BY <2>7 DEF vars, TypeOK
  <2> QED  BY <2>1, <2>2, <2>3, <2>4, <2>5, <2>6, <2>7 DEF Next
<1> QED  BY <1>1, <1>2, Invariance, PTL DEF Spec

-----------------------------------------------------------------------------
(* Who is named.                                                           *)
\* A call whose arguments hold nothing reserved.
LEMMA PlainCall ==
  ASSUME NEW client \in Clients, NEW c \in CallsTo(client), Plain(c.id), Plain(c.user),
         NEW S, Characters \ Reserved \subseteq S
  PROVE  c.id \in Seq(S) /\ c.user \in Seq(S)
<1>1. c.id \in Seq(STRING) /\ c.user \in Seq(STRING)
  BY CallIs
<1>2. c.id \in Seq(Characters \ Reserved) /\ c.user \in Seq(Characters \ Reserved)
  BY <1>1, PlainText
<1> QED  BY <1>2, SeqMonotonic

\* Its text: a path without a '?', and then the query.
LEMMA PlainCallText ==
  ASSUME NEW client \in Clients, NEW c \in CallsTo(client), Plain(c.id), Plain(c.user)
  PROVE  /\ PathText(c) \in Seq(Characters) /\ QueryText(Query(c)) \in Seq(Characters)
         /\ \A i \in 1 .. Len(PathText(c)) : PathText(c)[i] \notin {"#", "?", ".", ".."}
         /\ IsQuery(Characters, QueryText(Query(c)))
         /\ Before(Text(c), {"#"}) = Text(c)
<1> DEFINE S == Characters \ {"#"}  T == Characters \ {"#", "?", ".", ".."}
<1>1. c.op \in FormationOps \cup ServerOps /\ PlainPath(c.op.path)
  BY CallIs
<1>2. /\ PathWords \ Reserved \subseteq T /\ Characters \ Reserved \subseteq T /\ "/" \in T
      /\ Characters \ Reserved \subseteq S /\ QueryWords \subseteq S
      /\ "=" \in S /\ "?" \in S /\ "&" \in S /\ "#" \notin S
      /\ "#" \notin T /\ "?" \notin T /\ "." \notin T /\ ".." \notin T
      /\ T \subseteq S /\ S \subseteq Characters
  BY DEF Characters, Reserved, QueryWords
<1> HIDE DEF S, T
<1>3. c.id \in Seq(T) /\ c.user \in Seq(S)
  <2>1. c.id \in Seq(T)
    BY <1>2, PlainCall
  <2>2. c.user \in Seq(S)
    BY <1>2, PlainCall
  <2> QED  BY <2>1, <2>2
<1>4. PathText(c) \in Seq(T)
  BY <1>1, <1>2, <1>3, PathTextIn
<1>5. QueryText(Query(c)) \in Seq(S) /\ IsQuery(S, QueryText(Query(c)))
  BY <1>2, <1>3, QueryPairs
<1>6. PathText(c) \in Seq(S)
  BY <1>2, <1>4, SeqMonotonic
<1>7. Text(c) \in Seq(S)
  BY <1>5, <1>6, ConcatProperties DEF Text
<1>8. Before(Text(c), {"#"}) = Text(c)
  BY <1>2, <1>7, NoFragment
<1>9. PathText(c) \in Seq(Characters) /\ QueryText(Query(c)) \in Seq(Characters)
  BY <1>2, <1>5, <1>6, SeqMonotonic
<1>10. \A i \in 1 .. Len(PathText(c)) : PathText(c)[i] \notin {"#", "?", ".", ".."}
  BY <1>2, <1>4, ElementOfSeq
<1>11. IsQuery(Characters, QueryText(Query(c)))
  BY <1>2, <1>5, SeqMonotonic DEF IsQuery
<1> QED  BY <1>8, <1>9, <1>10, <1>11

\* The character is not in the text.
Without(text, character) == \A i \in 1 .. Len(text) : text[i] # character

\* After finds what stands behind such a text.
LEMMA AfterWithout ==
  ASSUME NEW S, NEW x \in Seq(S), NEW y \in Seq(S), NEW character \in S, Without(x, character)
  PROVE  After(x \o (<<character>> \o y), character) = y
<1>1. \A i \in 1 .. Len(x) : x[i] # character
  BY DEF Without
<1> QED  BY <1>1, AfterConcat

\* A query with a user in it, as the server takes it apart.
LEMMA UserFound ==
  ASSUME NEW S, "user_id" \in S, "=" \in S, NEW user \in Seq(S), NEW tail \in Seq(S),
         \A i \in 1 .. Len(user) : user[i] \notin {"&", "+"}, tail # <<>> => tail[1] = "&"
  PROVE  UserInQuery((<<"user_id", "=">> \o user) \o tail) = user
<1> DEFINE rest == user \o tail
<1>1. rest \in Seq(S)
  BY ConcatProperties
<1>2. (<<"user_id", "=">> \o user) \o tail = <<"user_id">> \o (<<"=">> \o rest)
  <2>1. PICK a \in Seq(S), b \in Seq(S) : a = <<"user_id">> /\ b = <<"=">>
    <3>1. <<"user_id">> \in Seq(S) /\ <<"=">> \in Seq(S)
      OBVIOUS
    <3> QED  BY <3>1
  <2>2. <<"user_id", "=">> = a \o b
    BY <2>1, OneAndOne
  <2>3. PICK ab \in Seq(S) : ab = a \o b
    BY <2>1, ConcatProperties
  <2>6. (ab \o user) \o tail = ab \o rest
    <3>1. ab \in Seq(S) /\ user \in Seq(S) /\ tail \in Seq(S)
      BY <2>3
    <3> QED  BY ONLY <3>1, ConcatAssociative
  <2>4. ((a \o b) \o user) \o tail = (a \o b) \o rest
    BY <2>3, <2>6
  <2>5. (a \o b) \o rest = a \o (b \o rest)
    BY <1>1, <2>1, ConcatAssociative
  <2> QED  BY <2>1, <2>2, <2>4, <2>5
<1> HIDE DEF rest
<1>3. After(<<"user_id">> \o (<<"=">> \o rest), "=") = rest
  <2>1. PICK a \in Seq(S) : a = <<"user_id">>
    <3>1. <<"user_id">> \in Seq(S)
      OBVIOUS
    <3> QED  BY <3>1
  <2>2. Without(a, "=")
    BY <2>1 DEF Without
  <2>3. After(a \o (<<"=">> \o rest), "=") = rest
    BY <1>1, <2>1, <2>2, AfterWithout
  <2> QED  BY <2>1, <2>3
<1>4. Before(rest, {"&"}) = user
  <2>1. \A i \in 1 .. Len(user) : user[i] \notin {"&"}
    OBVIOUS
  <2>2. tail # <<>> => tail[1] \in {"&"}
    OBVIOUS
  <2> QED  BY <2>1, <2>2, BeforeConcat DEF rest
<1>5. Before(After((<<"user_id", "=">> \o user) \o tail, "="), {"&"}) = user
  BY <1>2, <1>3, <1>4
<1>6. user = [i \in DOMAIN user |-> IF user[i] = "+" THEN " " ELSE user[i]]
  <2>1. user = [i \in DOMAIN user |-> user[i]] /\ DOMAIN user = 1 .. Len(user)
    OBVIOUS
  <2>2. \A i \in DOMAIN user : (IF user[i] = "+" THEN " " ELSE user[i]) = user[i]
    BY <2>1
  <2> QED  BY <2>1, <2>2, Zenon
<1> QED  BY <1>5, <1>6 DEF UserInQuery

\* Such a query is the one that is sent.
LEMMA UserSent ==
  ASSUME NEW client \in Clients, NEW c \in CallsTo(client), Plain(c.id), Plain(c.user),
         "query" \in c.op.user, NEW r, r.text = Text(c)
  PROVE  UserInQuery(QuerySent(r)) = c.user
<1> DEFINE S == Characters
<1>1. /\ QueryWords \subseteq S /\ Characters \ Reserved \subseteq S
      /\ "user_id" \in S /\ "=" \in S /\ "?" \in S /\ "&" \in S
  BY DEF Characters, Reserved, QueryWords
<1>2. /\ PathText(c) \in Seq(S) /\ \A i \in 1 .. Len(PathText(c)) : PathText(c)[i] # "?"
      /\ Before(Text(c), {"#"}) = Text(c)
  BY PlainCallText
<1> HIDE DEF S
<1>3. c.user \in Seq(S)
  BY <1>1, PlainCall
<1>4. UserQuery(c) \in Seq(S) /\ (Limits(c) => Limit(c) \in Seq(S))
  BY <1>1, <1>3, UserQueryIn, LimitIs
<1>5. PICK tail \in Seq(S) : /\ QueryText(Query(c)) = <<"?">> \o (UserQuery(c) \o tail)
                             /\ tail # <<>> => tail[1] = "&"
  <2>1. c.op.name \notin Asides
    BY CallIs
  <2>2. CASE ~Limits(c)
    <3>1. Query(c) = <<UserQuery(c)>>
      BY <2>1, <2>2, PlainQuery
    <3>2. QueryText(<<UserQuery(c)>>) = <<"?">> \o UserQuery(c)
      BY <1>1, <1>4, QueryTexts
    <3>3. UserQuery(c) \o <<>> = UserQuery(c) /\ <<>> \in Seq(S)
      BY <1>4, ConcatEmptySeq
    <3> QED  BY <3>1, <3>2, <3>3
  <2>3. CASE Limits(c)
    <3>1. Query(c) = <<UserQuery(c), Limit(c)>>
      BY <2>1, <2>3, PlainQuery
    <3>2. PICK p \in Seq(S), q \in Seq(S) : p = UserQuery(c) /\ q = Limit(c)
      BY <1>4, <2>3
    <3>3. QueryText(<<p, q>>) = (<<"?">> \o p) \o (<<"&">> \o q)
      BY <1>1, <3>2, QueryTexts
    <3>4. PICK a \in Seq(S), b \in Seq(S) : a = <<"?">> /\ b = <<"&">>
      <4>1. <<"?">> \in Seq(S) /\ <<"&">> \in Seq(S)
        BY <1>1
      <4> QED  BY <4>1
    <3>5. PICK t \in Seq(S) : t = b \o q
      BY <3>2, <3>4, ConcatProperties
    <3>6. (a \o p) \o t = a \o (p \o t)
      BY <3>2, <3>4, <3>5, ConcatAssociative
    <3>7. t[1] = "&"
      <4>1. Len(b) = 1 /\ b[1] = "&" /\ Len(q) \in Nat
        BY <3>2, <3>4
      <4>2. 1 \in 1 .. Len(b) + Len(q)
        BY <4>1
      <4> QED  BY <3>2, <3>4, <3>5, <4>1, <4>2, ConcatProperties
    <3> QED  BY <3>1, <3>2, <3>3, <3>4, <3>5, <3>6, <3>7
  <2> QED  BY <2>2, <2>3
<1>6. PICK rest \in Seq(S) : rest = UserQuery(c) \o tail
  BY <1>4, <1>5, ConcatProperties
<1>7. After(PathText(c) \o (<<"?">> \o rest), "?") = rest
  <2>1. Without(PathText(c), "?")
    BY <1>2 DEF Without
  <2> QED  BY <1>1, <1>2, <1>6, <2>1, AfterWithout
<1>8. QuerySent(r) = rest
  BY <1>2, <1>5, <1>6, <1>7 DEF QuerySent, Text
<1>9. UserInQuery((<<"user_id", "=">> \o c.user) \o tail) = c.user
  <2>1. \A i \in 1 .. Len(c.user) : c.user[i] \notin {"&", "+"}
    BY <1>3 DEF Plain, Reserved
  <2> QED  BY <1>1, <1>3, <1>5, <2>1, UserFound
<1> QED  BY <1>6, <1>8, <1>9 DEF UserQuery

\* A request names one user (OneUser), for any plain arguments.
THEOREM OneUserIsNamed == Spec => []OneUser
<1>1. IInv => OneUser
  <2> SUFFICES ASSUME IInv, Sent, Plain(call.user), Plain(call.id)
               PROVE  {request.is.user, request.is.body.user,
                       IF "query" \in call.op.user THEN UserInQuery(QuerySent(request.is)) ELSE <<>>}
                      \ {<<>>} = IF call.op.user = {} THEN {} ELSE {call.user} \ {<<>>}
    BY DEF OneUser
  <2>1. /\ call \in CallsTo(config.client) /\ config.client \in Clients
        /\ request.is = RequestOf(call, config.app, request.digest)
    BY DEF IInv, AsAsked, Configs
  <2>2. /\ request.is.text = Text(call)
        /\ request.is.user = IF "header" \in call.op.user THEN call.user ELSE <<>>
        /\ request.is.body.user = IF "body" \in call.op.user THEN call.user ELSE <<>>
    BY <2>1, RequestFields
  <2>3. PICK inQuery : inQuery = UserInQuery(QuerySent(request.is))
    OBVIOUS
  <2>4. "query" \in call.op.user => inQuery = call.user
    BY <2>1, <2>2, <2>3, UserSent
  <2>5. call.op.user \subseteq {"query", "header", "body"}
    BY <2>1, CallIs
  <2> QED  BY <2>2, <2>3, <2>4, <2>5
<1> QED  BY <1>1, Invariance, PTL

-----------------------------------------------------------------------------
(* What tells two requests from each other.                                *)
\* What follows the same is the same.
LEMMA SameTail ==
  ASSUME NEW S, NEW x \in Seq(S), NEW y \in Seq(S), NEW z \in Seq(S), x \o y = x \o z
  PROVE  y = z
<1>1. PICK t : t = x \o y /\ t = x \o z
  OBVIOUS
<1>2. PICK n \in Nat, m \in Nat, k \in Nat : n = Len(x) /\ m = Len(y) /\ k = Len(z)
  OBVIOUS
<1>3. Len(t) = n + m /\ \A i \in 1 .. m : t[n + i] = y[i]
  BY <1>1, <1>2, ConcatJoins DEF Joins
<1>4. Len(t) = n + k /\ \A i \in 1 .. k : t[n + i] = z[i]
  BY <1>1, <1>2, ConcatJoins DEF Joins
<1>5. m = k
  BY <1>3, <1>4
<1> QED  BY <1>2, <1>3, <1>4, <1>5, SeqEqual

\* The words of a base URL.
BaseWords == {"host", "/", "draft", "api", "formation", "v1"}

LEMMA BaseIn ==
  ASSUME NEW c \in Configs
  PROVE  BaseUrl(c) \in Seq(BaseWords)
<1>1. c.url \in {<<>>, <<"host">>}
  BY DEF Configs
<1>2. <<>> \in Seq(BaseWords) /\ <<"host">> \in Seq(BaseWords)
  BY DEF BaseWords
<1>3. ASSUME NEW prefix \in {"draft", "api"}  PROVE Proxied(prefix) \in Seq(BaseWords)
  <2>1. /\ <<"host">> \in Seq(BaseWords) /\ <<"/", prefix, "/">> \in Seq(BaseWords)
        /\ <<"formation">> \in Seq(BaseWords) /\ <<"/", "v1">> \in Seq(BaseWords)
    BY DEF BaseWords
  <2>2. <<"host">> \o <<"/", prefix, "/">> \in Seq(BaseWords)
    BY <2>1, ConcatProperties
  <2>3. <<"host">> \o <<"/", prefix, "/">> \o <<"formation">> \in Seq(BaseWords)
    BY <2>1, <2>2, ConcatProperties
  <2> QED  BY <2>1, <2>3, ConcatProperties DEF Proxied
<1> QED  BY <1>1, <1>2, <1>3, BaseUrlIs

\* What comes behind the host.
LEMMA BasePath ==
  ASSUME NEW base \in Seq(BaseWords)
  PROVE  SubSeq(base, 2, Len(base)) \in Seq(BaseWords)
<1>1. PICK a \in Int, b \in Int : a = 2 /\ b = Len(base)
  OBVIOUS
<1>2. \A i \in a .. b : base[i] \in BaseWords
  <2>1. \A i \in a .. b : i \in 1 .. Len(base)
    BY <1>1
  <2> QED  BY <2>1, ElementOfSeq
<1>3. SubSeq(base, a, b) \in Seq(BaseWords)
  BY <1>2, SubSeqProperties
<1> QED  BY <1>1, <1>3

\* A path without such words has no dot segments.
LEMMA NoDots ==
  ASSUME NEW S, NEW path \in Seq(S), "." \notin S, ".." \notin S
  PROVE  Resolved(path) = path
<1>1. DOMAIN path = 1 .. Len(path) /\ Len(path) \in Nat
  OBVIOUS
<1>2. ASSUME NEW i \in DotSegments(path)  PROVE FALSE
  <2>1. i \in 1 .. Len(path) /\ i < Len(path) /\ path[i + 1] \in {".", ".."}
    BY <1>1, <1>2 DEF DotSegments, Slashes
  <2>2. i + 1 \in 1 .. Len(path)
    BY <1>1, <2>1
  <2>3. path[i + 1] \in S
    BY <2>2, ElementOfSeq
  <2> QED  BY <2>1, <2>3
<1>3. DotSegments(path) = {}
  BY <1>2
<1> QED  BY <1>3, DotsGo

\* Nothing stands after what is not there.
LEMMA AfterNone ==
  ASSUME NEW x, NEW character, Without(x, character)
  PROVE  After(x, character) = <<>>
<1>1. {i \in 1 .. Len(x) : x[i] = character} = {}
  BY DEF Without
<1>2. SelectInSeq(x, LAMBDA c : c = character) = 0
  BY <1>1 DEF SelectInSeq
<1> QED  BY <1>2 DEF After

\* What the server sees of the text of a plain call.
LEMMA PlainOnWire ==
  ASSUME NEW client \in Clients, NEW c \in CallsTo(client), Plain(c.id), Plain(c.user),
         NEW base \in Seq(BaseWords), NEW r, r.text = Text(c)
  PROVE  LET before == SubSeq(base, 2, Len(base))
             behind == Characters \cup BaseWords
         IN  /\ PathSent(base, r) = before \o PathText(c)
             /\ before \in Seq(behind) /\ PathText(c) \in Seq(behind)
             /\ \/ QueryText(Query(c)) = <<>> /\ QuerySent(r) = <<>>
                \/ QuerySent(r) # <<>> /\ QueryText(Query(c)) = <<"?">> \o QuerySent(r)
<1> DEFINE before == SubSeq(base, 2, Len(base))
           all == Characters \cup BaseWords
           S == all \ {".", ".."}
<1>1. PICK x, y : x = PathText(c) /\ y = QueryText(Query(c))
  OBVIOUS
<1>2. /\ x \in Seq(Characters) /\ y \in Seq(Characters) /\ IsQuery(Characters, y)
      /\ \A i \in 1 .. Len(x) : x[i] \notin {"#", "?", ".", ".."}
      /\ Text(c) = x \o y /\ Before(Text(c), {"#"}) = Text(c)
  BY <1>1, PlainCallText DEF Text
<1>3. y = <<>> \/ \E z \in Seq(Characters) : z # <<>> /\ y = <<"?">> \o z
  BY <1>2 DEF IsQuery
<1>4. Before(Text(c), {"#", "?"}) = x
  <2>1. y # <<>> => y[1] = "?"
    <3>1. ASSUME NEW z \in Seq(Characters), y = <<"?">> \o z  PROVE y[1] = "?"
      BY <3>1
    <3> QED  BY <1>3, <3>1
  <2> HIDE DEF S
  <2> QED  BY <1>2, <2>1, BeforeConcat
<1>5. before \in Seq(BaseWords)
  BY BasePath
<1>6. x \in Seq(S)
  <2>1. Len(x) \in Nat /\ \A i \in 1 .. Len(x) : x[i] \in S
    BY <1>2, ElementOfSeq
  <2>2. x = [i \in 1 .. Len(x) |-> x[i]]
    BY <1>2
  <2> HIDE DEF S
  <2> QED  BY <2>1, <2>2
<1>7. BaseWords \subseteq S /\ "." \notin S /\ ".." \notin S /\ Characters \subseteq all
      /\ BaseWords \subseteq all /\ "?" \in Characters
  BY DEF BaseWords, Characters, Reserved
<1> HIDE DEF S, all, before
<1>8. Resolved(before \o x) = before \o x
  <2>1. before \in Seq(S)
    BY <1>5, <1>7, SeqMonotonic
  <2>2. before \o x \in Seq(S)
    BY <1>6, <2>1, ConcatProperties
  <2> QED  BY <1>7, <2>2, NoDots
<1>9. PathSent(base, r) = before \o x
  BY <1>4, <1>8 DEF PathSent, before
<1>10. before \in Seq(all) /\ x \in Seq(all)
  BY <1>2, <1>5, <1>7, SeqMonotonic
<1>11. QuerySent(r) = After(x \o y, "?")
  BY <1>2 DEF QuerySent
<1>12. Without(x, "?")
  BY <1>2 DEF Without
<1>13. CASE y = <<>>
  <2>1. x \o y = x
    BY <1>2, <1>13, ConcatEmptySeq
  <2>2. QuerySent(r) = <<>>
    BY <1>11, <1>12, <2>1, AfterNone
  <2> QED  BY <1>1, <1>9, <1>10, <1>13, <2>2 DEF before, all
<1>14. ASSUME NEW z \in Seq(Characters), z # <<>>, y = <<"?">> \o z
       PROVE  QuerySent(r) = z
  BY <1>2, <1>7, <1>11, <1>12, <1>14, AfterWithout
<1> QED  BY <1>1, <1>3, <1>9, <1>10, <1>13, <1>14 DEF before, all

\* What looks the same to the server is the same path and the same query.
LEMMA SameText ==
  ASSUME NEW client \in Clients, NEW c \in CallsTo(client), NEW d \in CallsTo(client),
         Plain(c.id), Plain(c.user), Plain(d.id), Plain(d.user),
         NEW base \in Seq(BaseWords), NEW r, NEW q, r.text = Text(c), q.text = Text(d),
         PathSent(base, r) = PathSent(base, q), QuerySent(r) = QuerySent(q)
  PROVE  PathText(c) = PathText(d) /\ QueryText(Query(c)) = QueryText(Query(d))
<1>1. PICK S, before : S = Characters \cup BaseWords /\ before = SubSeq(base, 2, Len(base))
  OBVIOUS
<1>2. /\ PathSent(base, r) = before \o PathText(c)
      /\ before \in Seq(S) /\ PathText(c) \in Seq(S)
      /\ \/ QueryText(Query(c)) = <<>> /\ QuerySent(r) = <<>>
         \/ QuerySent(r) # <<>> /\ QueryText(Query(c)) = <<"?">> \o QuerySent(r)
  BY <1>1, PlainOnWire
<1>3. /\ PathSent(base, q) = before \o PathText(d)
      /\ PathText(d) \in Seq(S)
      /\ \/ QueryText(Query(d)) = <<>> /\ QuerySent(q) = <<>>
         \/ QuerySent(q) # <<>> /\ QueryText(Query(d)) = <<"?">> \o QuerySent(q)
  BY <1>1, PlainOnWire
<1>4. PathText(c) = PathText(d)
  BY <1>2, <1>3, SameTail
<1> QED  BY <1>2, <1>3, <1>4

\* The same path has the same segments.
LEMMA SamePath ==
  ASSUME NEW client \in Clients, NEW c \in CallsTo(client), NEW d \in CallsTo(client),
         Plain(c.id), Plain(c.user), Plain(d.id), Plain(d.user), PathText(c) = PathText(d)
  PROVE  /\ Fits(c.op.path, d.op.path)
         /\ \A i \in 1 .. Len(c.op.path) : Segment(c, i) = Segment(d, i)
<1> DEFINE S == Characters
<1>1. PathWords \ Reserved \subseteq S /\ "/" \in S /\ Characters \ Reserved \subseteq S \ {"/"}
  BY DEF Characters, Reserved
<1>2. ASSUME NEW e \in CallsTo(client), Plain(e.id), Plain(e.user)
      PROVE  /\ Slashed(S, Pieces(e)) /\ PathText(e) = FlattenSeq(Pieces(e))
             /\ Len(e.op.path) \in Nat /\ Len(Pieces(e)) = Len(e.op.path)
             /\ \A i \in 1 .. Len(e.op.path) :
                  Pieces(e)[i] = <<"/">> \o Segment(e, i) /\ Segment(e, i) \in Seq(S)
  <2>1. e.op \in FormationOps \cup ServerOps /\ PlainPath(e.op.path)
    BY <1>2, CallIs
  <2> HIDE DEF S
  <2>2. e.id \in Seq(S \ {"/"})
    BY <1>1, <1>2, PlainCall
  <2>3. Slashed(S, Pieces(e))
    BY <1>1, <2>1, <2>2, PathSlashed
  <2>4. e.id \in Seq(S)
    <3>1. S \ {"/"} \subseteq S
      OBVIOUS
    <3> QED  BY <2>2, <3>1, SeqMonotonic
  <2>5. \A i \in 1 .. Len(e.op.path) : Segment(e, i) \in Seq(S)
    BY <1>1, <2>1, <2>4, SegmentIn
  <2> QED  BY <2>1, <2>3, <2>5, PathIs
<1> HIDE DEF S
<1>3. Pieces(c) = Pieces(d)
  BY <1>1, <1>2, SlashedUnique
<1>4. Len(c.op.path) = Len(d.op.path)
  BY <1>2, <1>3
<1>5. ASSUME NEW i \in 1 .. Len(c.op.path)  PROVE Segment(c, i) = Segment(d, i)
  <2>1. <<"/">> \o Segment(c, i) = <<"/">> \o Segment(d, i)
    BY <1>2, <1>3, <1>4
  <2>2. Segment(c, i) \in Seq(S) /\ Segment(d, i) \in Seq(S)
    BY <1>2, <1>4
  <2>3. PICK a \in Seq(S) : a = <<"/">>
    <3>1. <<"/">> \in Seq(S)
      BY <1>1
    <3> QED  BY <3>1
  <2> QED  BY <2>1, <2>2, <2>3, SameTail
<1>6. \A i \in 1 .. Len(c.op.path) :
        c.op.path[i] = d.op.path[i] \/ c.op.path[i] = "*" \/ d.op.path[i] = "*"
  <2>1. ASSUME NEW i \in 1 .. Len(c.op.path), c.op.path[i] # "*", d.op.path[i] # "*"
        PROVE  c.op.path[i] = d.op.path[i]
    <3>1. <<c.op.path[i]>> = <<d.op.path[i]>>
      BY <1>5, <2>1 DEF Segment
    <3> QED  BY <3>1
  <2> QED  BY <2>1
<1> QED  BY <1>4, <1>5, <1>6 DEF Fits

\* A stream says so in its headers.
LEMMA StreamsSaySo ==
  ASSUME NEW c, NEW app
  PROVE  "Accept: text/event-stream" \in Headers(c, app) <=> IsStream(c.op)
BY DEF Headers

\* The methods of the two clients use different keys.
LEMMA FormationMethods ==
  ASSUME NEW op \in FormationOps
  PROVE  /\ IsStream(op) => FormationStreamsRows(op)
         /\ ~IsStream(op) => FormationCalls(op)
<1>1. op \notin ServerStreams
  <2>1. op \in ServerStreams => op.key \in {"none", "signed"}
    BY ServerOpsAreRows, ServerUsers DEF ServerOps
  <2>2. op.key \in {"admin", "client"}
    BY FormationOpsAreRows, FormationUsers
  <2> QED  BY <2>1, <2>2
<1> QED  BY <1>1, FormationOpsAreRows, FormationStreamsAreRows DEF IsStream

\* The same for ServerClient.
LEMMA ServerMethods ==
  ASSUME NEW op \in ServerOps
  PROVE  /\ IsStream(op) => ServerStreamsRows(op)
         /\ ~IsStream(op) => ServerCalls(op)
<1>1. op \notin FormationStreams
  <2>1. op \in FormationStreams => op.key \in {"admin", "client"}
    BY FormationOpsAreRows, FormationUsers DEF FormationOps
  <2>2. op.key \in {"none", "signed"}
    BY ServerOpsAreRows, ServerUsers
  <2> QED  BY <2>1, <2>2
<1> QED  BY <1>1, ServerOpsAreRows, ServerStreamsAreRows DEF IsStream

\* The same request is one of the same method.
LEMMA SameMethod ==
  ASSUME NEW client \in Clients, NEW o \in OpsOf(client), NEW q \in OpsOf(client),
         Fits(o.path, q.path), o.method = q.method, o.key = q.key, IsStream(o) <=> IsStream(q)
  PROVE  o = q
<1>1. CASE client = "formation"
  <2>1. o \in FormationOps /\ q \in FormationOps
    BY <1>1 DEF OpsOf
  <2>2. CASE IsStream(o)
    <3>1. FormationStreamsRows(o) /\ FormationStreamsRows(q)
      BY <2>1, <2>2, FormationMethods
    <3> QED  BY <3>1, FormationStreamsDiffer
  <2>3. CASE ~IsStream(o)
    <3>1. FormationCalls(o) /\ FormationCalls(q)
      BY <2>1, <2>3, FormationMethods
    <3> QED  BY <3>1, FormationCallsDiffer
  <2> QED  BY <2>2, <2>3
<1>2. CASE client = "server"
  <2>1. o \in ServerOps /\ q \in ServerOps
    BY <1>2 DEF OpsOf
  <2>2. CASE IsStream(o)
    <3>1. ServerStreamsRows(o) /\ ServerStreamsRows(q)
      BY <2>1, <2>2, ServerMethods
    <3> QED  BY <3>1, ServerStreamsDiffer
  <2>3. CASE ~IsStream(o)
    <3>1. ServerCalls(o) /\ ServerCalls(q)
      BY <2>1, <2>3, ServerMethods
    <3> QED  BY <3>1, ServerCallsDiffer
  <2> QED  BY <2>2, <2>3
<1> QED  BY <1>1, <1>2 DEF Clients

\* A query tells whether the option is set.
LEMMA LimitShows ==
  ASSUME NEW client \in Clients, NEW c \in CallsTo(client), NEW d \in CallsTo(client),
         Plain(c.id), Plain(c.user), c.op = d.op, c.user = d.user, Limits(c), ~Limits(d)
  PROVE  QueryText(Query(c)) # QueryText(Query(d))
<1> DEFINE S == Characters
<1>1. /\ QueryWords \subseteq S /\ Characters \ Reserved \subseteq S
      /\ "user_id" \in S /\ "=" \in S /\ "?" \in S /\ "&" \in S
  BY DEF Characters, Reserved, QueryWords
<1> HIDE DEF S
<1>2. c.user \in Seq(S)
  BY <1>1, PlainCall
<1>3. UserQuery(c) \in Seq(S) /\ Limit(c) \in Seq(S) /\ UserQuery(d) = UserQuery(c)
  BY <1>1, <1>2, UserQueryIn, LimitIs DEF UserQuery
<1>4. PICK p \in Seq(S), q \in Seq(S) : p = UserQuery(c) /\ q = Limit(c)
  BY <1>3
<1>5. c.op.name \notin Asides
  BY OptionNames DEF Limits, Asides
<1>6. PICK a \in Seq(S), b \in Seq(S) : a = <<"?">> \o p /\ b = <<"&">> \o q
  <2>1. <<"?">> \in Seq(S) /\ <<"&">> \in Seq(S)
    BY <1>1
  <2> QED  BY <1>4, <2>1, ConcatProperties
<1>7. CASE "query" \in c.op.user
  <2>1. QueryText(Query(c)) = a \o b
    <3>1. Query(c) = <<p, q>>
      BY <1>4, <1>5, <1>7, PlainQuery
    <3>2. QueryText(<<p, q>>) = (<<"?">> \o p) \o (<<"&">> \o q)
      BY <1>1, <1>4, QueryTexts
    <3> QED  BY <1>6, <3>1, <3>2
  <2>2. QueryText(Query(d)) = a
    BY <1>1, <1>3, <1>4, <1>5, <1>6, <1>7, PlainQuery, QueryTexts
  <2>3. b # <<>>
    <3>1. <<"&">> \in Seq(S) /\ Len(<<"&">>) = 1
      BY <1>1
    <3>2. Len(b) = 1 + Len(q)
      BY <1>4, <1>6, <3>1, ConcatProperties
    <3>3. Len(q) \in Nat
      BY <1>4
    <3>4. Len(b) # 0
      BY <3>2, <3>3
    <3> QED  BY <3>4, EmptySeq
  <2>4. a \o b # a
    BY <1>6, <2>3, ConcatEqualIffEmpty
  <2> QED  BY <2>1, <2>2, <2>4
<1>8. CASE "query" \notin c.op.user
  <2>1. QueryText(Query(c)) = <<"?">> \o q
    BY <1>1, <1>4, <1>5, <1>8, PlainQuery, QueryTexts
  <2>2. QueryText(Query(d)) = <<>>
    BY <1>1, <1>4, <1>5, <1>8, PlainQuery, QueryTexts
  <2>3. Len(<<"?">> \o q) = 1 + Len(q)
    <3>1. <<"?">> \in Seq(S) /\ Len(<<"?">>) = 1
      BY <1>1
    <3> QED  BY <1>4, <3>1, ConcatProperties
  <2>4. Len(<<"?">> \o q) # 0
    <3>1. Len(q) \in Nat
      BY <1>4
    <3> QED  BY <2>3, <3>1
  <2> QED  BY <2>1, <2>2, <2>4, EmptySeq
<1> QED  BY <1>7, <1>8

\* So does that of fire_trigger.
LEMMA AsyncShows ==
  ASSUME NEW client \in Clients, NEW c \in CallsTo(client), NEW d \in CallsTo(client),
         c.op = d.op, c.op.name = "fire_trigger", c.option, ~d.option
  PROVE  QueryText(Query(c)) # QueryText(Query(d))
<1> DEFINE S == {"async", "=", "true", "false", "?", "&"}
           p == <<"async", "=", "true">>  q == <<"async", "=", "false">>
<1>1. p \in Seq(S) /\ q \in Seq(S) /\ p # q /\ "?" \in S /\ "&" \in S
  OBVIOUS
<1>2. c.op.name \in Asides /\ "query" \notin c.op.user
  BY CallIs DEF Asides
<1>3. Query(c) = <<p>> /\ Query(d) = <<q>>
  BY <1>2, AsideQuery
<1> HIDE DEF S, p, q
<1>4. QueryText(Query(c)) = <<"?">> \o p /\ QueryText(Query(d)) = <<"?">> \o q
  BY <1>1, <1>3, QueryTexts
<1>5. PICK a \in Seq(S) : a = <<"?">>
  <2>1. <<"?">> \in Seq(S)
    BY <1>1
  <2> QED  BY <2>1
<1> QED  BY <1>1, <1>4, <1>5, SameTail

\* A call is its method and its arguments.
LEMMA SameCall ==
  ASSUME NEW client, NEW c \in CallsTo(client), NEW d \in CallsTo(client),
         c.op = d.op, c.id = d.id, c.user = d.user, c.option = d.option
  PROVE  [d EXCEPT !.payload = c.payload] = c
<1>1. ASSUME NEW e \in CallsTo(client)
      PROVE  e = [op |-> e.op, id |-> e.id, user |-> e.user, option |-> e.option, payload |-> e.payload]
  <2>1. PICK op \in OpsOf(client) : e \in CallsOf(op)
    BY DEF CallsTo
  <2> QED  BY <2>1 DEF CallsOf
<1>2. c = [op |-> c.op, id |-> c.id, user |-> c.user, option |-> c.option, payload |-> c.payload]
  BY <1>1
<1>3. d = [op |-> c.op, id |-> c.id, user |-> c.user, option |-> c.option, payload |-> d.payload]
  BY <1>1
<1> QED  BY <1>2, <1>3

\* What tells the arguments of two calls of one method from each other.
LEMMA SameArguments ==
  ASSUME NEW client \in Clients, NEW c \in CallsTo(client), NEW d \in CallsTo(client),
         Plain(c.id), Plain(c.user), Plain(d.id), Plain(d.user), c.op = d.op,
         PathText(c) = PathText(d), QueryText(Query(c)) = QueryText(Query(d)),
         "header" \in c.op.user \/ "body" \in c.op.user => c.user = d.user
  PROVE  c.id = d.id /\ c.user = d.user /\ c.option = d.option
<1>1. PathText(c) = PathText(d) /\ QueryText(Query(c)) = QueryText(Query(d))
  OBVIOUS
<1>2. c.id = d.id
  <2>1. \A i \in 1 .. Len(c.op.path) : Segment(c, i) = Segment(d, i)
    BY <1>1, SamePath
  <2>2. DOMAIN c.op.path = 1 .. Len(c.op.path)
    BY CallIs DEF PlainPath
  <2>3. CASE \E i \in 1 .. Len(c.op.path) : c.op.path[i] = "*"
    BY <2>1, <2>3 DEF Segment
  <2>4. CASE \A i \in 1 .. Len(c.op.path) : c.op.path[i] # "*"
    BY <2>2, <2>4, CallsAre
  <2> QED  BY <2>3, <2>4
<1>3. c.user = d.user
  <2>1. CASE "query" \in c.op.user
    <3>1. PICK r : r = [text |-> Text(c)]
      OBVIOUS
    <3>2. r.text = Text(c) /\ r.text = Text(d)
      BY <1>1, <3>1 DEF Text
    <3>3. UserInQuery(QuerySent(r)) = c.user
      BY <2>1, <3>2, UserSent
    <3>4. UserInQuery(QuerySent(r)) = d.user
      BY <2>1, <3>2, UserSent
    <3> QED  BY <3>3, <3>4
  <2>2. CASE c.op.user = {}
    BY <2>2, CallsAre
  <2>3. c.op.user \subseteq {"query", "header", "body"}
    BY CallIs
  <2> QED  BY <2>1, <2>2, <2>3
<1>4. c.option = d.option
  <2>1. c.option \in BOOLEAN /\ d.option \in BOOLEAN
    BY CallsAre
  <2>2. c.option /\ ~d.option => FALSE
    <3> SUFFICES ASSUME c.option, ~d.option  PROVE FALSE
      OBVIOUS
    <3>1. c.op.name \in DOMAIN Options \/ c.op.name = "fire_trigger"
      BY CallsAre
    <3>2. CASE c.op.name = "fire_trigger"
      BY <1>1, <3>2, AsyncShows
    <3>3. CASE c.op.name \in DOMAIN Options
      <4>1. Limits(c) /\ ~Limits(d)
        BY <3>3 DEF Limits
      <4> QED  BY <1>1, <1>3, <4>1, LimitShows
    <3> QED  BY <3>1, <3>2, <3>3
  <2>3. d.option /\ ~c.option => FALSE
    <3> SUFFICES ASSUME d.option, ~c.option  PROVE FALSE
      OBVIOUS
    <3>1. d.op.name \in DOMAIN Options \/ d.op.name = "fire_trigger"
      BY CallsAre
    <3>2. CASE d.op.name = "fire_trigger"
      BY <1>1, <3>2, AsyncShows
    <3>3. CASE d.op.name \in DOMAIN Options
      <4>1. Limits(d) /\ ~Limits(c)
        BY <3>3 DEF Limits
      <4> QED  BY <1>1, <1>3, <4>1, LimitShows
    <3> QED  BY <3>1, <3>2, <3>3
  <2> QED  BY <2>1, <2>2, <2>3
<1> QED  BY <1>2, <1>3, <1>4

\* What two requests that look the same to the server have in common.
LEMMA WireFields ==
  ASSUME NEW base, NEW r, NEW q, OnWire(base, r) = OnWire(base, q)
  PROVE  /\ PathSent(base, r) = PathSent(base, q) /\ QuerySent(r) = QuerySent(q)
         /\ r.method = q.method /\ r.headers = q.headers /\ r.key = q.key
         /\ r.user = q.user /\ r.body = q.body
<1>1. ASSUME NEW x
      PROVE  /\ OnWire(base, x).path = PathSent(base, x) /\ OnWire(base, x).query = QuerySent(x)
             /\ OnWire(base, x).method = x.method /\ OnWire(base, x).headers = x.headers
             /\ OnWire(base, x).key = x.key /\ OnWire(base, x).user = x.user
             /\ OnWire(base, x).body = x.body
  BY DEF OnWire
<1> QED  BY <1>1

\* Two plain calls never look the same to the server (DistinctRequests), for any
\* arguments.
THEOREM RequestsAreDistinct == Spec => []DistinctRequests
<1>1. IInv => DistinctRequests
  <2> SUFFICES ASSUME IInv, Sent, Plain(call.id), Plain(call.user),
                      NEW other \in CallsTo(config.client), Plain(other.id), Plain(other.user),
                      OnWire(request.base, RequestOf(other, config.app, request.digest))
                        = OnWire(request.base, request.is)
               PROVE  [other EXCEPT !.payload = call.payload] = call
    BY DEF DistinctRequests
  <2>1. /\ call \in CallsTo(config.client) /\ config.client \in Clients
        /\ request.is = RequestOf(call, config.app, request.digest)
        /\ request.base = BaseUrl(config) /\ config \in Configs
    BY DEF IInv, AsAsked, Configs
  <2>2. PICK r, q : /\ r = RequestOf(call, config.app, request.digest)
                    /\ q = RequestOf(other, config.app, request.digest)
    OBVIOUS
  <2>3. /\ PathSent(request.base, r) = PathSent(request.base, q) /\ QuerySent(r) = QuerySent(q)
        /\ r.method = q.method /\ r.headers = q.headers /\ r.key = q.key
        /\ r.user = q.user /\ r.body = q.body
    BY <2>1, <2>2, WireFields
  <2>4. /\ r.text = Text(call) /\ r.method = call.op.method /\ r.key = call.op.key
        /\ r.headers = Headers(call, config.app)
        /\ r.user = IF "header" \in call.op.user THEN call.user ELSE <<>>
        /\ r.body.user = IF "body" \in call.op.user THEN call.user ELSE <<>>
    BY <2>2, RequestFields
  <2>5. /\ q.text = Text(other) /\ q.method = other.op.method /\ q.key = other.op.key
        /\ q.headers = Headers(other, config.app)
        /\ q.user = IF "header" \in other.op.user THEN other.user ELSE <<>>
        /\ q.body.user = IF "body" \in other.op.user THEN other.user ELSE <<>>
    BY <2>2, RequestFields
  <2>6. request.base \in Seq(BaseWords)
    BY <2>1, BaseIn
  <2>7. PathText(call) = PathText(other) /\ QueryText(Query(call)) = QueryText(Query(other))
    BY <2>1, <2>3, <2>4, <2>5, <2>6, SameText
  <2>8. call.op = other.op
    <3>1. Fits(call.op.path, other.op.path)
      BY <2>1, <2>7, SamePath
    <3>2. IsStream(call.op) <=> IsStream(other.op)
      BY <2>3, <2>4, <2>5, StreamsSaySo
    <3>3. call.op \in OpsOf(config.client) /\ other.op \in OpsOf(config.client)
      BY <2>1, CallsAre
    <3> QED  BY <2>1, <2>3, <2>4, <2>5, <3>1, <3>2, <3>3, SameMethod
  <2>9. "header" \in call.op.user \/ "body" \in call.op.user => call.user = other.user
    <3>1. r.body.user = q.body.user /\ r.user = q.user
      BY <2>3
    <3>2. CASE "header" \in call.op.user
      BY <2>4, <2>5, <2>8, <3>1, <3>2
    <3>3. CASE "body" \in call.op.user
      BY <2>4, <2>5, <2>8, <3>1, <3>3
    <3> QED  BY <3>2, <3>3
  <2>10. call.id = other.id /\ call.user = other.user /\ call.option = other.option
    BY <2>1, <2>7, <2>8, <2>9, SameArguments
  <2> QED  BY <2>1, <2>8, <2>10, SameCall
<1> QED  BY <1>1, Invariance, PTL
===============================================================================
