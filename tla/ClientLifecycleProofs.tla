------------------------ MODULE ClientLifecycleProofs ------------------------
(***************************************************************************)
(* Proofs about the clients' use of libcurl, for every finite set of       *)
(* clients.                                                                *)
(***************************************************************************)
EXTENDS ClientLifecycle, FiniteSetTheorems, TLAPS

Inside == {c \in Clients : pc[c] \in InLibcurl}

\* A function that may write the counter has libcurl to itself, and what a
\* client read is what is there.
Exclusive ==
  /\ \A c \in Inside : Writes(c) => Inside = {c}
  /\ \A c \in Inside : seen[c] = initialized

\* libcurl is up as long as its counter says so; the counter never counts
\* more than the clients, and counts all of them unless a set-up failed.
CountsClients ==
  /\ ready <=> initialized > 0
  /\ initialized <= Cardinality(Counted)
  /\ ~failed => initialized = Cardinality(Counted)

IInv == TypeOK /\ (~raced => Exclusive /\ CountsClients)

LEMMA CountedFinite == IsFiniteSet(Counted) /\ Cardinality(Counted) \in Nat
<1>1. IsFiniteSet(Counted)
  BY ClientsAssumption, FS_Subset DEF Counted
<1> QED  BY <1>1, FS_CardinalityType
-----------------------------------------------------------------------------
(* The steps of libcurl.                                                   *)

LEMMA EnterPreserves ==
  ASSUME IInv, NEW c \in Clients, NEW from \in {"absent", "idle"},
         NEW function \in InLibcurl, Enter(c, from, function),
         from = "absent" <=> function = "init"
  PROVE  IInv'
<1>1. TypeOK'
  BY DEF IInv, TypeOK, Enter, InLibcurl
<1>2. ASSUME ~raced'  PROVE Exclusive'
  <2> DEFINE others == {d \in Clients \ {c} : pc[d] \in InLibcurl}
  <2>1. /\ ~raced
        /\ \A d \in others : ~Writes(d) /\ function = "easy" /\ initialized # 0
    BY <1>2 DEF Enter, IInv, TypeOK
  <2>2. Inside' = others \cup {c}
    BY DEF Enter, Inside, IInv, TypeOK, InLibcurl
  <2>3. \A d \in others : Writes(d)' <=> Writes(d)
    BY DEF Enter, Writes, IInv, TypeOK
  <2>4. Writes(c)' => others = {}
    BY <2>1 DEF Enter, Writes, IInv, TypeOK
  <2>5. \A d \in Inside' : Writes(d)' => Inside' = {d}
    BY <2>1, <2>2, <2>3, <2>4
  <2>6. \A d \in Inside' : seen'[d] = initialized'
    BY <2>1, <2>2 DEF Enter, IInv, Exclusive, Inside, TypeOK
  <2> QED  BY <2>5, <2>6 DEF Exclusive
<1>3. ASSUME ~raced'  PROVE CountsClients'
  <2>1. ~raced
    BY <1>3 DEF Enter, IInv, TypeOK
  <2>2. Counted' = Counted
    BY DEF Counted, Enter, IInv, TypeOK, InLibcurl
  <2> QED  BY <2>1, <2>2 DEF CountsClients, IInv, Enter
<1> QED  BY <1>1, <1>2, <1>3 DEF IInv

\* Whoever leaves libcurl had it to itself if it writes the counter, so the
\* others need only agree with the new one.
LEMMA LeavePreserves ==
  ASSUME IInv, NEW c \in Inside, NEW count \in Nat, NEW up \in BOOLEAN,
         NEW to \in {"absent", "idle", "call"}, Leave(c, count, up, to),
         failed' \in BOOLEAN,
         ~raced => \/ count = initialized
                   \/ Inside = {c}
  PROVE  /\ TypeOK'
         /\ ~raced' => Exclusive'
<1>1. TypeOK'
  BY DEF IInv, TypeOK, Leave, Inside
<1>2. Inside' = Inside \ {c}
  BY DEF Inside, IInv, TypeOK, Leave, InLibcurl
<1>3. \A d \in Inside' : Writes(d)' = Writes(d) /\ seen'[d] = seen[d]
  BY <1>2 DEF Leave, Writes, Inside, IInv, TypeOK
<1>4. ASSUME ~raced'  PROVE Exclusive'
  <2>1. ~raced
    BY <1>4 DEF Leave
  <2>2. ASSUME NEW d \in Inside', Writes(d)'  PROVE Inside' = {d}
    BY <2>1, <2>2, <1>2, <1>3 DEF IInv, Exclusive
  <2>3. ASSUME NEW d \in Inside'  PROVE seen'[d] = initialized'
    BY <2>1, <2>3, <1>2, <1>3 DEF IInv, Exclusive, Leave
  <2> QED  BY <2>2, <2>3 DEF Exclusive
<1> QED  BY <1>1, <1>4
-----------------------------------------------------------------------------
(* The clients' steps.                                                     *)

\* A client that joins, or leaves, those that are counted.
LEMMA CountedAfter ==
  ASSUME TypeOK, NEW c \in Clients, NEW to \in {"absent", "idle", "call"},
         pc' = [pc EXCEPT ![c] = to]
  PROVE  /\ to # "absent" /\ c \notin Counted
              => Cardinality(Counted)' = Cardinality(Counted) + 1
         /\ to # "absent" /\ c \in Counted
              => Cardinality(Counted)' = Cardinality(Counted)
         /\ to = "absent" /\ c \in Counted
              => Cardinality(Counted)' = Cardinality(Counted) - 1
<1>1. to # "absent" => Counted' = Counted \cup {c}
  BY DEF Counted, TypeOK
<1>2. to = "absent" => Counted' = Counted \ {c}
  BY DEF Counted, TypeOK
<1>3. /\ Cardinality(Counted \cup {c}) =
           IF c \in Counted THEN Cardinality(Counted) ELSE Cardinality(Counted) + 1
      /\ Cardinality(Counted \ {c}) =
           IF c \in Counted THEN Cardinality(Counted) - 1 ELSE Cardinality(Counted)
  BY CountedFinite, FS_AddElement, FS_RemoveElement
<1> QED  BY <1>1, <1>2, <1>3

LEMMA ConstructedPreserves ==
  ASSUME IInv, NEW c \in Clients, Constructed(c)
  PROVE  IInv'
<1>1. c \in Inside /\ c \notin Counted /\ Writes(c) /\ seen[c] \in Nat
  BY DEF Constructed, IInv, TypeOK, Inside, InLibcurl, Counted, Writes
<1>2. ~raced => Inside = {c} /\ seen[c] = initialized
  BY <1>1 DEF IInv, Exclusive
<1>3. PICK count \in Nat, up \in BOOLEAN :
         /\ Leave(c, count, up, "idle")
         /\ \/ seen[c] = 0 /\ count = 1 /\ up = TRUE /\ failed' = failed
            \/ seen[c] = 0 /\ count = 0 /\ up = ready /\ failed' = TRUE
            \/ seen[c] > 0 /\ count = seen[c] + 1 /\ up = ready /\ failed' = failed
  <2>1. CASE seen[c] = 0 /\ Leave(c, 1, TRUE, "idle") /\ UNCHANGED failed
    BY <2>1
  <2>2. CASE seen[c] = 0 /\ Leave(c, 0, ready, "idle") /\ failed' = TRUE
    BY <2>2 DEF IInv, TypeOK
  <2>3. CASE seen[c] > 0 /\ Leave(c, seen[c] + 1, ready, "idle") /\ UNCHANGED failed
    BY <2>3, <1>1 DEF IInv, TypeOK
  <2> QED  BY <2>1, <2>2, <2>3 DEF Constructed, SetUp
<1>4. failed' \in BOOLEAN
  BY <1>3 DEF IInv, TypeOK
<1>5. TypeOK' /\ (~raced' => Exclusive')
  BY <1>1, <1>2, <1>3, <1>4, LeavePreserves
<1>6. ASSUME ~raced'  PROVE CountsClients'
  <2>1. ~raced /\ initialized' = count /\ ready' = up
    BY <1>6, <1>3 DEF Leave
  <2>2. Cardinality(Counted)' = Cardinality(Counted) + 1
    BY <1>1, <1>3, CountedAfter DEF Leave, IInv
  <2>3. initialized \in Nat /\ Cardinality(Counted) \in Nat
    BY CountedFinite DEF IInv, TypeOK
  <2> QED  BY <2>1, <2>2, <2>3, <1>2, <1>3 DEF CountsClients, IInv
<1> QED  BY <1>5, <1>6 DEF IInv

LEMMA HandleMadePreserves ==
  ASSUME IInv, NEW c \in Clients, HandleMade(c)
  PROVE  IInv'
<1>1. c \in Inside /\ c \in Counted /\ seen[c] \in Nat
  BY DEF HandleMade, IInv, TypeOK, Inside, InLibcurl, Counted
<1>2. /\ ~raced => seen[c] = initialized
      /\ ~raced /\ seen[c] = 0 => Inside = {c}
  BY <1>1 DEF IInv, Exclusive, HandleMade, Writes
<1>3. PICK count \in Nat, up \in BOOLEAN, to \in {"idle", "call"} :
         /\ Leave(c, count, up, to)
         /\ \/ seen[c] = 0 /\ count = 1 /\ up = TRUE /\ failed' = failed
            \/ seen[c] = 0 /\ count = 0 /\ up = ready /\ failed' = TRUE
            \/ seen[c] > 0 /\ count = initialized /\ up = ready /\ failed' = failed
  <2>1. CASE seen[c] = 0 /\ Leave(c, 1, TRUE, "call") /\ UNCHANGED failed
    BY <2>1
  <2>2. CASE seen[c] = 0 /\ Leave(c, 0, ready, "idle") /\ failed' = TRUE
    BY <2>2 DEF IInv, TypeOK
  <2>3. CASE seen[c] > 0 /\ Leave(c, initialized, ready, "call") /\ UNCHANGED failed
    BY <2>3, <1>1 DEF IInv, TypeOK
  <2> QED  BY <2>1, <2>2, <2>3 DEF HandleMade, SetUp
<1>4. failed' \in BOOLEAN
  BY <1>3 DEF IInv, TypeOK
<1>5. TypeOK' /\ (~raced' => Exclusive')
  BY <1>1, <1>2, <1>3, <1>4, LeavePreserves
<1>6. ASSUME ~raced'  PROVE CountsClients'
  <2>1. ~raced /\ initialized' = count /\ ready' = up
    BY <1>6, <1>3 DEF Leave
  <2>2. Cardinality(Counted)' = Cardinality(Counted)
    BY <1>1, <1>3, CountedAfter DEF Leave, IInv
  <2>3. /\ initialized \in Nat /\ Cardinality(Counted) \in Nat
        /\ Cardinality(Counted) # 0
    BY <1>1, CountedFinite, FS_EmptySet DEF IInv, TypeOK
  <2> QED  BY <2>1, <2>2, <2>3, <1>2, <1>3 DEF CountsClients, IInv
<1> QED  BY <1>5, <1>6 DEF IInv

LEMMA DestroyedPreserves ==
  ASSUME IInv, NEW c \in Clients, Destroyed(c)
  PROVE  IInv'
<1>1. c \in Inside /\ c \in Counted /\ Writes(c) /\ seen[c] \in Nat
  BY DEF Destroyed, IInv, TypeOK, Inside, InLibcurl, Counted, Writes
<1>2. ~raced => Inside = {c} /\ seen[c] = initialized
  BY <1>1 DEF IInv, Exclusive
<1>3. PICK count \in Nat, up \in BOOLEAN :
         /\ Leave(c, count, up, "absent")
         /\ \/ seen[c] = 0 /\ count = initialized /\ up = ready
            \/ seen[c] = 1 /\ count = 0 /\ up = FALSE
            \/ seen[c] > 1 /\ count = seen[c] - 1 /\ up = ready
  <2>1. CASE seen[c] = 0 /\ Leave(c, initialized, ready, "absent")
    BY <2>1 DEF IInv, TypeOK
  <2>2. CASE seen[c] = 1 /\ Leave(c, 0, FALSE, "absent")
    BY <2>2
  <2>3. CASE seen[c] > 1 /\ Leave(c, seen[c] - 1, ready, "absent")
    BY <2>3, <1>1 DEF IInv, TypeOK
  <2> QED  BY <2>1, <2>2, <2>3 DEF Destroyed, Cleanup
<1>4. failed' = failed /\ failed' \in BOOLEAN
  BY DEF Destroyed, IInv, TypeOK
<1>5. TypeOK' /\ (~raced' => Exclusive')
  BY <1>1, <1>2, <1>3, <1>4, LeavePreserves
<1>6. ASSUME ~raced'  PROVE CountsClients'
  <2>1. ~raced /\ initialized' = count /\ ready' = up
    BY <1>6, <1>3 DEF Leave
  <2>2. Cardinality(Counted)' = Cardinality(Counted) - 1
    BY <1>1, <1>3, CountedAfter DEF Leave, IInv
  <2>3. /\ initialized \in Nat /\ Cardinality(Counted) \in Nat
        /\ Cardinality(Counted) # 0
    BY <1>1, CountedFinite, FS_EmptySet DEF IInv, TypeOK
  <2> QED  BY <2>1, <2>2, <2>3, <1>2, <1>3, <1>4 DEF CountsClients, IInv
<1> QED  BY <1>5, <1>6 DEF IInv

LEMMA EndCallPreserves ==
  ASSUME IInv, NEW c \in Clients, EndCall(c)
  PROVE  IInv'
<1>1. TypeOK'
  BY DEF IInv, TypeOK, EndCall
<1>2. Inside' = Inside /\ Counted' = Counted
  BY DEF EndCall, IInv, TypeOK, Inside, Counted, InLibcurl
<1>3. \A d \in Inside : Writes(d)' <=> Writes(d)
  BY DEF EndCall, IInv, TypeOK, Inside, Writes, InLibcurl
<1>4. ~raced => Exclusive'
  BY <1>2, <1>3 DEF IInv, Exclusive, EndCall
<1>5. ~raced => CountsClients'
  BY <1>2 DEF IInv, CountsClients, EndCall
<1> QED  BY <1>1, <1>4, <1>5 DEF IInv, EndCall

LEMMA InitIInv == Init => IInv
<1> SUFFICES ASSUME Init  PROVE IInv
  OBVIOUS
<1>1. TypeOK /\ Exclusive
  BY DEF Init, TypeOK, Exclusive, Inside, InLibcurl
<1>2. Counted = {}
  BY DEF Init, Counted
<1>3. CountsClients
  BY <1>2, FS_EmptySet DEF Init, CountsClients
<1> QED  BY <1>1, <1>3 DEF IInv

LEMMA NextIInv == IInv /\ [Next]_vars => IInv'
<1> SUFFICES ASSUME IInv, [Next]_vars  PROVE IInv'
  OBVIOUS
<1>1. CASE UNCHANGED vars
  BY <1>1 DEF vars, IInv, TypeOK, Exclusive, CountsClients, Inside, Counted, Writes
<1>2. ASSUME NEW c \in Clients, Construct(c)  PROVE IInv'
  BY <1>2, EnterPreserves DEF Construct, InLibcurl
<1>3. ASSUME NEW c \in Clients, BeginCall(c)  PROVE IInv'
  BY <1>3, EnterPreserves DEF BeginCall, InLibcurl
<1>4. ASSUME NEW c \in Clients, Destroy(c)  PROVE IInv'
  BY <1>4, EnterPreserves DEF Destroy, InLibcurl
<1> QED
  BY <1>1, <1>2, <1>3, <1>4, ConstructedPreserves, HandleMadePreserves,
     EndCallPreserves, DestroyedPreserves DEF Next
-----------------------------------------------------------------------------
(* The theorems.                                                           *)

LEMMA Invariance == Spec => []IInv
BY InitIInv, NextIInv, PTL DEF Spec

LEMMA InvImplies == IInv => TypeOK /\ ReadyWhileUsed /\ ReleasedWithLast /\ OneReferenceEach
<1> SUFFICES ASSUME IInv  PROVE TypeOK /\ ReadyWhileUsed /\ ReleasedWithLast /\ OneReferenceEach
  OBVIOUS
<1>1. ReadyWhileUsed
  <2> SUFFICES ASSUME ~raced, ~failed, NEW c \in Clients, pc[c] = "call"  PROVE ready
    BY DEF ReadyWhileUsed
  <2>1. Cardinality(Counted) # 0
    BY CountedFinite, FS_EmptySet DEF Counted
  <2> QED  BY <2>1, CountedFinite DEF IInv, TypeOK, CountsClients
<1>2. ReleasedWithLast
  <2> SUFFICES ASSUME ~raced, Live = {}  PROVE ~ready
    BY DEF ReleasedWithLast, IInv, CountsClients
  <2>1. Counted = {}
    BY DEF Live, Counted
  <2> QED  BY <2>1, FS_EmptySet DEF IInv, TypeOK, CountsClients
<1>3. OneReferenceEach
  BY DEF OneReferenceEach, IInv, CountsClients
<1> QED  BY <1>1, <1>2, <1>3 DEF IInv

\* No transfer runs on a libcurl that was taken down, unless a set-up failed
\* or an unlocked libcurl was entered twice: for any number of clients.
THEOREM ReadyIsSafe == Spec => []ReadyWhileUsed
BY Invariance, InvImplies, PTL

\* Whatever failed, the last client leaves libcurl down: no cleanup is owed.
THEOREM ReleasedIsSafe == Spec => []ReleasedWithLast
BY Invariance, InvImplies, PTL

\* While every set-up works, the counter is the number of the clients.
THEOREM ReferencesAreSafe == Spec => []OneReferenceEach
BY Invariance, InvImplies, PTL
=============================================================================
