-------------------------- MODULE VersionCheckProofs --------------------------
(***************************************************************************)
(* Proofs about the version check, for any processes, threads and headers, *)
(* any interval and any bound on the clock; and, at the end, about the     *)
(* order in which it compares versions.                                    *)
(***************************************************************************)
EXTENDS VersionCheck, SequenceTheorems, TLAPS

Inside == Steps \ {"idle"}

\* A process that has not checked has no thread in a check and has printed
\* nothing; one thread at most of a process is in a check, and until it has
\* printed its notice the process has printed none.
GateTypes ==
  /\ checked \in [Procs -> BOOLEAN]
  /\ pc \in [Threads -> Steps]
  /\ printed \in [Procs -> Nat]

OneInside ==
  /\ \A t \in Threads : ~checked[t[1]] => pc[t] = "idle"
  /\ \A t, u \in Threads : t[1] = u[1] /\ pc[t] # "idle" /\ pc[u] # "idle" => t = u

Unprinted ==
  /\ \A p \in Procs : ~checked[p] => printed[p] = 0
  /\ \A t \in Threads :
       pc[t] \in {"update", "update_open", "update_write", "recently", "notify"}
         => printed[t[1]] = 0
  /\ OncePerProcess

Gate == GateTypes /\ OneInside /\ Unprinted

\* A thread that holds a document it will write.
Holding == {"update_open", "update_write", "mark_open", "mark_write"}

\* The documents: only an object has entries, and only objects are written; a
\* file without a path is missing.
Blank(d) == d.form # "object" => d.cpp = NoEntry /\ ~d.others

Documents ==
  /\ Blank(file) /\ Blank(origin)
  /\ home = "none" => origin.form = "absent"
  /\ \A t \in Threads : pc[t] \in Holding => cache[t].form = "object"

\* No check makes a file another check cannot read.
Readable(d) == d.form # "array" /\ d.cpp.form # "string" /\ d.cpp.stamp # BadStamp

StaysReadable ==
  Readable(origin) =>
    /\ ~failed /\ Readable(file)
    /\ \A t \in Threads : pc[t] \in Holding => Readable(cache[t])

\* While the clock was not set back no stamp is ahead of it.
Behind ==
  setBack = "never" =>
    /\ file.cpp.stamp <= clock
    /\ \A t \in Threads : pc[t] \in Holding => cache[t].cpp.stamp <= clock

\* Until two checks overlap one thread at most of all processes is in one, and
\* the document it holds has the entries of the others.
Alone ==
  ~overlapped => \A t, u \in Threads : pc[t] # "idle" /\ pc[u] # "idle" => t = u

Kept ==
  ~overlapped /\ ~cut =>
    /\ OthersKept
    /\ \A t \in Threads : pc[t] \in Holding => cache[t].others = origin.others

\* The stamp of the latest notice: in the file, or in the document that is being
\* changed, or not made yet.
HasStamp(d) ==
  noticed # Never => /\ d.form = "object" /\ d.cpp.form = "object"
                     /\ d.cpp.stamp \in Nat /\ d.cpp.stamp >= noticed

HasEntry(d) == d.form = "object" /\ d.cpp.form = "object"

StampHere(t) ==
  /\ pc[t] = "update" => HasStamp(file)
  /\ pc[t] \in {"update_open", "update_write"} => HasEntry(cache[t]) /\ HasStamp(cache[t])
  /\ pc[t] = "recently" => HasEntry(file) /\ HasStamp(file)
  /\ pc[t] = "notify" => HasEntry(file) /\ (noticed # Never => clock - noticed >= Interval)
  /\ pc[t] = "mark" => HasEntry(file) /\ noticed <= clock
  /\ pc[t] \in {"mark_open", "mark_write"} => HasEntry(cache[t]) /\ HasStamp(cache[t])

\* The conditions NoticesApart names: nothing keeps a check from its stamp.
Undisturbed == home = "writable" /\ ~overlapped /\ ~cut /\ setBack # "during"

StampKept ==
  Undisturbed =>
    /\ (\A t \in Threads : pc[t] = "idle") => HasStamp(file)
    /\ \A t \in Threads : StampHere(t)

\* Until two checks overlap a writer finds the file as it truncated it, so that
\* nothing lies behind what it writes.
Untouched ==
  ~overlapped =>
    /\ ~tail
    /\ \A t \in Threads : pc[t] \in {"update_write", "mark_write"} => file.form # "object"

IInv == /\ TypeOK /\ Gate /\ Documents /\ StaysReadable /\ Untouched /\ WholeWhenQuiet
        /\ Behind /\ Alone /\ Kept /\ StampKept
-----------------------------------------------------------------------------
(* The gate.                                                               *)

\* A thread that is in a check goes on, without a notice.
LEMMA StepKeepsGate ==
  ASSUME Gate, NEW t \in Threads, NEW s \in Steps,
         pc[t] # "idle", pc' = [pc EXCEPT ![t] = s],
         s \in {"update", "update_open", "update_write", "recently", "notify"}
           => pc[t] \in {"update", "update_open", "update_write", "recently"},
         UNCHANGED <<checked, printed>>
  PROVE  Gate'
<1>1. GateTypes'
  BY DEF Gate, GateTypes
<1>2. OneInside'
  BY DEF Gate, GateTypes, OneInside, Steps
<1>3. Unprinted'
  BY DEF Gate, GateTypes, Unprinted, OncePerProcess
<1> QED  BY <1>1, <1>2, <1>3 DEF Gate

LEMMA InitGate == Init => Gate
BY DEF Init, Gate, GateTypes, OneInside, Unprinted, OncePerProcess, Threads, Steps

LEMMA NextGate == Gate /\ [Next]_vars => Gate'
<1> SUFFICES ASSUME Gate, [Next]_vars  PROVE Gate'
  OBVIOUS
<1>1. ASSUME NEW t \in Threads, CompareExchange(t)  PROVE Gate'
  <2>1. /\ t[1] \in Procs /\ pc[t] = "idle" /\ ~checked[t[1]]
        /\ checked' = [checked EXCEPT ![t[1]] = TRUE]
        /\ pc' = [pc EXCEPT ![t] = "update"] \/ pc' = pc
        /\ printed' = printed
    BY <1>1 DEF CompareExchange, Take, Goto, Threads
  <2>2. GateTypes'
    BY <2>1 DEF Gate, GateTypes, Steps
  <2>3. OneInside'
    BY <2>1 DEF Gate, GateTypes, OneInside, Threads
  <2>4. Unprinted'
    BY <2>1 DEF Gate, GateTypes, Unprinted, OncePerProcess, Threads
  <2> QED  BY <2>2, <2>3, <2>4 DEF Gate
<1>2. ASSUME NEW t \in Threads, Update(t)  PROVE Gate'
  BY <1>2, StepKeepsGate DEF Update, Throws, Goto, Steps, history
<1>3. ASSUME NEW t \in Threads, Recently(t)  PROVE Gate'
  <2>1. pc[t] = "recently"
    BY <1>3 DEF Recently
  <2>2. PICK s \in {"idle", "notify"} : pc' = [pc EXCEPT ![t] = s]
    BY <1>3 DEF Recently, Throws, Goto
  <2>3. UNCHANGED <<checked, printed>>
    BY <1>3 DEF Recently, Throws, history
  <2> QED  BY <2>1, <2>2, <2>3, StepKeepsGate DEF Steps
<1>4. ASSUME NEW t \in Threads, Mark(t)  PROVE Gate'
  BY <1>4, StepKeepsGate DEF Mark, Goto, Steps, history
<1>5. ASSUME NEW t \in Threads,
             \/ Open(t, "update_open", "update_write", "recently")
             \/ Open(t, "mark_open", "mark_write", "idle")
      PROVE  Gate'
  <2>1. PICK at \in {"update_open", "mark_open"} : 
           /\ pc[t] = at
           /\ \/ /\ at = "update_open"
                 /\ \E s \in {"update_write", "recently"} : pc' = [pc EXCEPT ![t] = s]
              \/ \E s \in {"mark_write", "idle"} : pc' = [pc EXCEPT ![t] = s]
    BY <1>5 DEF Open, Goto
  <2>2. UNCHANGED <<checked, printed>>
    BY <1>5 DEF Open, history
  <2> QED  BY <2>1, <2>2, StepKeepsGate DEF Steps
<1>6. ASSUME NEW t \in Threads,
             \/ Write(t, "update_write", "recently")
             \/ Write(t, "mark_write", "idle")
      PROVE  Gate'
  <2>1. PICK at \in {"update_write", "mark_write"} :
           /\ pc[t] = at
           /\ \/ at = "update_write" /\ pc' = [pc EXCEPT ![t] = "recently"]
              \/ pc' = [pc EXCEPT ![t] = "idle"]
    BY <1>6 DEF Write, Throws, Goto
  <2>2. UNCHANGED <<checked, printed>>
    BY <1>6 DEF Write, Throws, history
  <2> QED  BY <2>1, <2>2, StepKeepsGate DEF Steps
<1>7. ASSUME NEW t \in Threads, Notify(t)  PROVE Gate'
  <2>1. /\ t[1] \in Procs /\ pc[t] = "notify" /\ pc' = [pc EXCEPT ![t] = "mark"]
        /\ printed' = [printed EXCEPT ![t[1]] = @ + 1] /\ checked' = checked
    BY <1>7 DEF Notify, Goto, Threads
  <2>2. printed[t[1]] = 0 /\ checked[t[1]]
    BY <2>1 DEF Gate, Unprinted, OneInside
  <2>3. GateTypes'
    BY <2>1, <2>2 DEF Gate, GateTypes, Steps
  <2>4. OneInside'
    BY <2>1 DEF Gate, GateTypes, OneInside
  <2>5. \A u \in Threads : u[1] = t[1] /\ u # t => pc'[u] = "idle"
    BY <2>1 DEF Gate, GateTypes, OneInside
  <2>6. \A p \in Procs : printed'[p] = IF p = t[1] THEN 1 ELSE printed[p]
    BY <2>1, <2>2 DEF Gate, GateTypes
  <2>7. Unprinted'
    <3>1. \A u \in Threads : u[1] \in Procs
      BY DEF Threads
    <3>2. pc'[t] = "mark" /\ \A u \in Threads \ {t} : pc'[u] = pc[u]
      BY <2>1 DEF Gate, GateTypes
    <3> QED  BY <2>1, <2>2, <2>5, <2>6, <3>1, <3>2 DEF Gate, GateTypes, Unprinted, OncePerProcess
  <2> QED  BY <2>3, <2>4, <2>7 DEF Gate
<1>8. ASSUME NEW p \in Procs, Restart(p)  PROVE Gate'
  <2>1. GateTypes'
    BY <1>8 DEF Restart, Gate, GateTypes, Steps
  <2>2. OneInside'
    BY <1>8 DEF Restart, Gate, GateTypes, OneInside, Threads
  <2>3. Unprinted'
    BY <1>8 DEF Restart, Gate, GateTypes, Unprinted, OncePerProcess, Threads
  <2> QED  BY <2>1, <2>2, <2>3 DEF Gate
<1>9. CASE UNCHANGED <<checked, pc, printed>>
  BY <1>9 DEF Gate, GateTypes, OneInside, Unprinted, OncePerProcess
<1>10. CASE Tick \/ SetBack \/ UNCHANGED vars
  BY <1>9, <1>10 DEF Tick, SetBack, vars, history
<1> QED
  BY <1>1, <1>2, <1>3, <1>4, <1>5, <1>6, <1>7, <1>8, <1>10 DEF Next, Step

-----------------------------------------------------------------------------
(* Documents.                                                              *)

LEMMA EmptyDocument ==
  /\ \A f \in {"absent", "torn", "array", "object"} : Unusable(f) \in Document
  /\ Empty \in Document
  /\ Empty.form = "object" /\ Empty.cpp.form = "none" /\ Empty.cpp.stamp = Never
  /\ Empty.others = FALSE
<1>1. NoEntry \in Entry
  BY DEF NoEntry, Entry
<1>2. \A f \in {"absent", "torn", "array", "object"} : Unusable(f) \in Document
  BY <1>1 DEF Unusable, Document
<1> QED  BY <1>2 DEF Empty, Unusable, NoEntry

LEMMA UnusableFields ==
  ASSUME NEW f
  PROVE  Unusable(f).form = f /\ Unusable(f).cpp = NoEntry /\ Unusable(f).others = FALSE
BY DEF Unusable

LEMMA WithLatestFields ==
  ASSUME NEW d \in Document, NEW v \in Newer \cup {NoLatest}
  PROVE  /\ WithLatest(d, v) \in Document
         /\ WithLatest(d, v).form = d.form /\ WithLatest(d, v).others = d.others
         /\ WithLatest(d, v).cpp.form = "object"
         /\ WithLatest(d, v).cpp.stamp = d.cpp.stamp
<1> DEFINE e == [d.cpp EXCEPT !.form = "object", !.latest = v]
<1>1. d.cpp \in Entry
  BY DEF Document
<1>2. e \in Entry /\ e.form = "object" /\ e.stamp = d.cpp.stamp
  BY <1>1 DEF Entry
<1>3. WithLatest(d, v) = [d EXCEPT !.cpp = e]
  BY DEF WithLatest
<1> HIDE DEF e
<1>4. /\ [d EXCEPT !.cpp = e] \in Document
      /\ [d EXCEPT !.cpp = e].form = d.form /\ [d EXCEPT !.cpp = e].others = d.others
      /\ [d EXCEPT !.cpp = e].cpp = e
  BY <1>2 DEF Document
<1> QED  BY <1>2, <1>3, <1>4

LEMMA StampedFields ==
  ASSUME NEW d \in Document, clock \in 0 .. MaxTime
  PROVE  /\ Stamped(d) \in Document
         /\ Stamped(d).form = d.form /\ Stamped(d).others = d.others
         /\ Stamped(d).cpp.form = d.cpp.form
         /\ Stamped(d).cpp.stamp = clock
<1> DEFINE e == [d.cpp EXCEPT !.stamp = clock]
<1>1. d.cpp \in Entry
  BY DEF Document
<1>2. e \in Entry /\ e.form = d.cpp.form /\ e.stamp = clock
  BY <1>1 DEF Entry
<1>3. Stamped(d) = [d EXCEPT !.cpp = e]
  BY DEF Stamped
<1> HIDE DEF e
<1>4. /\ [d EXCEPT !.cpp = e] \in Document
      /\ [d EXCEPT !.cpp = e].form = d.form /\ [d EXCEPT !.cpp = e].others = d.others
      /\ [d EXCEPT !.cpp = e].cpp = e
  BY <1>2 DEF Document
<1> QED  BY <1>2, <1>3, <1>4

LEMMA LoadIsDocument ==
  ASSUME TypeOK
  PROVE  /\ Load \in Document
         /\ \/ Load = file /\ home # "none" /\ file.form \in {"array", "object"}
            \/ Load = Empty /\ (home = "none" \/ file.form \notin {"array", "object"})
BY EmptyDocument DEF Load, TypeOK
-----------------------------------------------------------------------------
(* Types.                                                                  *)

LEMMA InitTypes == Init => TypeOK
<1> SUFFICES ASSUME Init  PROVE TypeOK
  OBVIOUS
<1>1. OriginalEntries \subseteq Entry
  <2>1. 0 \in 0 .. MaxTime
    BY VersionCheckAssumption
  <2> QED  BY <2>1 DEF OriginalEntries, Entry, NoEntry
<1>2. Originals \subseteq Document
  <2>1. [form : {"object"}, cpp : OriginalEntries, others : BOOLEAN] \subseteq Document
    BY <1>1 DEF Document
  <2> QED  BY <2>1, EmptyDocument DEF Originals
<1>3. file \in Document /\ origin \in Document
  BY <1>2 DEF Init
<1>4. clock \in 0 .. MaxTime
  BY VersionCheckAssumption DEF Init
<1>5. home \in {"writable", "readonly", "none"}
  BY DEF Init
<1> QED  BY <1>3, <1>4, <1>5, EmptyDocument DEF Init, TypeOK, Steps

LEMMA NextTypes == TypeOK /\ [Next]_vars => TypeOK'
<1> SUFFICES ASSUME TypeOK, [Next]_vars  PROVE TypeOK'
  OBVIOUS
<1>1. ASSUME NEW t \in Threads, CompareExchange(t)  PROVE TypeOK'
  <2>1. overlapped' \in BOOLEAN
    BY <1>1 DEF CompareExchange, TypeOK
  <2>2. \/ latest' = latest /\ pc' = pc
        \/ /\ \E v \in Newer : latest' = [latest EXCEPT ![t] = v]
           /\ pc' = [pc EXCEPT ![t] = "update"]
    BY <1>1 DEF CompareExchange, Goto
  <2>3. latest' \in [Threads -> Newer \cup {NoLatest}] /\ pc' \in [Threads -> Steps]
    BY <2>2 DEF TypeOK, Steps
  <2>4. checked' \in [Procs -> BOOLEAN]
    BY <1>1 DEF CompareExchange, Take, Threads, TypeOK
  <2> QED  BY <1>1, <2>1, <2>3, <2>4 DEF CompareExchange, TypeOK, env
<1>2. ASSUME NEW t \in Threads, NEW why, Throws(t, why)  PROVE TypeOK'
  BY <1>2, EmptyDocument DEF Throws, Goto, Forget, TypeOK, Steps, env
<1>3. ASSUME NEW t \in Threads, Update(t)  PROVE TypeOK'
  <2>1. WithLatest(Load, latest[t]) \in Document
    BY LoadIsDocument, WithLatestFields DEF TypeOK
  <2> QED  BY <1>2, <1>3, <2>1 DEF Update, Goto, TypeOK, Steps, env, history
<1>4. ASSUME NEW t \in Threads, Recently(t)  PROVE TypeOK'
  BY <1>2, <1>4 DEF Recently, Goto, TypeOK, Steps, env, history
<1>5. ASSUME NEW t \in Threads, Notify(t)  PROVE TypeOK'
  BY <1>5 DEF Notify, Goto, TypeOK, Steps, env, Threads
<1>6. ASSUME NEW t \in Threads, Mark(t)  PROVE TypeOK'
  <2>1. Stamped(Load) \in Document
    BY LoadIsDocument, StampedFields DEF TypeOK
  <2> QED  BY <1>6, <2>1 DEF Mark, Goto, TypeOK, Steps, env, history
<1>7. ASSUME NEW t \in Threads, NEW at, NEW next \in Steps, NEW skip \in Steps,
             Open(t, at, next, skip)
      PROVE  TypeOK'
  BY <1>7, EmptyDocument DEF Open, Truncated, Goto, Forget, TypeOK, env, history
<1>8. ASSUME NEW t \in Threads, NEW at, NEW next \in Steps, Write(t, at, next)  PROVE TypeOK'
  <2>1. CASE Throws(t, "dump")
    BY <1>2, <2>1
  <2>2. CASE /\ file' = cache[t] /\ tail' \in Tails(t) /\ Goto(t, next) /\ Forget(t)
             /\ UNCHANGED <<checked, clock, history, env>>
    <3>1. file' \in Document /\ tail' \in BOOLEAN
      BY <2>2 DEF Tails, TypeOK
    <3> QED  BY <2>2, <3>1, EmptyDocument DEF Goto, Forget, TypeOK, env, history
  <2> QED  BY <1>8, <2>1, <2>2 DEF Write
<1>9. ASSUME NEW p \in Procs, Restart(p)  PROVE TypeOK'
  BY <1>9, EmptyDocument DEF Restart, TypeOK, Steps, env, InCheck
<1>10. CASE Tick \/ SetBack
  BY <1>10, VersionCheckAssumption DEF Tick, SetBack, TypeOK, env, history
<1>11. CASE UNCHANGED vars
  BY <1>11 DEF vars, TypeOK
<1>12. {"update_write", "recently", "mark_write", "idle"} \subseteq Steps
  BY DEF Steps
<1> QED
  BY <1>1, <1>3, <1>4, <1>5, <1>6, <1>7, <1>8, <1>9, <1>10, <1>11, <1>12 DEF Next, Step
-----------------------------------------------------------------------------
(* What a step does to the documents: nothing, take the file in, truncate it *)
(* or fill it.                                                             *)

OthersStay(t) == \A u \in Threads \ {t} : pc'[u] = pc[u] /\ cache'[u] = cache[u]

Elsewhere ==
  /\ file' = file /\ tail' = tail
  /\ \A u \in Threads : pc'[u] \in Holding => pc'[u] = pc[u] /\ cache'[u] = cache[u]
  /\ cut' \/ \A u \in Threads : pc[u] \in {"update_write", "mark_write"} => pc'[u] = pc[u]
  /\ failed' => failed \/ ~Readable(Load)

TakesIn(t) ==
  /\ file' = file /\ tail' = tail /\ failed' = failed /\ OthersStay(t)
  /\ pc[t] \in {"update", "mark"} /\ pc'[t] \in {"update_open", "mark_open"}
  /\ Load.form = "object" \/ Load.cpp.form = "object"
  /\ cache'[t].form = Load.form /\ cache'[t].others = Load.others
  /\ cache'[t].cpp.form = "object"
  /\ cache'[t].cpp.stamp \in {Load.cpp.stamp, clock}

Truncates(t) ==
  /\ file' = Unusable("torn") /\ ~tail' /\ failed' = failed /\ OthersStay(t)
  /\ pc[t] \in Holding /\ pc'[t] \in {"update_write", "mark_write"}
  /\ cache'[t] = cache[t]

Fills(t) ==
  /\ file' = cache[t] /\ failed' = failed /\ OthersStay(t)
  /\ file.form # "object" => ~tail'
  /\ pc[t] \in {"update_write", "mark_write"} /\ pc'[t] \in {"recently", "idle"}

\* What no step does.
Forward ==
  /\ UNCHANGED <<home, origin>>
  /\ (overlapped => overlapped') /\ (cut => cut')
  /\ setBack' = "never" => setBack = "never" /\ clock' >= clock

Effect == Forward /\ (Elsewhere \/ \E t \in Threads : TakesIn(t) \/ Truncates(t) \/ Fills(t))

LEMMA StepEffect ==
  ASSUME TypeOK, [Next]_vars
  PROVE  Effect
<1>1. clock \in Nat /\ clock' \in Nat
  BY NextTypes DEF TypeOK
<1>2. ASSUME NEW t \in Threads, CompareExchange(t)  PROVE Effect
  BY <1>1, <1>2 DEF CompareExchange, Goto, Effect, Forward, Elsewhere, Holding, TypeOK, env
<1>3. ASSUME NEW t \in Threads, NEW why, Throws(t, why),
             /\ why = "shape" => ~Readable(Load) /\ pc[t] \notin Holding
             /\ why = "shape" \/ why = "dump"
      PROVE  Effect
  BY <1>1, <1>3 DEF Throws, Goto, Forget, Effect, Forward, Elsewhere, Holding, TypeOK, env
<1>4. ASSUME NEW t \in Threads, Update(t)  PROVE Effect
  <2>1. CASE (Load.form = "array" \/ Load.cpp.form = "string") /\ Throws(t, "shape")
    BY <1>3, <1>4, <2>1 DEF Update, Readable, Holding
  <2>2. CASE /\ Load.form = "object"
             /\ cache' = [cache EXCEPT ![t] = WithLatest(Load, latest[t])]
             /\ Goto(t, "update_open") /\ UNCHANGED <<checked, file, tail, clock, history, env>>
    <3>1. /\ cache'[t] = WithLatest(Load, latest[t]) /\ pc'[t] = "update_open"
          /\ OthersStay(t)
      BY <2>2 DEF TypeOK, OthersStay, Goto
    <3>2. TakesIn(t)
      BY <1>4, <2>2, <3>1, LoadIsDocument, WithLatestFields
         DEF Update, TakesIn, TypeOK, Holding, history
    <3> QED  BY <1>1, <2>2, <3>2 DEF Effect, Forward, history, env
  <2> QED  BY <1>4, <2>1, <2>2 DEF Update
<1>5. ASSUME NEW t \in Threads, Mark(t)  PROVE Effect
  <2>1. CASE Goto(t, "idle") /\ UNCHANGED <<cache, file, tail, clock, history, env>>
    BY <1>1, <1>5, <2>1 DEF Mark, Goto, Effect, Forward, Elsewhere, Holding, TypeOK, env, history
  <2>2. CASE /\ Load.cpp.form = "object"
             /\ cache' = [cache EXCEPT ![t] = Stamped(Load)]
             /\ Goto(t, "mark_open") /\ UNCHANGED <<checked, file, tail, clock, history, env>>
    <3>1. cache'[t] = Stamped(Load) /\ pc'[t] = "mark_open" /\ OthersStay(t)
      BY <2>2 DEF TypeOK, OthersStay, Goto
    <3>2. TakesIn(t)
      BY <1>5, <2>2, <3>1, LoadIsDocument, StampedFields
         DEF Mark, TakesIn, TypeOK, Holding, history
    <3> QED  BY <1>1, <2>2, <3>2 DEF Effect, Forward, history, env
  <2> QED  BY <1>5, <2>1, <2>2 DEF Mark
<1>6. ASSUME NEW t \in Threads, Recently(t)  PROVE Effect
  <2>1. CASE Load.cpp.stamp = BadStamp /\ Throws(t, "shape")
    BY <1>3, <1>6, <2>1 DEF Recently, Readable, Holding
  <2>2. CASE /\ \E s \in {"idle", "notify"} : Goto(t, s)
             /\ UNCHANGED <<checked, latest, cache, file, tail, clock, history, env>>
    BY <1>1, <1>6, <2>2
       DEF Recently, Goto, Effect, Forward, Elsewhere, Holding, TypeOK, env, history
  <2> QED  BY <1>6, <2>1, <2>2 DEF Recently
<1>7. ASSUME NEW t \in Threads, Notify(t)  PROVE Effect
  BY <1>1, <1>7 DEF Notify, Goto, Effect, Forward, Elsewhere, Holding, TypeOK, env
<1>8. ASSUME NEW t \in Threads, NEW at \in Holding, NEW next \in {"update_write", "mark_write"},
             NEW skip \in {"recently", "idle"}, at \notin {"update_write", "mark_write"},
             Open(t, at, next, skip)
      PROVE  Effect
  <2>1. CASE file' = Truncated /\ tail' = FALSE /\ Goto(t, next) /\ UNCHANGED cache
    <3>1. Truncates(t)
      BY <1>8, <2>1 DEF Open, Truncated, Goto, Truncates, OthersStay, TypeOK, history
    <3> QED  BY <1>1, <1>8, <3>1 DEF Open, Effect, Forward, history, env
  <2>2. CASE UNCHANGED <<file, tail>> /\ Goto(t, skip) /\ Forget(t)
    <3>1. Elsewhere
      BY <1>8, <2>2 DEF Open, Goto, Forget, Elsewhere, Holding, TypeOK, history
    <3> QED  BY <1>1, <1>8, <3>1 DEF Open, Effect, Forward, history, env
  <2> QED  BY <1>8, <2>1, <2>2 DEF Open
<1>9. ASSUME NEW t \in Threads, NEW at \in {"update_write", "mark_write"},
             NEW next \in {"recently", "idle"}, Write(t, at, next)
      PROVE  Effect
  <2>1. CASE Throws(t, "dump")
    BY <1>3, <2>1
  <2>2. CASE file' = cache[t] /\ tail' \in Tails(t) /\ Goto(t, next) /\ Forget(t)
             /\ UNCHANGED <<checked, clock, history, env>>
    <3>1. Fills(t)
      BY <1>9, <2>2 DEF Write, Tails, Goto, Forget, Fills, OthersStay, TypeOK, history
    <3> QED  BY <1>1, <2>2, <3>1 DEF Effect, Forward, history, env
  <2> QED  BY <1>9, <2>1, <2>2 DEF Write
<1>10. ASSUME NEW p \in Procs, Restart(p)  PROVE Effect
  <2>1. \A u \in Threads :
          /\ pc'[u] = IF u[1] = p THEN "idle" ELSE pc[u]
          /\ u[1] # p => cache'[u] = cache[u]
    BY <1>10 DEF Restart
  <2>2. cut' \/ \A u \in Threads : u[1] = p => pc[u] = "idle"
    BY <1>10 DEF Restart, InCheck
  <2>3. cut => cut'
    BY <1>10 DEF Restart
  <2>4. UNCHANGED <<file, tail, clock, failed, overlapped, setBack, home, origin>>
    BY <1>10 DEF Restart, env
  <2>5. Elsewhere
    BY <2>1, <2>2, <2>4 DEF Elsewhere, Holding
  <2> QED  BY <1>1, <2>3, <2>4, <2>5 DEF Effect, Forward
<1>11. CASE Tick \/ SetBack
  BY <1>1, <1>11 DEF Tick, SetBack, Effect, Forward, Elsewhere, env, history
<1>12. CASE UNCHANGED vars
  BY <1>1, <1>12 DEF vars, Effect, Forward, Elsewhere
<1> QED
  BY <1>2, <1>4, <1>5, <1>6, <1>7, <1>8, <1>9, <1>10, <1>11, <1>12 DEF Next, Step, Holding

\* What is loaded is no worse than the file.
LEMMA LoadIsNoWorse ==
  ASSUME TypeOK, Documents
  PROVE  /\ Load.cpp.form = "object" => Load.form = "object"
         /\ Readable(file) => Readable(Load)
         /\ Load.cpp.stamp \in {file.cpp.stamp, Never}
         /\ file.others = origin.others => Load.others = origin.others
<1>1. Blank(file) /\ file \in Document /\ origin \in Document
  BY DEF Documents, TypeOK
<1>2. NoEntry.form = "none" /\ Never # BadStamp
  BY DEF NoEntry, Never, BadStamp
<1>3. CASE Load = file /\ file.form \in {"array", "object"}
  BY <1>1, <1>2, <1>3 DEF Blank
<1>4. CASE Load = Empty /\ (home = "none" \/ file.form \notin {"array", "object"})
  <2>1. /\ Load.form = "object" /\ Load.cpp.form = "none" /\ Load.cpp.stamp = Never
        /\ Load.others = FALSE
    BY <1>4, EmptyDocument
  <2>2. file.others = origin.others => origin.others = FALSE
    <3>1. home = "none" => ~origin.others
      BY DEF Documents, Blank
    <3>2. file.form \notin {"array", "object"} => ~file.others
      BY <1>1 DEF Blank
    <3>3. file.others \in BOOLEAN /\ origin.others \in BOOLEAN
      BY <1>1 DEF Document
    <3> QED  BY <1>4, <3>1, <3>2, <3>3
  <2> QED  BY <1>2, <2>1, <2>2 DEF Readable
<1> QED  BY <1>3, <1>4, LoadIsDocument

LEMMA NextDocuments ==
  ASSUME TypeOK, Documents, Effect
  PROVE  Documents'
<1>1. ASSUME NEW t \in Threads, TakesIn(t)  PROVE Documents'
  BY <1>1, LoadIsNoWorse DEF TakesIn, OthersStay, Effect, Forward, Documents, Blank, Holding
<1>2. ASSUME NEW t \in Threads, Truncates(t)  PROVE Documents'
  BY <1>2, UnusableFields DEF Truncates, OthersStay, Effect, Forward, Documents, Blank, Holding
<1>3. ASSUME NEW t \in Threads, Fills(t)  PROVE Documents'
  BY <1>3 DEF Fills, OthersStay, Effect, Forward, Documents, Blank, Holding
<1>4. CASE Elsewhere
  BY <1>4 DEF Elsewhere, Effect, Forward, Documents, Blank, Holding
<1> QED  BY <1>1, <1>2, <1>3, <1>4 DEF Effect

LEMMA NextReadable ==
  ASSUME TypeOK, Documents, StaysReadable, Effect
  PROVE  StaysReadable'
<1> SUFFICES ASSUME Readable(origin)'
             PROVE  /\ ~failed' /\ Readable(file)'
                    /\ \A t \in Threads : pc'[t] \in Holding => Readable(cache'[t])
  BY DEF StaysReadable, Readable
<1>1. /\ ~failed /\ Readable(file) /\ Readable(Load)
      /\ \A t \in Threads : pc[t] \in Holding => Readable(cache[t])
  BY LoadIsNoWorse DEF StaysReadable, Readable, Effect, Forward
<1>2. clock # BadStamp /\ "torn" # "array" /\ NoEntry.form = "none" /\ NoEntry.stamp # BadStamp
  BY DEF TypeOK, BadStamp, NoEntry, Never
<1>3. ASSUME NEW t \in Threads, TakesIn(t)
      PROVE  /\ ~failed' /\ Readable(file)'
             /\ \A u \in Threads : pc'[u] \in Holding => Readable(cache'[u])
  <2>1. Readable(cache'[t])
    BY <1>1, <1>2, <1>3 DEF TakesIn, Readable
  <2> QED  BY <1>1, <1>3, <2>1 DEF TakesIn, OthersStay, Readable
<1>4. ASSUME NEW t \in Threads, Truncates(t) \/ Fills(t)
      PROVE  /\ ~failed' /\ Readable(file)'
             /\ \A u \in Threads : pc'[u] \in Holding => Readable(cache'[u])
  <2>1. Readable(Unusable("torn"))
    BY <1>2, UnusableFields DEF Readable
  <2>2. ~failed' /\ Readable(file')
    BY <1>1, <1>4, <2>1 DEF Truncates, Fills, Holding
  <2> QED  BY <1>1, <1>4, <2>2 DEF Truncates, Fills, OthersStay, Readable, Holding
<1>5. CASE Elsewhere
  BY <1>1, <1>5 DEF Elsewhere, Readable
<1> QED  BY <1>3, <1>4, <1>5 DEF Effect

LEMMA NextUntouched ==
  ASSUME TypeOK, Alone, Untouched, Effect
  PROVE  Untouched'
<1> SUFFICES ASSUME ~overlapped'
             PROVE  /\ ~tail'
                    /\ \A t \in Threads :
                         pc'[t] \in {"update_write", "mark_write"} => file'.form # "object"
  BY DEF Untouched
<1>1. /\ ~overlapped /\ ~tail
      /\ \A t \in Threads : pc[t] \in {"update_write", "mark_write"} => file.form # "object"
  BY DEF Untouched, Effect, Forward
<1>2. ASSUME NEW t \in Threads, TakesIn(t)
      PROVE  /\ ~tail'
             /\ \A u \in Threads :
                  pc'[u] \in {"update_write", "mark_write"} => file'.form # "object"
  BY <1>1, <1>2 DEF TakesIn, OthersStay
<1>3. ASSUME NEW t \in Threads, Truncates(t)  PROVE ~tail' /\ file'.form # "object"
  BY <1>3, UnusableFields DEF Truncates
<1>4. ASSUME NEW t \in Threads, Fills(t)
      PROVE  ~tail' /\ \A u \in Threads : pc'[u] \notin {"update_write", "mark_write"}
  <2>1. \A u \in Threads \ {t} : pc'[u] = "idle"
    BY <1>1, <1>4 DEF Fills, OthersStay, Alone
  <2> QED  BY <1>1, <1>4, <2>1 DEF Fills
<1>5. CASE Elsewhere
  BY <1>1, <1>5 DEF Elsewhere, Holding
<1> QED  BY <1>2, <1>3, <1>4, <1>5 DEF Effect

LEMMA NextWhole ==
  ASSUME TypeOK, Documents, WholeWhenQuiet, Untouched', Effect
  PROVE  WholeWhenQuiet'
<1> SUFFICES ASSUME ~cut', ~Writing'  PROVE file'.form = "object" \/ file' = origin'
  BY DEF WholeWhenQuiet, Untouched
<1>1. origin' = origin /\ ~cut
  BY DEF Effect, Forward
<1>2. ASSUME NEW t \in Threads, TakesIn(t)  PROVE file'.form = "object" \/ file' = origin'
  <2>1. Writing => Writing'
    BY <1>2 DEF TakesIn, OthersStay, Writing
  <2> QED  BY <1>1, <1>2, <2>1 DEF TakesIn, WholeWhenQuiet
<1>3. ASSUME NEW t \in Threads, Truncates(t)  PROVE FALSE
  BY <1>3 DEF Truncates, Writing
<1>4. ASSUME NEW t \in Threads, Fills(t)  PROVE file'.form = "object"
  BY <1>4 DEF Fills, Documents, Holding
<1>5. CASE Elsewhere
  BY <1>1, <1>5 DEF Elsewhere, WholeWhenQuiet, Writing
<1> QED  BY <1>2, <1>3, <1>4, <1>5 DEF Effect

LEMMA NextBehind ==
  ASSUME TypeOK, TypeOK', Documents, Behind, Effect
  PROVE  Behind'
<1> SUFFICES ASSUME setBack' = "never"
             PROVE  /\ file'.cpp.stamp <= clock'
                    /\ \A t \in Threads : pc'[t] \in Holding => cache'[t].cpp.stamp <= clock'
  BY DEF Behind
<1>1. /\ clock' >= clock /\ file.cpp.stamp <= clock
      /\ \A t \in Threads : pc[t] \in Holding => cache[t].cpp.stamp <= clock
  BY DEF Behind, Effect, Forward
<1>2. /\ clock \in Nat /\ clock' \in Nat /\ file.cpp.stamp \in Int
      /\ \A t \in Threads : cache[t].cpp.stamp \in Int
  <2>1. \A d \in Document : d.cpp.stamp \in Int
    <3>1. \A e \in Entry : e.stamp \in Int
      BY DEF Entry, Never, BadStamp
    <3> QED  BY <3>1 DEF Document
  <2> QED  BY <2>1 DEF TypeOK
<1>3. Never <= clock /\ Never \in Int
  BY <1>2 DEF Never
<1>4. ASSUME NEW t \in Threads, TakesIn(t)
      PROVE  /\ file'.cpp.stamp <= clock'
             /\ \A u \in Threads : pc'[u] \in Holding => cache'[u].cpp.stamp <= clock'
  <2>1. cache'[t].cpp.stamp <= clock'
    BY <1>1, <1>2, <1>3, <1>4, LoadIsNoWorse DEF TakesIn
  <2> QED  BY <1>1, <1>2, <1>4, <2>1 DEF TakesIn, OthersStay
<1>5. ASSUME NEW t \in Threads, Truncates(t) \/ Fills(t)
      PROVE  /\ file'.cpp.stamp <= clock'
             /\ \A u \in Threads : pc'[u] \in Holding => cache'[u].cpp.stamp <= clock'
  <2>1. Unusable("torn").cpp.stamp = Never
    <3>1. Unusable("torn").cpp = NoEntry
      BY UnusableFields
    <3>2. NoEntry.stamp = Never
      BY DEF NoEntry
    <3> QED  BY <3>1, <3>2
  <2>2. file'.cpp.stamp <= clock
    BY <1>1, <1>3, <1>5, <2>1 DEF Truncates, Fills, Holding
  <2>3. file'.cpp.stamp \in Int /\ \A u \in Threads : pc'[u] \in Holding =>
          pc[u] \in Holding /\ cache'[u] = cache[u]
    BY <1>2, <1>3, <1>5, <2>1 DEF Truncates, Fills, OthersStay, Holding
  <2> QED  BY <1>1, <1>2, <2>2, <2>3
<1>6. CASE Elsewhere
  BY <1>1, <1>2, <1>6 DEF Elsewhere
<1> QED  BY <1>4, <1>5, <1>6 DEF Effect

LEMMA NextAlone ==
  ASSUME TypeOK, Gate, Alone, [Next]_vars
  PROVE  Alone'
<1>1. ASSUME NEW t \in Threads, CompareExchange(t)  PROVE Alone'
  <2>1. CASE UNCHANGED <<pc, overlapped>>
    BY <2>1 DEF Alone
  <2>2. CASE /\ Goto(t, "update")
             /\ overlapped' = (overlapped \/ \E p \in Procs \ {t[1]} : InCheck(p))
    <3>1. ~overlapped' => \A u \in Threads \ {t} : pc[u] = "idle"
      <4> SUFFICES ASSUME ~overlapped', NEW u \in Threads \ {t}  PROVE pc[u] = "idle"
        OBVIOUS
      <4>1. u[1] \in Procs
        BY DEF Threads
      <4>2. CASE u[1] = t[1]
        BY <1>1, <4>2 DEF CompareExchange, Gate, OneInside
      <4>3. CASE u[1] # t[1]
        BY <2>2, <4>1, <4>3 DEF InCheck
      <4> QED  BY <4>2, <4>3
    <3> QED  BY <2>2, <3>1 DEF Goto, Alone, TypeOK
  <2> QED  BY <1>1, <2>1, <2>2 DEF CompareExchange
<1>2. ASSUME \A t \in Threads : pc'[t] # "idle" => pc[t] # "idle", UNCHANGED overlapped
      PROVE  Alone'
  BY <1>2 DEF Alone
<1>3. ASSUME NEW t \in Threads, Step(t)
      PROVE  pc[t] # "idle" /\ overlapped' = overlapped /\ \E s : pc' = [pc EXCEPT ![t] = s]
  BY <1>3 DEF Step, Update, Open, Write, Recently, Notify, Mark, Throws, Goto, history
<1>4. ASSUME NEW t \in Threads, Step(t)  PROVE Alone'
  <2>1. \A u \in Threads : pc'[u] # "idle" => pc[u] # "idle"
    BY <1>3, <1>4 DEF TypeOK
  <2> QED  BY <1>2, <1>3, <1>4, <2>1
<1>5. ASSUME NEW p \in Procs, Restart(p)  PROVE Alone'
  BY <1>2, <1>5 DEF Restart
<1>6. CASE Tick \/ SetBack \/ UNCHANGED vars
  BY <1>2, <1>6 DEF Tick, SetBack, vars, history
<1> QED  BY <1>1, <1>4, <1>5, <1>6 DEF Next

LEMMA NextKept ==
  ASSUME TypeOK, Documents, Alone, Kept, Effect
  PROVE  Kept'
<1> SUFFICES ASSUME ~overlapped', ~cut'
             PROVE  /\ Writing' \/ file'.others = origin'.others
                    /\ \A t \in Threads : pc'[t] \in Holding => cache'[t].others = origin'.others
  BY DEF Kept, OthersKept
<1>1. /\ origin' = origin /\ ~overlapped /\ ~cut
      /\ Writing \/ file.others = origin.others
      /\ \A t \in Threads : pc[t] \in Holding => cache[t].others = origin.others
  BY DEF Effect, Forward, Kept, OthersKept
<1>2. ASSUME NEW t \in Threads, TakesIn(t)
      PROVE  /\ file'.others = origin'.others
             /\ \A u \in Threads : pc'[u] \in Holding => cache'[u].others = origin'.others
  <2>1. ~Writing
    BY <1>1, <1>2 DEF TakesIn, Alone, Writing
  <2> QED  BY <1>1, <1>2, <2>1, LoadIsNoWorse DEF TakesIn, OthersStay
<1>3. ASSUME NEW t \in Threads, Truncates(t)
      PROVE  /\ Writing'
             /\ \A u \in Threads : pc'[u] \in Holding => cache'[u].others = origin'.others
  BY <1>1, <1>3 DEF Truncates, OthersStay, Writing
<1>4. ASSUME NEW t \in Threads, Fills(t)
      PROVE  /\ file'.others = origin'.others
             /\ \A u \in Threads : pc'[u] \in Holding => cache'[u].others = origin'.others
  BY <1>1, <1>4 DEF Fills, OthersStay, Holding
<1>5. CASE Elsewhere
  BY <1>1, <1>5 DEF Elsewhere, Writing
<1> QED  BY <1>2, <1>3, <1>4, <1>5 DEF Effect
-----------------------------------------------------------------------------
(* The stamp.                                                              *)

LEMMA LoadWritable ==
  ASSUME home = "writable", file.form = "object"
  PROVE  Load = file
BY DEF Load

LEMMA InitStamp == Init => StampKept
BY DEF Init, StampKept, HasStamp, StampHere

\* A step that leaves the documents in use alone, and the clock if it is in use.
LEMMA StampUntouched ==
  ASSUME TypeOK, TypeOK', StampKept, Undisturbed' => Undisturbed, UNCHANGED <<file, noticed>>,
         \A t \in Threads : pc'[t] = pc[t] /\ (pc[t] # "idle" => cache'[t] = cache[t]),
         clock' >= clock \/ \A t \in Threads : pc[t] = "idle"
  PROVE  StampKept'
<1> SUFFICES ASSUME Undisturbed
             PROVE  /\ (\A t \in Threads : pc'[t] = "idle") => HasStamp(file)'
                    /\ \A t \in Threads : StampHere(t)'
  BY DEF StampKept
<1>1. (\A t \in Threads : pc[t] = "idle") => HasStamp(file)
  BY DEF StampKept
<1>2. ASSUME NEW t \in Threads, pc[t] # "idle"  PROVE StampHere(t)'
  <2>1. StampHere(t) /\ pc'[t] = pc[t] /\ cache'[t] = cache[t] /\ clock' >= clock
    BY <1>2 DEF StampKept
  <2>2. clock \in Nat /\ clock' \in Nat /\ noticed \in Int
    BY DEF TypeOK, Never
  <2>3. HasStamp(file)' <=> HasStamp(file)
    BY DEF HasStamp
  <2>4. HasStamp(cache[t])' <=> HasStamp(cache[t])
    BY <2>1 DEF HasStamp
  <2>5. /\ clock - noticed >= Interval => clock' - noticed >= Interval
        /\ noticed <= clock => noticed <= clock'
    <3>1. clock' >= clock /\ Interval \in Int
      BY <2>1, VersionCheckAssumption
    <3>2. \A c, d, n, i \in Int : d >= c /\ c - n >= i => d - n >= i
      OBVIOUS
    <3>3. \A c, d, n \in Int : d >= c /\ n <= c => n <= d
      OBVIOUS
    <3>4. clock \in Int /\ clock' \in Int
      BY <2>2
    <3> QED  BY <2>2, <3>1, <3>2, <3>3, <3>4
  <2>6. (HasEntry(file)' <=> HasEntry(file)) /\ (HasEntry(cache[t])' <=> HasEntry(cache[t]))
    BY <2>1 DEF HasEntry
  <2> QED  BY <2>1, <2>3, <2>4, <2>5, <2>6 DEF StampHere
<1>3. \A t \in Threads : pc[t] = "idle" => StampHere(t)'
  BY DEF StampHere
<1>4. HasStamp(file) => HasStamp(file)'
  BY DEF HasStamp
<1> QED  BY <1>1, <1>2, <1>3, <1>4

\* A step of t after which t alone is in a check, or nobody is.
LEMMA StampMoves ==
  ASSUME TypeOK, NEW t \in Threads, NEW s, pc' = [pc EXCEPT ![t] = s],
         \A u \in Threads \ {t} : pc[u] = "idle",
         s = "idle" => HasStamp(file)', s # "idle" => StampHere(t)'
  PROVE  StampKept'
<1>1. \A u \in Threads : pc'[u] = IF u = t THEN s ELSE pc[u]
  BY DEF TypeOK
<1>2. \A u \in Threads \ {t} : StampHere(u)'
  BY <1>1 DEF StampHere
<1>3. s = "idle" => StampHere(t)'
  BY <1>1 DEF StampHere
<1>4. (\A u \in Threads : pc'[u] = "idle") => s = "idle"
  BY <1>1
<1> QED  BY <1>2, <1>3, <1>4 DEF StampKept

\* A step of t in a check, and what is known before it.
LEMMA InOneCheck ==
  ASSUME TypeOK, Alone, StampKept, NEW t \in Threads, Step(t), Undisturbed'
  PROVE  /\ Undisturbed /\ StampHere(t) /\ pc[t] # "idle"
         /\ \A u \in Threads \ {t} : pc[u] = "idle"
<1>1. pc[t] # "idle" /\ UNCHANGED <<overlapped, setBack, home>> /\ (cut => cut')
  BY DEF Step, Update, Open, Write, Recently, Notify, Mark, Throws, history, env
<1>2. Undisturbed
  BY <1>1 DEF Undisturbed
<1>3. \A u \in Threads \ {t} : pc[u] = "idle"
  BY <1>1, <1>2 DEF Alone, Undisturbed
<1> QED  BY <1>1, <1>2, <1>3 DEF StampKept

LEMMA StepKeepsStamp ==
  ASSUME TypeOK, Alone, StampKept, NEW t \in Threads, Step(t)
  PROVE  StampKept'
<1> SUFFICES ASSUME Undisturbed'  PROVE StampKept'
  BY DEF StampKept
<1>1. /\ Undisturbed /\ StampHere(t) /\ pc[t] # "idle"
      /\ \A u \in Threads \ {t} : pc[u] = "idle"
  BY InOneCheck
<1>2. ASSUME NEW why, Throws(t, why), why = "shape", HasStamp(file)  PROVE StampKept'
  BY <1>1, <1>2, StampMoves DEF Throws, Goto, HasStamp
<1>3. CASE Update(t)
  <2>1. pc[t] = "update" /\ HasStamp(file)
    BY <1>1, <1>3 DEF Update, StampHere
  <2>2. CASE Throws(t, "shape")
    BY <1>2, <2>1, <2>2
  <2>3. CASE /\ Load.form = "object"
             /\ cache' = [cache EXCEPT ![t] = WithLatest(Load, latest[t])]
             /\ Goto(t, "update_open") /\ UNCHANGED <<checked, file, tail, clock, history, env>>
    <3>1. cache'[t] = WithLatest(Load, latest[t]) /\ noticed' = noticed
      BY <2>3 DEF TypeOK, history
    <3>2. HasEntry(cache'[t])
      BY <2>3, <3>1, LoadIsDocument, WithLatestFields DEF HasEntry, TypeOK
    <3>3. noticed # Never => cache'[t].cpp.stamp = file.cpp.stamp
      <4>1. noticed # Never => Load = file
        BY <1>1, <2>1, LoadWritable DEF HasStamp, Undisturbed
      <4> QED  BY <3>1, <4>1, LoadIsDocument, WithLatestFields DEF TypeOK
    <3>4. HasStamp(cache[t])'
      BY <2>1, <3>1, <3>2, <3>3 DEF HasStamp, HasEntry
    <3>5. StampHere(t)'
      BY <2>3, <3>2, <3>4 DEF StampHere, Goto, TypeOK, HasEntry
    <3> QED  BY <1>1, <2>3, <3>5, StampMoves DEF Goto
  <2> QED  BY <1>3, <2>2, <2>3 DEF Update
<1>4. ASSUME NEW at, NEW next, NEW skip, Open(t, at, next, skip),
             \/ at = "update_open" /\ next = "update_write"
             \/ at = "mark_open" /\ next = "mark_write"
      PROVE  StampKept'
  <2>1. Goto(t, next) /\ cache' = cache /\ noticed' = noticed /\ pc[t] = at
    BY <1>1, <1>4 DEF Open, Undisturbed, history
  <2>2. HasEntry(cache[t]) /\ HasStamp(cache[t])
    BY <1>1, <1>4, <2>1 DEF StampHere
  <2>3. StampHere(t)'
    BY <1>4, <2>1, <2>2 DEF StampHere, HasEntry, HasStamp, Goto, TypeOK
  <2> QED  BY <1>1, <1>4, <2>1, <2>3, StampMoves DEF Goto
<1>5. ASSUME NEW at, NEW next, Write(t, at, next),
             \/ at = "update_write" /\ next = "recently"
             \/ at = "mark_write" /\ next = "idle"
      PROVE  StampKept'
  <2>1. /\ file' = cache[t] /\ Goto(t, next) /\ UNCHANGED history /\ pc[t] = at
    BY <1>5 DEF Write, Throws, Undisturbed
  <2>2. HasEntry(cache[t]) /\ HasStamp(cache[t])
    BY <1>1, <1>5, <2>1 DEF StampHere
  <2>3. HasEntry(file)' /\ HasStamp(file)'
    BY <2>1, <2>2 DEF HasEntry, HasStamp, history
  <2>4. next # "idle" => StampHere(t)'
    BY <1>5, <2>1, <2>3 DEF StampHere, Goto, TypeOK
  <2> QED  BY <1>1, <2>1, <2>3, <2>4, StampMoves DEF Goto
<1>6. CASE Recently(t)
  <2>1. HasEntry(file) /\ HasStamp(file) /\ Load = file
    BY <1>1, <1>6, LoadWritable DEF Recently, StampHere, HasEntry, Undisturbed
  <2>2. CASE Throws(t, "shape")
    BY <1>2, <2>1, <2>2
  <2>3. CASE /\ Goto(t, IF NotifiedRecently(Load) THEN "idle" ELSE "notify")
             /\ UNCHANGED <<checked, latest, cache, file, tail, clock, history, env>>
    <3>1. HasStamp(file)'
      BY <2>1, <2>3 DEF HasStamp, history
    <3>2. ASSUME ~NotifiedRecently(Load), noticed # Never  PROVE clock - noticed >= Interval
      <4>1. file.cpp.stamp \in Nat /\ file.cpp.stamp >= noticed
        BY <2>1, <3>2 DEF HasStamp
      <4>2. ~(clock - file.cpp.stamp < Interval)
        BY <2>1, <3>2, <4>1 DEF NotifiedRecently, Never
      <4> QED  BY <4>1, <4>2, VersionCheckAssumption DEF TypeOK, Never
    <3>3. ~NotifiedRecently(Load) => StampHere(t)'
      BY <2>1, <2>3, <3>2 DEF StampHere, HasEntry, Goto, TypeOK, history
    <3> QED  BY <1>1, <2>3, <3>1, <3>3, StampMoves DEF Goto
  <2> QED  BY <1>6, <2>2, <2>3 DEF Recently
<1>7. CASE Notify(t)
  <2>1. /\ HasEntry(file) /\ pc' = [pc EXCEPT ![t] = "mark"] /\ noticed' = clock
        /\ UNCHANGED <<file, clock>>
    BY <1>1, <1>7 DEF Notify, StampHere, Goto
  <2>2. StampHere(t)'
    BY <2>1 DEF StampHere, HasEntry, TypeOK
  <2> QED  BY <1>1, <2>1, <2>2, StampMoves
<1>8. CASE Mark(t)
  <2>1. HasEntry(file) /\ noticed <= clock /\ Load = file
    BY <1>1, <1>8, LoadWritable DEF Mark, StampHere, HasEntry, Undisturbed
  <2>2. /\ cache' = [cache EXCEPT ![t] = Stamped(Load)]
        /\ pc' = [pc EXCEPT ![t] = "mark_open"] /\ noticed' = noticed
    BY <1>8, <2>1 DEF Mark, HasEntry, Goto, history
  <2>3. cache'[t] = Stamped(file) /\ pc'[t] = "mark_open"
    BY <2>1, <2>2 DEF TypeOK
  <2>4. HasEntry(cache'[t])
    BY <2>1, <2>3, StampedFields DEF HasEntry, TypeOK
  <2>5. cache'[t].cpp.stamp = clock /\ clock \in Nat
    BY <2>3, StampedFields DEF TypeOK
  <2>6. StampHere(t)'
    BY <2>1, <2>2, <2>3, <2>4, <2>5 DEF StampHere, HasEntry, HasStamp
  <2> QED  BY <1>1, <2>2, <2>6, StampMoves
<1> QED  BY <1>3, <1>4, <1>5, <1>6, <1>7, <1>8 DEF Step

LEMMA NextStamp ==
  ASSUME TypeOK, TypeOK', Gate, Alone, Alone', StampKept, [Next]_vars
  PROVE  StampKept'
<1>1. ASSUME NEW t \in Threads, CompareExchange(t)  PROVE StampKept'
  <2>1. CASE UNCHANGED <<pc, overlapped>>
    BY <1>1, <2>1, StampUntouched DEF CompareExchange, Undisturbed, env, TypeOK
  <2>2. CASE Goto(t, "update")
    <3>0. overlapped => overlapped'
      BY <1>1 DEF CompareExchange
    <3>1. /\ pc' = [pc EXCEPT ![t] = "update"] /\ pc[t] = "idle"
          /\ UNCHANGED <<file, noticed, cut, setBack, home>>
      BY <1>1, <2>2 DEF CompareExchange, Goto, env
    <3>2. CASE Undisturbed'
      <4>1. Undisturbed /\ \A u \in Threads \ {t} : pc[u] = "idle"
        BY <3>0, <3>1, <3>2 DEF Undisturbed, Alone, TypeOK
      <4>2. HasStamp(file)
        BY <3>1, <4>1 DEF StampKept
      <4>3. StampHere(t)'
        BY <3>1, <4>2 DEF StampHere, HasStamp, TypeOK
      <4> QED  BY <3>1, <4>1, <4>3, StampMoves
    <3> QED  BY <3>2 DEF StampKept
  <2> QED  BY <1>1, <2>1, <2>2 DEF CompareExchange
<1>2. ASSUME NEW p \in Procs, Restart(p)  PROVE StampKept'
  <2>1. CASE InCheck(p)
    BY <1>2, <2>1 DEF Restart, StampKept, Undisturbed
  <2>2. CASE ~InCheck(p)
    <3>1. \A t \in Threads : t[1] = p => pc[t] = "idle"
      BY <2>2 DEF InCheck
    <3>2. \A t \in Threads : pc'[t] = pc[t] /\ (pc[t] # "idle" => cache'[t] = cache[t])
      BY <1>2, <3>1 DEF Restart
    <3>3. clock' >= clock
      BY <1>2 DEF Restart, TypeOK
    <3> QED  BY <1>2, <2>2, <3>2, <3>3, StampUntouched DEF Restart, Undisturbed, env
  <2> QED  BY <2>1, <2>2
<1>3. CASE Tick
  <2>1. clock' >= clock
    BY <1>3 DEF Tick, TypeOK
  <2> QED  BY <1>3, <2>1, StampUntouched DEF Tick, Undisturbed, history, env
<1>4. CASE SetBack
  <2>1. CASE setBack' = "during"
    BY <2>1 DEF StampKept, Undisturbed
  <2>2. CASE setBack' # "during"
    <3>1. \A t \in Threads : pc[t] = "idle"
      <4>1. \A t \in Threads : t[1] \in Procs
        BY DEF Threads
      <4> QED  BY <1>4, <2>2, <4>1 DEF SetBack, InCheck
    <3> QED  BY <1>4, <3>1, StampUntouched DEF SetBack, Undisturbed, env
  <2> QED  BY <2>1, <2>2
<1>5. CASE UNCHANGED vars
  <2>1. clock' >= clock
    BY <1>5 DEF vars, TypeOK
  <2> QED  BY <1>5, <2>1, StampUntouched DEF vars, Undisturbed
<1> QED  BY <1>1, <1>2, <1>3, <1>4, <1>5, StepKeepsStamp DEF Next
-----------------------------------------------------------------------------
(* The invariant.                                                          *)

LEMMA InitInvariant == Init => IInv
<1> SUFFICES ASSUME Init  PROVE IInv
  OBVIOUS
<1>1. TypeOK /\ Gate /\ StampKept
  BY InitTypes, InitGate, InitStamp
<1>2. \A t \in Threads : pc[t] = "idle" /\ pc[t] \notin Holding
  BY DEF Init, Holding
<1>3. file = origin /\ file \in Originals
  BY DEF Init
<1>4. \A d \in Originals : Blank(d) /\ d.cpp.stamp <= 0
  <2>1. \A f : Unusable(f).cpp.stamp = Never /\ Blank(Unusable(f))
    <3>1. NoEntry.stamp = Never
      BY DEF NoEntry
    <3> QED  BY <3>1, UnusableFields DEF Blank
  <2>2. \A e \in OriginalEntries : e.stamp <= 0
    BY DEF OriginalEntries, NoEntry, Never, BadStamp
  <2> QED  BY <2>1, <2>2 DEF Originals, Blank, Never
<1>5. Documents
  BY <1>2, <1>3, <1>4 DEF Documents, Init
<1>6. StaysReadable /\ Untouched /\ WholeWhenQuiet /\ Alone /\ Kept
  BY <1>2, <1>3 DEF StaysReadable, Untouched, WholeWhenQuiet, Alone, Kept, OthersKept, Init,
                    Holding
<1>7. Behind
  BY <1>2, <1>3, <1>4 DEF Behind, Init
<1> QED  BY <1>1, <1>5, <1>6, <1>7 DEF IInv

LEMMA NextInvariant == IInv /\ [Next]_vars => IInv'
<1> SUFFICES ASSUME IInv, [Next]_vars  PROVE IInv'
  OBVIOUS
<1>1. /\ TypeOK /\ Gate /\ Documents /\ StaysReadable /\ Untouched /\ WholeWhenQuiet
      /\ Behind /\ Alone /\ Kept /\ StampKept
  BY DEF IInv
<1>2. TypeOK' /\ Gate' /\ Alone' /\ Effect
  BY <1>1, NextTypes, NextGate, NextAlone, StepEffect
<1>3. Documents' /\ StaysReadable' /\ Untouched' /\ Behind' /\ Kept'
  BY <1>1, <1>2, NextDocuments, NextReadable, NextUntouched, NextBehind, NextKept
<1>4. StampKept' /\ WholeWhenQuiet'
  BY <1>1, <1>2, <1>3, NextStamp, NextWhole
<1> QED  BY <1>2, <1>3, <1>4 DEF IInv

LEMMA Inductive == Spec => []IInv
BY InitInvariant, NextInvariant, PTL DEF Spec

-----------------------------------------------------------------------------
(* The theorems.                                                           *)

\* One notice per process, whatever its threads do and however many other
\* processes rewrite the file (version_check.cpp:123-125).
THEOREM NoticeOnce == Spec => []OncePerProcess
<1>1. Spec => []Gate
  BY InitGate, NextGate, PTL DEF Spec
<1>2. Gate => OncePerProcess
  BY DEF Gate, Unprinted
<1> QED  BY <1>1, <1>2, PTL

\* Every state is of its type, whatever the processes and the clock do.
THEOREM TypesHold == Spec => []TypeOK
<1>1. IInv => TypeOK
  BY DEF IInv
<1> QED  BY <1>1, Inductive, PTL

\* Checks of any number of processes leave the entries of the other SDKs alone
\* until two of them overlap (save_cache, version_check.cpp).
THEOREM OthersAreKept == Spec => []OthersKept
<1>1. IInv => OthersKept
  BY DEF IInv, Kept, OthersKept
<1> QED  BY <1>1, Inductive, PTL

\* The file one check truncated is always filled again, and holds one document
\* and nothing else until two checks overlap; also after that it begins with a
\* whole one (save_cache, version_check.cpp:78-87).
THEOREM QuietFileIsWhole == Spec => []WholeWhenQuiet
<1>1. IInv => WholeWhenQuiet
  BY DEF IInv
<1> QED  BY <1>1, Inductive, PTL

\* No interleaving of loads, truncations and writes makes a document that a
\* later check fails on (update_latest_version and mark_notified).
THEOREM OnlyForeignFilesFail == Spec => []FailsOnForeignFile
<1>1. IInv => FailsOnForeignFile
  BY DEF IInv, StaysReadable, Readable, FailsOnForeignFile
<1> QED  BY <1>1, Inductive, PTL

\* A step in which a check finds that it need not print.
LEMMA QuietStep ==
  ASSUME IInv, [Next]_vars, NEW t \in Threads, pc[t] = "recently", pc'[t] = "idle",
         checked' = checked, setBack = "never", file.cpp.stamp # BadStamp
  PROVE  file.cpp.stamp \in (clock - Interval) + 1 .. clock
<1>1. TypeOK /\ file.cpp.stamp <= clock
  BY DEF IInv, Behind
<1>2. Recently(t)
  <2>1. \A u \in Threads : \A s : pc' = [pc EXCEPT ![u] = s] => u = t
    BY <1>1 DEF TypeOK
  <2>2. ~UNCHANGED pc
    OBVIOUS
  <2>3. \A p \in Procs : ~Restart(p)
    BY <1>1 DEF Restart, TypeOK
  <2>4. ASSUME NEW u \in Threads, CompareExchange(u)  PROVE FALSE
    BY <2>1, <2>2, <2>4 DEF CompareExchange, Goto
  <2>5. ASSUME NEW u \in Threads, Step(u)  PROVE u = t
    BY <2>1, <2>5 DEF Step, Update, Open, Write, Recently, Notify, Mark, Throws, Goto
  <2>6. ~Tick /\ ~SetBack /\ ~UNCHANGED vars
    BY <2>2 DEF Tick, SetBack, vars
  <2>7. Step(t)
    BY <2>3, <2>4, <2>5, <2>6 DEF Next
  <2> QED  BY <2>7 DEF Step, Update, Open, Write, Notify, Mark
<1>3. Load.cpp.stamp # BadStamp
  BY <1>1, LoadIsDocument, EmptyDocument DEF Never, BadStamp
<1>4. NotifiedRecently(Load)
  BY <1>1, <1>2, <1>3 DEF Recently, Goto, TypeOK
<1>5. Load.cpp.stamp # Never /\ clock - Load.cpp.stamp < Interval
  BY <1>4 DEF NotifiedRecently
<1>6. Load = file
  BY <1>1, <1>5, LoadIsDocument, EmptyDocument
<1>7. file.cpp.stamp \in Nat /\ clock \in Nat
  <2>1. \A d \in Document : d.cpp.stamp \in {Never, BadStamp} \cup Nat
    BY DEF Document, Entry
  <2> QED  BY <1>1, <1>5, <1>6, <2>1 DEF TypeOK
<1> QED  BY <1>1, <1>5, <1>6, <1>7, VersionCheckAssumption

\* A check is quiet only for the interval after a stamp, and no stamp is ahead
\* of a clock that was not set back (notified_recently and mark_notified).
THEOREM QuietIsRecent == Spec => QuietOnlyRecently
<1>1. IInv /\ [Next]_vars =>
        [\A t \in Threads :
           pc[t] = "recently" /\ pc'[t] = "idle" /\ checked' = checked /\ setBack = "never"
             /\ file.cpp.stamp # BadStamp => file.cpp.stamp \in (clock - Interval) + 1 .. clock]_vars
  BY QuietStep
<1> QED  BY <1>1, Inductive, PTL DEF Spec, QuietOnlyRecently

\* A step in which a process prints a notice.
LEMMA NoticeStep ==
  ASSUME IInv, [Next]_vars, NEW p \in Procs, printed'[p] > printed[p],
         Undisturbed, noticed # Never
  PROVE  clock - noticed >= Interval
<1>1. TypeOK /\ StampKept
  BY DEF IInv
<1>2. PICK t \in Threads : Notify(t)
  <2>1. printed[p] \in Nat /\ ~UNCHANGED printed
    BY <1>1 DEF TypeOK
  <2>2. ASSUME NEW q \in Procs, Restart(q)  PROVE FALSE
    BY <1>1, <2>1, <2>2 DEF Restart, TypeOK
  <2>3. \A t \in Threads : ~CompareExchange(t)
    BY <2>1 DEF CompareExchange
  <2>4. ASSUME NEW t \in Threads, Step(t)  PROVE Notify(t)
    BY <2>1, <2>4 DEF Step, Update, Open, Write, Recently, Mark, Throws, history
  <2>5. ~Tick /\ ~SetBack /\ ~UNCHANGED vars
    BY <2>1 DEF Tick, SetBack, vars, history
  <2> QED  BY <2>2, <2>3, <2>4, <2>5 DEF Next
<1>3. pc[t] = "notify" /\ StampHere(t)
  BY <1>1, <1>2 DEF Notify, StampKept
<1> QED  BY <1>3 DEF StampHere

\* Two notices are the interval apart, by any processes and whenever the clock
\* was set back between two checks, while nothing keeps a check from its stamp
\* (check_for_updates).
THEOREM NoticesAreApart == Spec => NoticesApart
<1>1. IInv /\ [Next]_vars =>
        [\A p \in Procs :
           printed'[p] > printed[p] /\ home = "writable" /\ ~overlapped /\ ~cut
             /\ setBack # "during" /\ noticed # Never => clock - noticed >= Interval]_vars
  BY NoticeStep DEF Undisturbed
<1> QED  BY <1>1, Inductive, PTL DEF Spec, NoticesApart
-----------------------------------------------------------------------------
(* The order of versions: a release is told from an earlier one by the     *)
(* first digit of the date in which they differ, or by its patch.          *)

\* The release numbering beside the check, for any first day and bounds.
CONSTANTS FirstDay, MaxDay, MaxPatch
VARIABLES released, installed

Order == INSTANCE VersionOrder

Number == {n \in Nat : n <= 99999999}

\* The numbers of eight digits, as the dates are.
Long(n) == n >= 10000000

D(n, i) == Order!Padded(n)[i]

\* The number the first i of the eight digits make.
Prefix(n, i) == n \div Order!Place[i]

\* The prefixes grow digit by digit from nothing to the number.
LEMMA Prefixes ==
  ASSUME NEW n \in Number
  PROVE  /\ \A i \in 1 .. 8 : Prefix(n, i) \in Nat /\ D(n, i) = Prefix(n, i) % 10
         /\ Prefix(n, 1) < 10 /\ Prefix(n, 8) = n
         /\ \A i \in 1 .. 7 : Prefix(n, i + 1) = 10 * Prefix(n, i) + D(n, i + 1)
<1> n \in Nat
  BY DEF Number
<1>1. /\ Prefix(n, 1) = n \div 10000000 /\ Prefix(n, 2) = n \div 1000000
      /\ Prefix(n, 3) = n \div 100000 /\ Prefix(n, 4) = n \div 10000
      /\ Prefix(n, 5) = n \div 1000 /\ Prefix(n, 6) = n \div 100
      /\ Prefix(n, 7) = n \div 10 /\ Prefix(n, 8) = n \div 1
  BY SMT DEF Prefix, Order!Place
<1>2. \A i \in 1 .. 8 : D(n, i) = Prefix(n, i) % 10
  BY SMT DEF D, Prefix, Order!Padded
<1>3. /\ n \div 10000000 \in Nat /\ n \div 1000000 \in Nat
      /\ n \div 100000 \in Nat /\ n \div 10000 \in Nat
      /\ n \div 1000 \in Nat /\ n \div 100 \in Nat
      /\ n \div 10 \in Nat /\ n \div 1 \in Nat
  BY SMT
<1>4. \A i \in 1 .. 8 : Prefix(n, i) \in Nat
  BY <1>1, <1>3, SMT
<1>5. Prefix(n, 1) < 10
  <2>1. n \div 10000000 < 10
    BY SMT DEF Number
  <2> QED
    BY <1>1, <2>1, SMT
<1>6. Prefix(n, 8) = n
  <2>1. n \div 1 = n
    BY SMT
  <2> QED
    BY <1>1, <2>1, SMT
<1>7. n \div 1 = 10 * (n \div 10) + ((n \div 1) % 10)
  BY SMT
<1>8. n \div 10 = 10 * (n \div 100) + ((n \div 10) % 10)
  BY SMT
<1>9. n \div 100 = 10 * (n \div 1000) + ((n \div 100) % 10)
  BY SMT
<1>10. n \div 1000 = 10 * (n \div 10000) + ((n \div 1000) % 10)
  BY SMT
<1>11. n \div 10000 = 10 * (n \div 100000) + ((n \div 10000) % 10)
  BY SMT
<1>12. n \div 100000 = 10 * (n \div 1000000) + ((n \div 100000) % 10)
  BY SMT
<1>13. n \div 1000000 = 10 * (n \div 10000000) + ((n \div 1000000) % 10)
  BY SMT
<1>14. \A i \in 1 .. 7 : Prefix(n, i + 1) = 10 * Prefix(n, i) + (Prefix(n, i + 1) % 10)
  <2> DEFINE Grows(j, k) == Prefix(n, k) = 10 * Prefix(n, j) + (Prefix(n, k) % 10)
  <2>1. /\ Grows(1, 2) /\ Grows(2, 3) /\ Grows(3, 4) /\ Grows(4, 5)
        /\ Grows(5, 6) /\ Grows(6, 7) /\ Grows(7, 8)
    BY <1>1, <1>7, <1>8, <1>9, <1>10, <1>11, <1>12, <1>13, SMT
  <2>2. \A i \in 1 .. 7 : Grows(i, i + 1)
    <3> HIDE DEF Grows
    <3> QED
      BY <2>1, SMT
  <2> QED
    BY <2>2
<1>15. \A i \in 1 .. 7 : i + 1 \in 1 .. 8
  OBVIOUS
<1> QED
  BY <1>2, <1>4, <1>5, <1>6, <1>14, <1>15, Zenon

\* The padded digits are eight digits.
LEMMA DigitsAre ==
  ASSUME NEW n \in Number
  PROVE  /\ Order!Padded(n) \in Seq(0 .. 9) /\ Len(Order!Padded(n)) = 8
         /\ \A i \in 1 .. 8 : D(n, i) \in 0 .. 9
<1>1. \A k \in Nat : k % 10 \in 0 .. 9
  BY SMT
<1>2. \A i \in 1 .. 8 : D(n, i) \in 0 .. 9
  BY <1>1, Prefixes
<1>3. Order!Padded(n) \in [1 .. 8 -> 0 .. 9]
  BY <1>2, SMT DEF D, Order!Padded
<1>4. Order!Padded(n) \in Seq(0 .. 9)
  BY <1>3, SeqDef
<1>5. Len(Order!Padded(n)) = 8
  BY <1>3, <1>4, LenProperties
<1> QED
  BY <1>2, <1>4, <1>5

\* Division keeps the order.
LEMMA PrefixesKeepOrder ==
  ASSUME NEW m \in Number, NEW n \in Number, m < n
  PROVE  \A i \in 1 .. 8 : Prefix(m, i) <= Prefix(n, i)
<1>1. ASSUME NEW p \in Nat, NEW q \in Nat, NEW a \in 0 .. 9, NEW b \in 0 .. 9,
             10 * p + a <= 10 * q + b
      PROVE  p <= q
  BY <1>1, SMT
<1>2. ASSUME NEW i \in 1 .. 7, Prefix(m, i + 1) <= Prefix(n, i + 1)
      PROVE  Prefix(m, i) <= Prefix(n, i)
  <2>1. i \in 1 .. 8 /\ i + 1 \in 1 .. 8
    OBVIOUS
  <2>2. /\ Prefix(m, i) \in Nat /\ Prefix(n, i) \in Nat
        /\ D(m, i + 1) \in 0 .. 9 /\ D(n, i + 1) \in 0 .. 9
    BY <2>1, Prefixes, DigitsAre
  <2>3. 10 * Prefix(m, i) + D(m, i + 1) <= 10 * Prefix(n, i) + D(n, i + 1)
    BY <1>2, Prefixes
  <2> QED
    BY <1>1, <2>2, <2>3
<1>3. Prefix(m, 8) <= Prefix(n, 8)
  BY Prefixes, SMT DEF Number
<1> DEFINE Le(i) == Prefix(m, i) <= Prefix(n, i)
<1>4. \A i \in 1 .. 7 : Le(i + 1) => Le(i)
  BY <1>2
<1>5. Le(8)
  BY <1>3
<1> HIDE DEF Le
<1>6. Le(7) /\ Le(6) /\ Le(5) /\ Le(4) /\ Le(3) /\ Le(2) /\ Le(1)
  <2>1. Le(7)
    BY <1>4, <1>5, SMT
  <2>2. Le(6)
    BY <1>4, <2>1, SMT
  <2>3. Le(5)
    BY <1>4, <2>2, SMT
  <2>4. Le(4)
    BY <1>4, <2>3, SMT
  <2>5. Le(3)
    BY <1>4, <2>4, SMT
  <2>6. Le(2)
    BY <1>4, <2>5, SMT
  <2>7. Le(1)
    BY <1>4, <2>6, SMT
  <2> QED
    BY <2>1, <2>2, <2>3, <2>4, <2>5, <2>6, <2>7
<1>7. \A i \in 1 .. 8 : Le(i)
  BY <1>5, <1>6, SMT
<1> QED
  BY <1>7 DEF Le

\* A least number of a set of places.
LEMMA LeastPlace ==
  ASSUME NEW S \in SUBSET (1 .. 8), S # {}
  PROVE  \E i \in S : \A j \in S : i <= j
<1>1. \/ 1 \in S \/ 2 \in S \/ 3 \in S \/ 4 \in S
      \/ 5 \in S \/ 6 \in S \/ 7 \in S \/ 8 \in S
  <2>1. PICK x \in S : TRUE
    OBVIOUS
  <2>2. x \in 1 .. 8
    BY <2>1
  <2>3. \/ x = 1 \/ x = 2 \/ x = 3 \/ x = 4
        \/ x = 5 \/ x = 6 \/ x = 7 \/ x = 8
    BY <2>2, SMT
  <2> QED
    BY <2>1, <2>3
<1> QED
  BY <1>1, SMT

\* Of two numbers the less has the less digit where they differ first.
LEMMA FirstDifference ==
  ASSUME NEW m \in Number, NEW n \in Number, m < n
  PROVE  \E i \in 1 .. 8 : /\ \A j \in 1 .. (i - 1) : D(m, j) = D(n, j)
                           /\ D(m, i) < D(n, i)
<1> DEFINE S == {i \in 1 .. 8 : Prefix(m, i) # Prefix(n, i)}
<1>1. 8 \in S
  BY Prefixes, SMT DEF Number
<1>2. PICK i \in S : \A j \in S : i <= j
  BY <1>1, LeastPlace
<1>3. \A j \in 1 .. (i - 1) : j \in 1 .. 8 /\ Prefix(m, j) = Prefix(n, j)
  BY <1>2, SMT
<1>4. \A j \in 1 .. (i - 1) : D(m, j) = D(n, j)
  <2> SUFFICES ASSUME NEW j \in 1 .. (i - 1) PROVE D(m, j) = D(n, j)
    OBVIOUS
  <2>1. j \in 1 .. 8 /\ Prefix(m, j) = Prefix(n, j)
    BY <1>3
  <2>2. D(m, j) = Prefix(m, j) % 10 /\ D(n, j) = Prefix(n, j) % 10
    BY <2>1, Prefixes
  <2> QED
    BY <2>1, <2>2
<1>5. i \in 1 .. 8 /\ Prefix(m, i) < Prefix(n, i)
  <2>1. i \in 1 .. 8 /\ Prefix(m, i) # Prefix(n, i) /\ Prefix(m, i) <= Prefix(n, i)
    BY <1>2, PrefixesKeepOrder
  <2>2. Prefix(m, i) \in Nat /\ Prefix(n, i) \in Nat
    BY <2>1, Prefixes
  <2> QED
    BY <2>1, <2>2, SMT
<1>6. D(m, i) < D(n, i)
  <2>1. CASE i = 1
    <3>1. /\ Prefix(m, 1) \in Nat /\ Prefix(m, 1) < 10 /\ D(m, 1) = Prefix(m, 1) % 10
          /\ Prefix(n, 1) \in Nat /\ Prefix(n, 1) < 10 /\ D(n, 1) = Prefix(n, 1) % 10
      BY Prefixes
    <3>2. \A k \in Nat : k < 10 => k % 10 = k
      BY SMT
    <3> QED
      BY <1>5, <2>1, <3>1, <3>2
  <2>2. CASE i # 1
    <3>1. i - 1 \in 1 .. 7 /\ i - 1 \in 1 .. (i - 1) /\ (i - 1) + 1 = i
      BY <1>5, <2>2, SMT
    <3>2. /\ Prefix(m, i) = 10 * Prefix(m, i - 1) + D(m, i)
          /\ Prefix(n, i) = 10 * Prefix(n, i - 1) + D(n, i)
      BY <3>1, Prefixes
    <3>3. Prefix(m, i - 1) = Prefix(n, i - 1)
      BY <1>3, <3>1
    <3>4. Prefix(m, i - 1) \in Nat /\ D(m, i) \in 0 .. 9 /\ D(n, i) \in 0 .. 9
      BY <1>3, <1>5, <3>1, Prefixes, DigitsAre
    <3>5. \A p \in Nat, a, b \in 0 .. 9 : 10 * p + a < 10 * p + b => a < b
      BY SMT
    <3> QED
      BY <1>5, <3>2, <3>3, <3>4, <3>5
  <2> QED
    BY <2>1, <2>2
<1> QED
  BY <1>4, <1>5, <1>6

\* The digits tell a number from nothing, one of eight digits and one of one.
LEMMA TellingDigits ==
  ASSUME NEW n \in Number
  PROVE  /\ n # 0 => \E i \in 1 .. 8 : D(n, i) # 0
         /\ Long(n) => D(n, 1) # 0
         /\ n < 10 => D(n, 8) = n /\ \A i \in 1 .. 7 : D(n, i) = 0
<1> n \in Nat
  BY DEF Number
<1>1. ASSUME \A i \in 1 .. 8 : D(n, i) = 0
      PROVE  n = 0
  <2> DEFINE Nil(i) == Prefix(n, i) = 0
  <2>1. Nil(1)
    <3>1. Prefix(n, 1) \in Nat /\ Prefix(n, 1) < 10 /\ Prefix(n, 1) % 10 = 0
      BY <1>1, Prefixes
    <3>2. \A k \in Nat : k < 10 => k % 10 = k
      BY SMT
    <3> QED
      BY <3>1, <3>2
  <2>2. \A i \in 1 .. 7 : Nil(i) => Nil(i + 1)
    <3> SUFFICES ASSUME NEW i \in 1 .. 7, Prefix(n, i) = 0 PROVE Prefix(n, i + 1) = 0
      OBVIOUS
    <3>1. i + 1 \in 1 .. 8
      OBVIOUS
    <3>2. D(n, i + 1) = 0
      BY <1>1, <3>1
    <3>3. Prefix(n, i + 1) = 10 * Prefix(n, i) + D(n, i + 1)
      BY Prefixes
    <3> QED
      BY <3>2, <3>3
  <2>3. Nil(8)
    <3> HIDE DEF Nil
    <3>1. Nil(2)
      BY <2>1, <2>2, SMT
    <3>2. Nil(3)
      BY <2>2, <3>1, SMT
    <3>3. Nil(4)
      BY <2>2, <3>2, SMT
    <3>4. Nil(5)
      BY <2>2, <3>3, SMT
    <3>5. Nil(6)
      BY <2>2, <3>4, SMT
    <3>6. Nil(7)
      BY <2>2, <3>5, SMT
    <3> QED
      BY <2>2, <3>6, SMT
  <2> QED
    BY <2>3, Prefixes
<1>2. ASSUME Long(n) PROVE D(n, 1) # 0
  <2>1. D(n, 1) = (n \div 10000000) % 10
    BY SMT DEF D, Order!Padded, Order!Place
  <2>2. n \div 10000000 >= 1 /\ n \div 10000000 < 10 /\ n \div 10000000 \in Nat
    BY <1>2, SMT DEF Long, Number
  <2>3. \A k \in Nat : k < 10 /\ k >= 1 => k % 10 # 0
    BY SMT
  <2> QED
    BY <2>1, <2>2, <2>3, SMT
<1>3. ASSUME n < 10 PROVE D(n, 8) = n /\ \A i \in 1 .. 7 : D(n, i) = 0
  <2>1. /\ D(n, 1) = (n \div 10000000) % 10 /\ D(n, 2) = (n \div 1000000) % 10
        /\ D(n, 3) = (n \div 100000) % 10 /\ D(n, 4) = (n \div 10000) % 10
        /\ D(n, 5) = (n \div 1000) % 10 /\ D(n, 6) = (n \div 100) % 10
        /\ D(n, 7) = (n \div 10) % 10 /\ D(n, 8) = (n \div 1) % 10
    BY SMT DEF D, Order!Padded, Order!Place
  <2>2. /\ n \div 10000000 = 0 /\ n \div 1000000 = 0 /\ n \div 100000 = 0
        /\ n \div 10000 = 0 /\ n \div 1000 = 0 /\ n \div 100 = 0
        /\ n \div 10 = 0 /\ n \div 1 = n
    BY <1>3, SMT
  <2>3. 0 % 10 = 0 /\ n % 10 = n
    BY <1>3, SMT
  <2> QED
    BY <2>1, <2>2, <2>3, SMT
<1> QED
  BY <1>1, <1>2, <1>3

\* The digits of a number are a text of digits; one digit is itself.
LEMMA TextsOfNumbers ==
  ASSUME NEW n \in Number
  PROVE  /\ Order!Digits(n) \in Seq(0 .. 9)
         /\ Long(n) => Order!Digits(n) = Order!Padded(n)
         /\ n < 10 => Len(Order!Digits(n)) = 1 /\ Order!Digits(n)[1] = n
<1> DEFINE p == Order!Padded(n)
           I == {i \in 1 .. 8 : p[i] # 0}
<1>1. p \in Seq(0 .. 9) /\ Len(p) = 8 /\ \A i \in 1 .. 8 : p[i] \in 0 .. 9
  BY DigitsAre DEF D
<1>2. /\ n # 0 => \E i \in 1 .. 8 : p[i] # 0
      /\ Long(n) => p[1] # 0
      /\ n < 10 => p[8] = n /\ \A i \in 1 .. 7 : p[i] = 0
  BY TellingDigits DEF D
<1>3. n \in Nat
  BY DEF Number
<1>4. ASSUME NEW f \in 1 .. 8
      PROVE  /\ SubSeq(p, f, 8) \in Seq(0 .. 9)
             /\ Len(SubSeq(p, f, 8)) = 9 - f
             /\ SubSeq(p, f, 8)[1] = p[f]
  <2> HIDE DEF p
  <2>1. \A i \in f .. 8 : p[i] \in 0 .. 9
    BY <1>1, SMT
  <2>2. SubSeq(p, f, 8) \in Seq(0 .. 9)
    BY <2>1, SubSeqProperties, SMT
  <2> QED
    BY <1>1, <2>2, SubSeqProperties, SMT
<1>5. SubSeq(p, 1, 8) = p
  <2> HIDE DEF p
  <2> QED
    BY <1>1, SMT
<1>6. CASE n = 0
  <2>1. Order!Digits(n) = SubSeq(p, 8, 8)
    BY <1>6, SMT DEF Order!Digits
  <2>2. p[8] = 0 /\ 9 - 8 = 1 /\ 8 \in 1 .. 8 /\ n < 10 /\ ~Long(n)
    BY <1>2, <1>6, SMT DEF Long
  <2> HIDE DEF p
  <2> QED
    BY <1>4, <1>6, <2>1, <2>2
<1>7. CASE n # 0
  <2>1. I # {} /\ I \in SUBSET (1 .. 8)
    BY <1>2, <1>7
  <2>2. PICK f \in I : \A i \in I : f <= i
    <3> HIDE DEF I
    <3> QED
      BY <2>1, LeastPlace
  <2>3. Order!Min(I) = f
    <3> HIDE DEF I
    <3>1. \A i \in I : i \in 1 .. 8
      BY <2>1
    <3>2. \A g \in I : (\A i \in I : g <= i) => g = f
      BY <2>2, <3>1, SMT
    <3> QED
      BY <2>2, <3>2, Zenon DEF Order!Min
  <2>4. Order!Digits(n) = SubSeq(p, f, 8)
    <3>1. {i \in 1 .. Len(p) : p[i] # 0} = I
      BY <1>1
    <3>2. Order!Digits(n) = SubSeq(p, Order!SelectInSeq(p, LAMBDA d : d # 0), 8)
      BY <1>7 DEF Order!Digits
    <3>3. Order!SelectInSeq(p, LAMBDA d : d # 0) = Order!Min(I)
      BY <2>1, <3>1 DEF Order!SelectInSeq
    <3> QED
      BY <2>3, <3>2, <3>3
  <2>5. f \in 1 .. 8 /\ p[f] # 0 /\ \A i \in 1 .. 8 : p[i] # 0 => f <= i
    BY <2>2
  <2> HIDE DEF I, p
  <2>6. Long(n) => f = 1
    <3>1. f \in 1 .. 8 /\ (p[1] # 0 => f <= 1)
      BY <2>5
    <3> QED
      BY <1>2, <3>1, SMT
  <2>7. n < 10 => f = 8 /\ p[8] = n
    <3>1. (\A i \in 1 .. 7 : p[i] = 0) => f = 8
      BY <2>5, SMT
    <3> QED
      BY <1>2, <3>1
  <2>8. SubSeq(p, f, 8) \in Seq(0 .. 9) /\ Len(SubSeq(p, f, 8)) = 9 - f
          /\ SubSeq(p, f, 8)[1] = p[f]
    BY <1>4, <2>5
  <2>9. 9 - 8 = 1
    OBVIOUS
  <2>10. p = Order!Padded(n)
    BY DEF p
  <2>11. Long(n) => Order!Digits(n) = Order!Padded(n)
    BY <1>5, <2>4, <2>6, <2>10
  <2>12. n < 10 => Len(Order!Digits(n)) = 1 /\ Order!Digits(n)[1] = n
    BY <2>4, <2>7, <2>8, <2>9
  <2> QED
    BY <2>4, <2>8, <2>11, <2>12
<1> QED
  BY <1>6, <1>7

\* u is the m characters of s and then the n of t.
Follows(u, s, m, t, n) ==
  /\ u \in Seq(Int) /\ Len(u) = m + n
  /\ \A i \in 1 .. m : u[i] = s[i]
  /\ \A i \in 1 .. n : u[i + m] = t[i]

\* A text after another.
LEMMA Joined ==
  ASSUME NEW s \in Seq(Int), NEW t \in Seq(Int)
  PROVE  Follows(s \o t, s, Len(s), t, Len(t))
<1> DEFINE u == s \o t
           m == Len(s)
           n == Len(t)
<1>1. m \in Nat /\ n \in Nat
  BY LenProperties
<1>2. u \in Seq(Int) /\ Len(u) = m + n
  BY ConcatProperties
<1>3. \A i \in 1 .. m + n : u[i] = IF i <= m THEN s[i] ELSE t[i - m]
  BY <1>2, ConcatProperties
<1> HIDE DEF u, m, n
<1>4. \A i \in 1 .. m : u[i] = s[i]
  BY <1>1, <1>3
<1>5. ASSUME NEW i \in 1 .. n PROVE u[i + m] = t[i]
  <2>1. i + m \in 1 .. m + n /\ ~(i + m <= m) /\ (i + m) - m = i
    BY <1>1
  <2> QED
    BY <1>3, <2>1
<1> QED
  BY <1>2, <1>4, <1>5 DEF Follows, u, m, n

\* t is one character, x, eight characters, x and a rest.
Divided(t, a, x, b, c) ==
  /\ t \in Seq(Int) /\ Len(t) = 11 + Len(c)
  /\ t[1] = a[1] /\ t[2] = x /\ t[11] = x
  /\ \A i \in 1 .. 8 : t[i + 2] = b[i]
  /\ \A i \in 1 .. Len(c) : t[i + 11] = c[i]

\* A text of five parts, character by character.
LEMMA FiveParts ==
  ASSUME NEW a \in Seq(Int), NEW b \in Seq(Int), NEW c \in Seq(Int), NEW x \in Int,
         Len(a) = 1, Len(b) = 8
  PROVE  Divided(a \o <<x>> \o b \o <<x>> \o c, a, x, b, c)
<1> DEFINE x1 == <<x>>
           u == a \o x1
           v == u \o b
           w == v \o x1
           t == w \o c
<1>1. x1 \in Seq(Int) /\ Len(x1) = 1 /\ x1[1] = x
  OBVIOUS
<1>2. Follows(u, a, 1, x1, 1)
  <2> HIDE DEF x1
  <2> QED
    BY <1>1, Joined
<1>3. u \in Seq(Int) /\ u[1] = a[1] /\ u[2] = x /\ Len(u) = 2
  <2>1. u \in Seq(Int) /\ Len(u) = 1 + 1
    BY <1>2 DEF Follows
  <2>2. \A i \in 1 .. 1 : u[i] = a[i]
    BY <1>2 DEF Follows
  <2>3. \A i \in 1 .. 1 : u[i + 1] = x1[i]
    BY <1>2 DEF Follows
  <2> HIDE DEF u, x1
  <2> QED
    BY <1>1, <2>1, <2>2, <2>3
<1>4. Follows(v, u, 2, b, 8)
  <2> HIDE DEF u
  <2> QED
    BY <1>3, Joined
<1>5. /\ v \in Seq(Int) /\ Len(v) = 10
      /\ \A i \in 1 .. 2 : v[i] = u[i]
      /\ \A i \in 1 .. 8 : v[i + 2] = b[i]
  <2> HIDE DEF v, u
  <2> QED
    BY <1>4 DEF Follows
<1>6. Follows(w, v, 10, x1, 1)
  <2> HIDE DEF v, x1
  <2> QED
    BY <1>1, <1>5, Joined
<1>7. /\ w \in Seq(Int) /\ Len(w) = 11 /\ w[11] = x
      /\ \A i \in 1 .. 10 : w[i] = v[i]
  <2> HIDE DEF w, v, x1
  <2>1. 1 \in 1 .. 1 /\ 1 + 10 = 11 /\ 10 + 1 = 11
    OBVIOUS
  <2> QED
    BY <1>1, <1>6, <2>1 DEF Follows
<1>8. Follows(t, w, 11, c, Len(c))
  <2> HIDE DEF w
  <2> QED
    BY <1>7, Joined
<1>9. t = a \o <<x>> \o b \o <<x>> \o c
  OBVIOUS
<1> HIDE DEF t, w, v, u, x1
<1>10. /\ t \in Seq(Int) /\ Len(t) = 11 + Len(c)
       /\ \A i \in 1 .. 11 : t[i] = w[i]
       /\ \A i \in 1 .. Len(c) : t[i + 11] = c[i]
  BY <1>8 DEF Follows
<1>11. t[1] = a[1] /\ t[2] = x /\ t[11] = x
  <2>1. t[1] = w[1] /\ t[2] = w[2] /\ t[11] = w[11]
    BY <1>10
  <2>2. w[1] = v[1] /\ w[2] = v[2]
    BY <1>7
  <2>3. v[1] = u[1] /\ v[2] = u[2]
    BY <1>5
  <2> QED
    BY <1>3, <1>7, <2>1, <2>2, <2>3, Zenon
<1>12. ASSUME NEW i \in 1 .. 8 PROVE t[i + 2] = b[i]
  <2>1. i + 2 \in 1 .. 11 /\ i + 2 \in 1 .. 10
    OBVIOUS
  <2> QED
    BY <1>5, <1>7, <1>10, <2>1, Zenon
<1>13. Divided(t, a, x, b, c)
  BY <1>10, <1>11, <1>12 DEF Divided
<1> QED
  BY <1>9, <1>13

\* The text of a version: the major number, the date's digits and the patch's.
LEMMA VersionTexts ==
  ASSUME Order!EightDigits, NEW v \in Order!Version
  PROVE  LET t == Order!VersionText(v)
             c == Order!Digits(v.patch)
         IN  /\ t \in Seq(Int) /\ Len(t) = 11 + Len(c) /\ Len(c) \in Nat
             /\ t[1] = 1 /\ t[2] = Order!DOT /\ t[11] = Order!DOT
             /\ \A i \in 1 .. 8 : t[i + 2] = D(v.date, i)
             /\ \A i \in 1 .. Len(c) : t[i + 11] = c[i]
<1>1. /\ v.major = 1 /\ v.date \in FirstDay .. MaxDay /\ v.patch \in 0 .. MaxPatch
  BY DEF Order!Version
<1>2. 1 \in Number /\ v.date \in Number /\ Long(v.date) /\ v.patch \in Number
  BY <1>1, SMT DEF Order!EightDigits, Number, Long
<1>3. /\ Order!Digits(1) \in Seq(Int) /\ Len(Order!Digits(1)) = 1 /\ Order!Digits(1)[1] = 1
  <2>1. /\ Order!Digits(1) \in Seq(0 .. 9)
        /\ 1 < 10 => Len(Order!Digits(1)) = 1 /\ Order!Digits(1)[1] = 1
    BY <1>2, TextsOfNumbers
  <2> QED
    BY <2>1
<1>4. Order!Digits(v.patch) \in Seq(Int)
  <2>1. Order!Digits(v.patch) \in Seq(0 .. 9)
    BY <1>2, TextsOfNumbers
  <2> QED
    BY <2>1
<1>5. /\ Order!Digits(v.date) \in Seq(Int) /\ Len(Order!Digits(v.date)) = 8
      /\ \A i \in 1 .. 8 : Order!Digits(v.date)[i] = D(v.date, i)
  <2>1. Order!Digits(v.date) = Order!Padded(v.date)
    BY <1>2, TextsOfNumbers
  <2>2. Order!Padded(v.date) \in Seq(0 .. 9) /\ Len(Order!Padded(v.date)) = 8
    BY <1>2, DigitsAre
  <2> QED
    BY <2>1, <2>2 DEF D
<1>6. Order!DOT \in Int
  BY DEF Order!DOT
<1>7. Order!VersionText(v) =
        Order!Digits(1) \o <<Order!DOT>> \o Order!Digits(v.date) \o <<Order!DOT>>
          \o Order!Digits(v.patch)
  BY <1>1 DEF Order!VersionText
<1>8. Len(Order!Digits(v.patch)) \in Nat
  BY <1>4, LenProperties
<1> DEFINE t == Order!VersionText(v)
           a == Order!Digits(1)
           b == Order!Digits(v.date)
           c == Order!Digits(v.patch)
           x == Order!DOT
<1> HIDE DEF t, a, b, c, x
<1>9. Divided(t, a, x, b, c)
  <2>1. /\ a \in Seq(Int) /\ b \in Seq(Int) /\ c \in Seq(Int) /\ x \in Int
        /\ Len(a) = 1 /\ Len(b) = 8 /\ t = a \o <<x>> \o b \o <<x>> \o c
    BY <1>3, <1>4, <1>5, <1>6, <1>7, Zenon DEF t, a, b, c, x
  <2> QED
    BY <2>1, FiveParts
<1>10. a[1] = 1 /\ Len(c) \in Nat /\ \A i \in 1 .. 8 : b[i] = D(v.date, i)
  BY <1>3, <1>5, <1>8 DEF a, b, c
<1>11. /\ t \in Seq(Int) /\ Len(t) = 11 + Len(c)
       /\ t[1] = a[1] /\ t[2] = x /\ t[11] = x
       /\ \A i \in 1 .. 8 : t[i + 2] = b[i]
       /\ \A i \in 1 .. Len(c) : t[i + 11] = c[i]
  BY <1>9, Zenon DEF Divided
<1>12. \A i \in 1 .. 8 : t[i + 2] = D(v.date, i)
  BY <1>10, <1>11, Zenon
<1> QED
  BY <1>10, <1>11, <1>12, Zenon DEF t, c, x

\* No text is greater than itself.
LEMMA NotGreaterThanItself ==
  ASSUME NEW t \in Seq(Int)
  PROVE  ~Order!TextGreater(t, t)
<1>1. \A i \in 1 .. Len(t) : t[i] \in Int
  BY LenProperties
<1>2. \A i \in 1 .. Len(t) : ~(t[i] > t[i])
  BY <1>1
<1>3. ~Order!IsStrictPrefix(t, t)
  BY DEF Order!IsStrictPrefix
<1> QED
  BY <1>2, <1>3 DEF Order!TextGreater

\* A later date makes a greater version.
LEMMA LaterDateIsNewer ==
  ASSUME Order!EightDigits, NEW v \in Order!Version, NEW w \in Order!Version,
         w.date < v.date
  PROVE  Order!IsNewerVersion(v, w)
<1> DEFINE a == Order!VersionText(v)
           b == Order!VersionText(w)
<1>1. /\ v.date \in Number /\ w.date \in Number
  BY SMT DEF Order!Version, Order!EightDigits, Number
<1>2. PICK i \in 1 .. 8 : /\ \A j \in 1 .. (i - 1) : D(w.date, j) = D(v.date, j)
                          /\ D(w.date, i) < D(v.date, i)
  BY <1>1, FirstDifference
<1>3. /\ a[1] = 1 /\ a[2] = Order!DOT /\ \A k \in 1 .. 8 : a[k + 2] = D(v.date, k)
      /\ Len(a) \in Nat /\ Len(a) >= 11
  <2>1. /\ Len(a) = 11 + Len(Order!Digits(v.patch)) /\ Len(Order!Digits(v.patch)) \in Nat
        /\ a[1] = 1 /\ a[2] = Order!DOT /\ \A k \in 1 .. 8 : a[k + 2] = D(v.date, k)
    BY VersionTexts
  <2> QED
    BY <2>1
<1>4. /\ b[1] = 1 /\ b[2] = Order!DOT /\ \A k \in 1 .. 8 : b[k + 2] = D(w.date, k)
      /\ Len(b) \in Nat /\ Len(b) >= 11
  <2>1. /\ Len(b) = 11 + Len(Order!Digits(w.patch)) /\ Len(Order!Digits(w.patch)) \in Nat
        /\ b[1] = 1 /\ b[2] = Order!DOT /\ \A k \in 1 .. 8 : b[k + 2] = D(w.date, k)
    BY VersionTexts
  <2> QED
    BY <2>1
<1> HIDE DEF a, b
<1>5. \A j \in 1 .. ((i + 2) - 1) : a[j] = b[j]
  <2> SUFFICES ASSUME NEW j \in 1 .. ((i + 2) - 1) PROVE a[j] = b[j]
    OBVIOUS
  <2>1. CASE j = 1 \/ j = 2
    BY <1>3, <1>4, <2>1
  <2>2. CASE j > 2
    <3>1. j - 2 \in 1 .. 8 /\ j - 2 \in 1 .. (i - 1) /\ (j - 2) + 2 = j
      BY <2>2
    <3> QED
      BY <1>2, <1>3, <1>4, <3>1
  <2> QED
    BY <2>1, <2>2
<1>6. i + 2 \in 1 .. Len(a) /\ i + 2 <= Len(b)
  BY <1>3, <1>4
<1>7. a[i + 2] > b[i + 2]
  <2>1. D(v.date, i) \in 0 .. 9 /\ D(w.date, i) \in 0 .. 9
    BY <1>1, DigitsAre
  <2>2. a[i + 2] = D(v.date, i) /\ b[i + 2] = D(w.date, i)
    BY <1>3, <1>4
  <2> QED
    BY <1>2, <2>1, <2>2
<1>8. Order!TextGreater(a, b)
  BY <1>5, <1>6, <1>7, Zenon DEF Order!TextGreater
<1> QED
  BY <1>8 DEF a, b, Order!IsNewerVersion

\* Of one day, the later patch makes a greater version as long as it is one digit.
LEMMA LaterPatchIsNewer ==
  ASSUME Order!EightDigits, NEW v \in Order!Version, NEW w \in Order!Version,
         w.date = v.date, w.patch < v.patch, v.patch < 10
  PROVE  Order!IsNewerVersion(v, w)
<1> DEFINE a == Order!VersionText(v)
           b == Order!VersionText(w)
           c == Order!Digits(v.patch)
           d == Order!Digits(w.patch)
<1>1. /\ v.patch \in Number /\ w.patch \in Number /\ v.patch \in Nat /\ w.patch \in Nat
  BY SMT DEF Order!Version, Order!EightDigits, Number
<1>2. Len(c) = 1 /\ c[1] = v.patch
  BY <1>1, TextsOfNumbers
<1>3. Len(d) = 1 /\ d[1] = w.patch
  <2>1. w.patch < 10
    BY <1>1
  <2> QED
    BY <1>1, <2>1, TextsOfNumbers
<1>4. /\ Len(a) = 11 + Len(c) /\ a[1] = 1 /\ a[2] = Order!DOT /\ a[11] = Order!DOT
      /\ \A k \in 1 .. 8 : a[k + 2] = D(v.date, k)
      /\ \A k \in 1 .. Len(c) : a[k + 11] = c[k]
  BY VersionTexts
<1>5. /\ Len(b) = 11 + Len(d) /\ b[1] = 1 /\ b[2] = Order!DOT /\ b[11] = Order!DOT
      /\ \A k \in 1 .. 8 : b[k + 2] = D(w.date, k)
      /\ \A k \in 1 .. Len(d) : b[k + 11] = d[k]
  BY VersionTexts
<1> HIDE DEF a, b, c, d
<1>6. Len(a) = 12 /\ Len(b) = 12 /\ a[12] = v.patch /\ b[12] = w.patch
  <2>1. 1 \in 1 .. Len(c) /\ 1 \in 1 .. Len(d) /\ 1 + 11 = 12 /\ 11 + 1 = 12
    BY <1>2, <1>3
  <2> QED
    BY <1>2, <1>3, <1>4, <1>5, <2>1
<1>7. \A j \in 1 .. (12 - 1) : a[j] = b[j]
  <2> SUFFICES ASSUME NEW j \in 1 .. (12 - 1) PROVE a[j] = b[j]
    OBVIOUS
  <2>1. CASE j = 1 \/ j = 2 \/ j = 11
    BY <1>4, <1>5, <2>1
  <2>2. CASE j > 2 /\ j < 11
    <3>1. j - 2 \in 1 .. 8 /\ (j - 2) + 2 = j
      BY <2>2
    <3> QED
      BY <1>4, <1>5, <3>1
  <2> QED
    BY <2>1, <2>2
<1>8. 12 \in 1 .. Len(a) /\ 12 <= Len(b) /\ a[12] > b[12]
  BY <1>1, <1>6
<1>9. Order!TextGreater(a, b)
  BY <1>7, <1>8, Zenon DEF Order!TextGreater
<1> QED
  BY <1>9 DEF a, b, Order!IsNewerVersion

\* What is installed was released, now or earlier.
NotAhead(w, v) ==
  \/ w.date < v.date
  \/ w.date = v.date /\ w.patch <= v.patch

OrderInv == Order!TypeOK /\ NotAhead(installed, released)

LEMMA OrderInvInit ==
  ASSUME Order!EightDigits, Order!Init
  PROVE  OrderInv
<1>1. [major |-> 1, date |-> FirstDay, patch |-> 0] \in Order!Version
  BY SMT DEF Order!EightDigits, Order!Version
<1>2. released \in Order!Version /\ installed = released /\ released.patch = 0
  BY <1>1 DEF Order!Init
<1> QED
  BY <1>2 DEF OrderInv, NotAhead, Order!TypeOK

LEMMA OrderInvNext ==
  ASSUME Order!EightDigits, OrderInv, [Order!Next]_(Order!vars)
  PROVE  OrderInv'
<1> released \in Order!Version /\ installed \in Order!Version /\ NotAhead(installed, released)
  BY DEF OrderInv, Order!TypeOK
<1>1. /\ FirstDay \in Nat /\ MaxDay \in Nat /\ MaxPatch \in Nat
  BY DEF Order!EightDigits
<1>2. /\ released.date \in FirstDay .. MaxDay /\ released.patch \in 0 .. MaxPatch
      /\ installed.date \in FirstDay .. MaxDay /\ installed.patch \in 0 .. MaxPatch
  BY DEF Order!Version
<1>3. CASE Order!SameDayRelease
  <2>1. /\ released' = [released EXCEPT !.patch = @ + 1] /\ installed' = installed
        /\ released.patch < MaxPatch
    BY <1>3 DEF Order!SameDayRelease
  <2>2. released.patch + 1 \in 0 .. MaxPatch
    BY <1>1, <1>2, <2>1
  <2>3. released' \in Order!Version
    BY <2>1, <2>2 DEF Order!Version
  <2>4. released'.date = released.date /\ released'.patch = released.patch + 1
    BY <2>1 DEF Order!Version
  <2>5. NotAhead(installed, released')
    BY <1>1, <1>2, <2>4 DEF NotAhead
  <2> QED
    BY <2>1, <2>3, <2>5 DEF OrderInv, NotAhead, Order!TypeOK
<1>4. CASE Order!NextDayRelease
  <2>1. PICK day \in (released.date + 1) .. MaxDay :
          released' = [released EXCEPT !.date = day, !.patch = 0]
    BY <1>4 DEF Order!NextDayRelease
  <2>2. day \in FirstDay .. MaxDay /\ released.date < day /\ 0 \in 0 .. MaxPatch
    BY <1>1, <1>2, <2>1
  <2>3. released' \in Order!Version
    BY <2>1, <2>2 DEF Order!Version
  <2>4. released'.date = day
    BY <2>1 DEF Order!Version
  <2>5. NotAhead(installed, released')
    BY <1>1, <1>2, <2>2, <2>4 DEF NotAhead
  <2> QED
    BY <1>4, <2>3, <2>5 DEF OrderInv, NotAhead, Order!TypeOK, Order!NextDayRelease
<1>5. CASE Order!Install
  <2>1. released' = released /\ installed' = released
    BY <1>5 DEF Order!Install
  <2>2. NotAhead(released, released)
    BY <1>1, <1>2 DEF NotAhead
  <2> QED
    BY <2>1, <2>2 DEF OrderInv, NotAhead, Order!TypeOK
<1>6. CASE UNCHANGED Order!vars
  BY <1>6 DEF OrderInv, NotAhead, Order!TypeOK, Order!vars
<1> QED
  BY <1>3, <1>4, <1>5, <1>6 DEF Order!Next

LEMMA OrderInvOrders ==
  ASSUME Order!EightDigits, OrderInv
  PROVE  Order!OrderedUpToTen
<1> released \in Order!Version /\ installed \in Order!Version /\ NotAhead(installed, released)
  BY DEF OrderInv, Order!TypeOK
<1> SUFFICES ASSUME released.date # installed.date \/ released.patch < 10
             PROVE  Order!IsNewerVersion(released, installed) <=> released # installed
  BY DEF Order!OrderedUpToTen
<1>1. CASE released = installed
  <2>1. Order!VersionText(released) \in Seq(Int)
    BY VersionTexts
  <2> QED
    BY <1>1, <2>1, NotGreaterThanItself DEF Order!IsNewerVersion
<1>2. CASE released # installed
  <2>1. CASE installed.date < released.date
    BY <1>2, <2>1, LaterDateIsNewer
  <2>2. CASE installed.date = released.date /\ installed.patch <= released.patch
    <3>1. installed.patch # released.patch
      BY <1>2, <2>2 DEF Order!Version
    <3>2. installed.patch \in Int /\ released.patch \in Int /\ released.date \in Int
      BY DEF Order!Version
    <3>3. installed.patch < released.patch /\ released.patch < 10
      BY <2>2, <3>1, <3>2
    <3> QED
      BY <1>2, <2>2, <3>3, LaterPatchIsNewer
  <2> QED
    BY <2>1, <2>2 DEF NotAhead
<1> QED
  BY <1>1, <1>2

\* Whatever the days and however many releases there are, as long as dates have
\* eight digits: is_newer_version tells an SDK of every release after its own,
\* up to the tenth of a day, and of no other.
THEOREM VersionsAreOrdered ==
  ASSUME Order!EightDigits
  PROVE  Order!Spec => []Order!OrderedUpToTen
<1>1. Order!Init => OrderInv
  BY OrderInvInit
<1>2. OrderInv /\ [Order!Next]_(Order!vars) => OrderInv'
  BY OrderInvNext
<1>3. OrderInv => Order!OrderedUpToTen
  BY OrderInvOrders
<1> QED
  BY <1>1, <1>2, <1>3, PTL DEF Order!Spec
=============================================================================
