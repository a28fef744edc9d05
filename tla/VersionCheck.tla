----------------------------- MODULE VersionCheck -----------------------------
(***************************************************************************)
(* check_for_updates of src/src/version_check.cpp, which every request of  *)
(* every client calls.  Several processes, each with several threads,      *)
(* share ~/.muxi/sdk-versions.json without a lock: a check loads, changes  *)
(* and rewrites the file up to twice.                                      *)
(***************************************************************************)
EXTENDS Integers

CONSTANTS
  Procs,    \* processes that use the SDK under one home directory
  Slots,    \* the threads of a process
  Newer,    \* the headers that is_newer_version() puts above VERSION
  Garbled,  \* those of them that are not UTF-8
  Interval, \* TWELVE_HOURS_SECS, in ticks
  MaxTime   \* bound on the clock

ASSUME VersionCheckAssumption ==
  Interval \in Nat /\ MaxTime \in Nat /\ Garbled \subseteq Newer

VARIABLES
  checked,   \* per process: the atomic flag
  disabled,  \* per process: MUXI_SDK_VERSION_NOTIFICATION is "0"
  pc,        \* per thread: "idle", or the next step of check_for_updates
  latest,    \* per thread: the version found in the response's header
  cache,     \* per thread: the document being changed
  file,      \* the document on disk, the first if there is more behind it
  tail,      \* the end of a longer document lies behind it
  home,      \* the cache file: "writable", "readonly", or "none" (no path)
  clock,     \* the system clock
  printed,   \* history, per process: the notices since it started
  noticed,   \* history: the clock at the latest notice of any process
  failed,    \* history: a document of another shape made a check throw
  overlapped,\* history: two processes were in a check at once
  cut,       \* history: a process ended in a check, or dump() threw in one
  setBack,   \* history: the clock was set back, "never", "between" checks or
             \* "during" one
  origin     \* history: the document at the start

env     == <<disabled, home, origin>>
history == <<printed, noticed, failed, overlapped, cut, setBack>>
vars    == <<checked, disabled, pc, latest, cache, file, tail, home, clock,
             printed, noticed, failed, overlapped, cut, setBack, origin>>

Threads == Procs \X Slots
Steps   == {"idle", "update", "update_open", "update_write", "recently",
            "notify", "mark", "mark_open", "mark_write"}

Never    == -1  \* no "last_notified"
BadStamp == -2  \* a "last_notified" that is not a number
NoLatest == ""

\* What the document holds for this SDK: nothing, an object, or a value of
\* another type.
Entry == [form : {"none", "object", "string"}, latest : Newer \cup {NoLatest},
          stamp : {Never, BadStamp} \cup 0 .. MaxTime]
NoEntry == [form |-> "none", latest |-> NoLatest, stamp |-> Never]

\* A file: missing, not parseable (an empty one, for instance), an array, or
\* an object with an entry for this SDK and perhaps those of the others.
Document == [form : {"absent", "torn", "array", "object"}, cpp : Entry, others : BOOLEAN]
Unusable(f) == [form |-> f, cpp |-> NoEntry, others |-> FALSE]
Empty       == Unusable("object")

TypeOK ==
  /\ checked \in [Procs -> BOOLEAN]
  /\ disabled \in [Procs -> BOOLEAN]
  /\ pc \in [Threads -> Steps]
  /\ latest \in [Threads -> Newer \cup {NoLatest}]
  /\ cache \in [Threads -> Document]
  /\ file \in Document
  /\ tail \in BOOLEAN
  /\ home \in {"writable", "readonly", "none"}
  /\ clock \in 0 .. MaxTime
  /\ printed \in [Procs -> Nat]
  /\ noticed \in {Never} \cup 0 .. MaxTime
  /\ failed \in BOOLEAN /\ overlapped \in BOOLEAN
  /\ cut \in BOOLEAN /\ setBack \in {"never", "between", "during"}
  /\ origin \in Document

\* What a file may hold before the first check.
OriginalEntries ==
  {NoEntry} \cup {[form |-> "string", latest |-> NoLatest, stamp |-> Never]}
    \cup [form : {"object"}, latest : {NoLatest}, stamp : {Never, BadStamp, 0}]
Originals == {Unusable(f) : f \in {"absent", "torn", "array"}}
               \cup [form : {"object"}, cpp : OriginalEntries, others : BOOLEAN]

Init ==
  /\ checked = [p \in Procs |-> FALSE]
  /\ disabled \in [Procs -> BOOLEAN]
  /\ pc = [t \in Threads |-> "idle"]
  /\ latest = [t \in Threads |-> NoLatest]
  /\ cache = [t \in Threads |-> Empty]
  /\ file \in Originals
  /\ tail = FALSE
  /\ home \in IF file.form = "absent" THEN {"writable", "readonly", "none"}
             ELSE {"writable", "readonly"}
  /\ clock = 0
  /\ printed = [p \in Procs |-> 0]
  /\ noticed = Never
  /\ failed = FALSE /\ overlapped = FALSE /\ cut = FALSE /\ setBack = "never"
  /\ origin = file
-----------------------------------------------------------------------------
InCheck(p) == \E t \in Threads : t[1] = p /\ pc[t] # "idle"

\* The thread goes on at step s, whatever document it holds.
Goto(t, s) == pc' = [pc EXCEPT ![t] = s]

\* A document, or a version, that is not read again is forgotten.
Forget(t) ==
  latest' = [latest EXCEPT ![t] = NoLatest] /\ cache' = [cache EXCEPT ![t] = Empty]

\* load_cache(): whatever does not parse counts as an empty object.  operator>>
\* stops behind the first document, so that the end of another one does no harm
\* here; a program that reads the whole file finds no JSON in it.
Load == IF home # "none" /\ file.form \in {"array", "object"} THEN file ELSE Empty

\* Mutant of Take: the flag is tested and never set.
Leave(p) == UNCHANGED checked

Take(p) == checked' = [checked EXCEPT ![p] = TRUE]

\* One thread of a process wins the compare-and-exchange, on whatever response
\* it has; a thread that finds the flag set returns at once.  The check ends
\* when notifications are disabled or the header is missing or no newer.
CompareExchange(t) ==
  /\ pc[t] = "idle"
  /\ ~checked[t[1]]
  /\ Take(t[1])
  /\ \/ /\ ~disabled[t[1]]
        /\ \E v \in Newer : latest' = [latest EXCEPT ![t] = v]
        /\ Goto(t, "update")
        /\ overlapped' = (overlapped \/ \E p \in Procs \ {t[1]} : InCheck(p))
     \/ UNCHANGED <<pc, latest, overlapped>>
  /\ UNCHANGED <<cache, file, tail, clock, printed, noticed, failed, cut, setBack, env>>

\* The type_error of a document of another shape, or of a header dump() refuses,
\* leaves check_for_updates, and the request with it.
Throws(t, why) ==
  /\ Goto(t, "idle") /\ Forget(t)
  /\ IF why = "shape" THEN failed' = TRUE /\ UNCHANGED cut
                      ELSE cut' = TRUE /\ UNCHANGED failed
  /\ UNCHANGED <<checked, file, tail, clock, printed, noticed, overlapped, setBack, env>>

\* Mutant of WithLatest: it starts from an empty document.
OnlyLatest(d, v) == [Empty EXCEPT !.cpp = [@ EXCEPT !.form = "object", !.latest = v]]

\* The document d with "latest" in the SDK's entry, made if need be.
WithLatest(d, v) == [d EXCEPT !.cpp = [@ EXCEPT !.form = "object", !.latest = v]]

\* update_latest_version(): load, and set "latest".
Update(t) ==
  /\ pc[t] = "update"
  /\ \/ /\ Load.form = "array" \/ Load.cpp.form = "string"
        /\ Throws(t, "shape")
     \/ /\ Load.form = "object" /\ Load.cpp.form # "string"
        /\ cache' = [cache EXCEPT ![t] = WithLatest(Load, latest[t])]
        /\ latest' = [latest EXCEPT ![t] = NoLatest]
        /\ Goto(t, "update_open")
        /\ UNCHANGED <<checked, file, tail, clock, history, env>>

\* Mutant of Truncated: the file is opened as it is.
NotTruncated == file

Truncated == Unusable("torn")

\* save_cache(): the ofstream truncates the file when it opens it, and writes it
\* from its start when it closes it.  Nothing is reported when the file cannot be
\* opened.  Two writers may both have it open.  dump() throws between the two on
\* a text that is not UTF-8.
Open(t, at, next, skip) ==
  /\ pc[t] = at
  /\ \/ /\ home = "writable"
        /\ file' = Truncated /\ tail' = FALSE
        /\ Goto(t, next)
        /\ UNCHANGED <<latest, cache>>
     \/ /\ home # "writable"
        /\ UNCHANGED <<file, tail>>
        /\ Goto(t, skip) /\ Forget(t)
  /\ UNCHANGED <<checked, clock, history, env>>

\* What is left behind the document t writes: a writer that had the file open at
\* the same time may have put a longer one there.  Lengths are not modelled, but
\* equal documents are equally long.
Tails(t) ==
  IF file.form # "object" THEN {FALSE}
  ELSE IF file = cache[t] THEN {tail} ELSE BOOLEAN

Write(t, at, next) ==
  /\ pc[t] = at
  /\ \/ /\ cache[t].cpp.latest \in Garbled
        /\ Throws(t, "dump")
     \/ /\ cache[t].cpp.latest \notin Garbled
        /\ file' = cache[t] /\ tail' \in Tails(t)
        /\ Goto(t, next) /\ Forget(t)
        /\ UNCHANGED <<checked, clock, history, env>>

\* Mutant of NotifiedRecently: the last tick of the interval is left out.
NotifiedBefore(d) == d.cpp.stamp # Never /\ clock - d.cpp.stamp < Interval - 1

\* notified_recently() for the document d, whose entry is not a BadStamp.
NotifiedRecently(d) == d.cpp.stamp # Never /\ clock - d.cpp.stamp < Interval

Recently(t) ==
  /\ pc[t] = "recently"
  /\ \/ /\ Load.cpp.stamp = BadStamp
        /\ Throws(t, "shape")
     \/ /\ Load.cpp.stamp # BadStamp
        /\ Goto(t, IF NotifiedRecently(Load) THEN "idle" ELSE "notify")
        /\ UNCHANGED <<checked, latest, cache, file, tail, clock, history, env>>

\* The notice on stderr.
Notify(t) ==
  /\ pc[t] = "notify"
  /\ Goto(t, "mark")
  /\ printed' = [printed EXCEPT ![t[1]] = @ + 1]
  /\ noticed' = clock
  /\ UNCHANGED <<checked, latest, cache, file, tail, clock, failed, overlapped, cut, setBack, env>>

\* Mutants of Stamped: the stamp says when to notify next; the stamp is a string.
StampedNext(d) == [d EXCEPT !.cpp.stamp = clock + Interval]
StampedText(d) == [d EXCEPT !.cpp.stamp = BadStamp]

Stamped(d) == [d EXCEPT !.cpp.stamp = clock]

\* mark_notified(): load again, and stamp the entry if there is one.
Mark(t) ==
  /\ pc[t] = "mark"
  /\ \/ /\ Load.cpp.form = "none"
        /\ Goto(t, "idle")
        /\ UNCHANGED cache
     \/ /\ Load.cpp.form = "object"
        /\ cache' = [cache EXCEPT ![t] = Stamped(Load)]
        /\ Goto(t, "mark_open")
  /\ UNCHANGED <<checked, latest, file, tail, clock, history, env>>

Step(t) ==
  \/ Update(t)
  \/ Open(t, "update_open", "update_write", "recently")
  \/ Write(t, "update_write", "recently")
  \/ Recently(t)
  \/ Notify(t)
  \/ Mark(t)
  \/ Open(t, "mark_open", "mark_write", "idle")
  \/ Write(t, "mark_write", "idle")

\* A process ends, or is killed, at any point and is started again.
Restart(p) ==
  /\ checked[p]
  /\ checked' = [checked EXCEPT ![p] = FALSE]
  /\ pc' = [t \in Threads |-> IF t[1] = p THEN "idle" ELSE pc[t]]
  /\ latest' = [t \in Threads |-> IF t[1] = p THEN NoLatest ELSE latest[t]]
  /\ cache' = [t \in Threads |-> IF t[1] = p THEN Empty ELSE cache[t]]
  /\ printed' = [printed EXCEPT ![p] = 0]
  /\ cut' = (cut \/ InCheck(p))
  /\ UNCHANGED <<file, tail, clock, noticed, failed, overlapped, setBack, env>>

Tick ==
  /\ clock < MaxTime
  /\ clock' = clock + 1
  /\ UNCHANGED <<checked, pc, latest, cache, file, tail, history, env>>

\* Somebody, or the network's time, sets the clock back; once is the bound.
SetBack ==
  /\ setBack = "never"
  /\ \E c \in 0 .. clock - 1 : clock' = c
  /\ setBack' = IF \E p \in Procs : InCheck(p) THEN "during" ELSE "between"
  /\ UNCHANGED <<checked, pc, latest, cache, file, tail, printed, noticed, failed, overlapped, cut, env>>

Next ==
  \/ \E t \in Threads : CompareExchange(t) \/ Step(t)
  \/ \E p \in Procs : Restart(p)
  \/ Tick \/ SetBack

Spec == Init /\ [][Next]_vars
-----------------------------------------------------------------------------
(* Properties.                                                             *)

Writing == \E t \in Threads : pc[t] \in {"update_write", "mark_write"}

\* However many threads of a process have a response at the same time, the
\* process prints at most one notice (the compare_exchange_strong on checked).
OncePerProcess == \A p \in Procs : printed[p] <= 1

\* Two notices under one home directory, of whatever processes, are twelve
\* hours apart by the clock they were printed with, also when it was set back
\* in between, unless two checks overlapped, one ended too soon, or the file
\* cannot be written: the stamp is then missing or lost.  Nor may the clock be
\* set back during a check, between its test and its notice or its stamp.
NoticesApart ==
  [][\A p \in Procs :
       printed'[p] > printed[p] /\ home = "writable" /\ ~overlapped /\ ~cut
         /\ setBack # "during" /\ noticed # Never => clock - noticed >= Interval]_vars

\* A check that finds a newer version keeps quiet only for twelve hours after
\* the stamp a notice left: no stamp is ever ahead of the clock, unless the
\* clock was set back, and then the quiet lasts until it has caught up
\* (version_check.cpp:105, 117).
QuietOnlyRecently ==
  [][\A t \in Threads :
       pc[t] = "recently" /\ pc'[t] = "idle" /\ checked' = checked /\ setBack = "never"
         /\ file.cpp.stamp # BadStamp => file.cpp.stamp \in (clock - Interval) + 1 .. clock]_vars

\* A check preserves the entries of the other SDKs, unless it overlapped
\* another one, which can load the file another has just truncated, or it ended
\* before it wrote what it had truncated.
OthersKept == ~overlapped /\ ~cut /\ ~Writing => file.others = origin.others

\* A file that checks have changed and nobody is writing is one whole document
\* and nothing else, unless two checks overlapped: the one that closes the file
\* last leaves the end of the other's document behind a shorter one of its own.
\* Also then the file begins with a whole document, which this SDK can read; a
\* truncated one is left only by a process that ended too soon or a dump() that
\* threw.
WholeWhenQuiet ==
  ~cut /\ ~Writing =>
    (file = origin \/ file.form = "object") /\ (tail => overlapped)

\* A header that is not UTF-8 aside, a check makes its request fail only because
\* of a cache file that this SDK did not write: whatever the checks of several
\* processes make of the file, they can read it again.
FailsOnForeignFile ==
  failed => \/ origin.form = "array"
            \/ origin.cpp.form = "string"
            \/ origin.cpp.stamp = BadStamp
=============================================================================
