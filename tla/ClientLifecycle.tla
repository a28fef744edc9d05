--------------------------- MODULE ClientLifecycle ---------------------------
(***************************************************************************)
(* Clients of any of the three classes that are constructed, used and      *)
(* destroyed on threads of their own, and the state of libcurl they share. *)
(*                                                                         *)
(* A constructor calls curl_global_init and drops its result; a destructor *)
(* calls curl_global_cleanup whatever came of that.  libcurl counts the    *)
(* calls, sets itself up on the first and takes itself down on the last.   *)
(* curl_easy_init, the first step of every call, sets it up when nobody    *)
(* has.  Since 7.84 a lock covers each of the three; an older libcurl, and *)
(* CMakeLists.txt asks for no version, reads and writes the counter in     *)
(* steps another thread may come between.                                  *)
(***************************************************************************)
EXTENDS Integers, FiniteSets

CONSTANTS
  Clients,       \* the objects that may exist, each used by a thread of its own
  MaxReferences  \* a bound: nobody is constructed beyond this count, which a
                 \* raced counter may reach

ASSUME ClientsAssumption ==
  IsFiniteSet(Clients) /\ MaxReferences \in Nat /\ MaxReferences >= Cardinality(Clients)

VARIABLES
  locked,       \* the build: does libcurl lock its global functions?
  initialized,  \* libcurl's counter
  ready,        \* libcurl's global state is set up
  pc,           \* what becomes of each client
  seen,         \* the counter as the client's libcurl function read it
  raced,        \* history: two functions overlapped and one may write
  failed        \* history: a set-up has failed

vars == <<locked, initialized, ready, pc, seen, raced, failed>>

\* Inside a function of libcurl that reads the counter.
InLibcurl == {"init", "easy", "cleanup"}

TypeOK ==
  /\ locked \in BOOLEAN /\ ready \in BOOLEAN
  /\ raced \in BOOLEAN /\ failed \in BOOLEAN
  /\ initialized \in Nat
  /\ pc \in [Clients -> {"absent", "idle", "call"} \cup InLibcurl]
  /\ seen \in [Clients -> Nat]

Init ==
  /\ locked \in BOOLEAN
  /\ initialized = 0 /\ ready = FALSE
  /\ pc = [c \in Clients |-> "absent"]
  /\ seen = [c \in Clients |-> 0]
  /\ raced = FALSE /\ failed = FALSE
-----------------------------------------------------------------------------
(* libcurl (external).                                                     *)

\* The function that client d is in may write the counter.
Writes(d) == pc[d] \in {"init", "cleanup"} \/ (pc[d] = "easy" /\ seen[d] = 0)

\* Client c goes from a phase into a function, which waits for the lock if
\* there is one and reads the counter.
Enter(c, from, function) ==
  LET others == {d \in Clients \ {c} : pc[d] \in InLibcurl}
  IN  /\ pc[c] = from
      /\ locked => others = {}
      /\ pc' = [pc EXCEPT ![c] = function]
      /\ seen' = [seen EXCEPT ![c] = initialized]
      /\ raced' = (raced \/ \E d \in others :
                     \/ Writes(d) \/ function # "easy" \/ initialized = 0)
      /\ UNCHANGED <<locked, initialized, ready, failed>>

\* It leaves the counter and the state so, and the client in this phase.
Leave(c, count, up, to) ==
  /\ initialized' = count /\ ready' = up
  /\ pc' = [pc EXCEPT ![c] = to]
  /\ seen' = [seen EXCEPT ![c] = 0]
  /\ UNCHANGED <<locked, raced>>

\* The first user sets libcurl up, which may fail and then counts for nothing.
SetUp(c, ok, otherwise) ==
  /\ seen[c] = 0
  /\ \/ Leave(c, 1, TRUE, ok) /\ UNCHANGED failed
     \/ Leave(c, 0, ready, otherwise) /\ failed' = TRUE

\* curl_global_cleanup, from the counter it read.
Cleanup(c) ==
  \/ seen[c] = 0 /\ Leave(c, initialized, ready, "absent")
  \/ seen[c] = 1 /\ Leave(c, 0, FALSE, "absent")
  \/ seen[c] > 1 /\ Leave(c, seen[c] - 1, ready, "absent")
-----------------------------------------------------------------------------
(* The clients.                                                            *)

\* Mutant of Construct: libcurl is left to the first call.
ConstructLazily(c) ==
  /\ pc[c] = "absent"
  /\ pc' = [pc EXCEPT ![c] = "idle"]
  /\ UNCHANGED <<locked, initialized, ready, seen, raced, failed>>

\* Impl::Impl: curl_global_init.
Construct(c) == initialized < MaxReferences /\ Enter(c, "absent", "init")

\* Its result is not looked at: the client is made either way.
Constructed(c) ==
  /\ pc[c] = "init"
  /\ \/ SetUp(c, "idle", "idle")
     \/ seen[c] > 0 /\ Leave(c, seen[c] + 1, ready, "idle") /\ UNCHANGED failed

\* request and stream_sse: curl_easy_init.
BeginCall(c) == Enter(c, "idle", "easy")

\* Without a handle request throws and stream_sse returns: the call is over.
HandleMade(c) ==
  /\ pc[c] = "easy"
  /\ \/ SetUp(c, "call", "idle")
     \/ seen[c] > 0 /\ Leave(c, initialized, ready, "call") /\ UNCHANGED failed

\* curl_easy_perform has returned and curl_easy_cleanup follows.
EndCall(c) ==
  /\ pc[c] = "call"
  /\ pc' = [pc EXCEPT ![c] = "idle"]
  /\ UNCHANGED <<locked, initialized, ready, seen, raced, failed>>

\* Impl::~Impl, between calls: curl_global_cleanup.
Destroy(c) == Enter(c, "idle", "cleanup")

\* Mutant of Destroyed: the destructor leaves libcurl alone.
DestroyedOnly(c) ==
  /\ pc[c] = "cleanup"
  /\ Leave(c, initialized, ready, "absent") /\ UNCHANGED failed

Destroyed(c) ==
  /\ pc[c] = "cleanup"
  /\ Cleanup(c) /\ UNCHANGED failed

Next ==
  \E c \in Clients :
    \/ Construct(c) \/ Constructed(c)
    \/ BeginCall(c) \/ HandleMade(c) \/ EndCall(c)
    \/ Destroy(c) \/ Destroyed(c)

Spec == Init /\ [][Next]_vars
-----------------------------------------------------------------------------
(* Properties.                                                             *)

Live == {c \in Clients : pc[c] # "absent"}

\* The clients a reference is counted for: made, and not yet taken back.
Counted == {c \in Clients : pc[c] \in {"idle", "easy", "call", "cleanup"}}

\* No transfer runs on a libcurl that another client's destructor has taken
\* down (formation_client.cpp:92): the counter keeps it up for as long as one
\* client is there, unless a set-up failed, whose constructor went on without
\* a reference and whose destructor gives back that of another, or an unlocked
\* libcurl was entered twice.
ReadyWhileUsed ==
  ~raced /\ ~failed => \A c \in Clients : pc[c] = "call" => ready

\* Whatever failed, the clients never keep more references than there are
\* clients, so libcurl is down again when the last one is gone: the failed
\* constructor's unpaired cleanup only ever takes too much
\* (formation_client.cpp:90-92, server_client.cpp:54-57, transport.cpp:37-41).
ReleasedWithLast ==
  ~raced => /\ initialized <= Cardinality(Counted)
            /\ Live = {} => ~ready

\* As long as every constructor's set-up works, each client has exactly the
\* one reference its destructor gives back, whatever calls ran in between: no
\* call sets libcurl up by itself and leaves a reference behind.
OneReferenceEach ==
  ~raced /\ ~failed => initialized = Cardinality(Counted)
=============================================================================
