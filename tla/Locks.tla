------------------------------- MODULE Locks -------------------------------
(***************************************************************************)
(* Who touches which shared data under which mutex. A call is the sequence *)
(* of its lock operations and accesses; between two steps of one thread    *)
(* every other thread may step. Atomics are not here, nor what the data    *)
(* holds: that is the other modules' part.                                 *)
(*                                                                         *)
(* A thread holds no mutex between two calls, so the order in which its    *)
(* code makes them is left open.                                           *)
(***************************************************************************)
EXTENDS Naturals, Sequences, SequencesExt

CONSTANTS
  Proc,         (* the process threads *)
  Dispatcher,   (* the dispatcher thread *)
  Main,         (* main()'s thread, in any of the three programs *)
  NoThread

ASSUME ThreadAssumption ==
  /\ Dispatcher \notin Proc /\ Main \notin Proc /\ Dispatcher # Main
  /\ NoThread \notin Proc \cup {Dispatcher, Main}

Thread == Proc \cup {Dispatcher, Main}

(* Mutexes and shared data have a name and an owner; "all" are the ones    *)
(* there is only one of.                                                   *)
Of(name, p) == <<name, {p}>>
All(name)   == <<name, {}>>

schedulerMutex == All("schedulerMutex")
registryMutex  == All("registryMutex")
logMutex       == All("logMutex")
queueMutex(p)  == Of("queueMutex", p)
stateMutex(p)  == Of("stateMutex", p)

Mutex == {schedulerMutex, registryMutex, logMutex}
           \cup {queueMutex(p) : p \in Proc} \cup {stateMutex(p) : p \in Proc}

pendingMessages == All("pendingMessages")
processRegistry == All("processRegistry")
recentLogs      == All("recentLogs")   (* with logFile *)
cout            == All("cout")         (* std::cout *)
rng             == All("rng")
tm              == All("tm")           (* the buffer localtime() returns *)
pq(p)           == Of("pq", p)
state(p)        == Of("state", p)

Lock(m)   == [op |-> "lock", on |-> m]
Unlock(m) == [op |-> "unlock", on |-> m]
Read(d)   == [op |-> "read", on |-> d]
Write(d)  == [op |-> "write", on |-> d]

(* A lock_guard over body.                                                 *)
Locked(m, body) == <<Lock(m)>> \o body \o <<Unlock(m)>>

-----------------------------------------------------------------------------
(* The functions.                                                          *)

(* localtime() fills its buffer, put_time() reads it.                      *)
GetCurrentTimestamp == <<Write(tm), Read(tm)>>

(* Slip: the logger prints how many messages are pending.                  *)
LogPendingCount ==
  Locked(logMutex, <<Write(recentLogs)>> \o Locked(schedulerMutex, <<Read(pendingMessages)>>))

Log == Locked(logMutex, GetCurrentTimestamp \o <<Write(cout), Write(recentLogs)>>)

PrintStats == Locked(logMutex, <<Write(cout)>>)

(* What main() prints by itself, and the tests: no mutex.                  *)
PrintLine == <<Write(cout)>>

GetRecentLogs == Locked(logMutex, <<Read(recentLogs)>>)

AddMessage == Locked(schedulerMutex, <<Write(pendingMessages)>>)
GetNext    == Locked(schedulerMutex, <<Write(pendingMessages)>>)

(* Without a boost, and with one, which is logged under the mutex. More    *)
(* boosts in one pass repeat the same steps.                               *)
ApplyAging == {Locked(schedulerMutex, <<Write(pendingMessages)>>),
               Locked(schedulerMutex, <<Write(pendingMessages)>> \o Log)}

(* A refused message is logged under the mutex.                            *)
Enqueue(p) == {Locked(queueMutex(p), <<Write(pq(p))>>),
               Locked(queueMutex(p), <<Read(pq(p))>> \o Log)}

(* Slip: the early return on an empty queue keeps the mutex.               *)
ReceiveKeepsTheMutex(p) == <<Lock(queueMutex(p)), Read(pq(p))>>

NonBlockingReceive(p) == Locked(queueMutex(p), <<Write(pq(p))>>)

(* Slip: the copy is taken without the mutex.                              *)
GetSnapshotUnlocked(p) == <<Read(pq(p))>>

GetSnapshot(p) == Locked(queueMutex(p), <<Read(pq(p))>>)

SetState(p) == Locked(stateMutex(p), <<Write(state(p))>>)
GetState(p) == <<Read(state(p))>>

ShouldDropMessage == <<Write(rng)>>

GetProcess == Locked(registryMutex, <<Read(processRegistry)>>)

(* What each thread calls; the threads that the tests start only send, and *)
(* make no call that a process does not make.                              *)
RunCalls(p) ==
  {GetProcess, SetState(p), GetCurrentTimestamp, ShouldDropMessage, AddMessage,
   NonBlockingReceive(p), Log}

DispatcherCalls ==
  {GetNext, GetProcess, Log} \cup ApplyAging \cup UNION {Enqueue(p) : p \in Proc}

(* What the window draws.                                                  *)
DrawCalls ==
  {GetRecentLogs} \cup {GetState(p) : p \in Proc} \cup {GetSnapshot(p) : p \in Proc}

(* main() draws the window, sends for the tests, logs, and prints while    *)
(* the other threads run.                                                  *)
MainCalls ==
  {Log, PrintLine, PrintStats, GetCurrentTimestamp, ShouldDropMessage, AddMessage}
    \cup DrawCalls

Calls(t) == IF t = Dispatcher THEN DispatcherCalls
            ELSE IF t = Main THEN MainCalls ELSE RunCalls(t)

-----------------------------------------------------------------------------
VARIABLES
  todo,   (* of each thread, the steps that are left of its call *)
  owner   (* of each mutex, the thread that holds it *)

vars == <<todo, owner>>

Call(t) ==
  /\ todo[t] = << >>
  /\ \E c \in Calls(t) : todo' = [todo EXCEPT ![t] = c]
  /\ UNCHANGED owner

IsNext(t, op, on) ==
  todo[t] # << >> /\ Head(todo[t]).op = op /\ Head(todo[t]).on = on

Acquire(t, m) ==
  /\ IsNext(t, "lock", m)
  /\ owner[m] = NoThread
  /\ owner' = [owner EXCEPT ![m] = t]
  /\ todo' = [todo EXCEPT ![t] = Tail(@)]

Release(t, m) ==
  /\ IsNext(t, "unlock", m)
  /\ owner' = [owner EXCEPT ![m] = NoThread]
  /\ todo' = [todo EXCEPT ![t] = Tail(@)]

Access(t) ==
  /\ todo[t] # << >>
  /\ Head(todo[t]).op \in {"read", "write"}
  /\ todo' = [todo EXCEPT ![t] = Tail(@)]
  /\ UNCHANGED owner

Init == todo = [t \in Thread |-> << >>] /\ owner = [m \in Mutex |-> NoThread]

Next ==
  \E t \in Thread :
    \/ Call(t) \/ Access(t)
    \/ \E m \in Mutex : Acquire(t, m) \/ Release(t, m)

Spec == Init /\ [][Next]_vars

-----------------------------------------------------------------------------
(* The mutexes that are released in s from its i-th step on before they    *)
(* are locked there: those that whoever is at this step holds.             *)
HeldAt(s, i) ==
  {m \in Mutex : \E k \in i .. Len(s) :
     s[k] = Unlock(m) /\ \A j \in i .. k : s[j] # Lock(m)}

(* A mutex is held by the thread that is about to release it, and by no    *)
(* other: no call returns with a mutex, releases one it has not got, or    *)
(* locks one it has already.                                               *)
LocksTypeOK ==
  /\ owner \in [Mutex -> Thread \cup {NoThread}]
  /\ \A m \in Mutex, t \in Thread : owner[m] = t <=> m \in HeldAt(todo[t], 1)

Accesses(t, d) == IsNext(t, "read", d) \/ IsNext(t, "write", d)

(* Two of the threads T are about to access d at once, and one writes.     *)
DataRace(d, T) ==
  \E t, u \in T : t # u /\ IsNext(t, "write", d) /\ Accesses(u, d)

(* The data that has a mutex at every access, across four classes.         *)
LockedData ==
  {pendingMessages, processRegistry, recentLogs} \cup {pq(p) : p \in Proc}

(* TC-04 "Scheduler thread safety": whichever of its users come together   *)
(* there (senders, dispatcher, owner, window), the data that is under a    *)
(* mutex is never accessed by two at once if one writes. The console is    *)
(* under logMutex only in log() and printStats(): no two other threads     *)
(* write it at once, but what main() prints by itself may get between      *)
(* their lines, so that of Logger.cpp:4, "multiple threads don't           *)
(* interleave output", this much holds (and NoDataRace does not).          *)
LockedDataIsRaceFree ==
  /\ \A d \in LockedData : ~DataRace(d, Thread)
  /\ ~DataRace(cout, Thread \ {Main})

WaitsFor(t, u) == \E m \in Mutex : IsNext(t, "lock", m) /\ owner[m] = u

(* TC-04 "no deadlock": log() is called with schedulerMutex or a           *)
(* queueMutex held, and yet no set of threads, nor one thread alone, waits *)
(* only for its own members.                                               *)
NoDeadlock ==
  \A S \in (SUBSET Thread) \ {{}} : \E t \in S : \A u \in S : ~WaitsFor(t, u)

(* README.md:28 "All shared data protected by locks", and TC-05            *)
(* (test_cases.cpp:32) "no data races". The standard allows two threads to *)
(* write std::cout at once, but their output may mix.                      *)
UnlockedData == {cout, rng, tm} \cup {state(p) : p \in Proc}

NoDataRace == \A d \in LockedData \cup UnlockedData : ~DataRace(d, Thread)
=============================================================================
