---------------------------- MODULE MessageQueue ----------------------------
(***************************************************************************)
(* One MessageQueue as a monitor: a bounded priority queue, a mutex and    *)
(* the condition variable messageAvailable. Every step below is one hold   *)
(* of queueMutex; wait() releases it in between.                           *)
(*                                                                         *)
(* shutdownFlag is left out: the constructor clears it and nothing sets    *)
(* it, so the wait predicate is !pq.empty() and the sentinel of lines      *)
(* 50-52 is never returned.                                                *)
(***************************************************************************)
EXTENDS Inbox

CONSTANTS
  Thread,   (* the threads that receive *)
  MaxAge    (* bound: the largest agingCounter a message arrives with *)

ASSUME ThreadAssumption == IsFiniteSet(Thread) /\ MaxAge \in Nat

VARIABLES
  pq,        (* the messages in the queue *)
  waiting,   (* the threads asleep in messageAvailable.wait() *)
  woken      (* the threads taken off wait(), yet to test the predicate *)

vars == <<pq, waiting, woken>>

Idle == Thread \ (waiting \cup woken)

QueuedEnvelopes == {m.envelope : m \in pq}

(* What the scheduler hands over: any level, skipped any number of times.  *)
Arriving ==
  {[NewMessage(e, p) EXCEPT !.agingCounter = age] :
     e \in Envelope \ QueuedEnvelopes, p \in Priority, age \in 0 .. MaxAge}

-----------------------------------------------------------------------------
(* Slip: a push that wakes nobody.                                         *)
NotifyNobody == UNCHANGED <<waiting, woken>>

(* Slip: a wake-up only when the queue was empty before the push.          *)
NotifyIfWasEmpty ==
  \/ (waiting = {} \/ pq # {}) /\ UNCHANGED <<waiting, woken>>
  \/ /\ pq = {}
     /\ \E t \in waiting : waiting' = waiting \ {t} /\ woken' = woken \cup {t}

NotifyOne ==
  \/ waiting = {} /\ UNCHANGED <<waiting, woken>>
  \/ \E t \in waiting : waiting' = waiting \ {t} /\ woken' = woken \cup {t}

Enqueue(m) ==
  \/ IsFull(pq) /\ UNCHANGED vars
  \/ ~IsFull(pq) /\ pq' = pq \cup {m} /\ NotifyOne

TakeTop == \E m \in pq : IsTop(pq, m) /\ pq' = pq \ {m}

NonBlockingReceive(t) ==
  /\ t \in Idle
  /\ TakeTop \/ (pq = {} /\ UNCHANGED pq)
  /\ UNCHANGED <<waiting, woken>>

(* wait(lock, predicate) tests the predicate before it sleeps.             *)
BlockingReceive(t) ==
  /\ t \in Idle
  /\ \/ TakeTop /\ UNCHANGED waiting
     \/ pq = {} /\ waiting' = waiting \cup {t} /\ UNCHANGED pq
  /\ UNCHANGED woken

(* A condition variable may wake a thread that nobody notified.            *)
SpuriousWakeup(t) ==
  /\ t \in waiting
  /\ waiting' = waiting \ {t}
  /\ woken' = woken \cup {t}
  /\ UNCHANGED pq

(* The woken thread has queueMutex again and tests the predicate.          *)
Resume(t) ==
  /\ t \in woken
  /\ woken' = woken \ {t}
  /\ \/ TakeTop /\ UNCHANGED waiting
     \/ pq = {} /\ waiting' = waiting \cup {t} /\ UNCHANGED pq

-----------------------------------------------------------------------------
Init == pq = {} /\ waiting = {} /\ woken = {}

Next ==
  \/ \E m \in Arriving : Enqueue(m)
  \/ \E t \in Thread :
       NonBlockingReceive(t) \/ BlockingReceive(t) \/ SpuriousWakeup(t) \/ Resume(t)

Spec == Init /\ [][Next]_vars

(* A woken thread gets the mutex some day: every holder releases it.       *)
FairSpec == Spec /\ \A t \in Thread : WF_vars(Resume(t))

-----------------------------------------------------------------------------
(* The queue holds at most MaxQueueSize messages, none twice, and a        *)
(* receiving thread is idle, asleep or woken.                              *)
QueueTypeOK ==
  /\ pq \subseteq Message
  /\ IsFiniteSet(pq) /\ Cardinality(pq) <= MaxQueueSize
  /\ \A m, n \in pq : m.envelope = n.envelope => m = n
  /\ waiting \subseteq Thread
  /\ woken \subseteq Thread
  /\ waiting \cap woken = {}

(* notify_one() is enough: as long as a thread sleeps, every message in    *)
(* the queue has a thread of its own that was woken and has yet to look.   *)
(* Polling receivers that steal messages and spurious wake-ups included.   *)
NoLostWakeup == waiting # {} => Cardinality(pq) <= Cardinality(woken)

(* TC-06: a thread blocked on an empty queue gets up once a message comes. *)
(* Sleeping threads and messages in the queue do not last side by side.    *)
NeverStuck == []<>(waiting = {} \/ pq = {})
=============================================================================
