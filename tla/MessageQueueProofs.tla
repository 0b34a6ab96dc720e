------------------------- MODULE MessageQueueProofs -------------------------
(* The inbox as a monitor, for any number of receiving threads, messages   *)
(* and places.                                                             *)
EXTENDS MessageQueue, FiniteSetTheorems, TLAPS

(* What one step does to the queue and to the two sets of threads.         *)
LEMMA TakeTopStep ==
  ASSUME QueueTypeOK, TakeTop
  PROVE  /\ pq' \subseteq pq
         /\ IsFiniteSet(pq')
         /\ Cardinality(pq) \in Nat
         /\ Cardinality(pq') = Cardinality(pq) - 1
<1>1. PICK m \in pq : pq' = pq \ {m}
  BY DEF TakeTop
<1> QED
  BY <1>1, FS_RemoveElement, FS_CardinalityType DEF QueueTypeOK

LEMMA EnqueueStep ==
  ASSUME QueueTypeOK, NEW m \in Arriving, ~IsFull(pq), pq' = pq \cup {m}
  PROVE  /\ pq' \subseteq Message
         /\ IsFiniteSet(pq')
         /\ Cardinality(pq) \in Nat
         /\ Cardinality(pq') = Cardinality(pq) + 1
         /\ Cardinality(pq') <= MaxQueueSize
         /\ \A k, l \in pq' : k.envelope = l.envelope => k = l
<1>1. PICK e \in Envelope \ QueuedEnvelopes, p \in Priority, age \in 0 .. MaxAge :
        m = [NewMessage(e, p) EXCEPT !.agingCounter = age]
  BY DEF Arriving
<1>2. m \in Message /\ m.envelope = e
  BY <1>1, ThreadAssumption DEF NewMessage, Message
<1>3. \A k \in pq : k.envelope # e
  BY <1>1 DEF QueuedEnvelopes
<1>4. m \notin pq
  BY <1>2, <1>3
<1>5. /\ IsFiniteSet(pq')
      /\ Cardinality(pq) \in Nat
      /\ Cardinality(pq') = Cardinality(pq) + 1
  BY <1>4, FS_AddElement, FS_CardinalityType DEF QueueTypeOK
<1>6. Cardinality(pq') <= MaxQueueSize
  BY <1>5, QueueSizeAssumption DEF IsFull
<1>7. pq' \subseteq Message
  BY <1>2 DEF QueueTypeOK
<1>8. ASSUME NEW k \in pq', NEW l \in pq', k.envelope = l.envelope
      PROVE  k = l
  BY <1>2, <1>3, <1>8 DEF QueueTypeOK
<1> QED
  BY <1>5, <1>6, <1>7, <1>8

(* The number of woken threads follows the moves between the sets.         *)
LEMMA WokenCount ==
  ASSUME QueueTypeOK
  PROVE  /\ IsFiniteSet(woken)
         /\ Cardinality(woken) \in Nat
         /\ \A t \in Thread \ woken : Cardinality(woken \cup {t}) = Cardinality(woken) + 1
         /\ \A t \in woken : Cardinality(woken \ {t}) = Cardinality(woken) - 1
<1>1. IsFiniteSet(woken)
  BY ThreadAssumption, FS_Subset DEF QueueTypeOK
<1> QED
  BY <1>1, FS_AddElement, FS_RemoveElement, FS_CardinalityType

LEMMA TypeInvariance == QueueTypeOK /\ [Next]_vars => QueueTypeOK'
<1> SUFFICES ASSUME QueueTypeOK, [Next]_vars
             PROVE  QueueTypeOK'
  OBVIOUS
<1>1. ASSUME TakeTop
      PROVE  /\ pq' \subseteq Message
             /\ IsFiniteSet(pq') /\ Cardinality(pq') <= MaxQueueSize
             /\ \A m, n \in pq' : m.envelope = n.envelope => m = n
  BY <1>1, TakeTopStep, QueueSizeAssumption DEF QueueTypeOK
<1>2. ASSUME NEW m \in Arriving, Enqueue(m)
      PROVE  QueueTypeOK'
  <2>1. CASE IsFull(pq) /\ UNCHANGED vars
    BY <2>1 DEF QueueTypeOK, vars
  <2>2. CASE ~IsFull(pq) /\ pq' = pq \cup {m} /\ NotifyOne
    <3>1. /\ waiting' \subseteq Thread
          /\ woken' \subseteq Thread
          /\ waiting' \cap woken' = {}
      BY <2>2 DEF QueueTypeOK, NotifyOne
    <3> QED
      BY <2>2, <3>1, EnqueueStep DEF QueueTypeOK
  <2> QED
    BY <1>2, <2>1, <2>2 DEF Enqueue
<1>3. ASSUME NEW t \in Thread, NonBlockingReceive(t)
      PROVE  QueueTypeOK'
  BY <1>1, <1>3 DEF QueueTypeOK, NonBlockingReceive
<1>4. ASSUME NEW t \in Thread, BlockingReceive(t)
      PROVE  QueueTypeOK'
  BY <1>1, <1>4 DEF QueueTypeOK, BlockingReceive, Idle
<1>5. ASSUME NEW t \in Thread, SpuriousWakeup(t)
      PROVE  QueueTypeOK'
  BY <1>5 DEF QueueTypeOK, SpuriousWakeup
<1>6. ASSUME NEW t \in Thread, Resume(t)
      PROVE  QueueTypeOK'
  BY <1>1, <1>6 DEF QueueTypeOK, Resume
<1>7. CASE UNCHANGED vars
  BY <1>7 DEF QueueTypeOK, vars
<1> QED
  BY <1>2, <1>3, <1>4, <1>5, <1>6, <1>7 DEF Next

(* The queue never exceeds MaxQueueSize (TC-02) and never holds a message  *)
(* twice; a thread is never both asleep and woken.                         *)
THEOREM TypeCorrect == Spec => []QueueTypeOK
<1>1. Init => QueueTypeOK
  BY FS_EmptySet, QueueSizeAssumption DEF Init, QueueTypeOK
<1> QED
  BY <1>1, TypeInvariance, PTL DEF Spec

LEMMA NoLostWakeupInvariance ==
  QueueTypeOK /\ NoLostWakeup /\ [Next]_vars => NoLostWakeup'
<1> SUFFICES ASSUME QueueTypeOK, NoLostWakeup, [Next]_vars, waiting' # {}
             PROVE  Cardinality(pq') <= Cardinality(woken')
  BY DEF NoLostWakeup
<1>1. waiting # {} => Cardinality(pq) <= Cardinality(woken)
  BY DEF NoLostWakeup
<1>2. /\ Cardinality(woken) \in Nat
      /\ \A t \in Thread \ woken : Cardinality(woken \cup {t}) = Cardinality(woken) + 1
      /\ \A t \in woken : Cardinality(woken \ {t}) = Cardinality(woken) - 1
  BY WokenCount
<1>3. Cardinality({}) = 0
  BY FS_EmptySet
<1>4. ASSUME NEW m \in Arriving, Enqueue(m)
      PROVE  Cardinality(pq') <= Cardinality(woken')
  <2>1. CASE UNCHANGED vars
    BY <1>1, <2>1 DEF vars
  <2>2. CASE ~IsFull(pq) /\ pq' = pq \cup {m} /\ NotifyOne
    <3>1. Cardinality(pq') = Cardinality(pq) + 1 /\ Cardinality(pq) \in Nat
      BY <2>2, EnqueueStep
    <3>2. PICK t \in waiting : woken' = woken \cup {t}
      BY <2>2 DEF NotifyOne
    <3>3. t \in Thread \ woken
      BY <3>2 DEF QueueTypeOK
    <3>4. Cardinality(woken') = Cardinality(woken) + 1
      BY <1>2, <3>2, <3>3
    <3> QED
      BY <1>1, <1>2, <3>1, <3>2, <3>4
  <2> QED
    BY <1>4, <2>1, <2>2 DEF Enqueue
<1>5. ASSUME NEW t \in Thread, NonBlockingReceive(t)
      PROVE  Cardinality(pq') <= Cardinality(woken')
  <2>1. Cardinality(pq) <= Cardinality(woken) /\ woken' = woken
    BY <1>1, <1>5 DEF NonBlockingReceive
  <2>2. CASE TakeTop
    BY <1>2, <2>1, <2>2, TakeTopStep
  <2>3. CASE UNCHANGED pq
    BY <2>1, <2>3
  <2> QED
    BY <1>5, <2>2, <2>3 DEF NonBlockingReceive
<1>6. ASSUME NEW t \in Thread, BlockingReceive(t)
      PROVE  Cardinality(pq') <= Cardinality(woken')
  <2>1. CASE TakeTop /\ UNCHANGED waiting
    <3>1. Cardinality(pq) <= Cardinality(woken) /\ woken' = woken
      BY <1>1, <1>6, <2>1 DEF BlockingReceive
    <3> QED
      BY <1>2, <2>1, <3>1, TakeTopStep
  <2>2. CASE pq = {} /\ UNCHANGED pq
    BY <1>2, <1>3, <1>6, <2>2 DEF BlockingReceive
  <2> QED
    BY <1>6, <2>1, <2>2 DEF BlockingReceive
<1>7. ASSUME NEW t \in Thread, SpuriousWakeup(t)
      PROVE  Cardinality(pq') <= Cardinality(woken')
  <2>1. t \in Thread \ woken /\ woken' = woken \cup {t} /\ pq' = pq
    BY <1>7 DEF SpuriousWakeup, QueueTypeOK
  <2>2. Cardinality(woken') = Cardinality(woken) + 1
    BY <1>2, <2>1
  <2>3. Cardinality(pq) <= Cardinality(woken) /\ Cardinality(pq) \in Nat
    BY <1>1, <1>7, FS_CardinalityType DEF SpuriousWakeup, QueueTypeOK
  <2> QED
    BY <1>2, <2>1, <2>2, <2>3
<1>8. ASSUME NEW t \in Thread, Resume(t)
      PROVE  Cardinality(pq') <= Cardinality(woken')
  <2>1. Cardinality(woken') = Cardinality(woken) - 1 /\ woken' = woken \ {t}
    BY <1>2, <1>8 DEF Resume
  <2>2. CASE TakeTop /\ UNCHANGED waiting
    <3>1. Cardinality(pq) <= Cardinality(woken)
      BY <1>1, <2>2
    <3> QED
      BY <1>2, <2>1, <2>2, <3>1, TakeTopStep
  <2>3. CASE pq = {} /\ UNCHANGED pq
    <3>1. IsFiniteSet(woken')
      BY <1>8, FS_Subset, ThreadAssumption DEF Resume, QueueTypeOK
    <3> QED
      BY <1>3, <2>3, <3>1, FS_CardinalityType
  <2> QED
    BY <1>8, <2>2, <2>3 DEF Resume
<1>9. CASE UNCHANGED vars
  BY <1>1, <1>9 DEF vars
<1> QED
  BY <1>4, <1>5, <1>6, <1>7, <1>8, <1>9 DEF Next

(* notify_one() inside enqueue() loses no wake-up: while any thread        *)
(* sleeps, each queued message has a woken thread that is yet to look.     *)
THEOREM NoLostWakeupCorrect == Spec => []NoLostWakeup
<1>1. Init => NoLostWakeup
  BY DEF Init, NoLostWakeup
<1> QED
  BY <1>1, TypeCorrect, NoLostWakeupInvariance, PTL DEF Spec
=============================================================================
