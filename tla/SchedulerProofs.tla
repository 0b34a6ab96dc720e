-------------------------- MODULE SchedulerProofs --------------------------
(* The pending messages are well typed, keep the senders' order and are    *)
(* taken in it; nothing overtakes a HIGH one; and, seen by the priority    *)
(* they were sent with, they are the three lanes of PriorityLanes.         *)
EXTENDS Scheduler, SequenceTheorems, TLAPS

LEMMA RemoveAtProperties ==
  ASSUME NEW S, NEW s \in Seq(S), NEW i \in 1 .. Len(s)
  PROVE  /\ RemoveAt(s, i) \in Seq(S)
         /\ Len(RemoveAt(s, i)) = Len(s) - 1
         /\ \A j \in 1 .. Len(s) - 1 :
              RemoveAt(s, i)[j] = IF j < i THEN s[j] ELSE s[j + 1]
<1> DEFINE front == SubSeq(s, 1, i - 1)
           back  == SubSeq(s, i + 1, Len(s))
<1>1. /\ front \in Seq(S)
      /\ Len(front) = i - 1
      /\ \A j \in 1 .. i - 1 : front[j] = s[j]
  BY SubSeqProperties
<1>2. /\ back \in Seq(S)
      /\ Len(back) = Len(s) - i
      /\ \A j \in 1 .. Len(s) - i : back[j] = s[j + i]
  BY SubSeqProperties
<1>3. RemoveAt(s, i) = front \o back
  BY DEF RemoveAt
<1> HIDE DEF front, back
<1>4. /\ front \o back \in Seq(S)
      /\ Len(front \o back) = Len(front) + Len(back)
      /\ \A j \in 1 .. Len(front) + Len(back) :
           (front \o back)[j] = IF j <= Len(front) THEN front[j] ELSE back[j - Len(front)]
  BY <1>1, <1>2, ConcatProperties
<1>5. ASSUME NEW j \in 1 .. Len(s) - 1
      PROVE  (front \o back)[j] = IF j < i THEN s[j] ELSE s[j + 1]
  <2>1. CASE j < i
    BY <1>1, <1>2, <1>4, <2>1
  <2>2. CASE j >= i
    <3>1. /\ j - (i - 1) \in 1 .. Len(s) - i
          /\ (j - (i - 1)) + i = j + 1
      BY <2>2
    <3>2. /\ Len(front) = i - 1
          /\ j \in 1 .. Len(front) + Len(back)
          /\ ~(j <= Len(front))
      BY <1>1, <1>2, <2>2
    <3>3. (front \o back)[j] = back[j - (i - 1)]
      BY <1>4, <3>2
    <3>4. back[j - (i - 1)] = s[(j - (i - 1)) + i]
      BY <1>2, <3>1
    <3> QED
      BY <2>2, <3>1, <3>3, <3>4
  <2>3. j < i \/ j >= i
    OBVIOUS
  <2> QED
    BY <2>1, <2>2, <2>3
<1> QED
  BY <1>1, <1>2, <1>3, <1>4, <1>5
-----------------------------------------------------------------------------
(* What a skip and an aging pass do to one message, and to two.            *)

LEMMA NewMessageType ==
  ASSUME NEW e \in Envelope, NEW p \in Priority
  PROVE  /\ NewMessage(e, p) \in Message
         /\ NewMessage(e, p).envelope = e
         /\ NewMessage(e, p).sentPriority = p
         /\ NewMessage(e, p).priority = p
         /\ NewMessage(e, p).agingCounter = 0
BY DEF NewMessage, Message

LEMMA SkippedType ==
  ASSUME NEW m \in Message
  PROVE  /\ Skipped(m) \in Message
         /\ Skipped(m).envelope = m.envelope
         /\ Skipped(m).sentPriority = m.sentPriority
         /\ Skipped(m).priority = m.priority
         /\ Skipped(m).agingCounter = m.agingCounter + 1
BY DEF Skipped, Message

LEMMA AgedType ==
  ASSUME NEW m \in Message
  PROVE  /\ Aged(m) \in Message
         /\ Aged(m).envelope = m.envelope
         /\ Aged(m).sentPriority = m.sentPriority
         /\ Aged(m).priority >= m.priority
         /\ IF m.agingCounter >= AgingThreshold /\ m.priority # HIGH
            THEN Aged(m).priority = m.priority + 1 /\ Aged(m).agingCounter = 0
            ELSE Aged(m) = m
<1>1. CASE m.agingCounter >= AgingThreshold /\ m.priority # HIGH
  <2> DEFINE up == [m EXCEPT !.priority = m.priority + 1]
  <2>1. Aged(m) = [up EXCEPT !.agingCounter = 0]
    BY <1>1 DEF Aged
  <2>2. /\ m.priority \in {1, 2}
        /\ m.priority + 1 \in Priority
        /\ m.priority + 1 >= m.priority
    BY <1>1 DEF Message, Priority, LOW, MEDIUM, HIGH
  <2>3. /\ up \in Message
        /\ up.envelope = m.envelope
        /\ up.sentPriority = m.sentPriority
        /\ up.priority = m.priority + 1
    BY <2>2 DEF Message
  <2> HIDE DEF up
  <2>4. /\ Aged(m) \in Message
        /\ Aged(m).envelope = m.envelope
        /\ Aged(m).sentPriority = m.sentPriority
        /\ Aged(m).priority = m.priority + 1
        /\ Aged(m).agingCounter = 0
    BY <2>1, <2>3 DEF Message
  <2> QED
    BY <1>1, <2>2, <2>4
<1>2. CASE ~(m.agingCounter >= AgingThreshold /\ m.priority # HIGH)
  <2>1. Aged(m) = m
    BY <1>2 DEF Aged
  <2> QED
    BY <1>2, <2>1 DEF Message, Priority, LOW, MEDIUM, HIGH
<1> QED
  BY <1>1, <1>2

LEMMA SkippedKeepsOrder ==
  ASSUME NEW a \in Message, NEW b \in Message, InOrder(a, b)
  PROVE  InOrder(Skipped(a), Skipped(b))
BY SkippedType, ThresholdAssumption DEF InOrder, Message

LEMMA AgedKeepsOrder ==
  ASSUME NEW a \in Message, NEW b \in Message, InOrder(a, b)
  PROVE  InOrder(Aged(a), Aged(b))
BY AgedType, ThresholdAssumption DEF InOrder, Message, Priority, LOW, MEDIUM, HIGH

LEMMA ScoreType ==
  ASSUME NEW m \in Message
  PROVE  /\ Score(m) \in Nat
         /\ Score(m) = m.priority * PriorityWeight + m.agingCounter
BY WeightAssumption DEF Score, Message, Priority, LOW, MEDIUM, HIGH

LEMMA OrderImpliesScore ==
  ASSUME NEW a \in Message, NEW b \in Message, InOrder(a, b)
  PROVE  Score(a) >= Score(b)
<1>1. \A m \in Message :
        /\ m.agingCounter \in Nat
        /\ m.priority = 1 => Score(m) = PriorityWeight + m.agingCounter
        /\ m.priority = 2 => Score(m) = 2 * PriorityWeight + m.agingCounter
        /\ m.priority = 3 => Score(m) = 3 * PriorityWeight + m.agingCounter
        /\ m.priority \in 1 .. 3
  BY WeightAssumption DEF Score, Message, Priority, LOW, MEDIUM, HIGH
<1> QED
  BY <1>1, WeightAssumption, ThresholdAssumption, WeightCoversThreshold DEF InOrder
-----------------------------------------------------------------------------
(* What each action does to the vector, entry by entry.                    *)

LEMMA SendStep ==
  ASSUME pendingMessages \in Seq(Message),
         NEW m \in Message, AddMessage(m)
  PROVE  /\ pendingMessages' \in Seq(Message)
         /\ Len(pendingMessages') = Len(pendingMessages) + 1
         /\ \A k \in 1 .. Len(pendingMessages) : pendingMessages'[k] = pendingMessages[k]
         /\ pendingMessages'[Len(pendingMessages) + 1] = m
BY AppendProperties DEF AddMessage

(* Where the entry now at k was before the one at best was taken.          *)
Origin(best, k) == IF k < best THEN k ELSE k + 1

LEMMA DispatchStep ==
  ASSUME pendingMessages \in Seq(Message),
         NEW best \in DOMAIN pendingMessages, GetNextMessage(best)
  PROVE  /\ pendingMessages' \in Seq(Message)
         /\ Len(pendingMessages') = Len(pendingMessages) - 1
         /\ \A k \in 1 .. Len(pendingMessages) - 1 :
              /\ Origin(best, k) \in DOMAIN pendingMessages
              /\ Origin(best, k) # best
              /\ pendingMessages'[k] = Skipped(pendingMessages[Origin(best, k)])
<1> DEFINE rest == RemoveAt(pendingMessages, best)
<1>1. /\ Len(pendingMessages) \in Nat
      /\ DOMAIN pendingMessages = 1 .. Len(pendingMessages)
      /\ best \in 1 .. Len(pendingMessages)
  BY LenProperties
<1>2. /\ rest \in Seq(Message)
      /\ Len(rest) = Len(pendingMessages) - 1
      /\ \A k \in 1 .. Len(pendingMessages) - 1 :
           rest[k] = IF k < best THEN pendingMessages[k] ELSE pendingMessages[k + 1]
  BY <1>1, RemoveAtProperties
<1>3. pendingMessages' = [i \in DOMAIN rest |-> Skipped(rest[i])]
  BY DEF GetNextMessage
<1> HIDE DEF rest
<1>4. DOMAIN rest = 1 .. Len(pendingMessages) - 1
  BY <1>1, <1>2, LenProperties
<1>5. ASSUME NEW k \in 1 .. Len(pendingMessages) - 1
      PROVE  /\ Origin(best, k) \in DOMAIN pendingMessages
             /\ Origin(best, k) # best
             /\ rest[k] = pendingMessages[Origin(best, k)]
             /\ Skipped(rest[k]) \in Message
  <2>1. /\ Origin(best, k) \in DOMAIN pendingMessages
        /\ Origin(best, k) # best
        /\ rest[k] = pendingMessages[Origin(best, k)]
    BY <1>1, <1>2 DEF Origin
  <2>2. rest[k] \in Message
    BY <1>1, <2>1, ElementOfSeq
  <2> QED
    BY <2>1, <2>2, SkippedType
<1>6. pendingMessages' = [i \in 1 .. Len(pendingMessages) - 1 |-> Skipped(rest[i])]
  BY <1>3, <1>4
<1>7. Len(pendingMessages) - 1 \in Nat
  BY <1>1
<1>8. pendingMessages' \in Seq(Message) /\ Len(pendingMessages') = Len(pendingMessages) - 1
  BY <1>5, <1>6, <1>7
<1>9. \A k \in 1 .. Len(pendingMessages) - 1 :
        pendingMessages'[k] = Skipped(rest[k])
  BY <1>6
<1> QED
  BY <1>5, <1>8, <1>9

LEMMA AgingStep ==
  ASSUME pendingMessages \in Seq(Message), ApplyAging
  PROVE  /\ pendingMessages' \in Seq(Message)
         /\ Len(pendingMessages') = Len(pendingMessages)
         /\ \A k \in DOMAIN pendingMessages :
              pendingMessages'[k] = Aged(pendingMessages[k])
<1>1. /\ Len(pendingMessages) \in Nat
      /\ DOMAIN pendingMessages = 1 .. Len(pendingMessages)
  BY LenProperties
<1>2. \A k \in 1 .. Len(pendingMessages) : Aged(pendingMessages[k]) \in Message
  BY ElementOfSeq, AgedType
<1>3. pendingMessages' = [i \in 1 .. Len(pendingMessages) |-> Aged(pendingMessages[i])]
  BY <1>1 DEF ApplyAging
<1> QED
  BY <1>1, <1>2, <1>3
-----------------------------------------------------------------------------
(* Type correctness.                                                       *)

LEMMA TypeFacts ==
  ASSUME TypeOK
  PROVE  /\ pendingMessages \in Seq(Message)
         /\ Len(pendingMessages) \in Nat
         /\ DOMAIN pendingMessages = 1 .. Len(pendingMessages)
         /\ \A i \in 1 .. Len(pendingMessages) : pendingMessages[i] \in Message
BY LenProperties, ElementOfSeq DEF TypeOK

LEMMA NewEnvelope ==
  ASSUME NEW e \in Envelope \ PendingEnvelopes
  PROVE  \A i \in DOMAIN pendingMessages : pendingMessages[i].envelope # e
BY DEF PendingEnvelopes, ToSet

LEMMA TypeInvariance == TypeOK /\ [Next]_pendingMessages => TypeOK'
<1> SUFFICES ASSUME TypeOK, [Next]_pendingMessages
             PROVE  TypeOK'
  OBVIOUS
<1> USE TypeFacts
<1>1. CASE Send
  <2>1. PICK e \in Envelope \ PendingEnvelopes, p \in Priority :
          AddMessage(NewMessage(e, p))
    BY <1>1 DEF Send
  <2>2. /\ pendingMessages' \in Seq(Message)
        /\ Len(pendingMessages') = Len(pendingMessages) + 1
        /\ \A k \in 1 .. Len(pendingMessages) : pendingMessages'[k] = pendingMessages[k]
        /\ pendingMessages'[Len(pendingMessages) + 1] = NewMessage(e, p)
    BY <2>1, NewMessageType, SendStep
  <2>3. DOMAIN pendingMessages' = 1 .. Len(pendingMessages) + 1
    BY <2>2, LenProperties
  <2>4. \A i \in 1 .. Len(pendingMessages) : pendingMessages'[i].envelope # e
    BY <2>2, NewEnvelope
  <2>5. ASSUME NEW i \in DOMAIN pendingMessages'
        PROVE  pendingMessages'[i].priority >= pendingMessages'[i].sentPriority
    BY <2>2, <2>3, NewMessageType DEF TypeOK, Priority, LOW, MEDIUM, HIGH
  <2>6. ASSUME NEW i \in DOMAIN pendingMessages', NEW j \in DOMAIN pendingMessages',
               pendingMessages'[i].envelope = pendingMessages'[j].envelope
        PROVE  i = j
    BY <2>2, <2>3, <2>4, <2>6, NewMessageType DEF TypeOK
  <2> QED
    BY <2>2, <2>5, <2>6 DEF TypeOK
<1>2. CASE Dispatch
  <2>1. PICK best \in DOMAIN pendingMessages : GetNextMessage(best)
    BY <1>2 DEF Dispatch
  <2>2. /\ pendingMessages' \in Seq(Message)
        /\ Len(pendingMessages') = Len(pendingMessages) - 1
        /\ \A k \in 1 .. Len(pendingMessages) - 1 :
             /\ Origin(best, k) \in DOMAIN pendingMessages
             /\ pendingMessages'[k] = Skipped(pendingMessages[Origin(best, k)])
    BY <2>1, DispatchStep
  <2>3. DOMAIN pendingMessages' = 1 .. Len(pendingMessages) - 1
    BY <2>2, LenProperties
  <2>4. ASSUME NEW i \in DOMAIN pendingMessages'
        PROVE  LET m == pendingMessages[Origin(best, i)]
               IN  /\ Origin(best, i) \in DOMAIN pendingMessages
                   /\ m \in Message
                   /\ pendingMessages'[i] = Skipped(m)
    BY <2>2, <2>3
  <2>5. ASSUME NEW i \in DOMAIN pendingMessages'
        PROVE  pendingMessages'[i].priority >= pendingMessages'[i].sentPriority
    BY <2>4, SkippedType DEF TypeOK
  <2>6. ASSUME NEW i \in DOMAIN pendingMessages', NEW j \in DOMAIN pendingMessages',
               pendingMessages'[i].envelope = pendingMessages'[j].envelope
        PROVE  i = j
    <3>1. Origin(best, i) = Origin(best, j)
      BY <2>4, <2>6, SkippedType DEF TypeOK
    <3> QED
      BY <2>3, <3>1 DEF Origin
  <2> QED
    BY <2>2, <2>5, <2>6 DEF TypeOK
<1>3. CASE ApplyAging
  <2>1. /\ pendingMessages' \in Seq(Message)
        /\ Len(pendingMessages') = Len(pendingMessages)
        /\ \A k \in DOMAIN pendingMessages :
             pendingMessages'[k] = Aged(pendingMessages[k])
    BY <1>3, AgingStep
  <2>2. DOMAIN pendingMessages' = DOMAIN pendingMessages
    BY <2>1, LenProperties
  <2>3. ASSUME NEW i \in DOMAIN pendingMessages'
        PROVE  pendingMessages'[i].priority >= pendingMessages'[i].sentPriority
    <3> DEFINE m == pendingMessages[i]
    <3>1. m \in Message /\ pendingMessages'[i] = Aged(m)
      BY <2>1, <2>2
    <3>2. m.priority >= m.sentPriority
      BY <2>2 DEF TypeOK
    <3> HIDE DEF m
    <3>3. /\ Aged(m) \in Message
          /\ Aged(m).priority >= m.priority
          /\ Aged(m).sentPriority = m.sentPriority
      BY <3>1, AgedType
    <3>4. /\ m.priority \in Nat
          /\ m.sentPriority \in Nat
          /\ Aged(m).priority \in Nat
      BY <3>1, <3>3 DEF Message, Priority, LOW, MEDIUM, HIGH
    <3> QED
      BY <3>1, <3>2, <3>3, <3>4
  <2>4. ASSUME NEW i \in DOMAIN pendingMessages', NEW j \in DOMAIN pendingMessages',
               pendingMessages'[i].envelope = pendingMessages'[j].envelope
        PROVE  i = j
    BY <2>1, <2>2, <2>4, AgedType DEF TypeOK
  <2> QED
    BY <2>1, <2>3, <2>4 DEF TypeOK
<1>4. CASE UNCHANGED pendingMessages
  BY <1>4 DEF TypeOK
<1> QED
  BY <1>1, <1>2, <1>3, <1>4 DEF Next

(* No sequence of sends, dispatches and aging passes lowers a message      *)
(* below its sent priority, takes it out of the three levels or duplicates *)
(* it.                                                                     *)
THEOREM TypeCorrect == Spec => []TypeOK
<1>1. Init => TypeOK
  BY EmptySeq DEF Init, TypeOK
<1> QED
  BY <1>1, TypeInvariance, PTL DEF Spec
-----------------------------------------------------------------------------
(* The FIFO order within a sent priority.                                  *)

LEMMA SentOrderInvariance ==
  TypeOK /\ SentOrder /\ [Next]_pendingMessages => SentOrder'
<1> SUFFICES ASSUME TypeOK, SentOrder, [Next]_pendingMessages,
                    NEW i \in DOMAIN pendingMessages', NEW j \in DOMAIN pendingMessages',
                    i < j,
                    pendingMessages'[i].sentPriority = pendingMessages'[j].sentPriority
             PROVE  InOrder(pendingMessages'[i], pendingMessages'[j])
  BY DEF SentOrder
<1> USE TypeFacts
<1>1. CASE Send
  <2>1. PICK e \in Envelope \ PendingEnvelopes, p \in Priority :
          AddMessage(NewMessage(e, p))
    BY <1>1 DEF Send
  <2>2. /\ pendingMessages' \in Seq(Message)
        /\ Len(pendingMessages') = Len(pendingMessages) + 1
        /\ \A k \in 1 .. Len(pendingMessages) : pendingMessages'[k] = pendingMessages[k]
        /\ pendingMessages'[Len(pendingMessages) + 1] = NewMessage(e, p)
    BY <2>1, NewMessageType, SendStep
  <2>3. DOMAIN pendingMessages' = 1 .. Len(pendingMessages) + 1
    BY <2>2, LenProperties
  <2>4. CASE j = Len(pendingMessages) + 1
    <3>1. /\ i \in 1 .. Len(pendingMessages)
          /\ pendingMessages'[i] = pendingMessages[i]
          /\ pendingMessages[i] \in Message
          /\ pendingMessages[i].priority >= pendingMessages[i].sentPriority
      BY <2>2, <2>3, <2>4 DEF TypeOK
    <3>2. pendingMessages'[j] = NewMessage(e, p)
      BY <2>2, <2>4
    <3> QED
      BY <3>1, <3>2, NewMessageType, ThresholdAssumption
         DEF InOrder, Message, Priority, LOW, MEDIUM, HIGH
  <2>5. CASE j # Len(pendingMessages) + 1
    <3>1. /\ i \in 1 .. Len(pendingMessages)
          /\ j \in 1 .. Len(pendingMessages)
      BY <2>3, <2>5
    <3> QED
      BY <2>2, <3>1 DEF SentOrder
  <2> QED
    BY <2>4, <2>5
<1>2. CASE Dispatch
  <2>1. PICK best \in DOMAIN pendingMessages : GetNextMessage(best)
    BY <1>2 DEF Dispatch
  <2>2. /\ pendingMessages' \in Seq(Message)
        /\ Len(pendingMessages') = Len(pendingMessages) - 1
        /\ \A k \in 1 .. Len(pendingMessages) - 1 :
             /\ Origin(best, k) \in DOMAIN pendingMessages
             /\ pendingMessages'[k] = Skipped(pendingMessages[Origin(best, k)])
    BY <2>1, DispatchStep
  <2>3. DOMAIN pendingMessages' = 1 .. Len(pendingMessages) - 1
    BY <2>2, LenProperties
  <2>4. Origin(best, i) < Origin(best, j)
    BY <2>3 DEF Origin
  <2> DEFINE a == pendingMessages[Origin(best, i)]
             b == pendingMessages[Origin(best, j)]
  <2>5. /\ a \in Message /\ pendingMessages'[i] = Skipped(a)
        /\ b \in Message /\ pendingMessages'[j] = Skipped(b)
        /\ Origin(best, i) \in DOMAIN pendingMessages
        /\ Origin(best, j) \in DOMAIN pendingMessages
    BY <2>2, <2>3
  <2>6. a.sentPriority = b.sentPriority
    BY <2>5, SkippedType
  <2>7. InOrder(a, b)
    BY <2>4, <2>5, <2>6 DEF SentOrder
  <2> QED
    BY <2>5, <2>7, SkippedKeepsOrder
<1>3. CASE ApplyAging
  <2>1. /\ pendingMessages' \in Seq(Message)
        /\ Len(pendingMessages') = Len(pendingMessages)
        /\ \A k \in DOMAIN pendingMessages :
             pendingMessages'[k] = Aged(pendingMessages[k])
    BY <1>3, AgingStep
  <2>2. DOMAIN pendingMessages' = DOMAIN pendingMessages
    BY <2>1, LenProperties
  <2>3. InOrder(pendingMessages[i], pendingMessages[j])
    BY <2>1, <2>2, AgedType DEF SentOrder
  <2> QED
    BY <2>1, <2>2, <2>3, AgedKeepsOrder
<1>4. CASE UNCHANGED pendingMessages
  BY <1>4 DEF SentOrder
<1> QED
  BY <1>1, <1>2, <1>3, <1>4 DEF Next

(* Skips, boosts and resets keep two messages of one sent priority in the  *)
(* order InOrder, for every threshold.                                     *)
THEOREM SentOrderCorrect == Spec => []SentOrder
<1>1. Init => SentOrder
  BY DEF Init, SentOrder
<1> QED
  BY <1>1, TypeCorrect, SentOrderInvariance, PTL DEF Spec

LEMMA SentOrderImpliesFifo == TypeOK /\ SentOrder => OldestOfItsPriorityFirst
<1> SUFFICES ASSUME TypeOK, SentOrder,
                    NEW best \in DOMAIN pendingMessages,
                    IsHighestPriorityIndex(pendingMessages, best),
                    NEW i \in DOMAIN pendingMessages,
                    pendingMessages[i].sentPriority = pendingMessages[best].sentPriority,
                    ~(best <= i)
             PROVE  FALSE
  BY DEF OldestOfItsPriorityFirst
<1>1. /\ i < best
      /\ pendingMessages[i] \in Message
      /\ pendingMessages[best] \in Message
  BY TypeFacts
<1>2. Score(pendingMessages[i]) >= Score(pendingMessages[best])
  BY <1>1, OrderImpliesScore DEF SentOrder
<1>3. /\ Score(pendingMessages[i]) \in Nat
      /\ Score(pendingMessages[best]) \in Nat
  BY <1>1, ScoreType
<1>4. \/ Score(pendingMessages[i]) < Score(pendingMessages[best])
      \/ Score(pendingMessages[i]) = Score(pendingMessages[best]) /\ best <= i
  BY DEF IsHighestPriorityIndex
<1> QED
  BY <1>1, <1>2, <1>3, <1>4

(* getNextMessage() takes the oldest message of some sent priority, for    *)
(* any number of waiting messages, any arrivals and any aging schedule.    *)
THEOREM FifoCorrect == Spec => []OldestOfItsPriorityFirst
BY TypeCorrect, SentOrderCorrect, SentOrderImpliesFifo, PTL
-----------------------------------------------------------------------------
(* A HIGH message keeps its place.                                         *)

LEMMA ScoreByPriority ==
  ASSUME NEW m \in Message
  PROVE  /\ m.agingCounter \in Nat
         /\ Score(m) \in Nat
         /\ m.priority = LOW => Score(m) = PriorityWeight + m.agingCounter
         /\ m.priority = MEDIUM => Score(m) = 2 * PriorityWeight + m.agingCounter
         /\ m.priority = HIGH => Score(m) = 3 * PriorityWeight + m.agingCounter
         /\ m.priority \in {LOW, MEDIUM, HIGH}
BY WeightAssumption DEF Score, Message, Priority, LOW, MEDIUM, HIGH

LEMMA SkippedScore ==
  ASSUME NEW m \in Message
  PROVE  Score(Skipped(m)) = Score(m) + 1
<1>1. Score(m) = m.priority * PriorityWeight + m.agingCounter
  BY ScoreType
<1>2. Score(Skipped(m)) = m.priority * PriorityWeight + (m.agingCounter + 1)
  BY SkippedType, ScoreType
<1>3. m.agingCounter \in Nat /\ m.priority * PriorityWeight \in Nat
  BY WeightAssumption DEF Message, Priority, LOW, MEDIUM, HIGH
<1> QED
  BY <1>1, <1>2, <1>3

(* A boost ends at a full level with no skips, and a HIGH message has at   *)
(* least that.                                                             *)
LEMMA AgedStaysBelowHigh ==
  ASSUME NEW a \in Message, NEW b \in Message,
         a.priority = HIGH, Score(a) >= Score(b)
  PROVE  Score(Aged(a)) >= Score(Aged(b))
<1>1. Aged(a) = a
  BY AgedType
<1>2. CASE b.agingCounter >= AgingThreshold /\ b.priority # HIGH
  <2>1. /\ Aged(b) \in Message
        /\ Aged(b).priority \in {MEDIUM, HIGH}
        /\ Aged(b).agingCounter = 0
    BY <1>2, AgedType DEF Message, Priority, LOW, MEDIUM, HIGH
  <2>2. Score(Aged(b)) <= 3 * PriorityWeight
    BY <2>1, ScoreByPriority, WeightAssumption
  <2>3. Score(Aged(b)) \in Nat /\ Score(a) \in Nat /\ Score(a) >= 3 * PriorityWeight
    BY <2>1, ScoreByPriority, WeightAssumption
  <2> QED
    BY <1>1, <2>2, <2>3, WeightAssumption
<1>3. CASE ~(b.agingCounter >= AgingThreshold /\ b.priority # HIGH)
  BY <1>1, <1>3, AgedType
<1> QED
  BY <1>2, <1>3

LEMMA SendKeepsHigh == TypeOK /\ Send => HighKeepsItsPlace
<1> SUFFICES ASSUME TypeOK, Send
             PROVE  HighKeepsItsPlace
  OBVIOUS
<1> USE TypeFacts
<1>1. PICK e \in Envelope \ PendingEnvelopes, p \in Priority :
        AddMessage(NewMessage(e, p))
  BY DEF Send
<1>2. /\ pendingMessages' \in Seq(Message)
      /\ Len(pendingMessages') = Len(pendingMessages) + 1
      /\ \A k \in 1 .. Len(pendingMessages) : pendingMessages'[k] = pendingMessages[k]
      /\ pendingMessages'[Len(pendingMessages) + 1] = NewMessage(e, p)
  BY <1>1, NewMessageType, SendStep
<1>3. DOMAIN pendingMessages' = 1 .. Len(pendingMessages) + 1
  BY <1>2, LenProperties
<1>4. \A i \in 1 .. Len(pendingMessages) : pendingMessages[i].envelope # e
  BY NewEnvelope
<1>5. ASSUME NEW i \in DOMAIN pendingMessages, NEW k \in DOMAIN pendingMessages',
             pendingMessages'[k].envelope = pendingMessages[i].envelope
      PROVE  k = i /\ pendingMessages'[k] = pendingMessages[i]
  <2>1. k # Len(pendingMessages) + 1
    BY <1>2, <1>4, <1>5, NewMessageType
  <2> QED
    BY <1>2, <1>3, <1>5, <2>1 DEF TypeOK
<1>6. KeepsItsPlace(pendingMessages, pendingMessages', IsHigh)
  BY <1>5 DEF KeepsItsPlace, Ahead
<1>7. ASSUME NEW k \in DOMAIN pendingMessages', NEW l \in DOMAIN pendingMessages',
             pendingMessages'[k].priority = HIGH, k # l,
             \A j \in DOMAIN pendingMessages :
               pendingMessages[j].envelope # pendingMessages'[l].envelope
      PROVE  k < l /\ Score(pendingMessages'[k]) >= Score(pendingMessages'[l])
  <2>1. l = Len(pendingMessages) + 1
    BY <1>2, <1>3, <1>7
  <2>2. /\ k \in 1 .. Len(pendingMessages)
        /\ k < l
        /\ pendingMessages'[k] \in Message
    BY <1>2, <1>3, <1>7, <2>1
  <2>3. Score(pendingMessages'[k]) \in Nat /\ Score(pendingMessages'[k]) >= 3 * PriorityWeight
    <3> DEFINE m == pendingMessages'[k]
    <3>1. m \in Message /\ m.priority = HIGH
      BY <1>7, <2>2
    <3> HIDE DEF m
    <3>2. m.agingCounter \in Nat /\ Score(m) = 3 * PriorityWeight + m.agingCounter
      BY <3>1, ScoreByPriority
    <3>3. Score(m) \in Nat /\ Score(m) >= 3 * PriorityWeight
      BY <3>2, WeightAssumption
    <3> QED
      BY <3>3 DEF m
  <2>4. Score(NewMessage(e, p)) \in Nat /\ Score(NewMessage(e, p)) <= 3 * PriorityWeight
    BY NewMessageType, ScoreByPriority, WeightAssumption
  <2>5. pendingMessages'[l] = NewMessage(e, p)
    BY <1>2, <2>1
  <2>6. Score(pendingMessages'[k]) >= Score(NewMessage(e, p))
    BY <2>3, <2>4, WeightAssumption
  <2> QED
    BY <2>2, <2>5, <2>6
<1>8. NewcomersBehind(pendingMessages, pendingMessages', IsHigh)
  BY <1>7 DEF NewcomersBehind, Ahead, IsHigh
<1> QED
  BY <1>6, <1>8 DEF HighKeepsItsPlace

LEMMA DispatchKeepsHigh == TypeOK /\ Dispatch => HighKeepsItsPlace
<1> SUFFICES ASSUME TypeOK, Dispatch
             PROVE  HighKeepsItsPlace
  OBVIOUS
<1> USE TypeFacts
<1>1. PICK best \in DOMAIN pendingMessages : GetNextMessage(best)
  BY DEF Dispatch
<1>2. /\ pendingMessages' \in Seq(Message)
      /\ Len(pendingMessages') = Len(pendingMessages) - 1
      /\ \A k \in 1 .. Len(pendingMessages) - 1 :
           /\ Origin(best, k) \in DOMAIN pendingMessages
           /\ pendingMessages'[k] = Skipped(pendingMessages[Origin(best, k)])
  BY <1>1, DispatchStep
<1>3. DOMAIN pendingMessages' = 1 .. Len(pendingMessages) - 1
  BY <1>2, LenProperties
<1>4. ASSUME NEW k \in DOMAIN pendingMessages'
      PROVE  LET m == pendingMessages[Origin(best, k)]
             IN  /\ Origin(best, k) \in DOMAIN pendingMessages
                 /\ m \in Message
                 /\ pendingMessages'[k].envelope = m.envelope
                 /\ Score(pendingMessages'[k]) = Score(m) + 1
                 /\ Score(m) \in Nat
  <2> DEFINE m == pendingMessages[Origin(best, k)]
  <2>1. /\ Origin(best, k) \in DOMAIN pendingMessages
        /\ m \in Message
        /\ pendingMessages'[k] = Skipped(m)
    BY <1>2, <1>3
  <2> QED
    BY <2>1, SkippedType, SkippedScore, ScoreType
<1>5. ASSUME NEW i \in DOMAIN pendingMessages, NEW k \in DOMAIN pendingMessages',
             pendingMessages'[k].envelope = pendingMessages[i].envelope
      PROVE  Origin(best, k) = i
  BY <1>4, <1>5 DEF TypeOK
<1>6. ASSUME NEW i \in DOMAIN pendingMessages, NEW j \in DOMAIN pendingMessages,
             NEW k \in DOMAIN pendingMessages', NEW l \in DOMAIN pendingMessages',
             i < j, Score(pendingMessages[i]) >= Score(pendingMessages[j]),
             pendingMessages'[k].envelope = pendingMessages[i].envelope,
             pendingMessages'[l].envelope = pendingMessages[j].envelope
      PROVE  k < l /\ Score(pendingMessages'[k]) >= Score(pendingMessages'[l])
  <2>1. Origin(best, k) = i /\ Origin(best, l) = j
    BY <1>5, <1>6
  <2>2. k < l
    BY <1>3, <1>6, <2>1 DEF Origin
  <2> QED
    BY <1>4, <1>6, <2>1, <2>2
<1>7. KeepsItsPlace(pendingMessages, pendingMessages', IsHigh)
  BY <1>6 DEF KeepsItsPlace, Ahead
<1>8. NewcomersBehind(pendingMessages, pendingMessages', IsHigh)
  BY <1>4 DEF NewcomersBehind
<1> QED
  BY <1>7, <1>8 DEF HighKeepsItsPlace

LEMMA AgingKeepsHigh == TypeOK /\ ApplyAging => HighKeepsItsPlace
<1> SUFFICES ASSUME TypeOK, ApplyAging
             PROVE  HighKeepsItsPlace
  OBVIOUS
<1> USE TypeFacts
<1>1. /\ Len(pendingMessages') = Len(pendingMessages)
      /\ pendingMessages' \in Seq(Message)
      /\ \A k \in DOMAIN pendingMessages :
           pendingMessages'[k] = Aged(pendingMessages[k])
  BY AgingStep
<1>2. DOMAIN pendingMessages' = DOMAIN pendingMessages
  BY <1>1, LenProperties
<1>3. \A k \in DOMAIN pendingMessages' :
        /\ pendingMessages[k] \in Message
        /\ pendingMessages'[k].envelope = pendingMessages[k].envelope
  BY <1>1, <1>2, AgedType
<1>4. ASSUME NEW i \in DOMAIN pendingMessages, NEW k \in DOMAIN pendingMessages',
             pendingMessages'[k].envelope = pendingMessages[i].envelope
      PROVE  k = i
  BY <1>2, <1>3, <1>4 DEF TypeOK
<1>5. ASSUME NEW i \in DOMAIN pendingMessages, NEW j \in DOMAIN pendingMessages,
             pendingMessages[i].priority = HIGH,
             Score(pendingMessages[i]) >= Score(pendingMessages[j])
      PROVE  Score(pendingMessages'[i]) >= Score(pendingMessages'[j])
  <2>1. pendingMessages[i] \in Message /\ pendingMessages[j] \in Message
    OBVIOUS
  <2> QED
    BY <1>1, <1>5, <2>1, AgedStaysBelowHigh
<1>6. KeepsItsPlace(pendingMessages, pendingMessages', IsHigh)
  BY <1>4, <1>5 DEF KeepsItsPlace, Ahead, IsHigh
<1>7. NewcomersBehind(pendingMessages, pendingMessages', IsHigh)
  BY <1>2, <1>3 DEF NewcomersBehind
<1> QED
  BY <1>6, <1>7 DEF HighKeepsItsPlace

(* Once HIGH, a message is overtaken by nothing: not by a younger HIGH one *)
(* whose counter grows with it, not by one that aging lifts to HIGH, not   *)
(* by a newcomer. For every weight and threshold.                          *)
THEOREM HighIsNeverOvertakenCorrect == Spec => HighIsNeverOvertaken
<1>1. TypeOK /\ [Next]_pendingMessages => [HighKeepsItsPlace]_pendingMessages
  BY SendKeepsHigh, DispatchKeepsHigh, AgingKeepsHigh DEF Next
<1> QED
  BY <1>1, TypeCorrect, PTL DEF Spec, HighIsNeverOvertaken

-----------------------------------------------------------------------------
(* The Scheduler implements PriorityLanes under the mapping that keeps of  *)
(* every pending message its ticket.                                       *)
Tickets(s) == [i \in DOMAIN s |-> TicketOf(s[i])]

LEMMA TicketOfType ==
  ASSUME NEW m \in Message
  PROVE  /\ TicketOf(m) \in Lanes!Ticket
         /\ TicketOf(m).envelope = m.envelope
         /\ TicketOf(m).sentPriority = m.sentPriority
BY DEF TicketOf, Lanes!Ticket, Message

LEMMA TicketsType ==
  ASSUME NEW s \in Seq(Message)
  PROVE  /\ Tickets(s) \in Seq(Lanes!Ticket)
         /\ Len(Tickets(s)) = Len(s)
         /\ \A i \in 1 .. Len(s) : Tickets(s)[i] = TicketOf(s[i])
<1>1. Len(s) \in Nat /\ DOMAIN s = 1 .. Len(s)
  BY LenProperties
<1>2. \A i \in 1 .. Len(s) : TicketOf(s[i]) \in Lanes!Ticket
  BY ElementOfSeq, TicketOfType
<1>3. Tickets(s) = [i \in 1 .. Len(s) |-> TicketOf(s[i])]
  BY <1>1 DEF Tickets
<1> QED
  BY <1>1, <1>2, <1>3

LEMMA SameSeq ==
  ASSUME NEW S, NEW s \in Seq(S), NEW t \in Seq(S), Len(s) = Len(t),
         \A i \in 1 .. Len(s) : s[i] = t[i]
  PROVE  s = t
BY SeqEqual

(* addMessage() is an arrival.                                             *)
LEMMA SendArrives == TypeOK /\ Send => Lanes!Next
<1> SUFFICES ASSUME TypeOK, Send
             PROVE  Lanes!Next
  OBVIOUS
<1> USE TypeFacts
<1>1. PICK e \in Envelope \ PendingEnvelopes, p \in Priority :
        AddMessage(NewMessage(e, p))
  BY DEF Send
<1> DEFINE n == Len(pendingMessages)
           t == TicketOf(NewMessage(e, p))
           w == Tickets(pendingMessages)
<1>2. /\ pendingMessages' \in Seq(Message)
      /\ Len(pendingMessages') = n + 1
      /\ \A k \in 1 .. n : pendingMessages'[k] = pendingMessages[k]
      /\ pendingMessages'[n + 1] = NewMessage(e, p)
  BY <1>1, NewMessageType, SendStep
<1>3. /\ w \in Seq(Lanes!Ticket)
      /\ Len(w) = n
      /\ \A i \in 1 .. n : w[i] = TicketOf(pendingMessages[i])
  BY TicketsType
<1>4. /\ Tickets(pendingMessages') \in Seq(Lanes!Ticket)
      /\ Len(Tickets(pendingMessages')) = n + 1
      /\ \A i \in 1 .. n + 1 :
           Tickets(pendingMessages')[i] = TicketOf(pendingMessages'[i])
  BY <1>2, TicketsType
<1>5. t \in Lanes!Ticket /\ t.envelope = e
  BY NewMessageType DEF TicketOf, Lanes!Ticket
<1> HIDE DEF w, t
<1>6. /\ Append(w, t) \in Seq(Lanes!Ticket)
      /\ Len(Append(w, t)) = n + 1
      /\ \A i \in 1 .. n : Append(w, t)[i] = w[i]
      /\ Append(w, t)[n + 1] = t
  BY <1>3, <1>5, AppendProperties
<1>7. ASSUME NEW i \in 1 .. n + 1
      PROVE  Tickets(pendingMessages')[i] = Append(w, t)[i]
  <2>1. CASE i \in 1 .. n
    BY <1>2, <1>3, <1>4, <1>6, <2>1
  <2>2. CASE i = n + 1
    BY <1>2, <1>4, <1>6, <2>2 DEF t
  <2>3. i \in 1 .. n \/ i = n + 1
    OBVIOUS
  <2> QED
    BY <2>1, <2>2, <2>3
<1>8. Tickets(pendingMessages') = Append(w, t)
  BY <1>4, <1>6, <1>7, SameSeq
<1>9. \A i \in DOMAIN w : w[i].envelope # t.envelope
  <2>1. \A i \in 1 .. n : /\ pendingMessages[i] \in Message
                          /\ pendingMessages[i].envelope # e
    BY NewEnvelope
  <2>2. DOMAIN w = 1 .. n
    BY <1>3, LenProperties
  <2> QED
    BY <1>3, <1>5, <2>1, <2>2, TicketOfType
<1>10. Lanes!Arrive(t)
  BY <1>8, <1>9 DEF Lanes!Arrive, Tickets, w
<1> QED
  BY <1>5, <1>10 DEF Lanes!Next

(* getNextMessage() serves the oldest ticket of a lane.                    *)
LEMMA DispatchServes == TypeOK /\ SentOrder /\ Dispatch => Lanes!Next
<1> SUFFICES ASSUME TypeOK, SentOrder, Dispatch
             PROVE  Lanes!Next
  OBVIOUS
<1> USE TypeFacts
<1>1. PICK best \in DOMAIN pendingMessages : GetNextMessage(best)
  BY DEF Dispatch
<1> DEFINE n == Len(pendingMessages)
           w == Tickets(pendingMessages)
<1>2. /\ pendingMessages' \in Seq(Message)
      /\ Len(pendingMessages') = n - 1
      /\ \A k \in 1 .. n - 1 :
           /\ Origin(best, k) \in DOMAIN pendingMessages
           /\ pendingMessages'[k] = Skipped(pendingMessages[Origin(best, k)])
  BY <1>1, DispatchStep
<1>3. /\ w \in Seq(Lanes!Ticket)
      /\ Len(w) = n
      /\ DOMAIN w = 1 .. n
      /\ \A i \in 1 .. n : w[i] = TicketOf(pendingMessages[i])
  BY TicketsType, LenProperties
<1>4. /\ Tickets(pendingMessages') \in Seq(Lanes!Ticket)
      /\ Len(Tickets(pendingMessages')) = n - 1
      /\ \A i \in 1 .. n - 1 :
           Tickets(pendingMessages')[i] = TicketOf(pendingMessages'[i])
  BY <1>2, TicketsType
<1> HIDE DEF w
<1>5. /\ RemoveAt(w, best) \in Seq(Lanes!Ticket)
      /\ Len(RemoveAt(w, best)) = n - 1
      /\ \A j \in 1 .. n - 1 :
           RemoveAt(w, best)[j] = IF j < best THEN w[j] ELSE w[j + 1]
  BY <1>3, RemoveAtProperties
<1>6. ASSUME NEW k \in 1 .. n - 1
      PROVE  Tickets(pendingMessages')[k] = RemoveAt(w, best)[k]
  <2> DEFINE m == pendingMessages[Origin(best, k)]
  <2>1. m \in Message /\ pendingMessages'[k] = Skipped(m)
    BY <1>2
  <2>2. TicketOf(pendingMessages'[k]) = TicketOf(m)
    BY <2>1, SkippedType DEF TicketOf
  <2>3. RemoveAt(w, best)[k] = w[Origin(best, k)]
    BY <1>5 DEF Origin
  <2>4. w[Origin(best, k)] = TicketOf(m)
    BY <1>2, <1>3
  <2> QED
    BY <1>4, <2>2, <2>3, <2>4
<1>7. Tickets(pendingMessages') = RemoveAt(w, best)
  BY <1>4, <1>5, <1>6, SameSeq
<1>8. \A j \in DOMAIN w : w[j].sentPriority = w[best].sentPriority => best <= j
  <2>1. OldestOfItsPriorityFirst /\ IsHighestPriorityIndex(pendingMessages, best)
    BY <1>1, SentOrderImpliesFifo DEF GetNextMessage
  <2>2. \A j \in 1 .. n : w[j].sentPriority = pendingMessages[j].sentPriority
    BY <1>3 DEF TicketOf
  <2> QED
    BY <1>3, <2>1, <2>2 DEF OldestOfItsPriorityFirst
<1>9. Lanes!Serve(best)
  BY <1>7, <1>8 DEF Lanes!Serve, Lanes!RemoveAt, RemoveAt, Tickets, w
<1> QED
  BY <1>3, <1>9 DEF Lanes!Next, Tickets, w

(* An aging pass changes no ticket.                                        *)
LEMMA AgingStutters ==
  TypeOK /\ ApplyAging => Tickets(pendingMessages') = Tickets(pendingMessages)
<1> SUFFICES ASSUME TypeOK, ApplyAging
             PROVE  Tickets(pendingMessages') = Tickets(pendingMessages)
  OBVIOUS
<1> USE TypeFacts
<1>1. /\ pendingMessages' \in Seq(Message)
      /\ Len(pendingMessages') = Len(pendingMessages)
      /\ \A k \in DOMAIN pendingMessages :
           pendingMessages'[k] = Aged(pendingMessages[k])
  BY AgingStep
<1>2. \A k \in 1 .. Len(pendingMessages) :
        TicketOf(pendingMessages'[k]) = TicketOf(pendingMessages[k])
  BY <1>1, AgedType DEF TicketOf
<1> QED
  BY <1>1, <1>2, TicketsType, SameSeq

(* Every behaviour of the Scheduler, seen through the tickets, is one of   *)
(* FIFO lanes: no message is lost, duplicated or overtaken within its sent *)
(* priority.                                                               *)
THEOREM SchedulerImplementsLanes == Spec => ImplementsLanes
<1>1. Init => Lanes!Init
  BY EmptySeq DEF Init, Lanes!Init
<1>2. TypeOK /\ SentOrder /\ [Next]_pendingMessages
        => [Lanes!Next]_(Tickets(pendingMessages))
  BY SendArrives, DispatchServes, AgingStutters DEF Next
<1>3. TypeOK /\ SentOrder /\ [Next]_pendingMessages
        => [Lanes!Next]_([i \in DOMAIN pendingMessages |-> TicketOf(pendingMessages[i])])
  BY <1>2 DEF Tickets
<1> QED
  BY <1>1, <1>3, TypeCorrect, SentOrderCorrect, PTL
     DEF Spec, ImplementsLanes, Lanes!Spec
=============================================================================
