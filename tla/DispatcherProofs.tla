-------------------------- MODULE DispatcherProofs --------------------------
(* What the dispatch loop inherits from the Scheduler, and what its timing *)
(* adds.                                                                   *)
EXTENDS Dispatcher, SchedulerProofs

LEMMA LoopStepIsSchedulerStep ==
  [LoopNext]_dispatcherVars => [Next]_pendingMessages
BY DEF LoopNext, Loop, Tick, TakeMessage, FindNothing, Arrival, Next, dispatcherVars

(* Every behaviour of the dispatch loop and the senders around it is one   *)
(* of the Scheduler: the loop adds timing, never a new operation.          *)
THEOREM LoopRefinesScheduler == LoopSpec => Spec
<1>1. LoopInit => Init
  BY DEF LoopInit
<1> QED
  BY <1>1, LoopStepIsSchedulerStep, PTL DEF LoopSpec, Spec

LEMMA LoopTypeInvariance == LoopTypeOK /\ [LoopNext]_dispatcherVars => LoopTypeOK'
<1> SUFFICES ASSUME LoopTypeOK, [LoopNext]_dispatcherVars
             PROVE  LoopTypeOK'
  OBVIOUS
<1>1. TypeOK'
  BY LoopStepIsSchedulerStep, TypeInvariance DEF LoopTypeOK
<1>2. /\ agingTimer' \in 0 .. AgingPeriod - 1
      /\ dpc' \in {"top", "get"}
  BY PeriodAssumption
     DEF LoopTypeOK, LoopNext, Loop, Tick, AgingDue, TakeMessage, FindNothing, Arrival,
         dispatcherVars
<1> QED
  BY <1>1, <1>2 DEF LoopTypeOK

(* The loop's counter stays below the period and the vector well formed.   *)
THEOREM LoopTypeCorrect == LoopSpec => []LoopTypeOK
<1>1. LoopInit => LoopTypeOK
  BY EmptySeq, PeriodAssumption DEF LoopInit, Init, LoopTypeOK, TypeOK
<1> QED
  BY <1>1, LoopTypeInvariance, PTL DEF LoopSpec
-----------------------------------------------------------------------------
(* The bound on the age of a message that can still be boosted.            *)

Iterations == IF dpc = "top" THEN agingTimer + 1 ELSE agingTimer

LEMMA AgeBoundInvariance ==
  LoopTypeOK /\ AgeBound /\ [LoopNext]_dispatcherVars => AgeBound'
<1> SUFFICES ASSUME LoopTypeOK, AgeBound, [LoopNext]_dispatcherVars,
                    NEW i \in DOMAIN pendingMessages',
                    pendingMessages'[i].priority # HIGH
             PROVE  pendingMessages'[i].agingCounter < AgingThreshold + Iterations'
  BY DEF AgeBound, Iterations
<1>1. /\ TypeOK
      /\ pendingMessages \in Seq(Message)
      /\ Len(pendingMessages) \in Nat
      /\ DOMAIN pendingMessages = 1 .. Len(pendingMessages)
      /\ \A k \in 1 .. Len(pendingMessages) : pendingMessages[k] \in Message
  BY TypeFacts DEF LoopTypeOK
<1>2. \A k \in DOMAIN pendingMessages :
        pendingMessages[k].priority # HIGH =>
          pendingMessages[k].agingCounter < AgingThreshold + Iterations
  BY DEF AgeBound, Iterations
<1>3. /\ agingTimer \in Nat
      /\ dpc \in {"top", "get"}
  BY PeriodAssumption DEF LoopTypeOK
<1>4. CASE Tick /\ AgingDue
  <2>1. /\ pendingMessages' \in Seq(Message)
        /\ Len(pendingMessages') = Len(pendingMessages)
        /\ \A k \in DOMAIN pendingMessages :
             pendingMessages'[k] = Aged(pendingMessages[k])
    BY <1>1, <1>4, AgingStep DEF Tick
  <2>2. i \in DOMAIN pendingMessages
    BY <1>1, <2>1, LenProperties
  <2> DEFINE m == pendingMessages[i]
  <2>3. m \in Message /\ pendingMessages'[i] = Aged(m)
    BY <1>1, <2>1, <2>2
  <2>4. Aged(m).agingCounter < AgingThreshold
    BY <2>3, AgedType, ThresholdAssumption DEF Message, HIGH
  <2>5. Iterations' = 0
    BY <1>4 DEF Iterations, Tick, AgingDue
  <2>6. Aged(m).agingCounter < AgingThreshold + 0
    BY <2>4, ThresholdAssumption
  <2> QED
    BY <2>3, <2>5, <2>6
<1>5. CASE Tick /\ ~AgingDue
  <2>1. pendingMessages' = pendingMessages /\ Iterations' = Iterations
    BY <1>3, <1>5 DEF Iterations, Tick
  <2> QED
    BY <1>2, <2>1
<1>6. CASE TakeMessage
  <2>1. PICK best \in DOMAIN pendingMessages : GetNextMessage(best)
    BY <1>6 DEF TakeMessage, Dispatch
  <2>2. /\ pendingMessages' \in Seq(Message)
        /\ Len(pendingMessages') = Len(pendingMessages) - 1
        /\ \A k \in 1 .. Len(pendingMessages) - 1 :
             /\ Origin(best, k) \in DOMAIN pendingMessages
             /\ pendingMessages'[k] = Skipped(pendingMessages[Origin(best, k)])
    BY <1>1, <2>1, DispatchStep
  <2>3. DOMAIN pendingMessages' = 1 .. Len(pendingMessages) - 1
    BY <2>2, LenProperties
  <2> DEFINE m == pendingMessages[Origin(best, i)]
  <2>4. /\ Origin(best, i) \in DOMAIN pendingMessages
        /\ m \in Message
        /\ pendingMessages'[i] = Skipped(m)
    BY <1>1, <2>2, <2>3
  <2>5. m.priority # HIGH /\ pendingMessages'[i].agingCounter = m.agingCounter + 1
    BY <2>4, SkippedType
  <2>6. Iterations' = Iterations + 1
    BY <1>3, <1>6 DEF Iterations, TakeMessage
  <2>7. m.agingCounter \in Nat /\ m.agingCounter < AgingThreshold + Iterations
    BY <1>2, <2>4, <2>5 DEF Message
  <2> HIDE DEF m
  <2> QED
    BY <1>3, <2>5, <2>6, <2>7, ThresholdAssumption DEF Iterations
<1>7. CASE FindNothing
  <2>1. pendingMessages' = pendingMessages /\ Iterations' = Iterations + 1
    BY <1>3, <1>7 DEF Iterations, FindNothing
  <2> QED
    BY <1>1, <1>7, <2>1 DEF FindNothing
<1>8. CASE Arrival
  <2>1. PICK e \in Envelope \ PendingEnvelopes, p \in Priority :
          AddMessage(NewMessage(e, p))
    BY <1>8 DEF Arrival, Send
  <2>2. /\ pendingMessages' \in Seq(Message)
        /\ Len(pendingMessages') = Len(pendingMessages) + 1
        /\ \A k \in 1 .. Len(pendingMessages) : pendingMessages'[k] = pendingMessages[k]
        /\ pendingMessages'[Len(pendingMessages) + 1] = NewMessage(e, p)
    BY <1>1, <2>1, NewMessageType, SendStep
  <2>3. DOMAIN pendingMessages' = 1 .. Len(pendingMessages) + 1
    BY <2>2, LenProperties
  <2>4. Iterations' = Iterations /\ Iterations \in Nat
    BY <1>3, <1>8 DEF Iterations, Arrival
  <2>5. CASE i \in 1 .. Len(pendingMessages)
    BY <1>1, <1>2, <2>2, <2>4, <2>5
  <2>6. CASE i = Len(pendingMessages) + 1
    BY <2>2, <2>4, <2>6, NewMessageType, ThresholdAssumption
  <2> QED
    BY <1>1, <2>3, <2>5, <2>6
<1>9. CASE UNCHANGED dispatcherVars
  <2>1. pendingMessages' = pendingMessages /\ Iterations' = Iterations
    BY <1>9 DEF dispatcherVars, Iterations
  <2> QED
    BY <1>2, <2>1
<1> QED
  BY <1>4, <1>5, <1>6, <1>7, <1>8, <1>9 DEF LoopNext, Loop

(* A message that waits below HIGH has been skipped fewer than             *)
(* AgingThreshold times at the last aging pass and once per iteration      *)
(* since: the boost TC-07 speaks of is never more than a period late.      *)
THEOREM AgeBoundCorrect == LoopSpec => []AgeBound
<1>1. LoopInit => AgeBound
  BY EmptySeq DEF LoopInit, Init, AgeBound
<1>2. LoopSpec => []LoopTypeOK
  BY LoopTypeCorrect
<1> QED
  BY <1>1, <1>2, AgeBoundInvariance, PTL DEF LoopSpec
=============================================================================
