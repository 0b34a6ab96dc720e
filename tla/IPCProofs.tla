----------------------------- MODULE IPCProofs -----------------------------
(* The whole system of threads, for any number of processes, testers and   *)
(* messages: where each message is, that it is there once and goes where   *)
(* it was sent, in its sender's order, and that the threads use the        *)
(* scheduler as the loop of Dispatcher.tla does. The counters are in       *)
(* IPCCountersProofs.tla.                                                  *)
EXTENDS IPC, SequenceTheorems, FiniteSetTheorems, TLAPS

SP == INSTANCE SchedulerProofs

-----------------------------------------------------------------------------
(* The scheduler's lemmas, for the scheduler in here.                      *)
LEMMA SchedulerNames ==
  /\ SP!Message = Message
  /\ \A m : SP!Skipped(m) = Sched!Skipped(m) /\ SP!Aged(m) = Sched!Aged(m)
BY DEF Message, Sched!Message, SP!Message, Sched!Priority, SP!Priority, Sched!LOW, SP!LOW,
       Sched!MEDIUM, SP!MEDIUM, Sched!HIGH, SP!HIGH, Sched!Skipped, SP!Skipped, Sched!Aged,
       SP!Aged

(* Where the entry now at k was before the one at best was taken.          *)
Origin(best, k) == IF k < best THEN k ELSE k + 1

LEMMA PickStep ==
  ASSUME pendingMessages \in Seq(Message), NEW best \in DOMAIN pendingMessages,
         Sched!GetNextMessage(best)
  PROVE  /\ pendingMessages' \in Seq(Message)
         /\ Len(pendingMessages') = Len(pendingMessages) - 1
         /\ \A k \in 1 .. Len(pendingMessages) - 1 :
              /\ Origin(best, k) \in DOMAIN pendingMessages
              /\ Origin(best, k) # best
              /\ pendingMessages'[k] = Sched!Skipped(pendingMessages[Origin(best, k)])
<1>1. SP!GetNextMessage(best)
  BY DEF Sched!GetNextMessage, SP!GetNextMessage, Sched!IsHighestPriorityIndex,
         SP!IsHighestPriorityIndex, Sched!Score, SP!Score, Sched!Skipped, SP!Skipped,
         Sched!RemoveAt, SP!RemoveAt
<1>2. pendingMessages \in Seq(SP!Message)
  BY SchedulerNames
<1> QED
  BY <1>1, <1>2, ConfigAssumption, SchedulerNames, SP!DispatchStep
     DEF SP!DispatchStep, SP!Origin, Origin

LEMMA AgeStep ==
  ASSUME pendingMessages \in Seq(Message), Sched!ApplyAging
  PROVE  /\ pendingMessages' \in Seq(Message)
         /\ Len(pendingMessages') = Len(pendingMessages)
         /\ \A k \in DOMAIN pendingMessages :
              pendingMessages'[k] = Sched!Aged(pendingMessages[k])
<1>1. SP!ApplyAging
  BY DEF Sched!ApplyAging, SP!ApplyAging, Sched!Aged, SP!Aged, Sched!HIGH, SP!HIGH
<1>2. pendingMessages \in Seq(SP!Message)
  BY SchedulerNames
<1> QED
  BY <1>1, <1>2, ConfigAssumption, SchedulerNames, SP!AgingStep DEF SP!AgingStep

-----------------------------------------------------------------------------
(* Types. Of Sched!TypeOK, that no two entries are the same message is     *)
(* left to OnceInv below, and the size of an inbox to QueueInv.            *)
CountersType ==
  /\ nextMessageID \in 1 .. MaxMessages + 1
  /\ totals \in [sent : Nat, dropped : Nat, delivered : Nat]
  /\ logged \in [sent : Nat, dropped : Nat, received : Nat]
  /\ refused \subseteq 1 .. MaxMessages

DispatcherType ==
  /\ dispatcherRunning \in BOOLEAN
  /\ dpc \in {"none", "top", "get", "deliver", "count", "log", "ended"}
  /\ agingTimer \in 0 .. AgingPeriod - 1
  /\ msg \in Message \cup {NoMessage}
  /\ (msg # NoMessage) <=> (dpc = "deliver")

CallsType ==
  /\ call \in [Sender -> CallType]
  /\ \A s \in Sender :
       /\ (call[s].draft # NoMessage) <=> (call[s].at \in {"count", "channel"})
       /\ call[s].draft # NoMessage =>
            call[s].draft = Sched!NewMessage(call[s].draft.envelope, call[s].draft.sentPriority)

ProcessesType ==
  /\ running \in [Proc -> BOOLEAN]
  /\ messageQueue \in [Proc -> SUBSET Message]
  /\ process \in [Proc -> ProcessType]
  /\ \A p \in Proc :
       /\ (process[p].received # NoMessage) <=> (process[p].pc = "count")
       /\ call[p].at # "none" => process[p].pc = "send"

PendingType ==
  /\ pendingMessages \in Seq(Message)
  /\ \A i \in DOMAIN pendingMessages :
       pendingMessages[i].priority >= pendingMessages[i].sentPriority

TypeInv == CountersType /\ DispatcherType /\ CallsType /\ ProcessesType /\ PendingType

LEMMA MessageFacts ==
  /\ \A m \in Message :
       /\ m.envelope \in Envelope /\ m.sentPriority \in Priority /\ m.priority \in Priority
       /\ m.agingCounter \in Nat
       /\ m.envelope.messageID \in 1 .. MaxMessages
       /\ m.envelope.senderID \in Proc /\ m.envelope.receiverID \in Proc
  /\ NoMessage \notin Message
  /\ Priority = {1, 2, 3}
BY MessageAssumption
   DEF Message, Priority, Sched!Message, Sched!Priority, Envelope, Sched!LOW, Sched!MEDIUM,
       Sched!HIGH

LEMMA NewMessageFacts ==
  ASSUME NEW e \in Envelope, NEW p \in Priority
  PROVE  /\ Sched!NewMessage(e, p) \in Message
         /\ Sched!NewMessage(e, p).envelope = e
         /\ Sched!NewMessage(e, p).sentPriority = p
         /\ Sched!NewMessage(e, p).priority = p
         /\ Sched!NewMessage(e, p).agingCounter = 0
BY DEF Sched!NewMessage, Message, Sched!Message, Priority

LEMMA SkippedFacts ==
  ASSUME NEW m \in Message
  PROVE  /\ Sched!Skipped(m) \in Message
         /\ Sched!Skipped(m).envelope = m.envelope
         /\ Sched!Skipped(m).sentPriority = m.sentPriority
         /\ Sched!Skipped(m).priority = m.priority
BY DEF Sched!Skipped, Message, Sched!Message

LEMMA AgedFacts ==
  ASSUME NEW m \in Message
  PROVE  /\ Sched!Aged(m) \in Message
         /\ Sched!Aged(m).envelope = m.envelope
         /\ Sched!Aged(m).sentPriority = m.sentPriority
         /\ Sched!Aged(m).priority >= m.priority
BY SchedulerNames, ConfigAssumption, SP!AgedType DEF SP!AgedType

LEMMA TypeInit == Init => TypeInv
<1> SUFFICES ASSUME Init
             PROVE  TypeInv
  OBVIOUS
<1> USE DEF Init
<1>1. CountersType
  BY ConfigAssumption DEF CountersType
<1>2. DispatcherType
  <2>1. dispatcherRunning \in BOOLEAN
    OBVIOUS
  <2>2. agingTimer \in 0 .. AgingPeriod - 1
    BY ConfigAssumption
  <2> QED
    BY <2>1, <2>2 DEF DispatcherType
<1>3. CallsType
  BY DEF CallsType, CallType, Returned
<1>4. ProcessesType
  BY DEF ProcessesType, ProcessType, NewProcess, Returned, Sender
<1>5. PendingType
  BY DEF PendingType
<1> QED
  BY <1>1, <1>2, <1>3, <1>4, <1>5 DEF TypeInv

LEMMA BuildType ==
  ASSUME TypeInv, NEW s \in Sender, NEW from \in Proc, NEW to \in Proc, NEW prio \in Priority,
         CallSendMessage(s, from, to, prio)
  PROVE  /\ CallsType' /\ nextMessageID' \in 1 .. MaxMessages + 1
         /\ \A r \in Sender \ {s} : call'[r] = call[r]
<1> DEFINE e == [messageID |-> nextMessageID, senderID |-> from, receiverID |-> to]
<1>1. nextMessageID \in 1 .. MaxMessages /\ MaxMessages \in Nat
  BY ConfigAssumption DEF TypeInv, CountersType, CallSendMessage
<1>2. e \in Envelope
  BY <1>1 DEF Envelope
<1>3. Sched!NewMessage(e, prio) \in Message
  BY <1>2, NewMessageFacts
<1> DEFINE m == Sched!NewMessage(e, prio)
<1>4. m \in Message /\ m = Sched!NewMessage(m.envelope, m.sentPriority)
  BY <1>2, <1>3, NewMessageFacts
<1>5. call' = [call EXCEPT ![s] = [at |-> "count", draft |-> m]]
  BY DEF CallSendMessage
<1>6. nextMessageID' = nextMessageID + 1
  BY DEF CallSendMessage
<1> HIDE DEF m
<1>7. CallsType'
  BY <1>4, <1>5, MessageFacts DEF TypeInv, CallsType, CallType
<1> QED
  BY <1>1, <1>5, <1>6, <1>7 DEF TypeInv, CallsType

USE DEF Sender

LEMMA SendType ==
  ASSUME TypeInv, NEW s \in Sender, SendMessage(s)
  PROVE  TypeInv'
<1> USE DEF dispatcherVars, processVars, CountSent, Drop, HandOver, LogSend, SendMessage
<1>1. CountersType'
  BY DEF TypeInv, CountersType
<1>2. DispatcherType'
  BY DEF TypeInv, DispatcherType
<1>3. CallsType'
  BY DEF TypeInv, CallsType, CallType, Returned
<1>4. ProcessesType'
  BY DEF TypeInv, ProcessesType, CallsType, CallType, Returned
<1>5. PendingType'
  <2>1. CASE HandOver(s)
    <3>1. /\ call[s].draft \in Message /\ pendingMessages \in Seq(Message)
          /\ pendingMessages' = Append(pendingMessages, call[s].draft)
      BY <2>1 DEF TypeInv, CallsType, CallType, PendingType, Sched!AddMessage
    <3>2. call[s].draft.priority >= call[s].draft.sentPriority
      BY <2>1, <3>1, MessageFacts, NewMessageFacts DEF TypeInv, CallsType
    <3> QED
      BY <3>1, <3>2, AppendProperties DEF TypeInv, PendingType
  <2>2. CASE ~HandOver(s)
    BY <2>2 DEF TypeInv, PendingType
  <2> QED
    BY <2>1, <2>2
<1> QED
  BY <1>1, <1>2, <1>3, <1>4, <1>5 DEF TypeInv

LEMMA RunStepType ==
  ASSUME TypeInv, NEW p \in Proc, NEW from, NEW to \in ProcessType, RunStep(p, from, to),
         (to.received # NoMessage) <=> (to.pc = "count"),
         messageQueue' \in [Proc -> SUBSET Message],
         \A q \in Proc : call'[q] = call[q] \/ (q = p /\ to.pc = "send"),
         call'[p].at # "none" => to.pc = "send"
  PROVE  ProcessesType'
<1>1. /\ process' = [process EXCEPT ![p] = to] /\ running' = running
      /\ process \in [Proc -> ProcessType]
  BY DEF RunStep, TypeInv, ProcessesType
<1>2. process' \in [Proc -> ProcessType] /\ running' \in [Proc -> BOOLEAN]
  BY <1>1 DEF TypeInv, ProcessesType
<1>3. process'[p] = to /\ \A q \in Proc \ {p} : process'[q] = process[q]
  BY <1>1
<1> QED
  BY <1>2, <1>3 DEF TypeInv, ProcessesType

LEMMA RunType ==
  ASSUME TypeInv, NEW p \in Proc, Run(p)
  PROVE  TypeInv'
<1> DEFINE built    == [process[p] EXCEPT !.pc = "send", !.state = "RUNNING"]
           finished == [process[p] EXCEPT !.pc = "ended", !.state = "IDLE"]
           sent     == [process[p] EXCEPT !.pc = "receive", !.sentCount = @ + 1]
           taken(m) == [process[p] EXCEPT !.pc = "count", !.state = "RUNNING", !.received = m]
           slept    == [process[p] EXCEPT !.pc = "blocked", !.state = "BLOCKED"]
           woken    == [process[p] EXCEPT !.pc = "loop", !.state = "RUNNING"]
           counted  == [process[p] EXCEPT !.pc = "loop", !.receivedCount = @ + 1,
                                          !.received = NoMessage]
<1>1. /\ process[p] \in ProcessType
      /\ (process[p].received # NoMessage) <=> (process[p].pc = "count")
      /\ call[p].at # "none" => process[p].pc = "send"
      /\ messageQueue \in [Proc -> SUBSET Message]
  BY DEF TypeInv, ProcessesType
<1>2. /\ built \in ProcessType /\ built.pc = "send" /\ built.received = process[p].received
      /\ finished \in ProcessType /\ finished.pc = "ended"
      /\ finished.received = process[p].received
      /\ slept \in ProcessType /\ slept.pc = "blocked" /\ slept.received = process[p].received
      /\ woken \in ProcessType /\ woken.pc = "loop" /\ woken.received = process[p].received
  BY <1>1 DEF ProcessType
<1>3. /\ sent \in ProcessType /\ sent.pc = "receive" /\ sent.received = process[p].received
      /\ counted \in ProcessType /\ counted.pc = "loop" /\ counted.received = NoMessage
  <2>1. process[p].sentCount + 1 \in Nat /\ process[p].receivedCount + 1 \in Nat
    BY <1>1 DEF ProcessType
  <2>2. \A n \in Nat :
          /\ [process[p] EXCEPT !.pc = "receive", !.sentCount = n] \in ProcessType
          /\ [process[p] EXCEPT !.pc = "loop", !.receivedCount = n, !.received = NoMessage]
               \in ProcessType
    BY <1>1 DEF ProcessType
  <2>3. sent \in ProcessType /\ counted \in ProcessType
    BY <2>1, <2>2
  <2> QED
    BY <1>1, <2>3 DEF ProcessType
<1>4. ASSUME NEW m \in Message
      PROVE  taken(m) \in ProcessType /\ taken(m).pc = "count" /\ taken(m).received = m
  BY <1>1 DEF ProcessType
<1> HIDE DEF built, finished, sent, taken, slept, woken, counted
<1>5. ASSUME NEW from, NEW to, RunStep(p, from, to)
      PROVE  process[p].pc = from /\ DispatcherType' /\ PendingType'
  BY <1>5 DEF RunStep, TypeInv, DispatcherType, PendingType, dispatcherVars
<1>6. ASSUME NEW from, NEW to, RunStep(p, from, to), nextMessageID' = nextMessageID, call' = call
      PROVE  CountersType' /\ CallsType'
  BY <1>6 DEF RunStep, TypeInv, CountersType, CallsType
<1>7. CASE SendMessage(p)
  BY <1>7, SendType
<1>8. CASE BuildMessage(p)
  <2>1. PICK target \in PickRandomTarget(p), prio \in DrawnPriority :
          CallSendMessage(p, p, target, prio)
    BY <1>8 DEF BuildMessage
  <2>2. target \in Proc /\ prio \in Priority
    BY MessageAssumption DEF PickRandomTarget
  <2>3. /\ CallsType' /\ nextMessageID' \in 1 .. MaxMessages + 1
        /\ \A r \in Sender \ {p} : call'[r] = call[r]
    BY <2>1, <2>2, BuildType
  <2>4. RunStep(p, "loop", built) /\ messageQueue' = messageQueue
    BY <1>8 DEF BuildMessage, built
  <2>5. CountersType'
    BY <2>3, <2>4 DEF RunStep, TypeInv, CountersType
  <2>6. process[p].pc = "loop" /\ process[p].received = NoMessage
    BY <1>1, <1>5, <2>4
  <2>7. ProcessesType'
    BY <1>1, <1>2, <2>3, <2>4, <2>6, RunStepType
  <2> QED
    BY <1>5, <2>3, <2>4, <2>5, <2>7 DEF TypeInv
<1>9. CASE CountSend(p)
  <2>1. /\ RunStep(p, "send", sent) /\ call[p].at = "none" /\ call' = call
        /\ messageQueue' = messageQueue /\ nextMessageID' = nextMessageID
    BY <1>9 DEF CountSend, sent
  <2>2. ProcessesType'
    BY <1>1, <1>3, <1>5, <2>1, RunStepType
  <2> QED
    BY <1>5, <1>6, <2>1, <2>2 DEF TypeInv
<1>10. CASE CountReceived(p)
  <2>1. /\ RunStep(p, "count", counted) /\ call' = call
        /\ messageQueue' = messageQueue /\ nextMessageID' = nextMessageID
    BY <1>10 DEF CountReceived, counted
  <2>2. ProcessesType'
    BY <1>1, <1>3, <1>5, <2>1, RunStepType
  <2> QED
    BY <1>5, <1>6, <2>1, <2>2 DEF TypeInv
<1>11. CASE Finish(p)
  <2>1. /\ RunStep(p, "loop", finished) /\ call' = call
        /\ messageQueue' = messageQueue /\ nextMessageID' = nextMessageID
    BY <1>11 DEF Finish, finished
  <2>2. ProcessesType'
    BY <1>1, <1>2, <1>5, <2>1, RunStepType
  <2> QED
    BY <1>5, <1>6, <2>1, <2>2 DEF TypeInv
<1>12. ASSUME NEW from \in {"receive", "blocked"}, Take(p, from),
              nextMessageID' = nextMessageID, call' = call
       PROVE  TypeInv'
  <2>1. PICK m \in messageQueue[p] :
          /\ RunStep(p, from, taken(m))
          /\ messageQueue' = [messageQueue EXCEPT ![p] = @ \ {m}]
    BY <1>12 DEF Take, taken
  <2>2. m \in Message /\ messageQueue' \in [Proc -> SUBSET Message]
    BY <1>1, <2>1
  <2>3. call[p].at = "none"
    BY <1>1, <1>5, <2>1
  <2>4. ProcessesType'
    BY <1>4, <1>12, <2>1, <2>2, <2>3, MessageFacts, RunStepType
  <2> QED
    BY <1>5, <1>6, <1>12, <2>1, <2>4 DEF TypeInv
<1>13. ASSUME NEW from \in {"receive", "blocked"}, NEW to \in {slept, woken},
              RunStep(p, from, to), messageQueue' = messageQueue,
              nextMessageID' = nextMessageID, call' = call
       PROVE  TypeInv'
  <2>1. call[p].at = "none" /\ process[p].received = NoMessage
    BY <1>1, <1>5, <1>13
  <2>2. ProcessesType'
    BY <1>1, <1>2, <1>13, <2>1, RunStepType
  <2> QED
    BY <1>5, <1>6, <1>13, <2>2 DEF TypeInv
<1>14. CASE Receive(p)
  BY <1>12, <1>13, <1>14 DEF Receive, slept
<1>15. CASE Retry(p)
  BY <1>12, <1>13, <1>15 DEF Retry, woken
<1> QED
  BY <1>7, <1>8, <1>9, <1>10, <1>11, <1>14, <1>15 DEF Run

LEMMA LoopType ==
  ASSUME TypeInv, DispatchLoop
  PROVE  TypeInv'
<1> USE DEF processVars, LoopStep, DispatchLoop, LeaveLoop, Tick, TakeMessage, FindNothing,
            Deliver, FindInboxFull, CountDelivered, LogDelivered
<1>1. CountersType'
  BY MessageFacts DEF TypeInv, CountersType, DispatcherType
<1>2. DispatcherType'
  BY ConfigAssumption, MessageFacts DEF TypeInv, DispatcherType, PendingType
<1>3. CallsType'
  BY DEF TypeInv, CallsType
<1>4. ProcessesType'
  BY MessageFacts DEF TypeInv, ProcessesType, DispatcherType
<1>5. PendingType'
  <2>1. CASE Tick /\ Sched!ApplyAging
    <3>1. /\ pendingMessages' \in Seq(Message)
          /\ Len(pendingMessages') = Len(pendingMessages)
          /\ \A k \in DOMAIN pendingMessages :
               pendingMessages'[k] = Sched!Aged(pendingMessages[k])
      BY <2>1, AgeStep DEF TypeInv, PendingType
    <3>2. ASSUME NEW k \in DOMAIN pendingMessages'
          PROVE  pendingMessages'[k].priority >= pendingMessages'[k].sentPriority
      <4>1. /\ k \in DOMAIN pendingMessages /\ pendingMessages[k] \in Message
            /\ pendingMessages[k].priority >= pendingMessages[k].sentPriority
        BY <3>1 DEF TypeInv, PendingType
      <4> QED
        BY <3>1, <4>1, AgedFacts, MessageFacts
    <3> QED
      BY <3>1, <3>2 DEF PendingType
  <2>2. CASE TakeMessage
    <3>1. PICK best \in DOMAIN pendingMessages : Sched!GetNextMessage(best)
      BY <2>2
    <3>2. /\ pendingMessages' \in Seq(Message)
          /\ Len(pendingMessages') = Len(pendingMessages) - 1
          /\ \A k \in 1 .. Len(pendingMessages) - 1 :
               /\ Origin(best, k) \in DOMAIN pendingMessages
               /\ pendingMessages'[k] = Sched!Skipped(pendingMessages[Origin(best, k)])
      BY <3>1, PickStep DEF TypeInv, PendingType
    <3>3. ASSUME NEW k \in DOMAIN pendingMessages'
          PROVE  pendingMessages'[k].priority >= pendingMessages'[k].sentPriority
      <4> DEFINE m == pendingMessages[Origin(best, k)]
      <4>1. /\ pendingMessages'[k] = Sched!Skipped(m) /\ m \in Message
            /\ m.priority >= m.sentPriority
        BY <3>2 DEF TypeInv, PendingType
      <4> QED
        BY <4>1, SkippedFacts
    <3> QED
      BY <3>2, <3>3 DEF PendingType
  <2>4. CASE Tick /\ ~Sched!ApplyAging
    BY <2>4 DEF TypeInv, PendingType
  <2>3. CASE ~Tick /\ ~TakeMessage
    BY <2>3 DEF TypeInv, PendingType
  <2> QED
    BY <2>1, <2>2, <2>3, <2>4
<1> QED
  BY <1>1, <1>2, <1>3, <1>4, <1>5 DEF TypeInv

LEMMA TypeStep == TypeInv /\ [Next]_vars => TypeInv'
<1> SUFFICES ASSUME TypeInv, [Next]_vars
             PROVE  TypeInv'
  OBVIOUS
<1>1. CASE Launch \/ Halt
  <2> USE DEF Launch, Halt, StartDispatcher, StopDispatcher, Start, Stop, dispatcherVars,
              processVars
  <2>1. CountersType' /\ CallsType' /\ PendingType'
    BY <1>1 DEF TypeInv, CountersType, CallsType, PendingType
  <2>2. DispatcherType'
    <3>1. dispatcherRunning' = TRUE \/ dispatcherRunning' = FALSE
          \/ dispatcherRunning' = dispatcherRunning
      BY <1>1
    <3>2. dispatcherRunning' \in BOOLEAN
      BY <3>1, Zenon DEF TypeInv, DispatcherType
    <3>3. /\ dpc' \in {"none", "top", "get", "deliver", "count", "log", "ended"}
          /\ agingTimer' = agingTimer /\ msg' = msg
          /\ dpc' = "deliver" <=> dpc = "deliver"
      BY <1>1 DEF TypeInv, DispatcherType
    <3> QED
      BY <3>2, <3>3 DEF TypeInv, DispatcherType
  <2>3. ProcessesType'
    <3>1. CASE process' = process
      <4>1. running' \in [Proc -> BOOLEAN]
        BY <1>1, <3>1 DEF TypeInv, ProcessesType
      <4> QED
        BY <1>1, <3>1, <4>1 DEF TypeInv, ProcessesType
    <3>2. ASSUME NEW p \in Proc, Start(p)
          PROVE  ProcessesType'
      <4>1. /\ process[p] \in ProcessType /\ process[p].pc = "none"
            /\ process' = [process EXCEPT ![p].pc = "loop"]
            /\ running' = [running EXCEPT ![p] = TRUE]
            /\ messageQueue' = messageQueue /\ call' = call
        BY <3>2 DEF TypeInv, ProcessesType
      <4>2. running' \in [Proc -> BOOLEAN]
        BY <4>1 DEF TypeInv, ProcessesType
      <4>3. [process[p] EXCEPT !.pc = "loop"] \in ProcessType
        BY <4>1 DEF ProcessType
      <4>4. process' = [process EXCEPT ![p] = [process[p] EXCEPT !.pc = "loop"]]
        BY <4>1 DEF TypeInv, ProcessesType
      <4>5. process' \in [Proc -> ProcessType]
        BY <4>3, <4>4 DEF TypeInv, ProcessesType
      <4> QED
        BY <4>1, <4>2, <4>5 DEF TypeInv, ProcessesType, ProcessType
    <3> QED
      BY <1>1, <3>1, <3>2
  <2> QED
    BY <2>1, <2>2, <2>3 DEF TypeInv
<1>2. CASE DispatchLoop
  BY <1>2, LoopType
<1>3. ASSUME NEW p \in Proc, Run(p)
      PROVE  TypeInv'
  BY <1>3, RunType
<1>4. ASSUME NEW t \in Tester, BuildTestMessage(t)
      PROVE  TypeInv'
  <2>1. PICK from \in Proc, to \in Proc, prio \in DrawnPriority :
          CallSendMessage(t, from, to, prio)
    BY <1>4 DEF BuildTestMessage
  <2>2. /\ CallsType' /\ nextMessageID' \in 1 .. MaxMessages + 1
        /\ \A r \in Sender \ {t} : call'[r] = call[r]
    BY <2>1, BuildType, MessageAssumption
  <2>3. CountersType' /\ DispatcherType' /\ PendingType'
    BY <1>4, <2>2
       DEF BuildTestMessage, TypeInv, CountersType, DispatcherType, PendingType, dispatcherVars
  <2>4. ProcessesType'
    BY <1>4, <2>2, TesterAssumption DEF BuildTestMessage, TypeInv, ProcessesType, processVars
  <2> QED
    BY <2>2, <2>3, <2>4 DEF TypeInv
<1>5. ASSUME NEW t \in Tester, SendMessage(t)
      PROVE  TypeInv'
  BY <1>5, SendType
<1>6. CASE UNCHANGED vars
  BY <1>6
     DEF vars, dispatcherVars, processVars, TypeInv, CountersType, DispatcherType, CallsType,
         ProcessesType, PendingType
<1> QED
  BY <1>1, <1>2, <1>3, <1>4, <1>5, <1>6 DEF Next

(* Each variable has its type, and who holds a message is where its code   *)
(* does, whatever steps interleave.                                        *)
THEOREM TypeInvariance == Spec => []TypeInv
BY TypeInit, TypeStep, PTL DEF Spec

-----------------------------------------------------------------------------
(* What a step does with the messages: most do nothing, the others build   *)
(* one, move one from one place to the next, or end its way.               *)
Draft  == [s \in Sender |-> call[s].draft]
InHand == [p \in Proc |-> process[p].received]

messageVars == <<nextMessageID, Draft, pendingMessages, msg, messageQueue, InHand, refused>>

Composes(s, m) ==
  /\ Draft[s] = NoMessage
  /\ m.envelope.messageID = nextMessageID
  /\ Tester = {} => m.envelope.senderID = s /\ m.envelope.receiverID # s
  /\ Draft' = [Draft EXCEPT ![s] = m]
  /\ nextMessageID' = nextMessageID + 1
  /\ UNCHANGED <<pendingMessages, msg, messageQueue, InHand, refused>>

Drops(s) ==
  /\ Draft[s] # NoMessage
  /\ Draft' = [Draft EXCEPT ![s] = NoMessage]
  /\ UNCHANGED <<nextMessageID, pendingMessages, msg, messageQueue, InHand, refused>>

HandsOver(s) ==
  /\ Draft[s] # NoMessage
  /\ Draft' = [Draft EXCEPT ![s] = NoMessage]
  /\ pendingMessages' = Append(pendingMessages, Draft[s])
  /\ UNCHANGED <<nextMessageID, msg, messageQueue, InHand, refused>>

Ages ==
  /\ Sched!ApplyAging
  /\ UNCHANGED <<nextMessageID, Draft, msg, messageQueue, InHand, refused>>

Picks(best) ==
  /\ msg = NoMessage
  /\ Sched!GetNextMessage(best)
  /\ msg' = pendingMessages[best]
  /\ UNCHANGED <<nextMessageID, Draft, messageQueue, InHand, refused>>

Puts ==
  /\ msg # NoMessage
  /\ ~Queue!IsFull(messageQueue[msg.envelope.receiverID])
  /\ messageQueue' = [messageQueue EXCEPT ![msg.envelope.receiverID] = @ \cup {msg}]
  /\ msg' = NoMessage
  /\ UNCHANGED <<nextMessageID, Draft, pendingMessages, InHand, refused>>

Refuses ==
  /\ msg # NoMessage
  /\ refused' = refused \cup {msg.envelope.messageID}
  /\ msg' = NoMessage
  /\ UNCHANGED <<nextMessageID, Draft, pendingMessages, messageQueue, InHand>>

Fetches(p, m) ==
  /\ InHand[p] = NoMessage
  /\ messageQueue' = [messageQueue EXCEPT ![p] = @ \ {m}]
  /\ InHand' = [InHand EXCEPT ![p] = m]
  /\ UNCHANGED <<nextMessageID, Draft, pendingMessages, msg, refused>>

Uses(p) ==
  /\ InHand' = [InHand EXCEPT ![p] = NoMessage]
  /\ UNCHANGED <<nextMessageID, Draft, pendingMessages, msg, messageQueue, refused>>

Moves ==
  \/ \E s \in Sender, m \in Message : Composes(s, m)
  \/ \E s \in Sender : Drops(s) \/ HandsOver(s)
  \/ Ages \/ Puts \/ Refuses
  \/ \E best \in DOMAIN pendingMessages : Picks(best)
  \/ \E p \in Proc : Uses(p) \/ \E m \in messageQueue[p] : Fetches(p, m)

LEMMA BuildMoves ==
  ASSUME TypeInv, NEW s \in Sender, NEW from \in Proc, NEW to \in Proc, NEW prio \in Priority,
         CallSendMessage(s, from, to, prio),
         Tester = {} => from = s /\ to # s,
         UNCHANGED <<pendingMessages, msg, messageQueue, InHand, refused>>
  PROVE  Moves
<1> DEFINE e == [messageID |-> nextMessageID, senderID |-> from, receiverID |-> to]
           m == Sched!NewMessage(e, prio)
<1>1. nextMessageID \in 1 .. MaxMessages
  BY ConfigAssumption DEF TypeInv, CountersType, CallSendMessage
<1>2. e \in Envelope
  BY <1>1 DEF Envelope
<1>3. m \in Message /\ m.envelope = e
  BY <1>2, NewMessageFacts
<1>4. /\ call' = [call EXCEPT ![s] = [at |-> "count", draft |-> m]]
      /\ nextMessageID' = nextMessageID + 1 /\ call[s].at = "none"
  BY DEF CallSendMessage
<1> HIDE DEF m
<1>5. Draft' = [Draft EXCEPT ![s] = m]
  BY <1>4 DEF Draft, TypeInv, CallsType
<1>6. Draft[s] = NoMessage
  BY <1>4 DEF Draft, TypeInv, CallsType
<1>7. Composes(s, m)
  BY <1>3, <1>4, <1>5, <1>6 DEF Composes
<1> QED
  BY <1>3, <1>7 DEF Moves

LEMMA SendMoves ==
  ASSUME TypeInv, NEW s \in Sender, SendMessage(s)
  PROVE  UNCHANGED messageVars \/ Moves
<1>1. call \in [Sender -> CallType]
      /\ ((call[s].draft # NoMessage) <=> (call[s].at \in {"count", "channel"}))
  BY DEF TypeInv, CallsType
<1>2. InHand' = InHand /\ msg' = msg /\ nextMessageID' = nextMessageID /\ refused' = refused
      /\ messageQueue' = messageQueue
  BY DEF SendMessage, CountSent, Drop, HandOver, LogSend, dispatcherVars, processVars, InHand
<1>3. CASE CountSent(s)
  <2>1. Draft' = Draft
    BY <1>1, <1>3 DEF CountSent, Draft
  <2> QED
    BY <1>2, <1>3, <2>1 DEF CountSent, messageVars
<1>4. CASE Drop(s)
  <2>1. Draft' = [Draft EXCEPT ![s] = NoMessage] /\ Draft[s] # NoMessage
    BY <1>1, <1>4 DEF Drop, Draft
  <2>2. Drops(s)
    BY <1>2, <1>4, <2>1 DEF Drop, Drops
  <2> QED
    BY <2>2 DEF Moves
<1>5. CASE HandOver(s)
  <2>1. Draft' = [Draft EXCEPT ![s] = NoMessage] /\ Draft[s] # NoMessage
        /\ Draft[s] = call[s].draft
    BY <1>1, <1>5 DEF HandOver, Draft
  <2>2. HandsOver(s)
    BY <1>2, <1>5, <2>1 DEF HandOver, HandsOver, Sched!AddMessage
  <2> QED
    BY <2>2 DEF Moves
<1>6. CASE LogSend(s)
  <2>1. Draft' = Draft
    BY <1>1, <1>6 DEF LogSend, Draft, Returned
  <2> QED
    BY <1>2, <1>6, <2>1 DEF LogSend, messageVars
<1> QED
  BY <1>3, <1>4, <1>5, <1>6 DEF SendMessage

LEMMA RunMoves ==
  ASSUME TypeInv, NEW p \in Proc, Run(p)
  PROVE  UNCHANGED messageVars \/ Moves
<1>1. /\ process \in [Proc -> ProcessType] /\ messageQueue \in [Proc -> SUBSET Message]
      /\ ((process[p].received # NoMessage) <=> (process[p].pc = "count"))
  BY DEF TypeInv, ProcessesType
<1>2. ASSUME NEW from, NEW to \in ProcessType, RunStep(p, from, to)
      PROVE  /\ process[p].pc = from
             /\ InHand' = [InHand EXCEPT ![p] = to.received] /\ InHand[p] = process[p].received
             /\ UNCHANGED <<pendingMessages, msg, refused>>
  <2>1. process' = [process EXCEPT ![p] = to]
    BY <1>2 DEF RunStep
  <2>2. InHand' = [InHand EXCEPT ![p] = to.received]
    BY <1>1, <2>1 DEF InHand
  <2> QED
    BY <1>2, <2>2 DEF RunStep, InHand, dispatcherVars
<1>3. ASSUME NEW from, NEW to \in ProcessType, RunStep(p, from, to),
             to.received = process[p].received
      PROVE  InHand' = InHand /\ UNCHANGED <<pendingMessages, msg, refused>>
  BY <1>2, <1>3 DEF InHand
<1>4. ASSUME nextMessageID' = nextMessageID, call' = call
      PROVE  UNCHANGED <<nextMessageID, Draft>>
  BY <1>4 DEF Draft
<1>5. CASE SendMessage(p)
  BY <1>5, SendMoves
<1>6. CASE BuildMessage(p)
  <2> DEFINE to == [process[p] EXCEPT !.pc = "send", !.state = "RUNNING"]
  <2>1. PICK target \in PickRandomTarget(p), prio \in DrawnPriority :
          CallSendMessage(p, p, target, prio)
    BY <1>6 DEF BuildMessage
  <2>2. target \in Proc /\ target # p /\ prio \in Priority
    BY MessageAssumption DEF PickRandomTarget
  <2>3. to \in ProcessType /\ to.received = process[p].received
    BY <1>1 DEF ProcessType
  <2>4. RunStep(p, "loop", to) /\ messageQueue' = messageQueue
    BY <1>6 DEF BuildMessage
  <2> HIDE DEF to
  <2>5. UNCHANGED <<pendingMessages, msg, messageQueue, InHand, refused>>
    BY <1>3, <2>3, <2>4
  <2> QED
    BY <2>1, <2>2, <2>5, BuildMoves
<1>7. CASE CountSend(p)
  <2> DEFINE to == [process[p] EXCEPT !.pc = "receive", !.sentCount = @ + 1]
  <2>1. RunStep(p, "send", to) /\ UNCHANGED <<nextMessageID, call, messageQueue>>
    BY <1>7 DEF CountSend
  <2>2. process[p].sentCount + 1 \in Nat
    BY <1>1 DEF ProcessType
  <2>3. to \in ProcessType /\ to.received = process[p].received
    BY <1>1, <2>2 DEF ProcessType
  <2> HIDE DEF to
  <2> QED
    BY <1>3, <1>4, <2>1, <2>3 DEF messageVars
<1>8. CASE Finish(p)
  <2> DEFINE to == [process[p] EXCEPT !.pc = "ended", !.state = "IDLE"]
  <2>1. RunStep(p, "loop", to) /\ UNCHANGED <<nextMessageID, call, messageQueue>>
    BY <1>8 DEF Finish
  <2>2. to \in ProcessType /\ to.received = process[p].received
    BY <1>1 DEF ProcessType
  <2> HIDE DEF to
  <2> QED
    BY <1>3, <1>4, <2>1, <2>2 DEF messageVars
<1>9. CASE CountReceived(p)
  <2> DEFINE to == [process[p] EXCEPT !.pc = "loop", !.receivedCount = @ + 1,
                                      !.received = NoMessage]
  <2>1. RunStep(p, "count", to) /\ UNCHANGED <<nextMessageID, call, messageQueue>>
    BY <1>9 DEF CountReceived
  <2>2. process[p].receivedCount + 1 \in Nat
    BY <1>1 DEF ProcessType
  <2>3. to \in ProcessType /\ to.received = NoMessage
    BY <1>1, <2>2 DEF ProcessType
  <2> HIDE DEF to
  <2>4. Uses(p)
    BY <1>2, <1>4, <2>1, <2>3 DEF Uses
  <2> QED
    BY <2>4 DEF Moves
<1>10. ASSUME NEW at \in {"receive", "blocked"}, Take(p, at),
              UNCHANGED <<nextMessageID, call>>
       PROVE  Moves
  <2>1. PICK m \in messageQueue[p] :
          /\ RunStep(p, at, [process[p] EXCEPT !.pc = "count", !.state = "RUNNING",
                                               !.received = m])
          /\ messageQueue' = [messageQueue EXCEPT ![p] = @ \ {m}]
    BY <1>10 DEF Take
  <2> DEFINE to == [process[p] EXCEPT !.pc = "count", !.state = "RUNNING", !.received = m]
  <2>2. m \in Message
    BY <1>1
  <2>3. to \in ProcessType /\ to.received = m
    BY <1>1, <2>2 DEF ProcessType
  <2>4. RunStep(p, at, to)
    BY <2>1
  <2> HIDE DEF to
  <2>5. Fetches(p, m)
    BY <1>1, <1>2, <1>4, <1>10, <2>1, <2>3, <2>4 DEF Fetches
  <2> QED
    BY <2>5 DEF Moves
<1>11. ASSUME NEW at \in {"receive", "blocked"},
              NEW to \in {[process[p] EXCEPT !.pc = "blocked", !.state = "BLOCKED"],
                          [process[p] EXCEPT !.pc = "loop", !.state = "RUNNING"]},
              RunStep(p, at, to), UNCHANGED <<nextMessageID, call, messageQueue>>
       PROVE  UNCHANGED messageVars
  <2>1. to \in ProcessType /\ to.received = process[p].received
    BY <1>1 DEF ProcessType
  <2> QED
    BY <1>3, <1>4, <1>11, <2>1 DEF messageVars
<1>12. CASE Receive(p)
  BY <1>10, <1>11, <1>12 DEF Receive
<1>13. CASE Retry(p)
  BY <1>10, <1>11, <1>13 DEF Retry
<1> QED
  BY <1>5, <1>6, <1>7, <1>8, <1>9, <1>12, <1>13 DEF Run

LEMMA LoopMoves ==
  ASSUME TypeInv, DispatchLoop
  PROVE  UNCHANGED messageVars \/ Moves
<1>1. UNCHANGED <<nextMessageID, Draft, InHand>>
  BY DEF DispatchLoop, LeaveLoop, Tick, TakeMessage, FindNothing, Deliver, FindInboxFull,
         CountDelivered, LogDelivered, LoopStep, Draft, InHand
<1>2. (msg # NoMessage) <=> (dpc = "deliver")
  BY DEF TypeInv, DispatcherType
<1>3. CASE LeaveLoop \/ FindNothing \/ CountDelivered \/ LogDelivered
  BY <1>1, <1>3 DEF LeaveLoop, FindNothing, CountDelivered, LogDelivered, messageVars
<1>4. CASE Tick
  BY <1>1, <1>4 DEF Tick, messageVars, Moves, Ages
<1>5. CASE TakeMessage
  <2>1. PICK best \in DOMAIN pendingMessages :
          Sched!GetNextMessage(best) /\ msg' = pendingMessages[best]
    BY <1>5 DEF TakeMessage
  <2>2. Picks(best)
    BY <1>1, <1>2, <1>5, <2>1 DEF TakeMessage, LoopStep, Picks
  <2> QED
    BY <2>2 DEF Moves
<1>6. CASE Deliver
  BY <1>1, <1>2, <1>6 DEF Deliver, LoopStep, Puts, Moves
<1>7. CASE FindInboxFull
  BY <1>1, <1>2, <1>7 DEF FindInboxFull, LoopStep, Refuses, Moves
<1> QED
  BY <1>3, <1>4, <1>5, <1>6, <1>7 DEF DispatchLoop

LEMMA MessageStep == TypeInv /\ [Next]_vars => UNCHANGED messageVars \/ Moves
<1> SUFFICES ASSUME TypeInv, [Next]_vars
             PROVE  UNCHANGED messageVars \/ Moves
  OBVIOUS
<1>1. CASE UNCHANGED vars
  BY <1>1 DEF vars, dispatcherVars, processVars, messageVars, Draft, InHand
<1>2. CASE StartDispatcher \/ Halt
  BY <1>2
     DEF StartDispatcher, Halt, StopDispatcher, Stop, dispatcherVars, processVars, messageVars,
         Draft, InHand
<1>3. ASSUME NEW p \in Proc, Start(p)
      PROVE  UNCHANGED messageVars
  <2>1. process \in [Proc -> ProcessType]
    BY DEF TypeInv, ProcessesType
  <2>2. InHand' = InHand
    BY <1>3, <2>1 DEF Start, InHand, ProcessType
  <2> QED
    BY <1>3, <2>2 DEF Start, dispatcherVars, messageVars, Draft
<1>4. ASSUME NEW t \in Tester, BuildTestMessage(t)
      PROVE  Moves
  <2>1. PICK from \in Proc, to \in Proc, prio \in DrawnPriority :
          CallSendMessage(t, from, to, prio)
    BY <1>4 DEF BuildTestMessage
  <2>2. UNCHANGED <<pendingMessages, msg, messageQueue, InHand, refused>>
    BY <1>4 DEF BuildTestMessage, dispatcherVars, processVars, InHand
  <2> QED
    BY <2>1, <2>2, BuildMoves, MessageAssumption
<1> QED
  BY <1>1, <1>2, <1>3, <1>4, LoopMoves, RunMoves, SendMoves DEF Next, Launch

-----------------------------------------------------------------------------
(* Each message is in one place, which its ID tells.                       *)
ID(m) == m.envelope.messageID

IDsOf(m) == IF m = NoMessage THEN {} ELSE {ID(m)}

DraftOf(s)  == <<"draft", s>>
InScheduler == <<"pending", NoMessage>>
OnItsWay    == <<"routed", NoMessage>>
InboxOf(p)  == <<"inbox", p>>
HandOf(p)   == <<"hand", p>>

Place == {DraftOf(s) : s \in Sender} \cup {InScheduler, OnItsWay}
           \cup {InboxOf(p) : p \in Proc} \cup {HandOf(p) : p \in Proc}

PendingIDs == {ID(pendingMessages[i]) : i \in DOMAIN pendingMessages}

Spread ==
  [l \in Place |->
     CASE l[1] = "draft"   -> IDsOf(Draft[l[2]])
       [] l[1] = "pending" -> PendingIDs
       [] l[1] = "routed"  -> IDsOf(msg)
       [] l[1] = "inbox"   -> IDs(messageQueue[l[2]])
       [] OTHER            -> IDsOf(InHand[l[2]])]

Apart(f) == \A k, l \in Place : k # l => f[k] \cap f[l] = {}

OnceInv ==
  /\ Apart(Spread)
  /\ \A l \in Place : Spread[l] \cap refused = {} /\ \A id \in Spread[l] : id < nextMessageID
  /\ \A id \in refused : id < nextMessageID
  /\ \A i, j \in DOMAIN pendingMessages :
       ID(pendingMessages[i]) = ID(pendingMessages[j]) => i = j
  /\ \A p \in Proc : \A m, n \in messageQueue[p] : ID(m) = ID(n) => m = n

LEMMA SpreadIs ==
  /\ \A s \in Sender : Spread[DraftOf(s)] = IDsOf(Draft[s])
  /\ Spread[InScheduler] = PendingIDs
  /\ Spread[OnItsWay] = IDsOf(msg)
  /\ \A p \in Proc : Spread[InboxOf(p)] = IDs(messageQueue[p])
  /\ \A p \in Proc : Spread[HandOf(p)] = IDsOf(InHand[p])
BY DEF Spread, Place, DraftOf, InScheduler, OnItsWay, InboxOf, HandOf

LEMMA SpreadIsNext ==
  /\ \A s \in Sender : Spread'[DraftOf(s)] = IDsOf(Draft'[s])
  /\ Spread'[InScheduler] = PendingIDs'
  /\ Spread'[OnItsWay] = IDsOf(msg')
  /\ \A p \in Proc : Spread'[InboxOf(p)] = IDs(messageQueue'[p])
  /\ \A p \in Proc : Spread'[HandOf(p)] = IDsOf(InHand'[p])
BY DEF Spread, Place, DraftOf, InScheduler, OnItsWay, InboxOf, HandOf

LEMMA PlacesDiffer ==
  /\ \A s, t \in Sender : s # t => DraftOf(s) # DraftOf(t)
  /\ \A p, q \in Proc : p # q => InboxOf(p) # InboxOf(q) /\ HandOf(p) # HandOf(q)
  /\ \A s \in Sender, p \in Proc :
       /\ DraftOf(s) \notin {InScheduler, OnItsWay, InboxOf(p), HandOf(p)}
       /\ InboxOf(p) \notin {InScheduler, OnItsWay}
       /\ HandOf(p) \notin {InScheduler, OnItsWay}
       /\ \A q \in Proc : InboxOf(p) # HandOf(q)
  /\ InScheduler # OnItsWay
BY DEF DraftOf, InScheduler, OnItsWay, InboxOf, HandOf

(* From one spread to the next x moves to b, and messages disappear.       *)
LEMMA StaysApart ==
  ASSUME NEW f, NEW g, NEW x, NEW b, Apart(f),
         \A l \in Place : l # b => g[l] \subseteq f[l] /\ x \notin g[l],
         g[b] \subseteq f[b] \cup {x}
  PROVE  Apart(g)
<1> SUFFICES ASSUME NEW k \in Place, NEW l \in Place, k # l, NEW y \in g[k] \cap g[l]
             PROVE  FALSE
  BY DEF Apart
<1>1. f[k] \cap f[l] = {}
  BY DEF Apart
<1> QED
  BY <1>1

(* The whole move: x is new or leaves the place where it is.               *)
LEMMA KeepsOnce ==
  ASSUME OnceInv, NEW x, NEW b \in Place,
         nextMessageID \in Nat, nextMessageID' \in {nextMessageID, nextMessageID + 1},
         \A l \in Place : l # b => Spread'[l] \subseteq Spread[l] /\ x \notin Spread'[l],
         Spread'[b] \subseteq Spread[b] \cup {x},
         refused' = refused, x \notin refused, x \in Nat, x < nextMessageID',
         \A l \in Place : Spread[l] \subseteq Nat,
         refused \subseteq Nat,
         \A i, j \in DOMAIN pendingMessages' :
           ID(pendingMessages'[i]) = ID(pendingMessages'[j]) => i = j,
         \A p \in Proc : \A m, n \in messageQueue'[p] : ID(m) = ID(n) => m = n
  PROVE  OnceInv'
<1>1. Apart(Spread')
  BY StaysApart DEF OnceInv
<1>2. ASSUME NEW l \in Place
      PROVE  Spread'[l] \subseteq Spread[l] \cup {x}
  OBVIOUS
<1>3. ASSUME NEW l \in Place, NEW id \in Spread'[l]
      PROVE  id \notin refused /\ id < nextMessageID'
  <2>1. CASE id = x
    BY <2>1
  <2>2. CASE id \in Spread[l]
    BY <2>2 DEF OnceInv
  <2> QED
    BY <1>2, <1>3, <2>1, <2>2
<1>4. ASSUME NEW id \in refused'
      PROVE  id < nextMessageID'
  <2>1. id \in Nat /\ id \in refused
    BY <1>4
  <2>2. id < nextMessageID
    BY <2>1 DEF OnceInv
  <2> QED
    BY <2>1, <2>2
<1>5. \A l \in Place : Spread'[l] \cap refused' = {} /\ \A id \in Spread'[l] : id < nextMessageID'
  BY <1>3
<1> QED
  BY <1>1, <1>4, <1>5 DEF OnceInv, Apart

LEMMA OnceInit == Init => OnceInv
<1> SUFFICES ASSUME Init
             PROVE  OnceInv
  OBVIOUS
<1>1. /\ \A s \in Sender : Draft[s] = NoMessage
      /\ \A p \in Proc : InHand[p] = NoMessage /\ messageQueue[p] = {}
      /\ pendingMessages = << >> /\ msg = NoMessage /\ refused = {}
  BY DEF Init, Draft, InHand, Returned, NewProcess
<1>2. ASSUME NEW l \in Place
      PROVE  Spread[l] = {}
  <2>1. CASE l = InScheduler
    BY <1>1, <2>1, SpreadIs DEF PendingIDs
  <2>2. CASE l = OnItsWay
    BY <1>1, <2>2, SpreadIs DEF IDsOf
  <2>3. ASSUME NEW s \in Sender, l = DraftOf(s)
        PROVE  Spread[l] = {}
    BY <1>1, <2>3, SpreadIs DEF IDsOf
  <2>4. ASSUME NEW p \in Proc, l = InboxOf(p) \/ l = HandOf(p)
        PROVE  Spread[l] = {}
    BY <1>1, <2>4, SpreadIs DEF IDsOf, IDs
  <2> QED
    BY <2>1, <2>2, <2>3, <2>4 DEF Place
<1> QED
  BY <1>1, <1>2 DEF OnceInv, Apart

(* What stays with a place that its variable leaves alone.                 *)
LEMMA Untouched ==
  /\ pendingMessages' = pendingMessages => Spread'[InScheduler] = Spread[InScheduler]
  /\ msg' = msg => Spread'[OnItsWay] = Spread[OnItsWay]
  /\ \A s \in Sender : Draft'[s] = Draft[s] => Spread'[DraftOf(s)] = Spread[DraftOf(s)]
  /\ \A p \in Proc :
       /\ messageQueue'[p] = messageQueue[p] => Spread'[InboxOf(p)] = Spread[InboxOf(p)]
       /\ InHand'[p] = InHand[p] => Spread'[HandOf(p)] = Spread[HandOf(p)]
BY SpreadIs, SpreadIsNext DEF PendingIDs

LEMMA PlaceCases ==
  \A l \in Place :
    \/ l \in {InScheduler, OnItsWay}
    \/ \E s \in Sender : l = DraftOf(s)
    \/ \E p \in Proc : l = InboxOf(p) \/ l = HandOf(p)
BY DEF Place

LEMMA Places ==
  /\ InScheduler \in Place /\ OnItsWay \in Place
  /\ \A s \in Sender : DraftOf(s) \in Place
  /\ \A p \in Proc : InboxOf(p) \in Place /\ HandOf(p) \in Place
BY DEF Place

(* The messages that are in places are messages.                           *)
LEMMA HeldFacts ==
  ASSUME TypeInv
  PROVE  /\ \A s \in Sender : Draft[s] \in Message \cup {NoMessage}
         /\ \A p \in Proc : InHand[p] \in Message \cup {NoMessage}
         /\ \A p \in Proc : messageQueue[p] \subseteq Message
         /\ \A i \in DOMAIN pendingMessages : pendingMessages[i] \in Message
         /\ msg \in Message \cup {NoMessage}
         /\ \A l \in Place : Spread[l] \subseteq 1 .. MaxMessages
<1>1. \A s \in Sender : Draft[s] \in Message \cup {NoMessage}
  BY DEF TypeInv, CallsType, CallType, Draft
<1>2. \A p \in Proc : InHand[p] \in Message \cup {NoMessage}
  BY DEF TypeInv, ProcessesType, ProcessType, InHand
<1>3. \A p \in Proc : messageQueue[p] \subseteq Message
  BY DEF TypeInv, ProcessesType
<1>4. \A i \in DOMAIN pendingMessages : pendingMessages[i] \in Message
  BY DEF TypeInv, PendingType
<1>5. msg \in Message \cup {NoMessage}
  BY DEF TypeInv, DispatcherType
<1>6. \A m \in Message \cup {NoMessage} : IDsOf(m) \subseteq 1 .. MaxMessages
  BY MessageFacts DEF IDsOf, ID
<1>7. ASSUME NEW l \in Place
      PROVE  Spread[l] \subseteq 1 .. MaxMessages
  <2>1. CASE l = InScheduler
    BY <1>4, <2>1, SpreadIs, MessageFacts DEF PendingIDs, ID
  <2>2. CASE l = OnItsWay
    BY <1>5, <1>6, <2>2, SpreadIs
  <2>3. ASSUME NEW s \in Sender, l = DraftOf(s)
        PROVE  Spread[l] \subseteq 1 .. MaxMessages
    BY <1>1, <1>6, <2>3, SpreadIs
  <2>4. ASSUME NEW p \in Proc, l = InboxOf(p)
        PROVE  Spread[l] \subseteq 1 .. MaxMessages
    BY <1>3, <2>4, SpreadIs, MessageFacts DEF IDs
  <2>5. ASSUME NEW p \in Proc, l = HandOf(p)
        PROVE  Spread[l] \subseteq 1 .. MaxMessages
    BY <1>2, <1>6, <2>5, SpreadIs
  <2> QED
    BY <2>1, <2>2, <2>3, <2>4, <2>5, PlaceCases
<1> QED
  BY <1>1, <1>2, <1>3, <1>4, <1>5, <1>7

NoneTwice ==
  /\ \A i, j \in DOMAIN pendingMessages :
       ID(pendingMessages[i]) = ID(pendingMessages[j]) => i = j
  /\ \A p \in Proc : \A m, n \in messageQueue[p] : ID(m) = ID(n) => m = n

(* One message goes from a to b.                                           *)
LEMMA MovesOne ==
  ASSUME TypeInv, OnceInv, NEW a \in Place, NEW b \in Place, a # b, NEW x \in Spread[a],
         x \notin Spread'[a], Spread'[a] \subseteq Spread[a],
         Spread'[b] \subseteq Spread[b] \cup {x},
         \A l \in Place \ {a, b} : Spread'[l] = Spread[l],
         UNCHANGED <<nextMessageID, refused>>, NoneTwice'
  PROVE  OnceInv'
<1>1. \A l \in Place : l # b => Spread'[l] \subseteq Spread[l] /\ x \notin Spread'[l]
  BY DEF OnceInv, Apart
<1>2. x \notin refused /\ x < nextMessageID
  BY DEF OnceInv
<1>3. \A l \in Place : Spread[l] \subseteq Nat
  BY HeldFacts
<1>4. refused \subseteq Nat /\ nextMessageID \in Nat
  BY ConfigAssumption DEF TypeInv, CountersType
<1>5. x \in Nat /\ x < nextMessageID' /\ nextMessageID' \in {nextMessageID, nextMessageID + 1}
  BY <1>2, <1>3
<1> QED
  BY <1>1, <1>2, <1>3, <1>4, <1>5, KeepsOnce DEF NoneTwice

(* Messages end their way, one of them perhaps in refused.                 *)
LEMMA EndsSome ==
  ASSUME OnceInv, NEW X, \A x \in X : x < nextMessageID,
         \A l \in Place : Spread'[l] \subseteq Spread[l] /\ Spread'[l] \cap X = {},
         nextMessageID' = nextMessageID, refused' \subseteq refused \cup X, NoneTwice'
  PROVE  OnceInv'
<1>1. Apart(Spread')
  BY DEF OnceInv, Apart
<1>2. \A l \in Place : Spread'[l] \cap refused' = {} /\ \A id \in Spread'[l] : id < nextMessageID'
  BY DEF OnceInv
<1>3. \A id \in refused' : id < nextMessageID'
  BY DEF OnceInv
<1> QED
  BY <1>1, <1>2, <1>3 DEF OnceInv, NoneTwice

LEMMA BuildsKeepsOnce ==
  ASSUME TypeInv, OnceInv, NEW s \in Sender, NEW m \in Message, Composes(s, m)
  PROVE  OnceInv'
<1>1. \A l \in Place : l # DraftOf(s) => Spread'[l] = Spread[l]
  <2>1. \A t \in Sender : t # s => Draft'[t] = Draft[t]
    BY DEF Composes, Draft
  <2>2. UNCHANGED <<pendingMessages, msg, messageQueue, InHand>>
    BY DEF Composes
  <2> QED
    BY <2>1, <2>2, Untouched, PlaceCases
<1>2. Spread'[DraftOf(s)] \subseteq {nextMessageID}
  <2>1. Draft'[s] = m
    BY DEF Composes, Draft
  <2> QED
    BY <2>1, SpreadIsNext DEF Composes, IDsOf, ID
<1>3. nextMessageID \in Nat /\ refused \subseteq Nat
  BY ConfigAssumption DEF TypeInv, CountersType
<1>4. \A l \in Place : Spread[l] \subseteq Nat
  BY HeldFacts
<1>5. \A l \in Place : nextMessageID \notin Spread[l]
  BY <1>3 DEF OnceInv
<1>6. nextMessageID \notin refused
  BY <1>3 DEF OnceInv
<1>7. UNCHANGED <<refused, pendingMessages, messageQueue>> /\ nextMessageID' = nextMessageID + 1
  BY DEF Composes
<1>8. NoneTwice'
  BY <1>7 DEF OnceInv, NoneTwice
<1> QED
  BY <1>1, <1>2, <1>3, <1>4, <1>5, <1>6, <1>7, <1>8, Places, KeepsOnce DEF NoneTwice

LEMMA NotElsewhere ==
  ASSUME OnceInv, NEW k \in Place, NEW l \in Place, k # l, NEW x \in Spread[k]
  PROVE  x \notin Spread[l]
BY DEF OnceInv, Apart

LEMMA DropsKeepsOnce ==
  ASSUME OnceInv, NEW s \in Sender, Drops(s)
  PROVE  OnceInv'
<1>1. UNCHANGED <<nextMessageID, pendingMessages, msg, messageQueue, InHand, refused>>
  BY DEF Drops
<1>2. \A t \in Sender : t # s => Draft'[t] = Draft[t]
  BY DEF Drops, Draft
<1>3. \A l \in Place : l # DraftOf(s) => Spread'[l] = Spread[l]
  BY <1>1, <1>2, Untouched, PlaceCases
<1>4. Spread'[DraftOf(s)] = {}
  BY SpreadIsNext DEF Drops, Draft, IDsOf
<1>5. NoneTwice'
  BY <1>1 DEF OnceInv, NoneTwice
<1> QED
  BY <1>1, <1>3, <1>4, <1>5, EndsSome

LEMMA UsesKeepsOnce ==
  ASSUME OnceInv, NEW p \in Proc, Uses(p)
  PROVE  OnceInv'
<1>1. UNCHANGED <<nextMessageID, Draft, pendingMessages, msg, messageQueue, refused>>
  BY DEF Uses
<1>2. \A q \in Proc : q # p => InHand'[q] = InHand[q]
  BY DEF Uses, InHand
<1>3. \A l \in Place : l # HandOf(p) => Spread'[l] = Spread[l]
  BY <1>1, <1>2, Untouched, PlaceCases
<1>4. Spread'[HandOf(p)] = {}
  BY SpreadIsNext DEF Uses, InHand, IDsOf
<1>5. NoneTwice'
  BY <1>1 DEF OnceInv, NoneTwice
<1> QED
  BY <1>1, <1>3, <1>4, <1>5, EndsSome

LEMMA RefusesKeepsOnce ==
  ASSUME OnceInv, Refuses
  PROVE  OnceInv'
<1>1. UNCHANGED <<nextMessageID, Draft, pendingMessages, messageQueue, InHand>>
  BY DEF Refuses
<1>2. \A l \in Place : l # OnItsWay => Spread'[l] = Spread[l]
  BY <1>1, Untouched, PlaceCases
<1>3. Spread'[OnItsWay] = {} /\ Spread[OnItsWay] = {ID(msg)}
  BY SpreadIs, SpreadIsNext DEF Refuses, IDsOf
<1>4. \A l \in Place : ID(msg) \notin Spread'[l]
  BY <1>2, <1>3, Places DEF OnceInv, Apart
<1>5. refused' = refused \cup {ID(msg)}
  BY DEF Refuses, ID
<1>6. ID(msg) < nextMessageID
  BY <1>3, Places DEF OnceInv
<1>7. NoneTwice'
  BY <1>1 DEF OnceInv, NoneTwice
<1> QED
  BY <1>1, <1>2, <1>3, <1>4, <1>5, <1>6, <1>7, EndsSome

LEMMA HandsOverKeepsOnce ==
  ASSUME TypeInv, OnceInv, NEW s \in Sender, HandsOver(s)
  PROVE  OnceInv'
<1>1. UNCHANGED <<nextMessageID, msg, messageQueue, InHand, refused>> /\ Draft[s] # NoMessage
  BY DEF HandsOver
<1>2. \A t \in Sender : t # s => Draft'[t] = Draft[t]
  BY DEF HandsOver, Draft
<1>3. \A l \in Place \ {DraftOf(s), InScheduler} : Spread'[l] = Spread[l]
  BY <1>1, <1>2, Untouched, PlaceCases
<1>4. Spread'[DraftOf(s)] = {} /\ Spread[DraftOf(s)] = {ID(Draft[s])}
  BY <1>1, SpreadIs, SpreadIsNext DEF HandsOver, Draft, IDsOf
<1>5. /\ pendingMessages \in Seq(Message)
      /\ Len(pendingMessages') = Len(pendingMessages) + 1
      /\ pendingMessages'[Len(pendingMessages) + 1] = Draft[s]
      /\ \A i \in DOMAIN pendingMessages : pendingMessages'[i] = pendingMessages[i]
      /\ DOMAIN pendingMessages = 1 .. Len(pendingMessages)
      /\ DOMAIN pendingMessages' = 1 .. Len(pendingMessages) + 1
      /\ Len(pendingMessages) \in Nat
  BY DEF HandsOver, TypeInv, PendingType
<1>6. Spread'[InScheduler] \subseteq Spread[InScheduler] \cup {ID(Draft[s])}
  BY <1>5, SpreadIs, SpreadIsNext DEF PendingIDs
<1>7. ID(Draft[s]) \notin PendingIDs
  <2>1. DraftOf(s) # InScheduler /\ DraftOf(s) \in Place /\ InScheduler \in Place
    BY Places DEF DraftOf, InScheduler
  <2>2. ID(Draft[s]) \notin Spread[InScheduler]
    BY <1>4, <2>1, NotElsewhere
  <2> QED
    BY <2>2, SpreadIs
<1>8. ASSUME NEW i \in DOMAIN pendingMessages', NEW j \in DOMAIN pendingMessages',
             ID(pendingMessages'[i]) = ID(pendingMessages'[j])
      PROVE  i = j
  <2>1. CASE i \in DOMAIN pendingMessages /\ j \in DOMAIN pendingMessages
    BY <1>5, <1>8, <2>1 DEF OnceInv
  <2>2. CASE i = Len(pendingMessages) + 1 /\ j \in DOMAIN pendingMessages
    BY <1>5, <1>7, <1>8, <2>2 DEF PendingIDs
  <2>3. CASE j = Len(pendingMessages) + 1 /\ i \in DOMAIN pendingMessages
    BY <1>5, <1>7, <1>8, <2>3 DEF PendingIDs
  <2>4. CASE i = Len(pendingMessages) + 1 /\ j = Len(pendingMessages) + 1
    BY <2>4
  <2> QED
    BY <1>5, <2>1, <2>2, <2>3, <2>4
<1>9. NoneTwice'
  BY <1>1, <1>8 DEF OnceInv, NoneTwice
<1> QED
  BY <1>1, <1>3, <1>4, <1>6, <1>9, Places, PlacesDiffer, MovesOne

LEMMA AgesKeepsOnce ==
  ASSUME TypeInv, OnceInv, Ages
  PROVE  OnceInv'
<1>1. UNCHANGED <<nextMessageID, Draft, msg, messageQueue, InHand, refused>>
  BY DEF Ages
<1>2. pendingMessages \in Seq(Message)
  BY DEF TypeInv, PendingType
<1>3. /\ DOMAIN pendingMessages' = DOMAIN pendingMessages
      /\ \A i \in DOMAIN pendingMessages : ID(pendingMessages'[i]) = ID(pendingMessages[i])
  BY <1>2, AgeStep, AgedFacts DEF Ages, ID
<1>4. Spread'[InScheduler] = Spread[InScheduler]
  BY <1>3, SpreadIs, SpreadIsNext DEF PendingIDs
<1>5. \A l \in Place : Spread'[l] = Spread[l]
  BY <1>1, <1>4, Untouched, PlaceCases
<1>6. NoneTwice'
  BY <1>1, <1>3 DEF OnceInv, NoneTwice
<1> QED
  BY <1>1, <1>5, <1>6 DEF OnceInv, NoneTwice, Apart

LEMMA PicksKeepsOnce ==
  ASSUME TypeInv, OnceInv, NEW best \in DOMAIN pendingMessages, Picks(best)
  PROVE  OnceInv'
<1>1. UNCHANGED <<nextMessageID, Draft, messageQueue, InHand, refused>>
      /\ msg' = pendingMessages[best]
  BY DEF Picks
<1>2. pendingMessages \in Seq(Message)
  BY DEF TypeInv, PendingType
<1>3. /\ DOMAIN pendingMessages' = 1 .. Len(pendingMessages) - 1
      /\ \A k \in DOMAIN pendingMessages' :
           /\ Origin(best, k) \in DOMAIN pendingMessages
           /\ Origin(best, k) # best
           /\ ID(pendingMessages'[k]) = ID(pendingMessages[Origin(best, k)])
  BY <1>2, PickStep, SkippedFacts DEF Picks, ID
<1>4. \A i, j \in DOMAIN pendingMessages' : Origin(best, i) = Origin(best, j) => i = j
  BY <1>2, <1>3 DEF Origin
<1>5. ID(pendingMessages[best]) \in Spread[InScheduler]
  BY SpreadIs DEF PendingIDs
<1>6. Spread'[InScheduler] \subseteq Spread[InScheduler]
  BY <1>3, SpreadIs, SpreadIsNext DEF PendingIDs
<1>7. ID(pendingMessages[best]) \notin Spread'[InScheduler]
  BY <1>3, SpreadIsNext DEF PendingIDs, OnceInv
<1>8. Spread'[OnItsWay] \subseteq {ID(pendingMessages[best])}
  BY <1>1, SpreadIsNext DEF IDsOf
<1>9. \A l \in Place \ {InScheduler, OnItsWay} : Spread'[l] = Spread[l]
  BY <1>1, Untouched, PlaceCases
<1>10. NoneTwice'
  BY <1>1, <1>3, <1>4 DEF OnceInv, NoneTwice
<1> QED
  BY <1>1, <1>5, <1>6, <1>7, <1>8, <1>9, <1>10, Places, PlacesDiffer, MovesOne

LEMMA PutsKeepsOnce ==
  ASSUME TypeInv, OnceInv, Puts
  PROVE  OnceInv'
<1> DEFINE p == msg.envelope.receiverID
<1>1. UNCHANGED <<nextMessageID, Draft, pendingMessages, InHand, refused>> /\ msg' = NoMessage
      /\ msg # NoMessage
  BY DEF Puts
<1>2. p \in Proc
  BY HeldFacts, MessageFacts, <1>1
<1>3. /\ \A q \in Proc : q # p => messageQueue'[q] = messageQueue[q]
      /\ messageQueue'[p] = messageQueue[p] \cup {msg}
  BY <1>2 DEF Puts, TypeInv, ProcessesType
<1> HIDE DEF p
<1>4. Spread'[OnItsWay] = {} /\ Spread[OnItsWay] = {ID(msg)}
  BY <1>1, SpreadIs, SpreadIsNext DEF IDsOf
<1>5. Spread'[InboxOf(p)] = Spread[InboxOf(p)] \cup {ID(msg)}
  BY <1>2, <1>3, SpreadIs, SpreadIsNext DEF IDs, ID
<1>6. \A l \in Place \ {OnItsWay, InboxOf(p)} : Spread'[l] = Spread[l]
  BY <1>1, <1>3, Untouched, PlaceCases
<1>7. \A m \in messageQueue[p] : ID(m) # ID(msg)
  <2>1. \A m \in messageQueue[p] : ID(m) \in Spread[InboxOf(p)]
    BY <1>2, SpreadIs DEF IDs, ID
  <2> QED
    <3>1. OnItsWay # InboxOf(p) /\ OnItsWay \in Place /\ InboxOf(p) \in Place
      BY <1>2, Places DEF OnItsWay, InboxOf
    <3>2. ID(msg) \notin Spread[InboxOf(p)]
      BY <1>4, <3>1, NotElsewhere
    <3> QED
      BY <2>1, <3>2
<1>8. NoneTwice'
  BY <1>1, <1>3, <1>7 DEF OnceInv, NoneTwice
<1> QED
  BY <1>1, <1>2, <1>4, <1>5, <1>6, <1>8, Places, PlacesDiffer, MovesOne

LEMMA FetchesKeepsOnce ==
  ASSUME TypeInv, OnceInv, NEW p \in Proc, NEW m \in messageQueue[p], Fetches(p, m)
  PROVE  OnceInv'
<1>1. UNCHANGED <<nextMessageID, Draft, pendingMessages, msg, refused>>
  BY DEF Fetches
<1>2. /\ \A q \in Proc : q # p => messageQueue'[q] = messageQueue[q]
      /\ messageQueue'[p] = messageQueue[p] \ {m}
  BY DEF Fetches, TypeInv, ProcessesType
<1>3. /\ \A q \in Proc : q # p => InHand'[q] = InHand[q]
      /\ InHand'[p] = m
  BY DEF Fetches, InHand
<1>4. ID(m) \in Spread[InboxOf(p)]
  BY SpreadIs DEF IDs, ID
<1>5. Spread'[InboxOf(p)] = IDs(messageQueue[p] \ {m}) /\ Spread[InboxOf(p)] = IDs(messageQueue[p])
  BY <1>2, SpreadIs, SpreadIsNext
<1>6. ID(m) \notin Spread'[InboxOf(p)] /\ Spread'[InboxOf(p)] \subseteq Spread[InboxOf(p)]
  BY <1>5 DEF OnceInv, IDs, ID
<1>7. Spread'[HandOf(p)] \subseteq {ID(m)}
  BY <1>3, SpreadIsNext DEF IDsOf
<1>8. \A l \in Place \ {InboxOf(p), HandOf(p)} : Spread'[l] = Spread[l]
  BY <1>1, <1>2, <1>3, Untouched, PlaceCases
<1>9. NoneTwice'
  BY <1>1, <1>2 DEF OnceInv, NoneTwice
<1> QED
  BY <1>1, <1>4, <1>6, <1>7, <1>8, <1>9, Places, PlacesDiffer, MovesOne

LEMMA OnceStep == TypeInv /\ OnceInv /\ [Next]_vars => OnceInv'
<1> SUFFICES ASSUME TypeInv, OnceInv, [Next]_vars
             PROVE  OnceInv'
  OBVIOUS
<1>1. CASE UNCHANGED messageVars
  <2>1. Spread' = Spread
    BY <1>1 DEF messageVars, Spread, PendingIDs
  <2> QED
    BY <1>1, <2>1 DEF messageVars, OnceInv, Apart
<1>2. CASE Moves
  BY <1>2, BuildsKeepsOnce, DropsKeepsOnce, HandsOverKeepsOnce, AgesKeepsOnce, PutsKeepsOnce,
     RefusesKeepsOnce, PicksKeepsOnce, UsesKeepsOnce, FetchesKeepsOnce DEF Moves
<1> QED
  BY <1>1, <1>2, MessageStep

LEMMA OnceInvariance == Spec => [](TypeInv /\ OnceInv)
<1>1. Init => TypeInv /\ OnceInv
  BY TypeInit, OnceInit
<1>2. TypeInv /\ OnceInv /\ [Next]_vars => (TypeInv /\ OnceInv)'
  BY TypeStep, OnceStep
<1> QED
  BY <1>1, <1>2, PTL DEF Spec

(* Where a message goes, and whose it is when only processes send.         *)
OwnMessage(m, s) == m.envelope.senderID = s /\ m.envelope.receiverID # s

NotToItself(m) == m.envelope.receiverID # m.envelope.senderID

RouteInv ==
  /\ \A p \in Proc : \A m \in messageQueue[p] : m.envelope.receiverID = p
  /\ Tester = {} =>
       /\ \A s \in Sender : Draft[s] # NoMessage => OwnMessage(Draft[s], s)
       /\ \A i \in DOMAIN pendingMessages : NotToItself(pendingMessages[i])
       /\ msg # NoMessage => NotToItself(msg)
       /\ \A p \in Proc : \A m \in messageQueue[p] : NotToItself(m)

(* No inbox is over its limit.                                             *)
QueueInv ==
  \A p \in Proc : IsFiniteSet(messageQueue[p]) /\ Cardinality(messageQueue[p]) <= MaxQueueSize

LEMMA PickedFacts ==
  ASSUME TypeInv, NEW best \in DOMAIN pendingMessages, Picks(best)
  PROVE  \A k \in DOMAIN pendingMessages' :
           /\ Origin(best, k) \in DOMAIN pendingMessages
           /\ pendingMessages'[k].envelope = pendingMessages[Origin(best, k)].envelope
           /\ pendingMessages'[k].sentPriority = pendingMessages[Origin(best, k)].sentPriority
<1>1. pendingMessages \in Seq(Message)
  BY DEF TypeInv, PendingType
<1> QED
  BY <1>1, PickStep, SkippedFacts DEF Picks

LEMMA AgesFacts ==
  ASSUME TypeInv, Ages
  PROVE  /\ DOMAIN pendingMessages' = DOMAIN pendingMessages
         /\ \A k \in DOMAIN pendingMessages :
              /\ pendingMessages'[k].envelope = pendingMessages[k].envelope
              /\ pendingMessages'[k].sentPriority = pendingMessages[k].sentPriority
<1>1. pendingMessages \in Seq(Message)
  BY DEF TypeInv, PendingType
<1> QED
  BY <1>1, AgeStep, AgedFacts DEF Ages

LEMMA HandsOverFacts ==
  ASSUME TypeInv, NEW s \in Sender, HandsOver(s)
  PROVE  /\ DOMAIN pendingMessages = 1 .. Len(pendingMessages)
         /\ DOMAIN pendingMessages' = 1 .. Len(pendingMessages) + 1
         /\ Len(pendingMessages) \in Nat
         /\ pendingMessages'[Len(pendingMessages) + 1] = Draft[s]
         /\ \A i \in DOMAIN pendingMessages : pendingMessages'[i] = pendingMessages[i]
BY DEF HandsOver, TypeInv, PendingType

LEMMA PutsFacts ==
  ASSUME TypeInv, Puts
  PROVE  /\ msg \in Message /\ msg.envelope.receiverID \in Proc
         /\ messageQueue'[msg.envelope.receiverID]
              = messageQueue[msg.envelope.receiverID] \cup {msg}
         /\ \A q \in Proc \ {msg.envelope.receiverID} : messageQueue'[q] = messageQueue[q]
<1>1. msg \in Message /\ msg.envelope.receiverID \in Proc
  BY HeldFacts, MessageFacts DEF Puts
<1> QED
  BY <1>1 DEF Puts, TypeInv, ProcessesType

LEMMA FetchesFacts ==
  ASSUME TypeInv, NEW p \in Proc, NEW m \in messageQueue[p], Fetches(p, m)
  PROVE  /\ messageQueue'[p] = messageQueue[p] \ {m}
         /\ \A q \in Proc \ {p} : messageQueue'[q] = messageQueue[q]
         /\ InHand'[p] = m
         /\ \A q \in Proc \ {p} : InHand'[q] = InHand[q]
BY DEF Fetches, TypeInv, ProcessesType, InHand

LEMMA RouteInit == Init => RouteInv
BY DEF Init, RouteInv, Draft, Returned

LEMMA RouteStep == TypeInv /\ RouteInv /\ [Next]_vars => RouteInv'
<1> SUFFICES ASSUME TypeInv, RouteInv, [Next]_vars
             PROVE  RouteInv'
  OBVIOUS
<1>1. CASE UNCHANGED messageVars
  BY <1>1 DEF messageVars, RouteInv
<1>2. ASSUME NEW s \in Sender, NEW m \in Message, Composes(s, m)
      PROVE  RouteInv'
  <2>1. Draft'[s] = m /\ \A t \in Sender \ {s} : Draft'[t] = Draft[t]
    BY <1>2 DEF Composes, Draft
  <2> QED
    BY <1>2, <2>1 DEF Composes, RouteInv, OwnMessage
<1>3. ASSUME NEW s \in Sender, Drops(s)
      PROVE  RouteInv'
  <2>1. Draft'[s] = NoMessage /\ \A t \in Sender \ {s} : Draft'[t] = Draft[t]
    BY <1>3 DEF Drops, Draft
  <2> QED
    BY <1>3, <2>1 DEF Drops, RouteInv
<1>4. ASSUME NEW s \in Sender, HandsOver(s)
      PROVE  RouteInv'
  <2>1. Draft'[s] = NoMessage /\ \A t \in Sender \ {s} : Draft'[t] = Draft[t]
    BY <1>4 DEF HandsOver, Draft
  <2>2. Tester = {} => NotToItself(Draft[s])
    BY <1>4 DEF HandsOver, RouteInv, OwnMessage, NotToItself
  <2>3. Tester = {} => \A i \in DOMAIN pendingMessages' : NotToItself(pendingMessages'[i])
    BY <1>4, <2>2, HandsOverFacts DEF RouteInv
  <2> QED
    BY <1>4, <2>1, <2>3 DEF HandsOver, RouteInv
<1>5. CASE Ages
  BY <1>5, AgesFacts DEF Ages, RouteInv, NotToItself
<1>6. CASE Puts
  BY <1>6, PutsFacts DEF Puts, RouteInv, NotToItself
<1>7. CASE Refuses
  BY <1>7 DEF Refuses, RouteInv
<1>8. ASSUME NEW best \in DOMAIN pendingMessages, Picks(best)
      PROVE  RouteInv'
  BY <1>8, PickedFacts DEF Picks, RouteInv, NotToItself
<1>9. ASSUME NEW p \in Proc, Uses(p)
      PROVE  RouteInv'
  BY <1>9 DEF Uses, RouteInv
<1>10. ASSUME NEW p \in Proc, NEW m \in messageQueue[p], Fetches(p, m)
       PROVE  RouteInv'
  BY <1>10, FetchesFacts DEF Fetches, RouteInv
<1> QED
  BY <1>1, <1>2, <1>3, <1>4, <1>5, <1>6, <1>7, <1>8, <1>9, <1>10, MessageStep DEF Moves

(* Sets grow and shrink by one.                                            *)
LEMMA OneMore ==
  ASSUME NEW S, NEW x, IsFiniteSet(S), x \notin S
  PROVE  /\ IsFiniteSet(S \cup {x}) /\ Cardinality(S) \in Nat
         /\ Cardinality(S \cup {x}) = Cardinality(S) + 1
<1>1. IsFiniteSet(S \cup {x})
  BY FS_AddElement
<1>2. Cardinality(S \cup {x}) = Cardinality(S) + 1
  BY FS_AddElement
<1>3. Cardinality(S) \in Nat
  BY FS_CardinalityType
<1> QED
  BY <1>1, <1>2, <1>3

LEMMA OneLess ==
  ASSUME NEW S, NEW x, IsFiniteSet(S), x \in S
  PROVE  /\ IsFiniteSet(S \ {x}) /\ Cardinality(S) \in Nat
         /\ Cardinality(S \ {x}) = Cardinality(S) - 1
<1>1. IsFiniteSet(S \ {x})
  BY FS_RemoveElement
<1>2. Cardinality(S \ {x}) = Cardinality(S) - 1
  BY FS_RemoveElement
<1>3. Cardinality(S) \in Nat
  BY FS_CardinalityType
<1> QED
  BY <1>1, <1>2, <1>3

LEMMA QueueInit == Init => QueueInv
BY FS_EmptySet, ConfigAssumption DEF Init, QueueInv

LEMMA QueueStep == TypeInv /\ QueueInv /\ [Next]_vars => QueueInv'
<1> SUFFICES ASSUME TypeInv, QueueInv, [Next]_vars
             PROVE  QueueInv'
  OBVIOUS
<1>1. CASE messageQueue' = messageQueue
  BY <1>1 DEF QueueInv
<1>2. CASE Puts
  <2> DEFINE p == msg.envelope.receiverID
             q == messageQueue[p]
  <2>1. p \in Proc /\ messageQueue'[p] = q \cup {msg}
        /\ \A r \in Proc \ {p} : messageQueue'[r] = messageQueue[r]
    BY <1>2, PutsFacts
  <2>2. IsFiniteSet(q) /\ Cardinality(q) < MaxQueueSize
    <3>1. IsFiniteSet(q) /\ Cardinality(q) \in Nat
      BY <2>1, FS_CardinalityType DEF QueueInv
    <3>2. ~(Cardinality(q) >= MaxQueueSize)
      BY <1>2 DEF Puts, Queue!IsFull, Queue!Cardinality, Cardinality, Queue!IsFiniteSet,
                  IsFiniteSet
    <3> QED
      BY <3>1, <3>2, ConfigAssumption
  <2> HIDE DEF p, q
  <2>3. CASE msg \notin q
    <3>1. /\ IsFiniteSet(q \cup {msg}) /\ Cardinality(q) \in Nat
          /\ Cardinality(q \cup {msg}) = Cardinality(q) + 1
      BY <2>2, <2>3, OneMore
    <3>2. Cardinality(q \cup {msg}) <= MaxQueueSize
      BY <2>2, <3>1, ConfigAssumption
    <3> QED
      BY <2>1, <3>1, <3>2 DEF QueueInv
  <2>4. CASE msg \in q
    <3>1. messageQueue'[p] = messageQueue[p]
      BY <2>1, <2>4 DEF q
    <3> QED
      BY <2>1, <3>1 DEF QueueInv
  <2> QED
    BY <2>3, <2>4
<1>3. ASSUME NEW p \in Proc, NEW m \in messageQueue[p], Fetches(p, m)
      PROVE  QueueInv'
  <2>1. IsFiniteSet(messageQueue[p]) /\ Cardinality(messageQueue[p]) \in Nat
    BY FS_CardinalityType DEF QueueInv
  <2>2. IsFiniteSet(messageQueue'[p])
        /\ Cardinality(messageQueue'[p]) = Cardinality(messageQueue[p]) - 1
    BY <1>3, <2>1, FetchesFacts, OneLess
  <2>3. Cardinality(messageQueue'[p]) <= MaxQueueSize
    BY <2>1, <2>2, ConfigAssumption DEF QueueInv
  <2> QED
    BY <1>3, <2>2, <2>3, FetchesFacts DEF QueueInv
<1> QED
  BY <1>1, <1>2, <1>3, MessageStep
     DEF Moves, messageVars, Composes, Drops, HandsOver, Ages, Refuses, Picks, Uses

-----------------------------------------------------------------------------
IPCInv == TypeInv /\ OnceInv /\ RouteInv /\ QueueInv

(* All four hold whatever the threads do.                                  *)
THEOREM IPCInvariance == Spec => []IPCInv
<1>1. Init => IPCInv
  BY TypeInit, OnceInit, RouteInit, QueueInit DEF IPCInv
<1>2. IPCInv /\ [Next]_vars => IPCInv'
  BY TypeStep, OnceStep, RouteStep, QueueStep DEF IPCInv
<1> QED
  BY <1>1, <1>2, PTL DEF Spec

LEMMA TypeFollows == IPCInv => TypeOK
<1> SUFFICES ASSUME IPCInv
             PROVE  TypeOK
  OBVIOUS
<1>1. Sched!TypeOK
  BY DEF IPCInv, TypeInv, PendingType, Sched!TypeOK, Message, OnceInv, NoneTwice, ID
<1>2. /\ messageQueue \in [Proc -> SUBSET Message]
      /\ \A p \in Proc : Cardinality(messageQueue[p]) <= MaxQueueSize
  BY DEF IPCInv, TypeInv, ProcessesType, QueueInv
<1> QED
  BY <1>1, <1>2
     DEF IPCInv, TypeInv, CountersType, DispatcherType, CallsType, ProcessesType, TypeOK

(* Every variable of the system of threads has its type.                   *)
THEOREM IPCTypeCorrect == Spec => []TypeOK
BY IPCInvariance, TypeFollows, PTL

-----------------------------------------------------------------------------
LEMMA SameSize ==
  ASSUME NEW S, NEW T, IsFiniteSet(S), NEW f \in [S -> T],
         \A x, y \in S : f[x] = f[y] => x = y,
         \A y \in T : \E x \in S : y = f[x]
  PROVE  IsFiniteSet(T) /\ Cardinality(T) = Cardinality(S)
<1>1. f \in Surjection(S, T)
  BY DEF Surjection
<1>2. f \in Injection(S, T)
  BY DEF Injection, IsInjective
<1> QED
  BY <1>1, <1>2, FS_Surjection

LEMMA FiniteRange ==
  ASSUME NEW S, IsFiniteSet(S), NEW f
  PROVE  IsFiniteSet({f[x] : x \in S})
<1> DEFINE g == [x \in S |-> f[x]]
           T == {f[x] : x \in S}
<1>1. g \in Surjection(S, T)
  BY DEF Surjection
<1> QED
  BY <1>1, FS_Surjection

(* As many IDs as messages.                                                *)
LEMMA IDsCount ==
  ASSUME NEW S, IsFiniteSet(S), \A m, n \in S : ID(m) = ID(n) => m = n
  PROVE  Cardinality(IDs(S)) = Cardinality(S)
<1> DEFINE f == [m \in S |-> ID(m)]
<1>1. f \in [S -> IDs(S)] /\ \A y \in IDs(S) : \E x \in S : y = f[x]
  BY DEF IDs, ID
<1>2. \A x, y \in S : f[x] = f[y] => x = y
  OBVIOUS
<1> HIDE DEF f
<1> QED
  BY <1>1, <1>2, SameSize

LEMMA SenderFinite == IsFiniteSet(Sender) /\ \A S \in SUBSET Sender : IsFiniteSet(S)
<1>1. IsFiniteSet(Sender)
  BY ProcAssumption, TesterAssumption, FS_Union DEF Sender
<1> QED
  BY <1>1, FS_Subset

LEMMA ProcFinite == \A S \in SUBSET Proc : IsFiniteSet(S) /\ Cardinality(S) \in Nat
BY ProcAssumption, FS_Subset, FS_CardinalityType

(* The five kinds of places, as the sets the property is about.            *)
LEMMA WhereMessagesAre ==
  ASSUME IPCInv
  PROVE  /\ \A m \in Drafts : \E s \in Sender : m = Draft[s] /\ ID(m) \in Spread[DraftOf(s)]
         /\ \A m \in Pending : \E i \in DOMAIN pendingMessages : m = pendingMessages[i]
         /\ IDs(Pending) = Spread[InScheduler]
         /\ IDs(Routed) = Spread[OnItsWay]
         /\ \A m \in Queued : \E p \in Proc : m \in messageQueue[p] /\ ID(m) \in Spread[InboxOf(p)]
         /\ \A m \in Received : \E p \in Proc : m = InHand[p] /\ ID(m) \in Spread[HandOf(p)]
<1>1. /\ \A s \in Sender : (call[s].draft # NoMessage) <=> (call[s].at \in {"count", "channel"})
      /\ \A p \in Proc : (process[p].received # NoMessage) <=> (process[p].pc = "count")
      /\ pendingMessages \in Seq(Message)
  BY DEF IPCInv, TypeInv, CallsType, ProcessesType, PendingType
<1>2. \A m \in Drafts : \E s \in Sender : m = Draft[s] /\ ID(m) \in Spread[DraftOf(s)]
  BY <1>1, SpreadIs DEF Drafts, Calling, Draft, IDsOf
<1>3. \A m : m \in Pending <=> \E i \in DOMAIN pendingMessages : m = pendingMessages[i]
  BY DEF Pending, ToSet
<1>4. IDs(Pending) = Spread[InScheduler]
  BY <1>3, SpreadIs DEF IDs, PendingIDs, ID
<1>5. IDs(Routed) = Spread[OnItsWay]
  BY SpreadIs DEF IDs, IDsOf, ID, Routed
<1>6. \A m \in Queued : \E p \in Proc : m \in messageQueue[p] /\ ID(m) \in Spread[InboxOf(p)]
  BY SpreadIs DEF Queued, IDs, ID
<1>7. \A m \in Received : \E p \in Proc : m = InHand[p] /\ ID(m) \in Spread[HandOf(p)]
  BY <1>1, SpreadIs DEF Received, At, InHand, IDsOf
<1> QED
  BY <1>2, <1>3, <1>4, <1>5, <1>6, <1>7

Sets == <<Drafts, Pending, Routed, Queued, Received>>
Tags == <<"draft", "pending", "routed", "inbox", "hand">>

LEMMA SetsArePlaces ==
  ASSUME IPCInv, NEW i \in 1 .. 5, NEW id \in IDs(Sets[i])
  PROVE  \E l \in Place : l[1] = Tags[i] /\ id \in Spread[l]
<1>1. PICK m \in Sets[i] : id = ID(m)
  BY DEF IDs, ID
<1>2. CASE i = 1
  BY <1>1, <1>2, WhereMessagesAre, Places DEF Sets, Tags, DraftOf
<1>3. CASE i = 2
  <2>1. id \in Spread[InScheduler]
    BY <1>3, WhereMessagesAre DEF Sets
  <2> QED
    BY <1>3, <2>1, Places DEF Tags, InScheduler
<1>4. CASE i = 3
  <2>1. id \in Spread[OnItsWay]
    BY <1>4, WhereMessagesAre DEF Sets
  <2> QED
    BY <1>4, <2>1, Places DEF Tags, OnItsWay
<1>5. CASE i = 4
  BY <1>1, <1>5, WhereMessagesAre, Places DEF Sets, Tags, InboxOf
<1>6. CASE i = 5
  BY <1>1, <1>6, WhereMessagesAre, Places DEF Sets, Tags, HandOf
<1> QED
  BY <1>2, <1>3, <1>4, <1>5, <1>6

LEMMA SetsAreFinite ==
  ASSUME IPCInv, NEW i \in 1 .. 5
  PROVE  IsFiniteSet(Sets[i])
<1>1. IsFiniteSet(Drafts)
  <2> DEFINE S == Calling("count") \cup Calling("channel")
             f == [s \in Sender |-> call[s].draft]
  <2>1. IsFiniteSet(S) /\ S \subseteq Sender
    BY SenderFinite DEF Calling
  <2>2. Drafts = {f[s] : s \in S}
    BY <2>1 DEF Drafts
  <2> HIDE DEF f, S
  <2> QED
    BY <2>1, <2>2, FiniteRange
<1>2. IsFiniteSet(Pending)
  <2>1. pendingMessages \in Seq(Message)
    BY DEF IPCInv, TypeInv, PendingType
  <2>2. Pending = {pendingMessages[k] : k \in 1 .. Len(pendingMessages)}
    BY <2>1 DEF Pending, ToSet
  <2>3. IsFiniteSet(1 .. Len(pendingMessages))
    BY <2>1, FS_Interval
  <2> QED
    BY <2>2, <2>3, FiniteRange
<1>3. IsFiniteSet(Routed)
  <2>1. IsFiniteSet({msg})
    BY FS_Singleton
  <2> QED
    BY <2>1, FS_Subset DEF Routed
<1>4. IsFiniteSet(Queued)
  <2>1. IsFiniteSet({messageQueue[p] : p \in Proc})
    BY ProcAssumption, FiniteRange
  <2>2. \A T \in {messageQueue[p] : p \in Proc} : IsFiniteSet(T)
    BY DEF IPCInv, QueueInv
  <2> QED
    BY <2>1, <2>2, FS_UNION DEF Queued
<1>5. IsFiniteSet(Received)
  <2> DEFINE f == [p \in Proc |-> process[p].received]
  <2>1. IsFiniteSet(At("count")) /\ At("count") \subseteq Proc
    BY ProcFinite DEF At
  <2>2. Received = {f[p] : p \in At("count")}
    BY <2>1 DEF Received
  <2> HIDE DEF f
  <2> QED
    BY <2>1, <2>2, FiniteRange
<1> QED
  BY <1>1, <1>2, <1>3, <1>4, <1>5 DEF Sets

LEMMA SetsAreUnique ==
  ASSUME IPCInv, NEW i \in 1 .. 5, NEW m \in Sets[i], NEW n \in Sets[i], ID(m) = ID(n)
  PROVE  m = n
<1>1. OnceInv /\ NoneTwice
  BY DEF IPCInv, OnceInv, NoneTwice
<1>2. CASE i = 1
  <2>1. PICK s \in Sender : m = Draft[s] /\ ID(m) \in Spread[DraftOf(s)]
    BY <1>2, WhereMessagesAre DEF Sets
  <2>2. PICK t \in Sender : n = Draft[t] /\ ID(n) \in Spread[DraftOf(t)]
    BY <1>2, WhereMessagesAre DEF Sets
  <2>3. DraftOf(s) \in Place /\ DraftOf(t) \in Place
    BY Places
  <2>4. DraftOf(s) = DraftOf(t)
    BY <1>1, <2>1, <2>2, <2>3, NotElsewhere
  <2> QED
    BY <2>1, <2>2, <2>4 DEF DraftOf
<1>3. CASE i = 2
  BY <1>1, <1>3, WhereMessagesAre DEF Sets, NoneTwice
<1>4. CASE i = 3
  BY <1>4 DEF Sets, Routed
<1>5. CASE i = 4
  <2>1. PICK p \in Proc : m \in messageQueue[p] /\ ID(m) \in Spread[InboxOf(p)]
    BY <1>5, WhereMessagesAre DEF Sets
  <2>2. PICK q \in Proc : n \in messageQueue[q] /\ ID(n) \in Spread[InboxOf(q)]
    BY <1>5, WhereMessagesAre DEF Sets
  <2>3. InboxOf(p) \in Place /\ InboxOf(q) \in Place
    BY Places
  <2>4. InboxOf(p) = InboxOf(q)
    BY <1>1, <2>1, <2>2, <2>3, NotElsewhere
  <2>5. p = q
    BY <2>4 DEF InboxOf
  <2> QED
    BY <1>1, <2>1, <2>2, <2>5 DEF NoneTwice
<1>6. CASE i = 5
  <2>1. PICK p \in Proc : m = InHand[p] /\ ID(m) \in Spread[HandOf(p)]
    BY <1>6, WhereMessagesAre DEF Sets
  <2>2. PICK q \in Proc : n = InHand[q] /\ ID(n) \in Spread[HandOf(q)]
    BY <1>6, WhereMessagesAre DEF Sets
  <2>3. HandOf(p) \in Place /\ HandOf(q) \in Place
    BY Places
  <2>4. HandOf(p) = HandOf(q)
    BY <1>1, <2>1, <2>2, <2>3, NotElsewhere
  <2> QED
    BY <2>1, <2>2, <2>4 DEF HandOf
<1> QED
  BY <1>2, <1>3, <1>4, <1>5, <1>6

LEMMA OnceFollows == IPCInv => AtMostOnce
<1> SUFFICES ASSUME IPCInv
             PROVE  AtMostOnce
  OBVIOUS
<1>1. OnceInv /\ NoneTwice
  BY DEF IPCInv, OnceInv, NoneTwice
<1>2. ASSUME NEW i \in 1 .. 5, NEW j \in 1 .. 5, i # j
      PROVE  IDs(Sets[i]) \cap IDs(Sets[j]) = {}
  <2> SUFFICES ASSUME NEW id \in IDs(Sets[i]), id \in IDs(Sets[j])
               PROVE  FALSE
    OBVIOUS
  <2>1. PICK k \in Place : k[1] = Tags[i] /\ id \in Spread[k]
    BY SetsArePlaces
  <2>2. PICK l \in Place : l[1] = Tags[j] /\ id \in Spread[l]
    BY SetsArePlaces
  <2>3. Tags[i] # Tags[j]
    BY <1>2 DEF Tags
  <2> QED
    BY <1>1, <2>1, <2>2, <2>3, NotElsewhere
<1>3. ASSUME NEW i \in 1 .. 5
      PROVE  /\ Cardinality(IDs(Sets[i])) = Cardinality(Sets[i])
             /\ IDs(Sets[i]) \cap refused = {}
             /\ \A id \in IDs(Sets[i]) : id < nextMessageID
  <2>1. Cardinality(IDs(Sets[i])) = Cardinality(Sets[i])
    BY SetsAreFinite, SetsAreUnique, IDsCount
  <2>2. ASSUME NEW id \in IDs(Sets[i])
        PROVE  id \notin refused /\ id < nextMessageID
    <3>1. PICK l \in Place : l[1] = Tags[i] /\ id \in Spread[l]
      BY SetsArePlaces
    <3> QED
      BY <1>1, <3>1 DEF OnceInv
  <2> QED
    BY <2>1, <2>2
<1>4. Cardinality(Pending) = Len(pendingMessages)
  <2>1. pendingMessages \in Seq(Message)
    BY DEF IPCInv, TypeInv, PendingType
  <2> DEFINE D == 1 .. Len(pendingMessages)
  <2>2. /\ pendingMessages \in [D -> Pending]
        /\ \A y \in Pending : \E x \in D : y = pendingMessages[x]
    BY <2>1 DEF Pending, ToSet
  <2>3. \A x, y \in D : pendingMessages[x] = pendingMessages[y] => x = y
    BY <1>1, <2>1 DEF NoneTwice
  <2>4. IsFiniteSet(D) /\ Cardinality(D) = Len(pendingMessages)
    <3>1. Len(pendingMessages) \in Nat
      BY <2>1
    <3>2. IsFiniteSet(D)
      BY <3>1, FS_Interval
    <3>3. Cardinality(D) = IF 1 > Len(pendingMessages) THEN 0 ELSE Len(pendingMessages) - 1 + 1
      BY <3>1, FS_Interval
    <3> QED
      BY <3>1, <3>2, <3>3
  <2> HIDE DEF D
  <2> QED
    BY <2>2, <2>3, <2>4, SameSize
<1>5. \A p \in Proc : \A m \in messageQueue[p] :
        m.envelope.receiverID = p /\ (Tester = {} => m.envelope.senderID # p)
  BY DEF IPCInv, RouteInv, NotToItself
<1>6. DOMAIN <<Drafts, Pending, Routed, Queued, Received>> = 1 .. 5
  OBVIOUS
<1> QED
  BY <1>2, <1>3, <1>4, <1>5, <1>6 DEF AtMostOnce, Sets

(* No message is in two places, twice in one, or anywhere after an inbox   *)
(* refused it, however many threads hand it on.                            *)
THEOREM AtMostOnceCorrect == Spec => []AtMostOnce
BY IPCInvariance, OnceFollows, PTL

-----------------------------------------------------------------------------
(* What is gone stays gone: a move takes a message from one place to       *)
(* another, and what Composes brings in has a new number.                  *)
Somewhere ==
  (UNION {IDsOf(Draft[s]) : s \in Sender}) \cup PendingIDs \cup IDsOf(msg)
    \cup (UNION {IDs(messageQueue[p]) : p \in Proc}) \cup (UNION {IDsOf(InHand[p]) : p \in Proc})

LEMMA SomewhereIs ==
  \A id : id \in Somewhere <=>
    \/ \E s \in Sender : id \in IDsOf(Draft[s])
    \/ id \in PendingIDs \/ id \in IDsOf(msg)
    \/ \E p \in Proc : id \in IDs(messageQueue[p])
    \/ \E p \in Proc : id \in IDsOf(InHand[p])
BY DEF Somewhere

LEMMA SomewhereIsNext ==
  \A id : id \in Somewhere' <=>
    \/ \E s \in Sender : id \in IDsOf(Draft'[s])
    \/ id \in PendingIDs' \/ id \in IDsOf(msg')
    \/ \E p \in Proc : id \in IDs(messageQueue'[p])
    \/ \E p \in Proc : id \in IDsOf(InHand'[p])
BY DEF Somewhere

LEMMA InFlightIsSomewhere == TypeInv => InFlight = Somewhere
<1> SUFFICES ASSUME TypeInv
             PROVE  InFlight = Somewhere
  OBVIOUS
<1>1. /\ \A s \in Sender : (call[s].draft # NoMessage) <=> (call[s].at \in {"count", "channel"})
      /\ \A p \in Proc : (process[p].received # NoMessage) <=> (process[p].pc = "count")
      /\ pendingMessages \in Seq(Message)
  BY DEF TypeInv, CallsType, ProcessesType, PendingType
<1>2. IDs(Drafts) = UNION {IDsOf(Draft[s]) : s \in Sender}
  BY <1>1 DEF IDs, IDsOf, ID, Drafts, Draft, Calling
<1>3. IDs(Pending) = PendingIDs
  BY <1>1 DEF IDs, ID, Pending, PendingIDs, ToSet
<1>4. IDs(Routed) = IDsOf(msg)
  BY DEF IDs, IDsOf, ID, Routed
<1>5. IDs(Queued) = UNION {IDs(messageQueue[p]) : p \in Proc}
  BY DEF IDs, Queued
<1>6. IDs(Received) = UNION {IDsOf(InHand[p]) : p \in Proc}
  BY <1>1 DEF IDs, IDsOf, ID, Received, InHand, At
<1>7. \A id : id \in InFlight <=>
         \/ id \in IDs(Drafts) \/ id \in IDs(Pending) \/ id \in IDs(Routed)
         \/ id \in IDs(Queued) \/ id \in IDs(Received)
  BY DEF InFlight, IDs
<1>8. \A id : id \in InFlight <=> id \in Somewhere
  BY <1>2, <1>3, <1>4, <1>5, <1>6, <1>7, SomewhereIs
<1> QED
  BY <1>8

LEMMA InFlightIsSomewhereNext == (TypeInv => InFlight = Somewhere)'
BY InFlightIsSomewhere, PTL

LEMMA OnlyNewEnter ==
  ASSUME TypeInv, Moves
  PROVE  /\ nextMessageID <= nextMessageID'
         /\ \A id \in Somewhere' : id \in Somewhere \/ id = nextMessageID
<1>1. nextMessageID \in Nat /\ pendingMessages \in Seq(Message)
  BY ConfigAssumption DEF TypeInv, CountersType, PendingType
<1>2. ASSUME NEW s \in Sender, NEW m \in Message, Composes(s, m)
      PROVE  /\ nextMessageID <= nextMessageID'
             /\ \A id \in Somewhere' : id \in Somewhere \/ id = nextMessageID
  <2>1. /\ UNCHANGED <<pendingMessages, msg, messageQueue, InHand>>
        /\ nextMessageID' = nextMessageID + 1
        /\ \A t \in Sender : t # s => Draft'[t] = Draft[t]
        /\ IDsOf(Draft'[s]) \subseteq {nextMessageID}
    BY <1>2 DEF Composes, Draft, IDsOf, ID
  <2> QED
    BY <1>1, <2>1, SomewhereIs, SomewhereIsNext DEF PendingIDs
<1>3. ASSUME NEW s \in Sender, Drops(s)
      PROVE  nextMessageID' = nextMessageID /\ Somewhere' \subseteq Somewhere
  <2>1. /\ UNCHANGED <<nextMessageID, pendingMessages, msg, messageQueue, InHand>>
        /\ \A t \in Sender : t # s => Draft'[t] = Draft[t]
        /\ IDsOf(Draft'[s]) = {}
    BY <1>3 DEF Drops, Draft, IDsOf
  <2> QED
    BY <2>1, SomewhereIs, SomewhereIsNext DEF PendingIDs
<1>4. ASSUME NEW s \in Sender, HandsOver(s)
      PROVE  nextMessageID' = nextMessageID /\ Somewhere' \subseteq Somewhere
  <2>1. /\ UNCHANGED <<nextMessageID, msg, messageQueue, InHand>>
        /\ \A t \in Sender : t # s => Draft'[t] = Draft[t]
        /\ IDsOf(Draft'[s]) = {} /\ ID(Draft[s]) \in IDsOf(Draft[s])
    BY <1>4 DEF HandsOver, Draft, IDsOf
  <2>2. PendingIDs' \subseteq PendingIDs \cup {ID(Draft[s])}
    BY <1>1, <1>4 DEF HandsOver, PendingIDs
  <2> QED
    BY <2>1, <2>2, SomewhereIs, SomewhereIsNext
<1>5. ASSUME Ages
      PROVE  nextMessageID' = nextMessageID /\ Somewhere' \subseteq Somewhere
  <2>1. PendingIDs' \subseteq PendingIDs
    BY <1>1, <1>5, AgeStep, AgedFacts DEF Ages, PendingIDs, ID
  <2> QED
    BY <1>5, <2>1, SomewhereIs, SomewhereIsNext DEF Ages
<1>6. ASSUME NEW best \in DOMAIN pendingMessages, Picks(best)
      PROVE  nextMessageID' = nextMessageID /\ Somewhere' \subseteq Somewhere
  <2>1. PendingIDs' \subseteq PendingIDs
    BY <1>1, <1>6, PickStep, SkippedFacts DEF Picks, PendingIDs, ID
  <2>2. IDsOf(msg') \subseteq PendingIDs
    BY <1>6 DEF Picks, IDsOf, PendingIDs
  <2> QED
    BY <1>6, <2>1, <2>2, SomewhereIs, SomewhereIsNext DEF Picks
<1>7. ASSUME Puts
      PROVE  nextMessageID' = nextMessageID /\ Somewhere' \subseteq Somewhere
  <2>1. /\ UNCHANGED <<nextMessageID, Draft, pendingMessages, InHand>>
        /\ IDsOf(msg') = {} /\ ID(msg) \in IDsOf(msg)
    BY <1>7 DEF Puts, IDsOf
  <2>2. \A p \in Proc : IDs(messageQueue'[p]) \subseteq IDs(messageQueue[p]) \cup {ID(msg)}
    BY <1>7 DEF Puts, TypeInv, ProcessesType, IDs, ID
  <2> QED
    BY <2>1, <2>2, SomewhereIs, SomewhereIsNext DEF PendingIDs
<1>8. ASSUME Refuses
      PROVE  nextMessageID' = nextMessageID /\ Somewhere' \subseteq Somewhere
  <2>1. /\ UNCHANGED <<nextMessageID, Draft, pendingMessages, messageQueue, InHand>>
        /\ IDsOf(msg') = {}
    BY <1>8 DEF Refuses, IDsOf
  <2> QED
    BY <2>1, SomewhereIs, SomewhereIsNext DEF PendingIDs
<1>9. ASSUME NEW p \in Proc, NEW m \in messageQueue[p], Fetches(p, m)
      PROVE  nextMessageID' = nextMessageID /\ Somewhere' \subseteq Somewhere
  <2>1. /\ UNCHANGED <<nextMessageID, Draft, pendingMessages, msg>>
        /\ \A q \in Proc : IDs(messageQueue'[q]) \subseteq IDs(messageQueue[q])
    BY <1>9 DEF Fetches, TypeInv, ProcessesType, IDs
  <2>2. /\ \A q \in Proc : q # p => InHand'[q] = InHand[q]
        /\ IDsOf(InHand'[p]) \subseteq IDs(messageQueue[p])
    BY <1>9 DEF Fetches, InHand, IDs, IDsOf, ID
  <2> QED
    BY <2>1, <2>2, SomewhereIs, SomewhereIsNext DEF PendingIDs
<1>10. ASSUME NEW p \in Proc, Uses(p)
       PROVE  nextMessageID' = nextMessageID /\ Somewhere' \subseteq Somewhere
  <2>1. /\ UNCHANGED <<nextMessageID, Draft, pendingMessages, msg, messageQueue>>
        /\ \A q \in Proc : q # p => InHand'[q] = InHand[q]
        /\ IDsOf(InHand'[p]) = {}
    BY <1>10 DEF Uses, InHand, IDsOf
  <2> QED
    BY <2>1, SomewhereIs, SomewhereIsNext DEF PendingIDs
<1> QED
  BY <1>1, <1>2, <1>3, <1>4, <1>5, <1>6, <1>7, <1>8, <1>9, <1>10 DEF Moves

(* A message that was received and counted, dropped or refused never comes *)
(* again, nor does another one under its number, whatever the threads do.  *)
THEOREM NothingComesBackCorrect == Spec => NothingComesBack
<1>1. ASSUME TypeInv, TypeInv', [Next]_vars
      PROVE  [/\ nextMessageID <= nextMessageID'
              /\ \A id \in InFlight' \ InFlight : nextMessageID <= id]_vars
  <2>1. InFlight = Somewhere /\ InFlight' = Somewhere'
    BY <1>1, InFlightIsSomewhere, InFlightIsSomewhereNext
  <2>2. nextMessageID \in Nat
    BY <1>1, ConfigAssumption DEF TypeInv, CountersType
  <2>3. CASE Moves
    BY <1>1, <2>1, <2>2, <2>3, OnlyNewEnter
  <2>4. CASE UNCHANGED messageVars
    BY <2>1, <2>2, <2>4 DEF messageVars, Somewhere, PendingIDs
  <2> QED
    BY <1>1, <2>3, <2>4, MessageStep
<1> QED
  BY <1>1, TypeInvariance, PTL DEF Spec, NothingComesBack

-----------------------------------------------------------------------------
(* The scheduler and its dispatcher, in here and in Dispatcher.tla.        *)

LEMMA HandOverArrives ==
  ASSUME IPCInv, NEW s \in Sender, HandOver(s)
  PROVE  Loop!Arrival
<1> DEFINE d == call[s].draft
<1>1. /\ d \in Message /\ d = Sched!NewMessage(d.envelope, d.sentPriority)
      /\ d = Draft[s] /\ d # NoMessage
  BY DEF HandOver, IPCInv, TypeInv, CallsType, CallType, Draft
<1>2. d.envelope \in Envelope /\ d.sentPriority \in Priority
  BY <1>1, MessageFacts
<1>3. \A i \in DOMAIN pendingMessages : ID(pendingMessages[i]) # ID(d)
  <2>1. ID(d) \in Spread[DraftOf(s)]
    BY <1>1, SpreadIs DEF IDsOf
  <2>2. DraftOf(s) # InScheduler /\ DraftOf(s) \in Place /\ InScheduler \in Place
    BY Places DEF DraftOf, InScheduler
  <2>3. ID(d) \notin Spread[InScheduler]
    BY <2>1, <2>2, NotElsewhere DEF IPCInv
  <2> QED
    BY <2>3, SpreadIs DEF PendingIDs
<1>4. d.envelope \notin Loop!PendingEnvelopes
  BY <1>3 DEF Loop!PendingEnvelopes, Loop!ToSet, ID
<1>5. Loop!AddMessage(Loop!NewMessage(d.envelope, d.sentPriority))
  BY <1>1 DEF HandOver, Sched!AddMessage, Loop!AddMessage, Loop!NewMessage, Sched!NewMessage
<1>6. Loop!Send
  BY <1>2, <1>4, <1>5
     DEF Loop!Send, Priority, Sched!Priority, Loop!Priority, Loop!LOW, Loop!MEDIUM, Loop!HIGH,
         Sched!LOW, Sched!MEDIUM, Sched!HIGH
<1> QED
  BY <1>6 DEF HandOver, dispatcherVars, Loop!Arrival

LEMMA LoopIsLoop ==
  ASSUME TypeInv, DispatchLoop
  PROVE  [Loop!LoopNext]_(Loop!dispatcherVars)
<1>1. CASE Tick
  <2>1. Sched!ApplyAging => Loop!ApplyAging
    BY DEF Sched!ApplyAging, Loop!ApplyAging, Sched!Aged, Loop!Aged, Sched!HIGH, Loop!HIGH
  <2>2. Loop!Tick
    BY <1>1, <2>1 DEF Tick, LoopStep, Loop!Tick, Loop!AgingDue
  <2> QED
    BY <2>2 DEF Loop!LoopNext, Loop!Loop
<1>2. CASE TakeMessage
  <2>1. \A best : Sched!GetNextMessage(best) => Loop!GetNextMessage(best)
    BY DEF Sched!GetNextMessage, Loop!GetNextMessage, Sched!IsHighestPriorityIndex,
           Loop!IsHighestPriorityIndex, Sched!Score, Loop!Score, Sched!Skipped, Loop!Skipped,
           Sched!RemoveAt, Loop!RemoveAt
  <2>2. Loop!TakeMessage
    BY <1>2, <2>1 DEF TakeMessage, LoopStep, Loop!TakeMessage, Loop!Dispatch
  <2> QED
    BY <2>2 DEF Loop!LoopNext, Loop!Loop
<1>3. CASE FindNothing
  <2>1. Loop!FindNothing
    BY <1>3 DEF FindNothing, LoopStep, Loop!FindNothing
  <2> QED
    BY <2>1 DEF Loop!LoopNext, Loop!Loop
<1>4. CASE LeaveLoop \/ Deliver \/ FindInboxFull \/ CountDelivered \/ LogDelivered
  BY <1>4
     DEF LeaveLoop, Deliver, FindInboxFull, CountDelivered, LogDelivered, LoopStep,
         Loop!dispatcherVars
<1> QED
  BY <1>1, <1>2, <1>3, <1>4 DEF DispatchLoop

LEMMA StepIsLoopStep == IPCInv /\ [Next]_vars => [Loop!LoopNext]_(Loop!dispatcherVars)
<1> SUFFICES ASSUME IPCInv, [Next]_vars
             PROVE  [Loop!LoopNext]_(Loop!dispatcherVars)
  OBVIOUS
<1>1. CASE Launch \/ Halt \/ UNCHANGED vars
  BY <1>1
     DEF Launch, Halt, StartDispatcher, Start, StopDispatcher, Stop, vars, dispatcherVars,
         Loop!dispatcherVars
<1>2. CASE DispatchLoop
  BY <1>2, LoopIsLoop DEF IPCInv
<1>3. ASSUME NEW s \in Sender, SendMessage(s)
      PROVE  [Loop!LoopNext]_(Loop!dispatcherVars)
  <2>1. CASE HandOver(s)
    BY <2>1, HandOverArrives DEF Loop!LoopNext
  <2>2. CASE CountSent(s) \/ Drop(s) \/ LogSend(s)
    BY <2>2 DEF CountSent, Drop, LogSend, dispatcherVars, Loop!dispatcherVars
  <2> QED
    BY <1>3, <2>1, <2>2 DEF SendMessage
<1>4. ASSUME NEW p \in Proc, Run(p)
      PROVE  [Loop!LoopNext]_(Loop!dispatcherVars)
  BY <1>3, <1>4
     DEF Sender, Run, BuildMessage, CountSend, Receive, Retry, Take, CountReceived, Finish, RunStep,
         dispatcherVars, Loop!dispatcherVars
<1>5. ASSUME NEW t \in Tester, BuildTestMessage(t) \/ SendMessage(t)
      PROVE  [Loop!LoopNext]_(Loop!dispatcherVars)
  BY <1>3, <1>5 DEF Sender, BuildTestMessage, dispatcherVars, Loop!dispatcherVars
<1> QED
  BY <1>1, <1>2, <1>4, <1>5 DEF Next

(* All the threads together use the scheduler as the loop of Dispatcher.tla *)
(* does, so all that is proved of that loop is true of them.               *)
THEOREM DispatcherIsImplemented == Spec => ImplementsDispatcher
<1>1. Init => Loop!LoopInit
  BY DEF Init, Loop!LoopInit, Loop!Init
<1> QED
  BY <1>1, StepIsLoopStep, IPCInvariance, PTL DEF Spec, ImplementsDispatcher, Loop!LoopSpec

-----------------------------------------------------------------------------
(* The order of one sender's messages.                                     *)
SenderOf(m) == m.envelope.senderID

(* Those that left the scheduler.                                          *)
Late ==
  {m \in Message : \/ m = msg
                   \/ \E p \in Proc : m \in messageQueue[p] \/ m = InHand[p]}

OrderInv ==
  Tester = {} =>
    /\ \A i, j \in DOMAIN pendingMessages :
         i < j /\ SenderOf(pendingMessages[i]) = SenderOf(pendingMessages[j])
           => ID(pendingMessages[i]) < ID(pendingMessages[j])
    /\ \A i \in DOMAIN pendingMessages, m \in Late :
         /\ SenderOf(m) = SenderOf(pendingMessages[i])
         /\ m.sentPriority = pendingMessages[i].sentPriority
         => ID(m) < ID(pendingMessages[i])
    /\ \A s \in Sender :
         Draft[s] # NoMessage =>
           /\ \A i \in DOMAIN pendingMessages :
                SenderOf(pendingMessages[i]) = s => ID(pendingMessages[i]) < ID(Draft[s])
           /\ \A m \in Late : SenderOf(m) = s => ID(m) < ID(Draft[s])

LEMMA StepIsSchedulerStep == IPCInv /\ [Next]_vars => [SP!Next]_pendingMessages
<1> SUFFICES ASSUME IPCInv, [Next]_vars
             PROVE  [SP!Next]_pendingMessages
  OBVIOUS
<1>1. [Loop!LoopNext]_(Loop!dispatcherVars)
  BY StepIsLoopStep
<1>2. \A best : Loop!GetNextMessage(best) => SP!GetNextMessage(best)
  BY DEF SP!GetNextMessage, Loop!GetNextMessage, SP!IsHighestPriorityIndex,
         Loop!IsHighestPriorityIndex, SP!Score, Loop!Score, SP!Skipped, Loop!Skipped,
         SP!RemoveAt, Loop!RemoveAt
<1>3. Loop!ApplyAging => SP!ApplyAging
  BY DEF SP!ApplyAging, Loop!ApplyAging, SP!Aged, Loop!Aged, SP!HIGH, Loop!HIGH
<1>4. Loop!Send => SP!Send
  BY DEF SP!Send, Loop!Send, SP!PendingEnvelopes, Loop!PendingEnvelopes, SP!ToSet, Loop!ToSet,
         SP!AddMessage, Loop!AddMessage, SP!NewMessage, Loop!NewMessage, SP!Priority,
         Loop!Priority, SP!LOW, SP!MEDIUM, SP!HIGH, Loop!LOW, Loop!MEDIUM, Loop!HIGH
<1> QED
  BY <1>1, <1>2, <1>3, <1>4
     DEF Loop!LoopNext, Loop!Loop, Loop!Tick, Loop!TakeMessage, Loop!Dispatch, Loop!FindNothing,
         Loop!Arrival, Loop!dispatcherVars, SP!Next, SP!Dispatch

LEMMA SchedulerTyped == IPCInv => SP!TypeOK
BY SchedulerNames
   DEF IPCInv, TypeInv, PendingType, SP!TypeOK, OnceInv, NoneTwice, ID

LEMMA SentOrderStep == IPCInv /\ SP!SentOrder /\ [Next]_vars => SP!SentOrder'
BY StepIsSchedulerStep, SchedulerTyped, ConfigAssumption, SP!SentOrderInvariance
   DEF SP!SentOrderInvariance

LEMMA PickIsOldest ==
  ASSUME IPCInv, SP!SentOrder, NEW best \in DOMAIN pendingMessages, Picks(best)
  PROVE  \A k \in DOMAIN pendingMessages' :
           /\ Origin(best, k) \in DOMAIN pendingMessages
           /\ pendingMessages[best].sentPriority = pendingMessages[Origin(best, k)].sentPriority
                => best < Origin(best, k)
<1>1. SP!OldestOfItsPriorityFirst
  BY SchedulerTyped, ConfigAssumption, SP!SentOrderImpliesFifo DEF SP!SentOrderImpliesFifo
<1>2. SP!IsHighestPriorityIndex(pendingMessages, best)
  BY DEF Picks, Sched!GetNextMessage, Sched!IsHighestPriorityIndex, SP!IsHighestPriorityIndex,
         Sched!Score, SP!Score
<1>3. \A i \in DOMAIN pendingMessages :
        pendingMessages[i].sentPriority = pendingMessages[best].sentPriority => best <= i
  BY <1>1, <1>2 DEF SP!OldestOfItsPriorityFirst
<1>4. pendingMessages \in Seq(Message)
  BY DEF IPCInv, TypeInv, PendingType
<1>5. \A k \in DOMAIN pendingMessages' :
        Origin(best, k) \in DOMAIN pendingMessages /\ Origin(best, k) # best
  BY <1>4, PickStep DEF Picks
<1> QED
  BY <1>3, <1>4, <1>5

LEMMA OrderFacts ==
  ASSUME IPCInv
  PROVE  /\ \A m \in Message : ID(m) \in Nat
         /\ \A i \in DOMAIN pendingMessages :
              pendingMessages[i] \in Message /\ ID(pendingMessages[i]) < nextMessageID
         /\ \A m \in Late : ID(m) < nextMessageID
         /\ nextMessageID \in Nat
         /\ DOMAIN pendingMessages \subseteq Nat
<1>1. TypeInv /\ OnceInv
  BY DEF IPCInv
<1>2. nextMessageID \in Nat
  BY <1>1, ConfigAssumption DEF TypeInv, CountersType
<1>3. \A m \in Message : ID(m) \in Nat
  BY MessageFacts DEF ID
<1>4. \A l \in Place : \A id \in Spread[l] : id < nextMessageID
  BY <1>1 DEF OnceInv
<1>5. \A i \in DOMAIN pendingMessages :
        pendingMessages[i] \in Message /\ ID(pendingMessages[i]) < nextMessageID
  <2>1. \A i \in DOMAIN pendingMessages : ID(pendingMessages[i]) \in Spread[InScheduler]
    BY SpreadIs DEF PendingIDs
  <2> QED
    BY <1>1, <1>4, <2>1, Places, HeldFacts
<1>6. ASSUME NEW m \in Late
      PROVE  ID(m) < nextMessageID
  <2>1. m # NoMessage
    BY MessageFacts DEF Late
  <2>2. CASE m = msg
    <3>1. ID(m) \in Spread[OnItsWay]
      BY <2>1, <2>2, SpreadIs DEF IDsOf
    <3> QED
      BY <1>4, <3>1, Places
  <2>3. ASSUME NEW p \in Proc, m \in messageQueue[p]
        PROVE  ID(m) < nextMessageID
    <3>1. ID(m) \in Spread[InboxOf(p)]
      BY <2>3, SpreadIs DEF IDs, ID
    <3> QED
      BY <1>4, <3>1, Places
  <2>4. ASSUME NEW p \in Proc, m = InHand[p]
        PROVE  ID(m) < nextMessageID
    <3>1. ID(m) \in Spread[HandOf(p)]
      BY <2>1, <2>4, SpreadIs DEF IDsOf
    <3> QED
      BY <1>4, <3>1, Places
  <2> QED
    BY <2>2, <2>3, <2>4 DEF Late
<1>7. DOMAIN pendingMessages \subseteq Nat
  BY <1>1 DEF TypeInv, PendingType
<1> QED
  BY <1>2, <1>3, <1>5, <1>6, <1>7

(* Only a message that is picked becomes late.                             *)
LEMMA LateStep ==
  ASSUME TypeInv
  PROVE  /\ UNCHANGED <<msg, messageQueue, InHand>> => Late' = Late
         /\ Puts \/ Refuses => Late' \subseteq Late
         /\ \A p \in Proc : Uses(p) => Late' \subseteq Late
         /\ \A p \in Proc : \A m \in messageQueue[p] : Fetches(p, m) => Late' \subseteq Late
         /\ \A best \in DOMAIN pendingMessages :
              Picks(best) => Late' \subseteq Late \cup {pendingMessages[best]}
<1>1. UNCHANGED <<msg, messageQueue, InHand>> => Late' = Late
  BY DEF Late
<1>2. Puts => Late' \subseteq Late
  BY PutsFacts, MessageFacts DEF Puts, Late
<1>3. Refuses => Late' \subseteq Late
  BY MessageFacts DEF Refuses, Late
<1>4. ASSUME NEW p \in Proc, Uses(p)
      PROVE  Late' \subseteq Late
  <2>1. InHand'[p] = NoMessage /\ \A q \in Proc \ {p} : InHand'[q] = InHand[q]
    BY <1>4 DEF Uses, InHand
  <2> QED
    BY <1>4, <2>1, MessageFacts DEF Uses, Late
<1>5. ASSUME NEW p \in Proc, NEW m \in messageQueue[p], Fetches(p, m)
      PROVE  Late' \subseteq Late
  BY <1>5, FetchesFacts DEF Fetches, Late
<1>6. ASSUME NEW best \in DOMAIN pendingMessages, Picks(best)
      PROVE  Late' \subseteq Late \cup {pendingMessages[best]}
  BY <1>6 DEF Picks, Late
<1> QED
  BY <1>1, <1>2, <1>3, <1>4, <1>5, <1>6

LEMMA OrderStep ==
  IPCInv /\ SP!SentOrder /\ OrderInv /\ [Next]_vars => OrderInv'
<1> SUFFICES ASSUME IPCInv, SP!SentOrder, OrderInv, [Next]_vars, Tester = {}
             PROVE  OrderInv'
  BY DEF OrderInv
<1>0. TypeInv /\ RouteInv
  BY DEF IPCInv
<1>1. CASE UNCHANGED messageVars
  <2>1. Late' = Late
    BY <1>0, <1>1, LateStep DEF messageVars
  <2> QED
    BY <1>1, <2>1 DEF messageVars, OrderInv
<1>2. ASSUME NEW s \in Sender, NEW m \in Message, Composes(s, m)
      PROVE  OrderInv'
  <2>1. Draft'[s] = m /\ \A t \in Sender \ {s} : Draft'[t] = Draft[t]
    BY <1>2 DEF Composes, Draft
  <2>2. Late' = Late /\ pendingMessages' = pendingMessages
    BY <1>0, <1>2, LateStep DEF Composes
  <2>3. ID(m) = nextMessageID
    BY <1>2 DEF Composes, ID
  <2> QED
    BY <2>1, <2>2, <2>3, OrderFacts DEF OrderInv
<1>3. ASSUME NEW s \in Sender, Drops(s)
      PROVE  OrderInv'
  <2>1. Draft'[s] = NoMessage /\ \A t \in Sender \ {s} : Draft'[t] = Draft[t]
    BY <1>3 DEF Drops, Draft
  <2>2. Late' = Late /\ pendingMessages' = pendingMessages
    BY <1>0, <1>3, LateStep DEF Drops
  <2> QED
    BY <2>1, <2>2 DEF OrderInv
<1>4. ASSUME NEW s \in Sender, HandsOver(s)
      PROVE  OrderInv'
  <2>1. Draft'[s] = NoMessage /\ \A t \in Sender \ {s} : Draft'[t] = Draft[t]
    BY <1>4 DEF HandsOver, Draft
  <2>2. Late' = Late /\ Draft[s] # NoMessage
    BY <1>0, <1>4, LateStep DEF HandsOver
  <2>3. SenderOf(Draft[s]) = s
    BY <1>0, <2>2 DEF RouteInv, OwnMessage, SenderOf
  <2> DEFINE n == Len(pendingMessages)
  <2>4. /\ n \in Nat /\ DOMAIN pendingMessages = 1 .. n /\ DOMAIN pendingMessages' = 1 .. n + 1
        /\ pendingMessages'[n + 1] = Draft[s]
        /\ \A i \in 1 .. n : pendingMessages'[i] = pendingMessages[i]
    BY <1>0, <1>4, HandsOverFacts
  <2> HIDE DEF n
  <2>5. /\ \A i \in 1 .. n : SenderOf(pendingMessages[i]) = s
                               => ID(pendingMessages[i]) < ID(Draft[s])
        /\ \A m \in Late : SenderOf(m) = s => ID(m) < ID(Draft[s])
    BY <2>2, <2>4 DEF OrderInv
  <2>6. ASSUME NEW i \in 1 .. n + 1, NEW j \in 1 .. n + 1, i < j,
               SenderOf(pendingMessages'[i]) = SenderOf(pendingMessages'[j])
        PROVE  ID(pendingMessages'[i]) < ID(pendingMessages'[j])
    <3>1. i \in 1 .. n
      BY <2>4, <2>6
    <3>2. CASE j = n + 1
      BY <2>3, <2>4, <2>5, <2>6, <3>1, <3>2
    <3>3. CASE j \in 1 .. n
      BY <2>4, <2>6, <3>1, <3>3 DEF OrderInv
    <3> QED
      BY <2>4, <3>2, <3>3
  <2>7. ASSUME NEW i \in 1 .. n + 1, NEW m \in Late,
               SenderOf(m) = SenderOf(pendingMessages'[i]),
               m.sentPriority = pendingMessages'[i].sentPriority
        PROVE  ID(m) < ID(pendingMessages'[i])
    <3>1. CASE i = n + 1
      BY <2>3, <2>4, <2>5, <2>7, <3>1
    <3>2. CASE i \in 1 .. n
      BY <2>4, <2>7, <3>2 DEF OrderInv
    <3> QED
      BY <2>4, <3>1, <3>2
  <2>8. ASSUME NEW t \in Sender, Draft'[t] # NoMessage
        PROVE  /\ \A i \in 1 .. n + 1 : SenderOf(pendingMessages'[i]) = t
                                          => ID(pendingMessages'[i]) < ID(Draft'[t])
               /\ \A m \in Late : SenderOf(m) = t => ID(m) < ID(Draft'[t])
    <3>1. t # s /\ Draft'[t] = Draft[t]
      BY <2>1, <2>8
    <3>2. \A i \in 1 .. n + 1 : SenderOf(pendingMessages'[i]) = t => i \in 1 .. n
      BY <2>3, <2>4, <3>1
    <3> QED
      BY <2>4, <2>8, <3>1, <3>2 DEF OrderInv
  <2> QED
    BY <2>2, <2>4, <2>6, <2>7, <2>8 DEF OrderInv
<1>5. CASE Ages
  <2>1. Late' = Late /\ Draft' = Draft
    BY <1>0, <1>5, LateStep DEF Ages
  <2>2. DOMAIN pendingMessages' = DOMAIN pendingMessages
        /\ \A k \in DOMAIN pendingMessages :
             /\ ID(pendingMessages'[k]) = ID(pendingMessages[k])
             /\ SenderOf(pendingMessages'[k]) = SenderOf(pendingMessages[k])
             /\ pendingMessages'[k].sentPriority = pendingMessages[k].sentPriority
    BY <1>0, <1>5, AgesFacts DEF ID, SenderOf
  <2> QED
    BY <2>1, <2>2 DEF OrderInv
<1>6. ASSUME NEW best \in DOMAIN pendingMessages, Picks(best)
      PROVE  OrderInv'
  <2>1. Late' \subseteq Late \cup {pendingMessages[best]} /\ Draft' = Draft
    BY <1>0, <1>6, LateStep DEF Picks
  <2>2. \A k \in DOMAIN pendingMessages' :
          /\ Origin(best, k) \in DOMAIN pendingMessages
          /\ ID(pendingMessages'[k]) = ID(pendingMessages[Origin(best, k)])
          /\ SenderOf(pendingMessages'[k]) = SenderOf(pendingMessages[Origin(best, k)])
          /\ pendingMessages'[k].sentPriority = pendingMessages[Origin(best, k)].sentPriority
    BY <1>0, <1>6, PickedFacts DEF ID, SenderOf
  <2>3. \A k \in DOMAIN pendingMessages' :
          pendingMessages[best].sentPriority = pendingMessages[Origin(best, k)].sentPriority
            => best < Origin(best, k)
    BY <1>6, PickIsOldest
  <2>4. \A i, j \in DOMAIN pendingMessages' : i < j => Origin(best, i) < Origin(best, j)
    <3>1. DOMAIN pendingMessages \subseteq Nat /\ DOMAIN pendingMessages' \subseteq Nat
      <4>1. TypeInv'
        BY <1>0, TypeStep
      <4> QED
        BY <1>0, <4>1 DEF TypeInv, PendingType
    <3> QED
      BY <3>1 DEF Origin
  <2> QED
    BY <2>1, <2>2, <2>3, <2>4 DEF OrderInv
<1>7. CASE Puts \/ Refuses
  <2>1. Late' \subseteq Late
    BY <1>0, <1>7, LateStep
  <2> QED
    BY <1>7, <2>1 DEF OrderInv, Puts, Refuses
<1>8. ASSUME NEW p \in Proc, Uses(p)
      PROVE  OrderInv'
  <2>1. Late' \subseteq Late
    BY <1>0, <1>8, LateStep
  <2> QED
    BY <1>8, <2>1 DEF OrderInv, Uses
<1>9. ASSUME NEW p \in Proc, NEW m \in messageQueue[p], Fetches(p, m)
      PROVE  OrderInv'
  <2>1. Late' \subseteq Late
    BY <1>0, <1>9, LateStep
  <2> QED
    BY <1>9, <2>1 DEF OrderInv, Fetches
<1> QED
  BY <1>0, <1>1, <1>2, <1>3, <1>4, <1>5, <1>6, <1>7, <1>8, <1>9, MessageStep DEF Moves

LEMMA OrderFollows == IPCInv /\ OrderInv => SenderOrderKept
<1> SUFFICES ASSUME IPCInv, OrderInv, Tester = {},
                    NEW early \in Pending \cup Drafts,
                    NEW late \in Routed \cup Queued \cup Received,
                    SenderOf(early) = SenderOf(late),
                    early.sentPriority = late.sentPriority
             PROVE  ID(late) < ID(early)
  BY DEF SenderOrderKept, SenderOf, ID
<1>1. late \in Late
  <2>1. /\ msg \in Message \cup {NoMessage}
        /\ \A p \in Proc : messageQueue[p] \subseteq Message
        /\ \A p \in Proc : InHand[p] \in Message \cup {NoMessage}
    BY HeldFacts DEF IPCInv
  <2>2. \A p \in At("count") : p \in Proc /\ process[p].received = InHand[p]
                               /\ InHand[p] # NoMessage
    BY DEF At, InHand, IPCInv, TypeInv, ProcessesType
  <2> QED
    BY <2>1, <2>2 DEF Late, Routed, Queued, Received
<1>2. CASE early \in Pending
  BY <1>1, <1>2, WhereMessagesAre DEF OrderInv
<1>3. CASE early \in Drafts
  <2>1. PICK s \in Sender : early = Draft[s] /\ Draft[s] # NoMessage
    BY <1>3 DEF Drafts, Calling, Draft, IPCInv, TypeInv, CallsType
  <2>2. SenderOf(early) = s
    BY <2>1 DEF IPCInv, RouteInv, OwnMessage, SenderOf
  <2> QED
    BY <1>1, <2>1, <2>2 DEF OrderInv
<1> QED
  BY <1>2, <1>3

(* Of the messages one process sent with the same priority, none overtakes *)
(* an earlier one on its way to an inbox: the sending threads, the aging   *)
(* passes and the dispatcher may interleave as they like.                  *)
THEOREM SenderOrderCorrect == Spec => []SenderOrderKept
<1>1. Init => SP!SentOrder /\ OrderInv
  BY DEF Init, SP!SentOrder, OrderInv, Draft, Returned
<1>2. IPCInv /\ SP!SentOrder /\ OrderInv /\ [Next]_vars => (SP!SentOrder /\ OrderInv)'
  BY SentOrderStep, OrderStep
<1>3. IPCInv /\ OrderInv => SenderOrderKept
  BY OrderFollows
<1> QED
  BY <1>1, <1>2, <1>3, IPCInvariance, PTL DEF Spec
=============================================================================
