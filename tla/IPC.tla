-------------------------------- MODULE IPC --------------------------------
(***************************************************************************)
(* IPCManager, its dispatcher thread and the Process threads with their    *)
(* inboxes, and the Logger's totals. A step is one access to state that    *)
(* another thread sees: an atomic counter, or one hold of schedulerMutex,  *)
(* of a queueMutex or of logMutex. The steps of different threads          *)
(* interleave freely, sleeps included.                                     *)
(*                                                                         *)
(* Start, Stop, StartDispatcher and StopDispatcher are the calls main()    *)
(* makes; here they come at any time, Simulation.tla orders them.          *)
(* registerProcess() is over before any thread runs, so the registry is    *)
(* the constant Proc and getProcess() finds every receiver.                *)
(***************************************************************************)
EXTENDS Integers, FiniteSets, Sequences, SequencesExt

CONSTANTS
  Proc,            (* the registered process IDs, 1 .. NUM_PROCESSES *)
  Tester,          (* other threads that send: those of the stress tests *)
  DrawnPriority,   (* what pickRandomPriority() draws from *)
  MaxMessages,     (* bound: how many messages are built *)
  PriorityWeight, AgingThreshold, AgingPeriod, MaxQueueSize,
  NoMessage        (* Message(), the empty one whose messageID is 0 *)

(* A lone process would look for a target for ever.                        *)
ASSUME ProcAssumption == IsFiniteSet(Proc) /\ Cardinality(Proc) > 1
ASSUME TesterAssumption == IsFiniteSet(Tester) /\ Proc \cap Tester = {}
ASSUME ConfigAssumption ==
  /\ PriorityWeight \in Nat
  /\ AgingThreshold \in Nat \ {0} /\ AgingThreshold <= PriorityWeight + 1
  /\ AgingPeriod \in Nat \ {0} /\ MaxQueueSize \in Nat \ {0} /\ MaxMessages \in Nat

Sender == Proc \cup Tester

Envelope == [messageID : 1 .. MaxMessages, senderID : Proc, receiverID : Proc]

VARIABLES
  pendingMessages,     (* the Scheduler's *)
  nextMessageID, totals,   (* the manager's: totalSent, -Dropped, -Delivered *)
  logged,              (* the Logger's: totalSent, -Dropped, -Received *)
  dispatcherRunning,
  dpc, agingTimer, msg,   (* the dispatcher thread and its locals *)
  call,                (* of each sender, where it is in sendMessage() *)
  running,             (* of each process: its atomic flag, *)
  messageQueue,        (* its inbox, *)
  process,             (* and what only its own thread writes *)
  refused              (* history: the messages that enqueue() refused *)

dispatcherVars == <<dispatcherRunning, dpc, agingTimer, msg>>
processVars    == <<running, messageQueue, process>>

vars == <<pendingMessages, nextMessageID, totals, logged, dispatcherVars, call,
          processVars, refused>>

Sched == INSTANCE Scheduler
Queue == INSTANCE Inbox

Message  == Sched!Message
Priority == Sched!Priority

ASSUME MessageAssumption == DrawnPriority \subseteq Priority /\ NoMessage \notin Message

(* received is a local of run(); pc is where its thread is.                *)
NewProcess == [pc |-> "none", state |-> "IDLE", sentCount |-> 0,
               receivedCount |-> 0, received |-> NoMessage]

Returned == [at |-> "none", draft |-> NoMessage]

-----------------------------------------------------------------------------
(* sendMessage(draft), by whichever thread s.                              *)

(* The caller builds the message, with a number of its own.                *)
CallSendMessage(s, from, to, prio) ==
  /\ call[s].at = "none"
  /\ nextMessageID <= MaxMessages
  /\ nextMessageID' = nextMessageID + 1
  /\ LET e == [messageID |-> nextMessageID, senderID |-> from, receiverID |-> to]
     IN  call' = [call EXCEPT ![s] = [at |-> "count", draft |-> Sched!NewMessage(e, prio)]]

CountSent(s) ==
  /\ call[s].at = "count"
  /\ call' = [call EXCEPT ![s].at = "channel"]
  /\ totals' = [totals EXCEPT !.sent = @ + 1]
  /\ UNCHANGED <<pendingMessages, nextMessageID, logged, dispatcherVars, processVars,
                 refused>>

(* Slip: a dropped message is not counted.                                 *)
DropUncounted(s) ==
  /\ call[s].at = "channel"
  /\ call' = [call EXCEPT ![s] = [at |-> "logDropped", draft |-> NoMessage]]
  /\ UNCHANGED <<pendingMessages, nextMessageID, totals, logged, dispatcherVars,
                 processVars, refused>>

(* Slip: a dropped message gives its number back.                          *)
DropAndReuseID(s) ==
  /\ call[s].at = "channel"
  /\ call' = [call EXCEPT ![s] = [at |-> "logDropped", draft |-> NoMessage]]
  /\ totals' = [totals EXCEPT !.dropped = @ + 1]
  /\ nextMessageID' = nextMessageID - 1
  /\ UNCHANGED <<pendingMessages, logged, dispatcherVars, processVars, refused>>

Drop(s) ==
  /\ call[s].at = "channel"
  /\ call' = [call EXCEPT ![s] = [at |-> "logDropped", draft |-> NoMessage]]
  /\ totals' = [totals EXCEPT !.dropped = @ + 1]
  /\ UNCHANGED <<pendingMessages, nextMessageID, logged, dispatcherVars, processVars,
                 refused>>

HandOver(s) ==
  /\ call[s].at = "channel"
  /\ Sched!AddMessage(call[s].draft)
  /\ call' = [call EXCEPT ![s] = [at |-> "logSent", draft |-> NoMessage]]
  /\ UNCHANGED <<nextMessageID, totals, logged, dispatcherVars, processVars, refused>>

(* The logger's "sent" are the messages that were not dropped.             *)
LogSend(s) ==
  /\ \/ call[s].at = "logSent" /\ logged' = [logged EXCEPT !.sent = @ + 1]
     \/ call[s].at = "logDropped" /\ logged' = [logged EXCEPT !.dropped = @ + 1]
  /\ call' = [call EXCEPT ![s] = Returned]
  /\ UNCHANGED <<pendingMessages, nextMessageID, totals, dispatcherVars, processVars,
                 refused>>

SendMessage(s) == CountSent(s) \/ Drop(s) \/ HandOver(s) \/ LogSend(s)

(* A tester t builds a message under the name of some process.             *)
BuildTestMessage(t) ==
  /\ \E from, to \in Proc, prio \in DrawnPriority : CallSendMessage(t, from, to, prio)
  /\ UNCHANGED <<pendingMessages, totals, logged, dispatcherVars, processVars, refused>>

-----------------------------------------------------------------------------
(* Process p: start(), stop() and run().                                   *)

Start(p) ==
  /\ process[p].pc = "none"
  /\ running' = [running EXCEPT ![p] = TRUE]
  /\ process' = [process EXCEPT ![p].pc = "loop"]
  /\ UNCHANGED <<pendingMessages, nextMessageID, totals, logged, dispatcherVars,
                 call, messageQueue, refused>>

Stop(p) ==
  /\ running' = [running EXCEPT ![p] = FALSE]
  /\ UNCHANGED <<pendingMessages, nextMessageID, totals, logged, dispatcherVars,
                 call, messageQueue, process, refused>>

(* What run() does to the variables of p, and leaves of all the others.    *)
RunStep(p, from, to) ==
  /\ process[p].pc = from
  /\ process' = [process EXCEPT ![p] = to]
  /\ UNCHANGED <<pendingMessages, totals, logged, dispatcherVars, running, refused>>

(* Drawn again and again until it is not p itself.                         *)
PickRandomTarget(p) == Proc \ {p}

BuildMessage(p) ==
  /\ running[p]
  /\ RunStep(p, "loop", [process[p] EXCEPT !.pc = "send", !.state = "RUNNING"])
  /\ \E target \in PickRandomTarget(p), prio \in DrawnPriority :
       CallSendMessage(p, p, target, prio)
  /\ UNCHANGED messageQueue

Finish(p) ==
  /\ ~running[p]
  /\ RunStep(p, "loop", [process[p] EXCEPT !.pc = "ended", !.state = "IDLE"])
  /\ UNCHANGED <<nextMessageID, call, messageQueue>>

(* The send counts whether or not the message was dropped.                 *)
CountSend(p) ==
  /\ call[p].at = "none"
  /\ RunStep(p, "send", [process[p] EXCEPT !.pc = "receive", !.sentCount = @ + 1])
  /\ UNCHANGED <<nextMessageID, call, messageQueue>>

(* Slip: top() without pop().                                              *)
TakeWithoutPop(p, at) ==
  \E m \in messageQueue[p] :
    /\ Queue!IsTop(messageQueue[p], m)
    /\ RunStep(p, at, [process[p] EXCEPT !.pc = "count", !.state = "RUNNING", !.received = m])
    /\ UNCHANGED messageQueue

(* nonBlockingReceive(received) with a message in the queue.               *)
Take(p, at) ==
  \E m \in messageQueue[p] :
    /\ Queue!IsTop(messageQueue[p], m)
    /\ RunStep(p, at, [process[p] EXCEPT !.pc = "count", !.state = "RUNNING", !.received = m])
    /\ messageQueue' = [messageQueue EXCEPT ![p] = @ \ {m}]

Receive(p) ==
  /\ \/ Take(p, "receive")
     \/ /\ messageQueue[p] = {}
        /\ RunStep(p, "receive", [process[p] EXCEPT !.pc = "blocked", !.state = "BLOCKED"])
        /\ UNCHANGED messageQueue
  /\ UNCHANGED <<nextMessageID, call>>

(* Slip: the process stays BLOCKED until a message comes.                  *)
RetryUntilMessage(p) == Take(p, "blocked") /\ UNCHANGED <<nextMessageID, call>>

(* 300 ms later: one more try, then on, with a message or without.         *)
Retry(p) ==
  /\ \/ Take(p, "blocked")
     \/ /\ messageQueue[p] = {}
        /\ RunStep(p, "blocked", [process[p] EXCEPT !.pc = "loop", !.state = "RUNNING"])
        /\ UNCHANGED messageQueue
  /\ UNCHANGED <<nextMessageID, call>>

CountReceived(p) ==
  /\ RunStep(p, "count", [process[p] EXCEPT !.pc = "loop", !.receivedCount = @ + 1,
                                            !.received = NoMessage])
  /\ UNCHANGED <<nextMessageID, call, messageQueue>>

Run(p) ==
  \/ BuildMessage(p) \/ SendMessage(p) \/ CountSend(p)
  \/ Receive(p) \/ Retry(p) \/ CountReceived(p)
  \/ Finish(p)

-----------------------------------------------------------------------------
(* The dispatcher: startDispatcher(), stopDispatcher(), dispatchLoop().    *)

StartDispatcher ==
  /\ dpc = "none"
  /\ dispatcherRunning' = TRUE
  /\ dpc' = "top"
  /\ UNCHANGED <<pendingMessages, nextMessageID, totals, logged, agingTimer, msg,
                 call, processVars, refused>>

StopDispatcher ==
  /\ dispatcherRunning' = FALSE
  /\ UNCHANGED <<pendingMessages, nextMessageID, totals, logged, dpc, agingTimer, msg,
                 call, processVars, refused>>

LoopStep(from, to) ==
  /\ dpc = from
  /\ dpc' = to
  /\ UNCHANGED <<nextMessageID, dispatcherRunning, call, running, process>>

LeaveLoop ==
  /\ ~dispatcherRunning
  /\ LoopStep("top", "ended")
  /\ UNCHANGED <<pendingMessages, totals, logged, agingTimer, msg, messageQueue, refused>>

(* Slips: aging on every iteration; a timer that is never reset.           *)
TickAgingAlways ==
  /\ dispatcherRunning
  /\ LoopStep("top", "get")
  /\ agingTimer' = IF agingTimer + 1 >= AgingPeriod THEN 0 ELSE agingTimer + 1
  /\ Sched!ApplyAging
  /\ UNCHANGED <<totals, logged, msg, messageQueue, refused>>

TickWithoutReset ==
  /\ dispatcherRunning
  /\ LoopStep("top", "get")
  /\ agingTimer' = agingTimer + 1
  /\ IF agingTimer' >= AgingPeriod THEN Sched!ApplyAging ELSE UNCHANGED pendingMessages
  /\ UNCHANGED <<totals, logged, msg, messageQueue, refused>>

Tick ==
  /\ dispatcherRunning
  /\ LoopStep("top", "get")
  /\ IF agingTimer + 1 >= AgingPeriod
     THEN agingTimer' = 0 /\ Sched!ApplyAging
     ELSE agingTimer' = agingTimer + 1 /\ UNCHANGED pendingMessages
  /\ UNCHANGED <<totals, logged, msg, messageQueue, refused>>

TakeMessage ==
  /\ LoopStep("get", "deliver")
  /\ \E best \in DOMAIN pendingMessages :
       Sched!GetNextMessage(best) /\ msg' = pendingMessages[best]
  /\ UNCHANGED <<totals, logged, agingTimer, messageQueue, refused>>

(* Slip: the loop is left when there is nothing to deliver.                *)
LeaveWhenEmpty ==
  /\ pendingMessages = << >>
  /\ LoopStep("get", "ended")
  /\ UNCHANGED <<pendingMessages, totals, logged, agingTimer, msg, messageQueue, refused>>

FindNothing ==
  /\ pendingMessages = << >>
  /\ LoopStep("get", "top")
  /\ UNCHANGED <<pendingMessages, totals, logged, agingTimer, msg, messageQueue, refused>>

(* deliverMessage() of the receiver.                                       *)
Deliver ==
  LET target == msg.envelope.receiverID
  IN  /\ LoopStep("deliver", "count")
      /\ ~Queue!IsFull(messageQueue[target])
      /\ messageQueue' = [messageQueue EXCEPT ![target] = @ \cup {msg}]
      /\ msg' = NoMessage
      /\ UNCHANGED <<pendingMessages, totals, logged, agingTimer, refused>>

(* A full inbox refuses the message and it is gone: neither totalDelivered *)
(* nor totalDropped will count it.                                         *)
FindInboxFull ==
  /\ LoopStep("deliver", "top")
  /\ Queue!IsFull(messageQueue[msg.envelope.receiverID])
  /\ refused' = refused \cup {msg.envelope.messageID}
  /\ msg' = NoMessage
  /\ UNCHANGED <<pendingMessages, totals, logged, agingTimer, messageQueue>>

(* The receiver may be done with the message before it counts.             *)
CountDelivered ==
  /\ LoopStep("count", "log")
  /\ totals' = [totals EXCEPT !.delivered = @ + 1]
  /\ UNCHANGED <<pendingMessages, logged, agingTimer, msg, messageQueue, refused>>

(* The logger's "received" are the messages that reached an inbox.         *)
LogDelivered ==
  /\ LoopStep("log", "top")
  /\ logged' = [logged EXCEPT !.received = @ + 1]
  /\ UNCHANGED <<pendingMessages, totals, agingTimer, msg, messageQueue, refused>>

DispatchLoop ==
  \/ LeaveLoop \/ Tick \/ TakeMessage \/ FindNothing
  \/ Deliver \/ FindInboxFull \/ CountDelivered \/ LogDelivered

-----------------------------------------------------------------------------
Init ==
  /\ pendingMessages = << >>
  /\ nextMessageID = 1
  /\ totals = [sent |-> 0, dropped |-> 0, delivered |-> 0]
  /\ logged = [sent |-> 0, dropped |-> 0, received |-> 0]
  /\ dispatcherRunning = FALSE /\ dpc = "none" /\ agingTimer = 0 /\ msg = NoMessage
  /\ call = [s \in Sender |-> Returned]
  /\ running = [p \in Proc |-> FALSE]
  /\ messageQueue = [p \in Proc |-> {}]
  /\ process = [p \in Proc |-> NewProcess]
  /\ refused = {}

Launch == StartDispatcher \/ \E p \in Proc : Start(p)
Halt   == StopDispatcher \/ \E p \in Proc : Stop(p)

Next ==
  \/ Launch \/ Halt \/ DispatchLoop
  \/ \E p \in Proc : Run(p)
  \/ \E t \in Tester : BuildTestMessage(t) \/ SendMessage(t)

Spec == Init /\ [][Next]_vars

-----------------------------------------------------------------------------
(* Every variable has its type; a thread holds a message exactly where its *)
(* code does, and is in sendMessage() only while its run() is.             *)
ProcessType ==
  [pc : {"none", "loop", "send", "receive", "blocked", "count", "ended"},
   state : {"IDLE", "RUNNING", "BLOCKED"},
   sentCount : Nat, receivedCount : Nat,
   received : Message \cup {NoMessage}]

CallType ==
  [at : {"none", "count", "channel", "logDropped", "logSent"},
   draft : Message \cup {NoMessage}]

TypeOK ==
  /\ Sched!TypeOK
  /\ nextMessageID \in 1 .. MaxMessages + 1
  /\ totals \in [sent : Nat, dropped : Nat, delivered : Nat]
  /\ logged \in [sent : Nat, dropped : Nat, received : Nat]
  /\ dispatcherRunning \in BOOLEAN
  /\ dpc \in {"none", "top", "get", "deliver", "count", "log", "ended"}
  /\ agingTimer \in 0 .. AgingPeriod - 1
  /\ msg \in Message \cup {NoMessage}
  /\ (msg # NoMessage) <=> (dpc = "deliver")
  /\ call \in [Sender -> CallType]
  /\ \A s \in Sender : (call[s].draft # NoMessage) <=> (call[s].at \in {"count", "channel"})
  /\ running \in [Proc -> BOOLEAN]
  /\ messageQueue \in [Proc -> SUBSET Message]
  /\ \A p \in Proc : Cardinality(messageQueue[p]) <= MaxQueueSize
  /\ process \in [Proc -> ProcessType]
  /\ \A p \in Proc :
       /\ (process[p].received # NoMessage) <=> (process[p].pc = "count")
       /\ call[p].at # "none" => process[p].pc = "send"
  /\ refused \subseteq 1 .. MaxMessages

At(pc)      == {p \in Proc : process[p].pc = pc}
Calling(at) == {s \in Sender : call[s].at = at}

(* The sum of f[p] over all p: how many pairs <<p, k>> have k <= f[p].     *)
Total(f) == Cardinality(UNION {{p} \X (1 .. f[p]) : p \in Proc})

(* 1 while the dispatcher is at a place in its loop.                       *)
DispatcherAt(at) == IF dpc = at THEN 1 ELSE 0

(* The counters of the manager, of the logger and of the processes tell    *)
(* one story, whatever steps interleave: each lags what it counts by the   *)
(* steps between the effect and its increment, and no message that was     *)
(* sent is missing from the sums but those an inbox refused.               *)
ManagerAgrees ==
  /\ totals.sent = totals.dropped + Cardinality(Calling("channel")) + Len(pendingMessages)
                     + DispatcherAt("deliver") + Cardinality(refused)
                     + DispatcherAt("count") + totals.delivered
  /\ totals.delivered + DispatcherAt("count") =
       Total([p \in Proc |-> Cardinality(messageQueue[p]) + process[p].receivedCount])
         + Cardinality(At("count"))

ProcessesAgree ==
  Tester = {} =>
    totals.sent = Total([p \in Proc |-> process[p].sentCount])
                    + Cardinality({p \in At("send") : call[p].at # "count"})

LoggerAgrees ==
  /\ logged.dropped + Cardinality(Calling("logDropped")) = totals.dropped
  /\ logged.sent + Cardinality(Calling("logSent") \cup Calling("channel")) + totals.dropped
       = totals.sent
  /\ logged.received + DispatcherAt("log") = totals.delivered

CountersAgree == ManagerAgrees /\ ProcessesAgree /\ LoggerAgrees

(* Where messages are.                                                     *)
Drafts   == {call[s].draft : s \in Calling("count") \cup Calling("channel")}
Pending  == ToSet(pendingMessages)
Routed   == {msg} \ {NoMessage}
Queued   == UNION {messageQueue[p] : p \in Proc}
Received == {process[p].received : p \in At("count")}

IDs(S) == {m.envelope.messageID : m \in S}

(* No message is in two places, twice in one, or anywhere after an inbox   *)
(* refused it; each ID was handed out, and each inbox has only messages to *)
(* its owner.                                                              *)
AtMostOnce ==
  LET places == <<Drafts, Pending, Routed, Queued, Received>>
  IN  /\ \A i, j \in DOMAIN places :
           i # j => IDs(places[i]) \cap IDs(places[j]) = {}
      /\ \A i \in DOMAIN places :
           /\ Cardinality(IDs(places[i])) = Cardinality(places[i])
           /\ IDs(places[i]) \cap refused = {}
           /\ \A id \in IDs(places[i]) : id < nextMessageID
      /\ Cardinality(Pending) = Len(pendingMessages)
      /\ \A p \in Proc : \A m \in messageQueue[p] :
           m.envelope.receiverID = p /\ (Tester = {} => m.envelope.senderID # p)

InFlight == IDs(Drafts \cup Pending \cup Routed \cup Queued \cup Received)

(* What is gone stays gone: a message that was received and counted, or    *)
(* that the channel dropped, or an inbox refused, never comes again,       *)
(* neither itself nor another one under its number. Only numbers never     *)
(* handed out before enter, and generateMessageID() goes up.               *)
NothingComesBack ==
  [][/\ nextMessageID <= nextMessageID'
     /\ \A id \in InFlight' \ InFlight : nextMessageID <= id]_vars

(* Per-sender order up to the inbox: of the messages one process sent with *)
(* the same priority, none overtakes an earlier one on its way there.      *)
(* Three threads and any number of aging passes are involved. (A tester    *)
(* sends under a name that is not its own.)                                *)
SenderOrderKept ==
  Tester = {} =>
    \A early \in Pending \cup Drafts, late \in Routed \cup Queued \cup Received :
      /\ early.envelope.senderID = late.envelope.senderID
      /\ early.sentPriority = late.sentPriority
      => late.envelope.messageID < early.envelope.messageID

(* The dispatcher thread and all the senders together use the scheduler    *)
(* exactly as Dispatcher.tla has it.                                       *)
Loop == INSTANCE Dispatcher WITH dpc <- IF dpc = "get" THEN "get" ELSE "top"

ImplementsDispatcher == Loop!LoopSpec

(* To those who read the totals, all these threads are one Channel.        *)
Accepted == Len(pendingMessages) + DispatcherAt("deliver") + Cardinality(refused)
              + DispatcherAt("count") + totals.delivered

Counters == INSTANCE Channel WITH inChannel <- Calling("channel"), accepted <- Accepted

ImplementsChannel == Counters!Spec

(* TC-10: a process or dispatcher that was told to stop gets to the end of *)
(* its thread, whatever it was doing, so that join() returns.              *)
StopsCleanly ==
  /\ \A p \in Proc : (process[p].pc # "none" /\ ~running[p]) ~> (process[p].pc = "ended")
  /\ (dpc # "none" /\ ~dispatcherRunning) ~> (dpc = "ended")

(* While the dispatcher runs, a message that was handed over gets through  *)
(* the scheduler to an inbox, which takes or refuses it. (That it is its   *)
(* receiver's is in AtMostOnce. What is pending when the dispatcher stops  *)
(* is exempt: see AcceptedIsDispatched.)                                   *)
Delivered ==
  \A id \in 1 .. MaxMessages :
    (id \in IDs(Pending \cup Routed)) ~>
      (id \in IDs(Queued) \cup refused \/ ~dispatcherRunning)
=============================================================================
