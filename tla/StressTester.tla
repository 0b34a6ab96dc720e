---------------------------- MODULE StressTester ----------------------------
(***************************************************************************)
(* StressTester::runAll(): the six tests, run by main() one after the      *)
(* other on an IPCManager that the processes go on using. Tests 1, 2 and 6 *)
(* have a queue of their own, which is a MessageQueue; tests 3 to 5 have   *)
(* only the manager and its totals, which are those of Channel.            *)
(***************************************************************************)
EXTENDS Statistics, Inbox, Sequences

CONSTANTS
  Main, TestThread,   (* main()'s thread and those of testConcurrentSenders() *)
  LossMessages, HeavyMessages, MessagesPerThread,   (* the literals 500, 200, 20 *)
  LossAtLeast, LossAtMost     (* one message lost in 50, one in 10 *)

ASSUME StressAssumption ==
  /\ Main \in Sender \ Proc
  /\ TestThread \subseteq Sender \ (Proc \cup {Main})
  /\ {LossMessages, HeavyMessages, MessagesPerThread} \subseteq Nat \ {0}
  /\ {LossAtLeast, LossAtMost} \subseteq Nat
  /\ MaxQueueSize > 2
  /\ 1 .. MaxQueueSize + 104 \subseteq Envelope   (* the tests number messages themselves *)

VARIABLES
  test,               (* where main() is in runAll() *)
  passed, failed,     (* the tests report() counted in passCount, failCount *)
  i,                  (* the loop index of every thread that sends *)
  loss,               (* test 3: its locals before, sentBefore and sent *)
  returned,           (* test 5: who is between sendMessage() and totalSent++ *)
  totalSent,          (* test 5: its own atomic counter *)
  sender,             (* test 6: what its thread does next *)
  messageDelivered,   (* test 6: the bool that both of its threads use *)
  received,           (* test 6: the message received, as a set *)
  pq, waiting, woken  (* test 6: its queue *)

resultVars     == <<passed, failed>>
concurrentVars == <<returned, totalSent>>
blockingVars   == <<sender, messageDelivered, received, pq, waiting, woken>>
stressVars     == <<test, resultVars, i, loss, concurrentVars, blockingVars>>
allVars        == <<statisticsVars, stressVars>>

(* Test 6's queue: only main() receives.                                   *)
Queue == INSTANCE MessageQueue WITH Thread <- {Main}, MaxAge <- 0

-----------------------------------------------------------------------------
Goto(from, to) == test = from /\ test' = to

Report(name, ok) ==
  /\ passed' = IF ok THEN passed \cup {name} ELSE passed
  /\ failed' = IF ok THEN failed ELSE failed \cup {name}

(* A queue that no other thread knows, after enqueue() of each message: it *)
(* has those that did not find it full of the earlier ones.                *)
Enqueued(messages) ==
  {messages[n] : n \in {k \in DOMAIN messages : ~IsFull({messages[j] : j \in 1 .. k - 1})}}

TestPriorityOrdering ==
  LET q == Enqueued(<<NewMessage(1, LOW), NewMessage(3, HIGH), NewMessage(2, MEDIUM)>>)
  IN  /\ Goto("ordering", "overflow")
      /\ \E out1, out2, out3 \in q :
           /\ IsTop(q, out1) /\ IsTop(q \ {out1}, out2) /\ IsTop(q \ {out1, out2}, out3)
           /\ Report("ordering", <<out1.priority, out2.priority, out3.priority>>
                                   = <<HIGH, MEDIUM, LOW>>)
      /\ UNCHANGED <<statisticsVars, i, loss, concurrentVars, blockingVars>>

TestQueueOverflow ==
  LET q == Enqueued([n \in 1 .. MaxQueueSize + 5 |-> NewMessage(n + 99, LOW)])
  IN  /\ Goto("overflow", "droppedBefore")
      /\ Report("overflow", Cardinality(q) = MaxQueueSize)
      /\ UNCHANGED <<statisticsVars, i, loss, concurrentVars, blockingVars>>

-----------------------------------------------------------------------------
(* Tests 3 and 4: main() itself sends, under the name of process 1.        *)

MainSends(name, messages, next) ==
  /\ \/ i[Main] < messages /\ test = name /\ Count(Main) /\ UNCHANGED <<test, i>>
     \/ /\ test = name
        /\ Drop(Main) \/ HandOver(Main)
        /\ i' = [i EXCEPT ![Main] = @ + 1]
        /\ UNCHANGED test
     \/ /\ Goto(name, next)
        /\ i[Main] = messages
        /\ i' = [i EXCEPT ![Main] = 0]
        /\ UNCHANGED channelVars
  /\ UNCHANGED <<readerVars, resultVars, loss, concurrentVars, blockingVars>>

ReadLoss(from, to, local, value) ==
  /\ Goto(from, to)
  /\ loss' = [loss EXCEPT ![local] = value]
  /\ UNCHANGED <<statisticsVars, resultVars, i, concurrentVars, blockingVars>>

LossVerdict ==
  LET dropped == totals.dropped - loss.before
  IN  /\ Goto("droppedAfter", "heavy")
      /\ Report("loss", /\ LossAtLeast * dropped >= loss.sent
                        /\ LossAtMost * dropped <= loss.sent)
      /\ UNCHANGED <<statisticsVars, i, loss, concurrentVars, blockingVars>>

TestMessageLoss ==
  \/ ReadLoss("droppedBefore", "sentBefore", "before", totals.dropped)
  \/ ReadLoss("sentBefore", "loss", "sentBefore", totals.sent)
  \/ MainSends("loss", LossMessages, "sentAfter")
  \/ ReadLoss("sentAfter", "droppedAfter", "sent", totals.sent - loss.sentBefore)
  \/ LossVerdict

(* Nothing that sendMessage() does throws.                                 *)
HeavyVerdict ==
  /\ Goto("heavyVerdict", "concurrent")
  /\ Report("heavy", TRUE)
  /\ UNCHANGED <<statisticsVars, i, loss, concurrentVars, blockingVars>>

TestHeavyTraffic == MainSends("heavy", HeavyMessages, "heavyVerdict") \/ HeavyVerdict

-----------------------------------------------------------------------------
(* Test 5. The threads start one by one, which is a delay like any other.  *)

TestThreadSends(t) ==
  /\ test = "concurrent"
  /\ \/ /\ i[t] < MessagesPerThread /\ t \notin returned
        /\ Count(t)
        /\ UNCHANGED <<i, concurrentVars>>
     \/ /\ Drop(t) \/ HandOver(t)
        /\ returned' = returned \cup {t}
        /\ UNCHANGED <<i, totalSent>>
     \/ /\ t \in returned
        /\ returned' = returned \ {t}
        /\ totalSent' = totalSent + 1
        /\ i' = [i EXCEPT ![t] = @ + 1]
        /\ UNCHANGED channelVars
  /\ UNCHANGED <<readerVars, test, resultVars, loss, blockingVars>>

ConcurrentVerdict ==
  /\ Goto("concurrent", "blocking")
  /\ Report("concurrent", totalSent = Cardinality(TestThread) * MessagesPerThread)
  /\ UNCHANGED <<statisticsVars, i, loss, concurrentVars, blockingVars>>

(* Slip: one of the threads is not joined.                                 *)
JoinAllButOne ==
  /\ Cardinality({t \in TestThread : i[t] < MessagesPerThread}) <= 1
  /\ ConcurrentVerdict

JoinTestThreads ==
  /\ \A t \in TestThread : i[t] = MessagesPerThread
  /\ ConcurrentVerdict

-----------------------------------------------------------------------------
(* Test 6. main() waits in blockingReceive() for the sender's message.     *)

SenderRuns ==
  /\ test \in {"blocking", "joinSender"}
  /\ \/ /\ sender = "enqueue"
        /\ sender' = "flag"
        /\ Queue!Enqueue(NewMessage(1, HIGH))
        /\ UNCHANGED messageDelivered
     \/ /\ sender = "flag"
        /\ sender' = "ended"
        /\ messageDelivered' = TRUE
        /\ UNCHANGED <<pq, waiting, woken>>
  /\ UNCHANGED <<statisticsVars, test, resultVars, i, loss, concurrentVars, received>>

MainReceives ==
  /\ test = "blocking"
  /\ Queue!BlockingReceive(Main) \/ Queue!Resume(Main)
  /\ received' = pq \ pq'
  /\ test' = IF received' = {} THEN "blocking" ELSE "joinSender"
  /\ UNCHANGED <<statisticsVars, resultVars, i, loss, concurrentVars, sender,
                 messageDelivered>>

MainWakesUp ==
  /\ Queue!SpuriousWakeup(Main)
  /\ UNCHANGED <<statisticsVars, test, resultVars, i, loss, concurrentVars, sender,
                 messageDelivered, received>>

JoinSender ==
  /\ Goto("joinSender", "results")
  /\ sender = "ended"
  /\ Report("blocking", messageDelivered /\ received # {})
  /\ UNCHANGED <<statisticsVars, i, loss, concurrentVars, blockingVars>>

-----------------------------------------------------------------------------
StressInit ==
  /\ StatisticsInit
  /\ test = "ordering"
  /\ passed = {} /\ failed = {}
  /\ i = [t \in TestThread \cup {Main} |-> 0]
  /\ loss = [before |-> 0, sentBefore |-> 0, sent |-> 0]
  /\ returned = {} /\ totalSent = 0
  /\ sender = "enqueue" /\ messageDelivered = FALSE /\ received = {}
  /\ Queue!Init

RunAll ==
  /\ build = "STRESS"
  /\ \/ TestPriorityOrdering \/ TestQueueOverflow
     \/ TestMessageLoss \/ TestHeavyTraffic
     \/ JoinTestThreads
     \/ MainReceives \/ JoinSender

Others == (Traffic \/ Show) /\ UNCHANGED stressVars

StressNext ==
  \/ Others \/ RunAll \/ SenderRuns \/ MainWakesUp
  \/ \E t \in TestThread : TestThreadSends(t)

StressSpec == StressInit /\ [][StressNext]_allVars

(* Every thread of the tests runs on. Nothing is asked of the processes,   *)
(* of the readers, or of the chance of a spurious wake-up.                 *)
FairStress ==
  /\ StressSpec
  /\ WF_allVars(RunAll)
  /\ WF_allVars(SenderRuns)
  /\ \A t \in TestThread : WF_allVars(TestThreadSends(t))

-----------------------------------------------------------------------------
(* Every variable has its type, and threads are where the test in progress *)
(* has them: nobody sends for a test that is over, and nobody sleeps on    *)
(* its queue.                                                              *)
StressTypeOK ==
  /\ inChannel \subseteq Sender
  /\ totals \in [sent : Nat, dropped : Nat, delivered : Nat] /\ accepted \in Nat
  /\ reading \in {"sent", "dropped", "delivered", "check", "first", "second", "rate"}
  /\ passed \cap failed = {}
  /\ i \in [TestThread \cup {Main} -> Nat]
  /\ loss \in [before : Nat, sentBefore : Nat, sent : Nat]
  /\ totalSent + Cardinality(returned) <= Cardinality(TestThread) * MessagesPerThread
  /\ Main \in inChannel => test \in {"loss", "heavy"}
  /\ (TestThread \cap inChannel) \cup returned # {} => test = "concurrent"
  /\ Queue!QueueTypeOK
  /\ waiting \cup woken # {} => test = "blocking"
  /\ sender \in {"enqueue", "flag", "ended"}
  /\ messageDelivered <=> sender = "ended"

(* Whatever the processes and the dispatcher do meanwhile, and however the *)
(* threads of a test interleave, five of the six tests cannot fail by      *)
(* chance. Only the loss rate is a matter of luck.                         *)
OnlyLossMayFail == failed \subseteq {"loss"}

(* Test 3 divides by a difference of two readings of a counter that others *)
(* change too: it holds at least the test's own messages, so it is not 0.  *)
OwnSendsAreCounted == test = "droppedAfter" => loss.sent >= LossMessages

(* The tests come to their results, all six reported: no join and no       *)
(* blockingReceive() waits for ever.                                       *)
ComesToResults ==
  build = "STRESS" ~> (test = "results" /\ Cardinality(passed \cup failed) = 6)
=============================================================================
