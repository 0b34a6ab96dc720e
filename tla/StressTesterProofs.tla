------------------------- MODULE StressTesterProofs -------------------------
(* The counters, their readers and the stress tests, for any number of     *)
(* processes, test threads and messages, and any queue size.               *)
EXTENDS StressTester, FunctionTheorems, FiniteSetTheorems, TLAPS

TotalsType == [sent : Nat, dropped : Nat, delivered : Nat]

ChannelTypeOK ==
  /\ inChannel \subseteq Sender
  /\ totals \in TotalsType
  /\ accepted \in Nat

ChannelInv == ChannelTypeOK /\ Conserved

(* Counters are never taken back.                                          *)
TotalsGrow ==
  /\ totals.sent <= totals'.sent
  /\ totals.dropped <= totals'.dropped
  /\ totals.delivered <= totals'.delivered

(* Whoever steps, nothing sent is lost from the sum and no total shrinks.  *)
LEMMA ChannelStep == ChannelInv /\ [Next]_channelVars => ChannelInv' /\ TotalsGrow
<1> SUFFICES ASSUME ChannelInv, [Next]_channelVars
             PROVE  ChannelInv' /\ TotalsGrow
  OBVIOUS
<1> USE DEF ChannelInv, ChannelTypeOK, Conserved, TotalsGrow, TotalsType
<1>1. /\ IsFiniteSet(inChannel)
      /\ Cardinality(inChannel) \in Nat
      /\ \A s : Cardinality(inChannel \cup {s}) =
                  IF s \in inChannel THEN Cardinality(inChannel) ELSE Cardinality(inChannel) + 1
      /\ \A s \in inChannel : Cardinality(inChannel \ {s}) = Cardinality(inChannel) - 1
  BY SenderAssumption, FS_Subset, FS_CardinalityType, FS_AddElement, FS_RemoveElement
<1>2. ASSUME NEW s \in Sender, Count(s)
      PROVE  ChannelInv' /\ TotalsGrow
  BY <1>1, <1>2 DEF Count
<1>3. ASSUME NEW s \in Sender, Drop(s)
      PROVE  ChannelInv' /\ TotalsGrow
  BY <1>1, <1>3 DEF Drop
<1>4. ASSUME NEW s \in Sender, HandOver(s)
      PROVE  ChannelInv' /\ TotalsGrow
  BY <1>1, <1>4 DEF HandOver
<1>5. CASE Deliver
  BY <1>1, <1>5 DEF Deliver
<1>6. CASE UNCHANGED channelVars
  BY <1>6 DEF channelVars
<1> QED
  BY <1>2, <1>3, <1>4, <1>5, <1>6 DEF Next

LEMMA ChannelStart == Init => ChannelInv
BY FS_EmptySet DEF Init, ChannelInv, ChannelTypeOK, Conserved, TotalsType

(* The totals add up at every moment, for any set of senders.              *)
THEOREM ChannelConserves == Spec => []Conserved
<1>1. ChannelInv => Conserved
  BY DEF ChannelInv
<1> QED
  BY <1>1, ChannelStart, ChannelStep, PTL DEF Spec

-----------------------------------------------------------------------------
(* The readers. What is shown of a total was true of it and so is still a  *)
(* lower bound, and the panel only gets beyond its if with something sent: *)
(* that is all a later read has to rely on.                                *)
ReadersInv ==
  /\ order \in Orders
  /\ reading \in {"sent", "dropped", "delivered", "check", "first", "second", "rate"}
  /\ shown \in TotalsType
  /\ shown.dropped <= totals.dropped
  /\ shown.delivered <= totals.delivered
  /\ operand \in [sent : Nat, dropped : Nat]
  /\ reading \in {"check", "first", "second", "rate"} => build = "GUI"
  /\ reading \in {"first", "second", "rate"} => totals.sent > 0
  /\ reading = "second" => \/ order[1] = "sent" /\ operand.sent > 0
                           \/ order[1] = "dropped" /\ operand.dropped <= totals.dropped
  /\ NextLineCatchesUp /\ RateIsDefined /\ LossRateIsAtMostAll

ReadersStep ==
  \/ [Next]_channelVars /\ UNCHANGED readerVars
  \/ Show /\ UNCHANGED channelVars

LEMMA CountersNeverShrinkForReaders ==
  ChannelInv /\ ReadersInv /\ [Next]_channelVars /\ UNCHANGED readerVars => ReadersInv'
<1> SUFFICES ASSUME ChannelInv, ReadersInv, [Next]_channelVars, UNCHANGED readerVars
             PROVE  ReadersInv'
  OBVIOUS
<1>1. TotalsGrow /\ ChannelInv'
  BY ChannelStep
<1> QED
  BY <1>1 DEF TotalsGrow, ChannelInv, ChannelTypeOK, TotalsType, ReadersInv, readerVars,
              Orders, NextLineCatchesUp, RateIsDefined, LossRateIsAtMostAll

LEMMA ReadersInvariance == ChannelInv /\ ReadersInv /\ ReadersStep => ReadersInv'
<1> SUFFICES ASSUME ChannelInv, ReadersInv, ReadersStep
             PROVE  ReadersInv'
  OBVIOUS
<1>1. /\ totals \in TotalsType /\ accepted \in Nat /\ Cardinality(inChannel) \in Nat
      /\ totals.sent = totals.dropped + accepted + Cardinality(inChannel)
      /\ totals.delivered <= accepted
  BY SenderAssumption, FS_Subset, FS_CardinalityType
     DEF ChannelInv, ChannelTypeOK, Conserved, TotalsType
<1>2. totals.dropped + totals.delivered <= totals.sent
  BY <1>1 DEF TotalsType
<1>3. CASE [Next]_channelVars /\ UNCHANGED readerVars
  BY <1>3, CountersNeverShrinkForReaders
<1>4. CASE Show /\ UNCHANGED channelVars
  <2> USE <1>1, <1>2, <1>4
      DEF ReadersInv, channelVars, TotalsType, NextLineCatchesUp, RateIsDefined,
          LossRateIsAtMostAll, Orders
  <2>1. CASE ShowTotals
    <3>1. CASE Read("sent", "dropped")
      <4>1. /\ reading' = "dropped" /\ UNCHANGED <<totals, order, operand, build>>
            /\ shown' = [shown EXCEPT !.sent = totals.sent]
        BY <3>1 DEF Read
      <4> QED
        BY <4>1
    <3>2. CASE Read("dropped", "delivered")
      <4>1. /\ reading' = "delivered" /\ UNCHANGED <<totals, order, operand, build>>
            /\ shown' = [shown EXCEPT !.dropped = totals.dropped]
        BY <3>2 DEF Read
      <4> QED
        BY <4>1
    <3>3. CASE Read("delivered", IF build = "GUI" THEN "check" ELSE "sent")
      BY <3>3 DEF Read
    <3> QED
      BY <2>1, <3>1, <3>2, <3>3 DEF ShowTotals
  <2>2. CASE CheckSent
    BY <2>2 DEF CheckSent
  <2>3. CASE ReadOperand
    <3>1. CASE reading = "first"
      BY <2>3, <3>1 DEF ReadOperand
    <3>2. CASE reading = "second"
      BY <2>3, <3>2 DEF ReadOperand
    <3> QED
      BY <2>3, <3>1, <3>2 DEF ReadOperand
  <2>4. CASE ShowRate
    BY <2>4 DEF ShowRate
  <2> QED
    BY <2>1, <2>2, <2>3, <2>4 DEF Show
<1> QED
  BY <1>3, <1>4 DEF ReadersStep

LEMMA ReadersStart == StatisticsInit => ReadersInv
BY DEF StatisticsInit, Init, ReadersInv, TotalsType, Orders,
       NextLineCatchesUp, RateIsDefined, LossRateIsAtMostAll

-----------------------------------------------------------------------------
(* The tests. Who sends: a thread inside the channel or just out of it has *)
(* not finished its loop, which is why a join or the end of main()'s loop  *)
(* finds nobody there.                                                     *)
MainMessages ==
  IF test = "loss" THEN LossMessages ELSE IF test = "heavy" THEN HeavyMessages ELSE 0

SendersInv ==
  /\ i \in [TestThread \cup {Main} -> Nat]
  /\ i[Main] <= MainMessages
  /\ Main \in inChannel => i[Main] < MainMessages
  /\ returned \subseteq TestThread
  /\ returned \cap inChannel = {}
  /\ \A t \in TestThread : i[t] <= MessagesPerThread
  /\ \A t \in TestThread : t \in inChannel \cup returned => i[t] < MessagesPerThread
  /\ (TestThread \cap inChannel) \cup returned # {} => test = "concurrent"

(* Test 5 counts the sends of its threads, which are those that went       *)
(* through the channel, but for the threads yet to count theirs.           *)
ThreadSends ==
  {s \in TestThread \X (1 .. MessagesPerThread) :
     s[2] <= i[s[1]] \/ (s[1] \in returned /\ s[2] = i[s[1]] + 1)}

TotalSentInv ==
  /\ totalSent \in Nat
  /\ totalSent + Cardinality(returned) = Cardinality(ThreadSends)

(* Test 3: what main() sends itself is in the difference it takes.         *)
LossInv ==
  /\ loss \in [before : Nat, sentBefore : Nat, sent : Nat]
  /\ loss.sentBefore <= totals.sent
  /\ test = "loss" =>
       /\ loss.sentBefore + i[Main] <= totals.sent
       /\ Main \in inChannel => loss.sentBefore + i[Main] < totals.sent
  /\ test = "sentAfter" => loss.sentBefore + LossMessages <= totals.sent
  /\ OwnSendsAreCounted

(* Test 6: one message, and main() leaves with it.                         *)
BlockingInv ==
  /\ pq \subseteq {NewMessage(1, HIGH)}
  /\ sender = "enqueue" => pq = {}
  /\ sender \in {"enqueue", "flag", "ended"}
  /\ messageDelivered <=> sender = "ended"
  /\ waiting \subseteq {Main} /\ woken \subseteq {Main} /\ waiting \cap woken = {}
  /\ waiting \cup woken # {} => test = "blocking"
  /\ test = "joinSender" => received # {}

(* Test 3 alone may fail, and it reports once.                             *)
ResultsInv ==
  /\ OnlyLossMayFail
  /\ passed \cap failed = {}
  /\ "loss" \in passed \cup failed =>
       test \in {"heavy", "heavyVerdict", "concurrent", "blocking", "joinSender", "results"}

StressInv ==
  /\ ChannelInv /\ ReadersInv
  /\ SendersInv /\ TotalSentInv /\ LossInv /\ BlockingInv /\ ResultsInv

(* The steps of the tests, without those that only write main()'s locals.  *)
LEMMA StressSteps ==
  ASSUME [StressNext]_allVars
  PROVE  \/ Others
         \/ TestPriorityOrdering \/ TestQueueOverflow
         \/ TestMessageLoss
         \/ MainSends("heavy", HeavyMessages, "heavyVerdict") \/ HeavyVerdict
         \/ JoinTestThreads
         \/ MainReceives \/ JoinSender
         \/ SenderRuns \/ MainWakesUp
         \/ \E t \in TestThread : TestThreadSends(t)
         \/ UNCHANGED allVars
BY DEF StressNext, RunAll, TestHeavyTraffic

LEMMA MainSendsIsChannelStep ==
  ASSUME NEW name, NEW messages, NEW next, MainSends(name, messages, next)
  PROVE  [Next]_channelVars /\ UNCHANGED readerVars
BY StressAssumption DEF MainSends, Next, Goto

LEMMA StressStepIsChannelStep == [StressNext]_allVars => [Next]_channelVars /\ ReadersStep
<1> SUFFICES ASSUME [StressNext]_allVars
             PROVE  [Next]_channelVars /\ ReadersStep
  OBVIOUS
<1>1. CASE Others
  <2>1. CASE Traffic
    BY <2>1, ProcAssumption DEF Traffic, Next, ReadersStep
  <2>2. CASE Show
    BY <2>2 DEF Show, ShowTotals, Read, CheckSent, ReadOperand, ShowRate, ReadersStep
  <2> QED
    BY <1>1, <2>1, <2>2 DEF Others
<1>2. CASE TestMessageLoss
  BY <1>2, MainSendsIsChannelStep
     DEF TestMessageLoss, ReadLoss, LossVerdict, statisticsVars, ReadersStep
<1>3. CASE MainSends("heavy", HeavyMessages, "heavyVerdict")
  BY <1>3, MainSendsIsChannelStep DEF ReadersStep
<1>4. ASSUME NEW t \in TestThread, TestThreadSends(t)
      PROVE  [Next]_channelVars /\ ReadersStep
  <2>1. t \in Sender
    BY StressAssumption
  <2> QED
    BY <1>4, <2>1 DEF TestThreadSends, Next, ReadersStep
<1>5. CASE UNCHANGED statisticsVars
  BY <1>5 DEF statisticsVars, ReadersStep
<1>6. \/ Others \/ TestMessageLoss \/ MainSends("heavy", HeavyMessages, "heavyVerdict")
      \/ \E t \in TestThread : TestThreadSends(t)
      \/ UNCHANGED statisticsVars
  BY StressSteps
     DEF TestPriorityOrdering, TestQueueOverflow, HeavyVerdict, JoinTestThreads,
         ConcurrentVerdict, MainReceives, JoinSender, SenderRuns, MainWakesUp, allVars
<1> QED
  BY <1>1, <1>2, <1>3, <1>4, <1>5, <1>6

(* The processes have no part in the tests.                                *)
LEMMA OthersLeaveTheTests ==
  ASSUME Others
  PROVE  /\ UNCHANGED stressVars
         /\ \A t \in TestThread \cup {Main} : t \in inChannel' <=> t \in inChannel
<1>1. \A t \in TestThread \cup {Main} : t \notin Proc
  BY StressAssumption
<1>2. CASE Traffic
  BY <1>1, <1>2 DEF Others, Traffic, Deliver, Count, Drop, HandOver
<1>3. CASE Show
  BY <1>3 DEF Others, Show, ShowTotals, Read, CheckSent, ReadOperand, ShowRate, channelVars
<1> QED
  BY <1>2, <1>3 DEF Others

LEMMA MainSendsKeepsSenders ==
  ASSUME NEW name, NEW messages \in Nat, NEW next, MainSends(name, messages, next),
         SendersInv, name # "concurrent", next \notin {"loss", "heavy", "concurrent"},
         test = name => MainMessages = messages
  PROVE  SendersInv'
<1>1. Main \notin TestThread
  BY StressAssumption
<1> USE <1>1 DEF SendersInv
<1>2. CASE i[Main] < messages /\ test = name /\ Count(Main) /\ UNCHANGED <<test, i>>
  BY <1>2 DEF MainSends, concurrentVars, Count, MainMessages
<1>3. CASE /\ test = name
           /\ Drop(Main) \/ HandOver(Main)
           /\ i' = [i EXCEPT ![Main] = @ + 1]
           /\ UNCHANGED test
  BY <1>3 DEF MainSends, concurrentVars, Drop, HandOver, MainMessages
<1>4. CASE /\ Goto(name, next)
           /\ i[Main] = messages
           /\ i' = [i EXCEPT ![Main] = 0]
           /\ UNCHANGED channelVars
  BY <1>4 DEF MainSends, concurrentVars, channelVars, Goto, MainMessages
<1> QED
  BY <1>2, <1>3, <1>4 DEF MainSends

LEMMA SendersInvariance == SendersInv /\ [StressNext]_allVars => SendersInv'
<1> SUFFICES ASSUME SendersInv, [StressNext]_allVars
             PROVE  SendersInv'
  OBVIOUS
<1>1. CASE Others
  BY <1>1, OthersLeaveTheTests DEF SendersInv, stressVars, concurrentVars, MainMessages
<1>2. ASSUME UNCHANGED <<inChannel, i, returned>>,
             test' = test \/ test \notin {"loss", "heavy", "concurrent"}
      PROVE  SendersInv'
  BY <1>2, StressAssumption DEF SendersInv, MainMessages
<1>3. CASE TestMessageLoss
  <2>1. CASE MainSends("loss", LossMessages, "sentAfter")
    BY <2>1, MainSendsKeepsSenders, StressAssumption DEF MainMessages
  <2> QED
    BY <1>2, <1>3, <2>1, StressAssumption
       DEF TestMessageLoss, ReadLoss, LossVerdict, Goto, statisticsVars, channelVars,
           concurrentVars, MainMessages
<1>4. CASE MainSends("heavy", HeavyMessages, "heavyVerdict")
  BY <1>4, MainSendsKeepsSenders, StressAssumption DEF MainMessages
<1>5. CASE TestPriorityOrdering \/ TestQueueOverflow \/ HeavyVerdict
  BY <1>2, <1>5, StressAssumption
     DEF TestPriorityOrdering, TestQueueOverflow, HeavyVerdict, Goto, statisticsVars,
         channelVars, concurrentVars, MainMessages
<1>6. CASE JoinTestThreads
  BY <1>6 DEF SendersInv, JoinTestThreads, ConcurrentVerdict, Goto, statisticsVars,
              channelVars, concurrentVars, MainMessages
<1>7. CASE MainReceives \/ JoinSender \/ SenderRuns \/ MainWakesUp
  BY <1>2, <1>7
     DEF MainReceives, JoinSender, SenderRuns, MainWakesUp, Goto, statisticsVars,
         channelVars, concurrentVars, MainMessages
<1>8. ASSUME NEW t \in TestThread, TestThreadSends(t)
      PROVE  SendersInv'
  BY <1>8, StressAssumption
     DEF SendersInv, TestThreadSends, MainMessages, Count, Drop, HandOver, concurrentVars,
         channelVars
<1>9. CASE UNCHANGED allVars
  BY <1>9 DEF SendersInv, allVars, statisticsVars, channelVars, stressVars, concurrentVars,
              MainMessages
<1> QED
  BY <1>1, <1>3, <1>4, <1>5, <1>6, <1>7, <1>8, <1>9, StressSteps

(* A send is counted when its thread is out of the channel: one more pair. *)
LEMMA FiniteSends ==
  ASSUME SendersInv
  PROVE  /\ IsFiniteSet(TestThread) /\ IsFiniteSet(returned) /\ IsFiniteSet(ThreadSends)
         /\ Cardinality(TestThread) \in Nat
         /\ Cardinality(TestThread \X (1 .. MessagesPerThread))
              = Cardinality(TestThread) * MessagesPerThread
         /\ Cardinality(ThreadSends) <= Cardinality(TestThread) * MessagesPerThread
<1>1. IsFiniteSet(TestThread) /\ Cardinality(TestThread) \in Nat
  BY SenderAssumption, StressAssumption, FS_Subset, FS_CardinalityType
<1>2. IsFiniteSet(1 .. MessagesPerThread)
      /\ Cardinality(1 .. MessagesPerThread) = MessagesPerThread
  BY StressAssumption, FS_Interval
<1>3. /\ IsFiniteSet(TestThread \X (1 .. MessagesPerThread))
      /\ Cardinality(TestThread \X (1 .. MessagesPerThread))
           = Cardinality(TestThread) * MessagesPerThread
  BY <1>1, <1>2, FS_Product
<1>4. ThreadSends \subseteq TestThread \X (1 .. MessagesPerThread)
  BY DEF ThreadSends
<1>5. IsFiniteSet(returned)
  BY <1>1, FS_Subset DEF SendersInv
<1> QED
  BY <1>1, <1>3, <1>4, <1>5, FS_Subset

LEMMA TotalSentInvariance ==
  SendersInv /\ TotalSentInv /\ [StressNext]_allVars => TotalSentInv'
<1> SUFFICES ASSUME SendersInv, TotalSentInv, [StressNext]_allVars
             PROVE  TotalSentInv'
  OBVIOUS
<1>1. ASSUME UNCHANGED concurrentVars, \A t \in TestThread : i'[t] = i[t]
      PROVE  TotalSentInv'
  <2>1. ThreadSends' = ThreadSends
    BY <1>1 DEF ThreadSends, concurrentVars
  <2> QED
    BY <1>1, <2>1 DEF TotalSentInv, concurrentVars
<1>2. ASSUME NEW t \in TestThread, TestThreadSends(t)
      PROVE  TotalSentInv'
  <2>1. i[t] \in Nat /\ i[t] <= MessagesPerThread /\ MessagesPerThread \in Nat
    BY StressAssumption DEF SendersInv
  <2>2. CASE UNCHANGED <<i, concurrentVars>>
    BY <1>1, <2>2
  <2>3. CASE (Drop(t) \/ HandOver(t)) /\ returned' = returned \cup {t} /\ UNCHANGED <<i, totalSent>>
    <3>1. t \in inChannel /\ t \notin returned /\ i[t] < MessagesPerThread
      BY <2>3 DEF SendersInv, Drop, HandOver
    <3> DEFINE new == <<t, i[t] + 1>>
    <3>2. new \notin ThreadSends
      BY <2>1, <3>1 DEF ThreadSends
    <3>3. ThreadSends' = ThreadSends \cup {new}
      BY <2>1, <2>3, <3>1 DEF ThreadSends
    <3>4. Cardinality(ThreadSends') = Cardinality(ThreadSends) + 1
      BY <3>2, <3>3, FiniteSends, FS_AddElement
    <3>5. Cardinality(returned') = Cardinality(returned) + 1
      BY <2>3, <3>1, FiniteSends, FS_AddElement
    <3> QED
      BY <2>3, <3>4, <3>5, FiniteSends, FS_CardinalityType DEF TotalSentInv
  <2>4. CASE /\ t \in returned
             /\ returned' = returned \ {t}
             /\ totalSent' = totalSent + 1
             /\ i' = [i EXCEPT ![t] = @ + 1]
    <3>1. i' \in [TestThread \cup {Main} -> Nat] /\ i'[t] = i[t] + 1
          /\ \A u \in TestThread \ {t} : i'[u] = i[u]
      BY <2>1, <2>4 DEF SendersInv
    <3>2. ASSUME NEW s \in TestThread \X (1 .. MessagesPerThread)
          PROVE  (s[2] <= i'[s[1]] \/ (s[1] \in returned' /\ s[2] = i'[s[1]] + 1))
                   <=> (s[2] <= i[s[1]] \/ (s[1] \in returned /\ s[2] = i[s[1]] + 1))
      <4>1. CASE s[1] = t
        BY <2>1, <2>4, <3>1, <4>1
      <4>2. CASE s[1] # t
        BY <2>4, <3>1, <4>2
      <4> QED
        BY <4>1, <4>2
    <3>3. ThreadSends' = ThreadSends
      BY <3>2 DEF ThreadSends
    <3>4. Cardinality(returned') = Cardinality(returned) - 1
      BY <2>4, FiniteSends, FS_RemoveElement
    <3> QED
      BY <2>4, <3>3, <3>4, FiniteSends, FS_CardinalityType DEF TotalSentInv
  <2> QED
    BY <1>2, <2>2, <2>3, <2>4 DEF TestThreadSends
<1>3. ASSUME NEW name, NEW messages, NEW next, MainSends(name, messages, next)
      PROVE  TotalSentInv'
  BY <1>1, <1>3, StressAssumption DEF MainSends, SendersInv
<1>4. CASE Others \/ UNCHANGED allVars
  BY <1>1, <1>4, OthersLeaveTheTests DEF allVars, stressVars
<1>5. CASE TestMessageLoss
  BY <1>1, <1>3, <1>5 DEF TestMessageLoss, ReadLoss, LossVerdict
<1>6. CASE TestPriorityOrdering \/ TestQueueOverflow \/ HeavyVerdict \/ JoinTestThreads
           \/ MainReceives \/ JoinSender \/ SenderRuns \/ MainWakesUp
  BY <1>1, <1>6
     DEF TestPriorityOrdering, TestQueueOverflow, HeavyVerdict, JoinTestThreads,
         ConcurrentVerdict, MainReceives, JoinSender, SenderRuns, MainWakesUp
<1> QED
  BY <1>2, <1>3, <1>4, <1>5, <1>6, StressSteps

(* When every thread of test 5 is joined, totalSent has all their sends.   *)
LEMMA AllSendsCounted ==
  ASSUME SendersInv, TotalSentInv, \A t \in TestThread : i[t] = MessagesPerThread
  PROVE  totalSent = Cardinality(TestThread) * MessagesPerThread
<1>1. returned = {}
  BY StressAssumption DEF SendersInv
<1>2. ThreadSends = TestThread \X (1 .. MessagesPerThread)
  BY DEF ThreadSends
<1> QED
  BY <1>1, <1>2, FiniteSends, FS_EmptySet DEF TotalSentInv

(* Others may send between two of main()'s readings: the counter is only   *)
(* ever ahead of what main() sent itself.                                  *)
LEMMA LossInvariance ==
  ChannelInv /\ SendersInv /\ LossInv /\ [StressNext]_allVars => LossInv'
<1> SUFFICES ASSUME ChannelInv, SendersInv, LossInv, [StressNext]_allVars
             PROVE  LossInv'
  OBVIOUS
<1>1. /\ totals \in TotalsType /\ totals' \in TotalsType
      /\ totals.sent \in Nat /\ totals'.sent \in Nat /\ totals.sent <= totals'.sent
  BY ChannelStep, StressStepIsChannelStep
     DEF ChannelInv, ChannelTypeOK, TotalsGrow, TotalsType
<1>2. /\ i[Main] \in Nat /\ loss.sentBefore \in Nat /\ loss.sent \in Nat
      /\ loss \in [before : Nat, sentBefore : Nat, sent : Nat]
  BY DEF SendersInv, LossInv
<1>3. LossMessages \in Nat \ {0} /\ HeavyMessages \in Nat
  BY StressAssumption
<1>4. ASSUME UNCHANGED loss,
             test' # "loss" \/ (/\ test = "loss" /\ UNCHANGED i
                                /\ Main \in inChannel' <=> Main \in inChannel),
             test' \notin {"sentAfter", "droppedAfter"} \/ UNCHANGED test
      PROVE  LossInv'
  BY <1>1, <1>2, <1>3, <1>4 DEF LossInv, OwnSendsAreCounted
<1>5. ASSUME NEW name, NEW messages, NEW next, MainSends(name, messages, next),
             name = "heavy" /\ next = "heavyVerdict"
      PROVE  LossInv'
  BY <1>4, <1>5 DEF MainSends, Goto
<1>6. CASE MainSends("loss", LossMessages, "sentAfter")
  <2>1. CASE /\ i[Main] < LossMessages /\ test = "loss"
             /\ Count(Main) /\ UNCHANGED <<test, i>>
    <3>1. totals'.sent = totals.sent + 1 /\ Main \notin inChannel
      BY <1>1, <2>1 DEF Count, TotalsType
    <3> QED
      BY <1>1, <1>2, <1>6, <2>1, <3>1 DEF LossInv, MainSends, OwnSendsAreCounted
  <2>2. CASE /\ test = "loss"
             /\ Drop(Main) \/ HandOver(Main)
             /\ i' = [i EXCEPT ![Main] = @ + 1]
             /\ UNCHANGED test
    <3>1. Main \in inChannel /\ Main \notin inChannel' /\ i'[Main] = i[Main] + 1
      BY <2>2 DEF Drop, HandOver, SendersInv
    <3> QED
      BY <1>1, <1>2, <1>6, <2>2, <3>1 DEF LossInv, MainSends, OwnSendsAreCounted
  <2>3. CASE Goto("loss", "sentAfter") /\ i[Main] = LossMessages /\ UNCHANGED channelVars
    BY <1>1, <1>2, <1>3, <1>6, <2>3 DEF LossInv, MainSends, OwnSendsAreCounted, Goto, channelVars
  <2> QED
    BY <1>6, <2>1, <2>2, <2>3 DEF MainSends
<1>7. CASE ReadLoss("droppedBefore", "sentBefore", "before", totals.dropped)
  BY <1>1, <1>2, <1>3, <1>7 DEF ReadLoss, LossInv, Goto, OwnSendsAreCounted, TotalsType
<1>8. CASE ReadLoss("sentBefore", "loss", "sentBefore", totals.sent)
  <2>1. /\ test = "sentBefore" /\ test' = "loss" /\ UNCHANGED <<inChannel, totals, i>>
        /\ loss' = [loss EXCEPT !.sentBefore = totals.sent]
    BY <1>8 DEF ReadLoss, Goto, statisticsVars, channelVars
  <2>2. i[Main] = 0 /\ Main \notin inChannel
    BY <1>2, <2>1 DEF SendersInv, MainMessages
  <2> QED
    BY <1>1, <1>2, <1>3, <2>1, <2>2 DEF LossInv, OwnSendsAreCounted
<1>9. CASE ReadLoss("sentAfter", "droppedAfter", "sent", totals.sent - loss.sentBefore)
  <2>1. /\ loss.sentBefore + LossMessages <= totals.sent /\ UNCHANGED totals
        /\ test' = "droppedAfter"
        /\ loss' = [loss EXCEPT !.sent = totals.sent - loss.sentBefore]
    BY <1>9 DEF LossInv, ReadLoss, Goto, statisticsVars, channelVars
  <2> QED
    BY <1>1, <1>2, <1>3, <2>1 DEF LossInv, OwnSendsAreCounted
<1>10. CASE Others
  BY <1>4, <1>10, OthersLeaveTheTests DEF stressVars
<1>11. CASE LossVerdict \/ TestPriorityOrdering \/ TestQueueOverflow \/ HeavyVerdict
            \/ JoinTestThreads
  BY <1>4, <1>11
     DEF LossVerdict, TestPriorityOrdering, TestQueueOverflow, HeavyVerdict,
         JoinTestThreads, ConcurrentVerdict, Goto
<1>12. CASE MainReceives \/ JoinSender
  BY <1>4, <1>12 DEF MainReceives, JoinSender, Goto
<1>13. CASE SenderRuns \/ MainWakesUp \/ UNCHANGED allVars
  BY <1>4, <1>13
     DEF SenderRuns, MainWakesUp, allVars, stressVars, statisticsVars, channelVars
<1>14. ASSUME NEW t \in TestThread, TestThreadSends(t)
       PROVE  LossInv'
  BY <1>4, <1>14 DEF TestThreadSends
<1> QED
  BY <1>5, <1>6, <1>7, <1>8, <1>9, <1>10, <1>11, <1>12, <1>13, <1>14, StressSteps
     DEF TestMessageLoss

(* Only main() receives, and only the sender fills the queue, once.        *)
LEMMA BlockingInvariance == BlockingInv /\ [StressNext]_allVars => BlockingInv'
<1> SUFFICES ASSUME BlockingInv, [StressNext]_allVars
             PROVE  BlockingInv'
  OBVIOUS
<1>1. ASSUME UNCHANGED blockingVars,
             UNCHANGED test \/ test \notin {"blocking", "joinSender"},
             test' # "joinSender" \/ UNCHANGED test
      PROVE  BlockingInv'
  BY <1>1 DEF BlockingInv, blockingVars
<1>2. CASE SenderRuns
  <2>1. CASE /\ sender = "enqueue"
             /\ sender' = "flag"
             /\ Queue!Enqueue(NewMessage(1, HIGH))
             /\ UNCHANGED messageDelivered
    <3>1. pq' \subseteq {NewMessage(1, HIGH)}
      BY <2>1 DEF BlockingInv, Queue!Enqueue, Queue!vars
    <3>2. /\ waiting' \subseteq {Main} /\ woken' \subseteq {Main}
          /\ waiting' \cap woken' = {}
          /\ waiting' \cup woken' # {} => waiting \cup woken # {}
      BY <2>1 DEF BlockingInv, Queue!Enqueue, Queue!vars, Queue!NotifyOne
    <3> QED
      BY <1>2, <2>1, <3>1, <3>2 DEF SenderRuns, BlockingInv
  <2>2. CASE sender = "flag"
    BY <1>2, <2>2 DEF SenderRuns, BlockingInv
  <2> QED
    BY <1>2, <2>1, <2>2 DEF SenderRuns
<1>3. CASE MainReceives
  <2>1. CASE Queue!TakeTop
    <3>1. PICK m \in pq : pq' = pq \ {m}
      BY <2>1 DEF Queue!TakeTop
    <3>2. received' # {} /\ test' = "joinSender" /\ pq' \subseteq pq
      BY <1>3, <3>1 DEF MainReceives
    <3>3. m \notin pq'
      BY <3>1
    <3>4. waiting' = {} /\ woken' = {}
      BY <1>3, <3>1, <3>3
         DEF MainReceives, BlockingInv, Queue!BlockingReceive, Queue!Resume, Queue!Idle
    <3> QED
      BY <1>3, <3>2, <3>4 DEF MainReceives, BlockingInv
  <2>2. CASE pq = {} /\ UNCHANGED pq
    <3>1. received' = {} /\ test' = "blocking"
      BY <1>3, <2>2 DEF MainReceives
    <3>2. waiting' \subseteq {Main} /\ woken' \subseteq {Main} /\ waiting' \cap woken' = {}
      BY <1>3, <2>2
         DEF MainReceives, BlockingInv, Queue!BlockingReceive, Queue!Resume, Queue!Idle,
             Queue!TakeTop
    <3> QED
      BY <1>3, <2>2, <3>1, <3>2 DEF MainReceives, BlockingInv
  <2> QED
    BY <1>3, <2>1, <2>2 DEF MainReceives, Queue!BlockingReceive, Queue!Resume
<1>4. CASE MainWakesUp
  BY <1>4 DEF MainWakesUp, BlockingInv, Queue!SpuriousWakeup
<1>5. CASE JoinSender
  BY <1>5 DEF JoinSender, BlockingInv, Goto, blockingVars
<1>6. CASE Others
  BY <1>1, <1>6, OthersLeaveTheTests DEF stressVars
<1>7. CASE TestMessageLoss \/ MainSends("heavy", HeavyMessages, "heavyVerdict")
  BY <1>1, <1>7 DEF TestMessageLoss, ReadLoss, LossVerdict, MainSends, Goto
<1>8. CASE TestPriorityOrdering \/ TestQueueOverflow \/ HeavyVerdict \/ JoinTestThreads
  BY <1>1, <1>8
     DEF TestPriorityOrdering, TestQueueOverflow, HeavyVerdict, JoinTestThreads,
         ConcurrentVerdict, Goto
<1>9. ASSUME NEW t \in TestThread, TestThreadSends(t)
      PROVE  BlockingInv'
  BY <1>1, <1>9 DEF TestThreadSends
<1>10. CASE UNCHANGED allVars
  BY <1>1, <1>10 DEF allVars, stressVars
<1> QED
  BY <1>2, <1>3, <1>4, <1>5, <1>6, <1>7, <1>8, <1>9, <1>10, StressSteps

-----------------------------------------------------------------------------
(* The verdicts of tests 1 and 2, on a queue nobody else knows.            *)

(* n messages that are all different are n messages.                       *)
LEMMA DistinctMessages ==
  ASSUME NEW f, NEW n \in Nat, \A j, k \in 1 .. n : f[j] = f[k] => j = k
  PROVE  Cardinality({f[j] : j \in 1 .. n}) = n
<1> DEFINE S == {f[j] : j \in 1 .. n}
           g == [j \in 1 .. n |-> f[j]]
<1>1. g \in Bijection(1 .. n, S)
  <2>1. g \in [1 .. n -> S] /\ (\A j, k \in 1 .. n : g[j] = g[k] => j = k)
        /\ (\A m \in S : \E j \in 1 .. n : g[j] = m)
    OBVIOUS
  <2> QED
    BY <2>1, Fun_IsBij
<1>2. IsFiniteSet(1 .. n) /\ Cardinality(1 .. n) = n
  BY FS_Interval
<1> QED
  BY <1>1, <1>2, FS_Bijection DEF ExistsBijection

(* enqueue() takes the first MAX_QUEUE_SIZE of them.                       *)
LEMMA EnqueuedMessages ==
  ASSUME NEW f, NEW n \in Nat, DOMAIN f = 1 .. n,
         \A j, k \in 1 .. n : f[j] = f[k] => j = k
  PROVE  Enqueued(f) = {f[k] : k \in {j \in 1 .. n : j <= MaxQueueSize}}
<1>1. ASSUME NEW k \in 1 .. n
      PROVE  ~IsFull({f[j] : j \in 1 .. k - 1}) <=> k <= MaxQueueSize
  <2>1. Cardinality({f[j] : j \in 1 .. k - 1}) = k - 1
    <3>1. k - 1 \in Nat /\ 1 .. k - 1 \subseteq 1 .. n
      OBVIOUS
    <3> QED
      BY <3>1, DistinctMessages
  <2> QED
    BY <2>1, QueueSizeAssumption DEF IsFull
<1> QED
  BY <1>1 DEF Enqueued

(* Three messages come out by priority, whatever order they went in.       *)
LEMMA OrderingPasses == TestPriorityOrdering => Report("ordering", TRUE)
<1> SUFFICES ASSUME TestPriorityOrdering
             PROVE  Report("ordering", TRUE)
  OBVIOUS
<1> DEFINE a == NewMessage(1, LOW)
           b == NewMessage(3, HIGH)
           c == NewMessage(2, MEDIUM)
           f == <<a, b, c>>
           q == Enqueued(f)
<1>1. /\ a.priority = 1 /\ b.priority = 3 /\ c.priority = 2
      /\ a.agingCounter = 0 /\ b.agingCounter = 0 /\ c.agingCounter = 0
  BY DEF NewMessage, LOW, MEDIUM, HIGH
<1> HIDE DEF a, b, c
<1>2. q = {a, b, c}
  <2>1. /\ DOMAIN f = 1 .. 3 /\ f[1] = a /\ f[2] = b /\ f[3] = c
        /\ \A j, k \in 1 .. 3 : f[j] = f[k] => j = k
    BY <1>1
  <2>2. {j \in 1 .. 3 : j <= MaxQueueSize} = 1 .. 3
    BY StressAssumption, QueueSizeAssumption
  <2> HIDE DEF f
  <2>3. q = {f[k] : k \in {j \in 1 .. 3 : j <= MaxQueueSize}}
    BY <2>1, EnqueuedMessages
  <2>4. q = {f[k] : k \in 1 .. 3}
    BY <2>2, <2>3
  <2> QED
    BY <2>1, <2>4
<1>3. PICK out1, out2, out3 \in q :
        /\ IsTop(q, out1) /\ IsTop(q \ {out1}, out2) /\ IsTop(q \ {out1, out2}, out3)
        /\ Report("ordering", <<out1.priority, out2.priority, out3.priority>>
                                = <<HIGH, MEDIUM, LOW>>)
  BY DEF TestPriorityOrdering, a, b, c
<1> HIDE DEF q, f
<1>4. out1 = b
  BY <1>1, <1>2, <1>3 DEF IsTop, MessageComparator
<1>5. out2 = c
  BY <1>1, <1>2, <1>3, <1>4 DEF IsTop, MessageComparator
<1>6. out3 = a
  BY <1>1, <1>2, <1>3, <1>4, <1>5 DEF IsTop, MessageComparator
<1> QED
  BY <1>1, <1>3, <1>4, <1>5, <1>6 DEF LOW, MEDIUM, HIGH, Report

(* Five messages too many leave the queue exactly full.                    *)
LEMMA OverflowPasses == TestQueueOverflow => Report("overflow", TRUE)
<1> DEFINE f == [n \in 1 .. MaxQueueSize + 5 |-> NewMessage(n + 99, LOW)]
           q == Enqueued(f)
<1>1. \A j, k \in 1 .. MaxQueueSize + 5 : f[j] = f[k] => j = k
  BY QueueSizeAssumption DEF NewMessage
<1>2. MaxQueueSize + 5 \in Nat /\ DOMAIN f = 1 .. MaxQueueSize + 5
  BY QueueSizeAssumption
<1>3. q = {f[k] : k \in 1 .. MaxQueueSize}
  <2>1. {j \in 1 .. MaxQueueSize + 5 : j <= MaxQueueSize} = 1 .. MaxQueueSize
    BY QueueSizeAssumption
  <2> HIDE DEF f
  <2> QED
    BY <1>1, <1>2, <2>1, EnqueuedMessages
<1>4. Cardinality(q) = MaxQueueSize
  <2>1. MaxQueueSize \in Nat /\ \A j, k \in 1 .. MaxQueueSize : f[j] = f[k] => j = k
    BY <1>1, QueueSizeAssumption
  <2> HIDE DEF f, q
  <2> QED
    BY <1>3, <2>1, DistinctMessages
<1> QED
  BY <1>4 DEF TestQueueOverflow, Report

LEMMA ResultsInvariance ==
  SendersInv /\ TotalSentInv /\ BlockingInv /\ ResultsInv /\ [StressNext]_allVars => ResultsInv'
<1> SUFFICES ASSUME SendersInv, TotalSentInv, BlockingInv, ResultsInv, [StressNext]_allVars
             PROVE  ResultsInv'
  OBVIOUS
<1> DEFINE AfterLoss == {"heavy", "heavyVerdict", "concurrent", "blocking", "joinSender", "results"}
<1>1. ASSUME UNCHANGED resultVars, test \in AfterLoss => test' \in AfterLoss
      PROVE  ResultsInv'
  BY <1>1 DEF ResultsInv, resultVars, OnlyLossMayFail
<1>2. ASSUME NEW name, Report(name, TRUE), name # "loss",
             test \in AfterLoss => test' \in AfterLoss
      PROVE  ResultsInv'
  BY <1>2 DEF ResultsInv, Report, OnlyLossMayFail
<1>3. CASE TestPriorityOrdering
  BY <1>2, <1>3, OrderingPasses DEF TestPriorityOrdering, Goto
<1>4. CASE TestQueueOverflow
  BY <1>2, <1>4, OverflowPasses DEF TestQueueOverflow, Goto
<1>5. CASE LossVerdict
  <2>1. "loss" \notin passed \cup failed /\ test' = "heavy"
    BY <1>5 DEF ResultsInv, LossVerdict, Goto
  <2>2. PICK ok : Report("loss", ok)
    BY <1>5 DEF LossVerdict
  <2> QED
    BY <2>1, <2>2 DEF ResultsInv, Report, OnlyLossMayFail
<1>6. CASE HeavyVerdict
  BY <1>2, <1>6 DEF HeavyVerdict, Goto
<1>7. CASE JoinTestThreads
  <2>1. totalSent = Cardinality(TestThread) * MessagesPerThread
    BY <1>7, AllSendsCounted DEF JoinTestThreads
  <2>2. Report("concurrent", TRUE) /\ test' = "blocking"
    BY <1>7, <2>1 DEF JoinTestThreads, ConcurrentVerdict, Goto, Report
  <2> QED
    BY <1>2, <2>2
<1>8. CASE JoinSender
  <2>1. messageDelivered /\ received # {}
    BY <1>8 DEF BlockingInv, JoinSender, Goto
  <2> QED
    BY <1>2, <1>8, <2>1 DEF JoinSender, Goto, Report
<1>9. CASE MainReceives
  BY <1>1, <1>9 DEF MainReceives
<1>10. CASE SenderRuns \/ MainWakesUp
  BY <1>1, <1>10 DEF SenderRuns, MainWakesUp
<1>11. CASE Others \/ UNCHANGED allVars
  BY <1>1, <1>11, OthersLeaveTheTests DEF allVars, stressVars
<1>12. ASSUME NEW t \in TestThread, TestThreadSends(t)
       PROVE  ResultsInv'
  BY <1>1, <1>12 DEF TestThreadSends
<1>13. CASE MainSends("heavy", HeavyMessages, "heavyVerdict")
  BY <1>1, <1>13 DEF MainSends, Goto
<1>14. CASE TestMessageLoss
  BY <1>1, <1>5, <1>14 DEF TestMessageLoss, MainSends, ReadLoss, Goto
<1> QED
  BY <1>3, <1>4, <1>5, <1>6, <1>7, <1>8, <1>9, <1>10, <1>11, <1>12, <1>13, <1>14, StressSteps

-----------------------------------------------------------------------------
LEMMA StressStart == StressInit => StressInv
<1> SUFFICES ASSUME StressInit
             PROVE  StressInv
  OBVIOUS
<1>1. ChannelInv /\ ReadersInv
  BY ChannelStart, ReadersStart DEF StressInit, StatisticsInit
<1>2. inChannel = {} /\ totals.sent = 0
  BY DEF StressInit, StatisticsInit, Init
<1>3. SendersInv
  BY <1>2, StressAssumption DEF StressInit, SendersInv, MainMessages
<1>4. TotalSentInv
  <2>1. ThreadSends = {}
    BY DEF StressInit, ThreadSends
  <2> QED
    BY <2>1, FS_EmptySet DEF StressInit, TotalSentInv
<1>5. LossInv
  BY <1>2 DEF StressInit, LossInv, OwnSendsAreCounted
<1>6. BlockingInv
  BY DEF StressInit, BlockingInv, Queue!Init
<1>7. ResultsInv
  BY DEF StressInit, ResultsInv, OnlyLossMayFail
<1> QED
  BY <1>1, <1>3, <1>4, <1>5, <1>6, <1>7 DEF StressInv

LEMMA StressInvariance == StressInv /\ [StressNext]_allVars => StressInv'
BY StressStepIsChannelStep, ChannelStep, ReadersInvariance, SendersInvariance,
   TotalSentInvariance, LossInvariance, BlockingInvariance, ResultsInvariance DEF StressInv

LEMMA StressInvImpliesType == StressInv => StressTypeOK
<1> SUFFICES ASSUME StressInv
             PROVE  StressTypeOK
  OBVIOUS
<1>1. totalSent + Cardinality(returned) <= Cardinality(TestThread) * MessagesPerThread
  BY FiniteSends DEF StressInv, TotalSentInv
<1>2. Main \in inChannel => test \in {"loss", "heavy"}
  BY StressAssumption DEF StressInv, SendersInv, MainMessages
<1>3. Queue!QueueTypeOK
  <2>1. NewMessage(1, HIGH) \in Message
    <3>1. 1 \in Envelope
      BY StressAssumption, QueueSizeAssumption
    <3> QED
      BY <3>1 DEF NewMessage, Message, Priority, HIGH
  <2>2. pq \subseteq {NewMessage(1, HIGH)}
    BY DEF StressInv, BlockingInv
  <2>3. /\ IsFiniteSet({NewMessage(1, HIGH)}) /\ Cardinality({NewMessage(1, HIGH)}) = 1
    BY FS_Singleton
  <2>4. IsFiniteSet(pq) /\ Cardinality(pq) <= 1
    BY <2>2, <2>3, FS_Subset
  <2>5. Cardinality(pq) \in Nat
    BY <2>4, FS_CardinalityType
  <2>6. Cardinality(pq) <= MaxQueueSize
    BY <2>4, <2>5, StressAssumption, QueueSizeAssumption
  <2>7. /\ waiting \subseteq {Main} /\ woken \subseteq {Main} /\ waiting \cap woken = {}
    BY DEF StressInv, BlockingInv
  <2>8. pq \subseteq Message /\ \A m, n \in pq : m.envelope = n.envelope => m = n
    BY <2>1, <2>2
  <2>9. Queue!Cardinality(pq) = Cardinality(pq) /\ Queue!IsFiniteSet(pq) = IsFiniteSet(pq)
    BY DEF Queue!Cardinality, Cardinality, Queue!IsFiniteSet, IsFiniteSet
  <2>10. Queue!Message = Message
    BY DEF Queue!Message, Queue!Priority, Queue!LOW, Queue!MEDIUM, Queue!HIGH,
           Message, Priority, LOW, MEDIUM, HIGH
  <2> QED
    BY <2>4, <2>6, <2>7, <2>8, <2>9, <2>10 DEF Queue!QueueTypeOK
<1> QED
  BY <1>1, <1>2, <1>3
     DEF StressTypeOK, StressInv, ChannelInv, ChannelTypeOK, TotalsType, ReadersInv, SendersInv,
         LossInv, BlockingInv, ResultsInv

LEMMA StressInductive == StressSpec => []StressInv
BY StressStart, StressInvariance, PTL DEF StressSpec

(* Types, and that nobody sends for a test that is over and nobody sleeps  *)
(* on its queue.                                                           *)
THEOREM StressTypeCorrect == StressSpec => []StressTypeOK
BY StressInductive, StressInvImpliesType, PTL

(* Whatever the readers and the tests do, the totals are those of Channel. *)
THEOREM StressImplementsChannel == StressSpec => Spec
<1>1. StressInit => Init
  BY DEF StressInit, StatisticsInit
<1> QED
  BY <1>1, StressStepIsChannelStep, PTL DEF StressSpec, Spec

(* While any number of processes send, main()'s next line accounts for all  *)
(* that the last one counted.                                              *)
THEOREM NextLineCorrect == StressSpec => []NextLineCatchesUp
<1>1. StressInv => NextLineCatchesUp
  BY DEF StressInv, ReadersInv
<1> QED
  BY <1>1, StressInductive, PTL

(* The panel does not divide by 0, whatever moves after its test.          *)
THEOREM RateDefinedCorrect == StressSpec => []RateIsDefined
<1>1. StressInv => RateIsDefined
  BY DEF StressInv, ReadersInv
<1> QED
  BY <1>1, StressInductive, PTL

(* The panel shows at most 100%, if it reads the numerator first.          *)
THEOREM RateBoundCorrect == StressSpec => []LossRateIsAtMostAll
<1>1. StressInv => LossRateIsAtMostAll
  BY DEF StressInv, ReadersInv
<1> QED
  BY <1>1, StressInductive, PTL

(* Test 3's divisor is not 0, whoever sends meanwhile.                     *)
THEOREM OwnSendsCorrect == StressSpec => []OwnSendsAreCounted
<1>1. StressInv => OwnSendsAreCounted
  BY DEF StressInv, LossInv
<1> QED
  BY <1>1, StressInductive, PTL

(* Five of the six tests pass in every run, for any number of threads and  *)
(* messages and any interleaving.                                          *)
THEOREM TestsCorrect == StressSpec => []OnlyLossMayFail
<1>1. StressInv => OnlyLossMayFail
  BY DEF StressInv, ResultsInv
<1> QED
  BY <1>1, StressInductive, PTL
=============================================================================
