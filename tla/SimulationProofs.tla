-------------------------- MODULE SimulationProofs --------------------------
(* main() drives the system of threads as IPC.tla lets it, so that all     *)
(* that is proved there holds of the program; and what only main()'s order *)
(* of stopping and joining gives: quiet at the end, and a final report     *)
(* that adds up.                                                           *)
EXTENDS Simulation, IPCCountersProofs

-----------------------------------------------------------------------------
LEMMA StepIsIPCStep == [SimulationNext]_simulationVars => [Next]_vars
<1> SUFFICES ASSUME [SimulationNext]_simulationVars
             PROVE  [Next]_vars
  OBVIOUS
<1>1. CASE UNCHANGED vars
  BY <1>1
<1>2. CASE UNCHANGED simulationVars
  BY <1>2 DEF simulationVars
<1>3. CASE MainStartsDispatcher \/ MainStopsDispatcher
  BY <1>3 DEF MainStartsDispatcher, MainStopsDispatcher, Next, Launch, Halt
<1>4. ASSUME NEW p \in Proc, MainStartsProcess(p) \/ MainStopsProcess(p)
      PROVE  [Next]_vars
  BY <1>4 DEF MainStartsProcess, MainStopsProcess, Next, Launch, Halt
<1>5. CASE Threads
  BY <1>5 DEF Threads, Next
<1>6. ASSUME NEW t \in Tester, TestSends(t)
      PROVE  [Next]_vars
  BY <1>6 DEF TestSends, Next
<1>7. CASE \/ MainWaits \/ MainCounts \/ MainEndsLoop \/ MainEndsTests \/ MainJoinsTimer
           \/ MainJoinsDispatcher \/ MainJoinsProcesses \/ MainPrintsStats \/ MainDeletes
           \/ Timer \/ CloseWindow \/ HandleSignal
  BY <1>1, <1>7
     DEF MainWaits, MainCounts, MainEndsLoop, MainEndsTests, MainJoinsTimer,
         MainJoinsDispatcher, MainJoinsProcesses, MainPrintsStats, MainDeletes, Timer,
         TimerCounts, TimerEnds, CountSecond, CloseWindow, HandleSignal
<1> QED
  BY <1>2, <1>3, <1>4, <1>5, <1>6, <1>7 DEF SimulationNext, Main

(* The program in all its builds is a system of threads that IPC.tla       *)
(* allows: all that is proved of that one holds of main()'s.               *)
THEOREM SimulationIsIPC == SimulationSpec => Spec
<1>1. SimulationInit => Init
  BY DEF SimulationInit
<1> QED
  BY <1>1, StepIsIPCStep, PTL DEF SimulationSpec, Spec

(* In particular: each message is in one place, in its sender's order, the *)
(* counters agree, what is gone stays gone, and scheduler and totals       *)
(* behave as their abstractions.                                           *)
THEOREM ProgramKeepsThreads ==
  SimulationSpec => /\ [](TypeOK /\ AtMostOnce /\ SenderOrderKept /\ CountersAgree)
                    /\ NothingComesBack /\ ImplementsDispatcher /\ ImplementsChannel
BY SimulationIsIPC, IPCTypeCorrect, AtMostOnceCorrect, SenderOrderCorrect, CountersAgreeCorrect,
   NothingComesBackCorrect, DispatcherIsImplemented, ChannelIsImplemented, PTL

-----------------------------------------------------------------------------
(* Where main() is tells which threads are through. Testers send while it  *)
(* runs the tests and not later: it joins them.                            *)
MainInv ==
  /\ build \in {"NO_GUI", "GUI", "STRESS"}
  /\ testSends \in Nat
  /\ mpc \in {"joinProcesses", "stats", "delete", "done"} => dpc = "ended"
  /\ mpc \in {"stats", "delete", "done"} => At("ended") = Proc
  /\ mpc # "tests" => \A t \in Tester : call[t].at = "none"
  /\ timer = "counting" => mpc \in {"gui", "joinTimer"}

LEMMA NoDispatching == dpc = "ended" => ~DispatchLoop
BY DEF DispatchLoop, LeaveLoop, Tick, TakeMessage, FindNothing, Deliver, FindInboxFull,
       CountDelivered, LogDelivered, LoopStep

LEMMA NoSending ==
  ASSUME NEW s \in Sender, call[s].at = "none"
  PROVE  ~SendMessage(s)
BY DEF SendMessage, CountSent, Drop, HandOver, LogSend

LEMMA NoRunning ==
  ASSUME TypeInv, NEW p \in Proc, process[p].pc = "ended"
  PROVE  ~Run(p)
<1>1. call[p].at = "none"
  BY DEF TypeInv, ProcessesType
<1>2. ~SendMessage(p)
  BY <1>1, NoSending DEF Sender
<1> QED
  BY <1>2
     DEF Run, BuildMessage, CountSend, Receive, Retry, Take, CountReceived, Finish, RunStep

(* A process and the senders' calls touch nothing of the dispatcher's, nor *)
(* does a process touch the call of a tester.                              *)
LEMMA SendLeaves ==
  ASSUME TypeInv, NEW s \in Sender, SendMessage(s)
  PROVE  dpc' = dpc /\ process' = process /\ \A t \in Sender \ {s} : call'[t] = call[t]
BY DEF SendMessage, CountSent, Drop, HandOver, LogSend, dispatcherVars, processVars, TypeInv,
       CallsType

LEMMA RunLeaves ==
  ASSUME TypeInv, NEW p \in Proc, Run(p)
  PROVE  dpc' = dpc /\ \A t \in Tester : call'[t] = call[t]
<1>1. p \in Sender /\ p \notin Tester /\ Tester \subseteq Sender
  BY TesterAssumption DEF Sender
<1>2. CASE SendMessage(p)
  BY <1>1, <1>2, SendLeaves
<1>3. CASE BuildMessage(p)
  BY <1>1, <1>3 DEF BuildMessage, RunStep, dispatcherVars, CallSendMessage, TypeInv, CallsType
<1>4. CASE CountSend(p) \/ Receive(p) \/ Retry(p) \/ CountReceived(p) \/ Finish(p)
  BY <1>4 DEF CountSend, Receive, Retry, Take, CountReceived, Finish, RunStep, dispatcherVars
<1> QED
  BY <1>2, <1>3, <1>4 DEF Run

(* At the end nobody is left to do anything.                               *)
LEMMA NobodyRuns ==
  ASSUME TypeInv, MainInv, mpc \in {"stats", "delete", "done"}
  PROVE  ~Threads
<1>1. \A p \in Proc : ~Run(p)
  <2>1. \A p \in Proc : process[p].pc = "ended"
    BY DEF MainInv, At
  <2> QED
    BY <2>1, NoRunning
<1>2. \A t \in Tester : ~SendMessage(t)
  BY NoSending DEF MainInv, Sender
<1> QED
  BY <1>1, <1>2, NoDispatching DEF Threads, MainInv

LEMMA MainInit == SimulationInit => MainInv
BY SimulationAssumption DEF SimulationInit, Init, MainInv, Returned, Sender

LEMMA MainStep == IPCInv /\ MainInv /\ [SimulationNext]_simulationVars => MainInv'
<1> SUFFICES ASSUME IPCInv, MainInv, [SimulationNext]_simulationVars
             PROVE  MainInv'
  OBVIOUS
<1>1. TypeInv
  BY DEF IPCInv
<1>2. ASSUME UNCHANGED <<dpc, process, call>>
      PROVE  At("ended")' = At("ended")
  BY <1>2 DEF At
<1>3. ASSUME UNCHANGED <<vars, build, testSends>>
      PROVE  UNCHANGED <<dpc, process, call, build, testSends>> /\ At("ended")' = At("ended")
  BY <1>2, <1>3 DEF vars, dispatcherVars, processVars
<1>4. CASE UNCHANGED simulationVars
  BY <1>3, <1>4 DEF simulationVars, mainVars, MainInv
<1>5. CASE MainStartsDispatcher
  BY <1>5 DEF MainStartsDispatcher, Goto, StartDispatcher, MainInv
<1>6. ASSUME NEW p \in Proc, MainStartsProcess(p)
      PROVE  MainInv'
  BY <1>6 DEF MainStartsProcess, Start, mainVars, MainInv
<1>7. CASE MainWaits
  <2>1. Waiting[build] \in {"seconds", "gui", "tests"} /\ (build = "GUI" => Waiting[build] = "gui")
    BY DEF MainInv, Waiting
  <2> QED
    BY <1>3, <1>7, <2>1 DEF MainWaits, Goto, MainInv
<1>8. CASE MainCounts \/ TimerCounts \/ HandleSignal
  BY <1>3, <1>8 DEF MainCounts, TimerCounts, CountSecond, HandleSignal, MainInv
<1>9. CASE TimerEnds
  BY <1>3, <1>9 DEF TimerEnds, MainInv
<1>10. CASE MainEndsLoop
  BY <1>3, <1>10 DEF MainEndsLoop, Goto, MainInv
<1>11. CASE MainEndsTests
  BY <1>3, <1>11 DEF MainEndsTests, Goto, MainInv
<1>12. CASE CloseWindow
  BY <1>3, <1>12 DEF CloseWindow, Goto, MainInv
<1>13. CASE MainJoinsTimer
  BY <1>3, <1>13 DEF MainJoinsTimer, Goto, MainInv
<1>14. ASSUME NEW p \in Proc, MainStopsProcess(p)
       PROVE  MainInv'
  BY <1>14 DEF MainStopsProcess, Stop, dispatcherVars, mainVars, MainInv
<1>15. CASE MainStopsDispatcher
  BY <1>15 DEF MainStopsDispatcher, Goto, StopDispatcher, MainInv
<1>16. CASE MainJoinsDispatcher
  BY <1>3, <1>16 DEF MainJoinsDispatcher, Goto, MainInv
<1>17. CASE MainJoinsProcesses
  BY <1>3, <1>17 DEF MainJoinsProcesses, Goto, MainInv
<1>18. CASE MainPrintsStats
  BY <1>3, <1>18 DEF MainPrintsStats, Goto, MainInv
<1>19. CASE MainDeletes
  BY <1>3, <1>19 DEF MainDeletes, Goto, MainInv
<1>20. ASSUME NEW t \in Tester, TestSends(t)
       PROVE  MainInv'
  BY <1>20 DEF TestSends, MainInv
<1>21. CASE Threads
  <2>1. UNCHANGED mainVars /\ mpc \notin {"stats", "delete", "done"}
    BY <1>1, <1>21, NobodyRuns DEF Threads
  <2>2. ASSUME dpc = "ended"
        PROVE  dpc' = "ended"
    BY <1>1, <1>21, <2>2, NoDispatching, RunLeaves, SendLeaves DEF Threads, Sender
  <2>3. ASSUME mpc # "tests", NEW t \in Tester
        PROVE  call'[t].at = "none"
    <3>1. \A u \in Tester : ~SendMessage(u)
      BY <2>3, NoSending DEF MainInv, Sender
    <3>2. CASE DispatchLoop
      BY <2>3, <3>2
         DEF MainInv, DispatchLoop, LeaveLoop, Tick, TakeMessage, FindNothing, Deliver,
             FindInboxFull, CountDelivered, LogDelivered, LoopStep
    <3>3. ASSUME NEW p \in Proc, Run(p)
          PROVE  call'[t].at = "none"
      BY <1>1, <2>3, <3>3, RunLeaves DEF MainInv
    <3> QED
      BY <1>21, <3>1, <3>2, <3>3 DEF Threads
  <2> QED
    BY <2>1, <2>2, <2>3 DEF mainVars, MainInv
<1> QED
  BY <1>4, <1>5, <1>6, <1>7, <1>8, <1>9, <1>10, <1>11, <1>12, <1>13, <1>14, <1>15, <1>16,
     <1>17, <1>18, <1>19, <1>20, <1>21 DEF SimulationNext, Main, Timer

LEMMA MainInvariance == SimulationSpec => [](IPCInv /\ MainInv)
<1>1. SimulationSpec => []IPCInv
  BY SimulationIsIPC, IPCInvariance, PTL
<1> QED
  BY <1>1, MainInit, MainStep, PTL DEF SimulationSpec

(* While main() prints and deletes, nothing of what it prints or deletes   *)
(* changes, and no thread is left when it returns.                         *)
THEOREM QuietAtTheEndCorrect == SimulationSpec => QuietAtTheEnd
<1>1. IPCInv /\ MainInv /\ [SimulationNext]_simulationVars =>
        [(mpc \in {"stats", "delete", "done"}) => UNCHANGED <<vars, seconds, timer>>]_simulationVars
  <2> SUFFICES ASSUME IPCInv, MainInv, SimulationNext, mpc \in {"stats", "delete", "done"}
               PROVE  UNCHANGED <<vars, seconds, timer>>
    OBVIOUS
  <2>1. ~Threads
    BY NobodyRuns DEF IPCInv
  <2>2. timer # "counting"
    BY DEF MainInv
  <2>3. MainPrintsStats \/ MainDeletes \/ HandleSignal
    BY <2>1, <2>2
       DEF SimulationNext, Main, Timer, MainStartsDispatcher, MainStartsProcess, MainWaits,
           MainCounts, MainEndsLoop, MainEndsTests, MainJoinsTimer, MainStopsProcess,
           MainStopsDispatcher, MainJoinsDispatcher, MainJoinsProcesses, TimerCounts, TimerEnds,
           CloseWindow, TestSends, Goto
  <2> QED
    BY <2>3 DEF MainPrintsStats, MainDeletes, HandleSignal
<1> QED
  BY <1>1, MainInvariance, PTL DEF SimulationSpec, QuietAtTheEnd

-----------------------------------------------------------------------------
(* What was built, by a process or by a test, is in the process's count or *)
(* in the test's, or its sender still has to count it; and what was built  *)
(* is in totalSent, but for the calls that are yet to get there.           *)
ToCount == Cardinality(Calling("count"))
InSend  == Cardinality(At("send"))

Built == nextMessageID = ManagerSent + ToCount + 1

Counted == nextMessageID = testSends + SentSum + InSend + 1

LEMMA BuildNumbers ==
  ASSUME TypeInv, QueueInv
  PROVE  /\ ToCount \in Nat /\ InSend \in Nat /\ ManagerSent \in Nat /\ SentSum \in Nat
         /\ nextMessageID \in Nat
<1>1. ToCount \in Nat /\ InSend \in Nat
  BY SetsFinite, FS_CardinalityType DEF ToCount, InSend
<1>2. nextMessageID \in Nat
  BY ConfigAssumption DEF TypeInv, CountersType
<1> QED
  BY <1>1, <1>2, NumbersAreNat

LEMMA ToCountStep ==
  ASSUME TypeInv, QueueInv, NEW s \in Sender, NEW c, CallGoes(s, c)
  PROVE  /\ c.at = "count" /\ call[s].at # "count" => ToCount' = ToCount + 1
         /\ c.at # "count" /\ call[s].at = "count" => ToCount' = ToCount - 1
         /\ c.at # "count" /\ call[s].at # "count" => ToCount' = ToCount
<1>1. /\ \A t \in Sender \ {s} : call'[t] = call[t]
      /\ call'[s] = c
  BY DEF TypeInv, CallsType, CallGoes
<1>2. s \in Calling("count") <=> call[s].at = "count"
  BY DEF Calling
<1>3. IsFiniteSet(Calling("count"))
  BY SetsFinite
<1>4. ASSUME c.at = "count", call[s].at # "count"
      PROVE  ToCount' = ToCount + 1
  <2>1. Calling("count")' = Calling("count") \cup {s}
    BY <1>1, <1>4 DEF Calling
  <2> QED
    BY <1>2, <1>3, <1>4, <2>1, OneMore DEF ToCount
<1>5. ASSUME c.at # "count", call[s].at = "count"
      PROVE  ToCount' = ToCount - 1
  <2>1. Calling("count")' = Calling("count") \ {s}
    BY <1>1, <1>5 DEF Calling
  <2> QED
    BY <1>2, <1>3, <1>5, <2>1, OneLess DEF ToCount
<1>6. ASSUME c.at # "count", call[s].at # "count"
      PROVE  ToCount' = ToCount
  <2>1. Calling("count")' = Calling("count")
    BY <1>1, <1>6 DEF Calling
  <2> QED
    BY <2>1 DEF ToCount
<1> QED
  BY <1>4, <1>5, <1>6

LEMMA BuildingKeepsBuilt ==
  ASSUME TypeInv, QueueInv, Built, NEW s \in Sender, NEW from, NEW to, NEW prio,
         CallSendMessage(s, from, to, prio), totals' = totals
  PROVE  Built'
<1> DEFINE e == [messageID |-> nextMessageID, senderID |-> from, receiverID |-> to]
           c == [at |-> "count", draft |-> Sched!NewMessage(e, prio)]
<1>1. call[s].at = "none" /\ CallGoes(s, c) /\ c.at = "count"
      /\ nextMessageID' = nextMessageID + 1
  BY DEF CallGoes, CallSendMessage
<1> HIDE DEF c
<1>2. ToCount' = ToCount + 1
  BY <1>1, ToCountStep
<1>3. ManagerSent' = ManagerSent
  BY DEF ManagerSent
<1> QED
  BY <1>1, <1>2, <1>3, BuildNumbers DEF Built

LEMMA SendingKeepsBuilt ==
  ASSUME TypeInv, QueueInv, Built, NEW s \in Sender, SendMessage(s)
  PROVE  Built'
<1>1. nextMessageID' = nextMessageID
  BY DEF SendMessage, CountSent, Drop, HandOver, LogSend
<1>2. CASE CountSent(s)
  <2> DEFINE c == [call[s] EXCEPT !.at = "channel"]
  <2>1. call[s].at = "count" /\ CallGoes(s, c) /\ c.at = "channel"
    BY <1>2 DEF CallGoes, CountSent, TypeInv, CallsType, CallType
  <2> HIDE DEF c
  <2>2. ToCount' = ToCount - 1
    BY <2>1, ToCountStep
  <2>3. ManagerSent' = ManagerSent + 1
    BY <1>2 DEF CountSent, ManagerSent, TypeInv, CountersType
  <2> QED
    BY <1>1, <2>2, <2>3, BuildNumbers DEF Built
<1>3. ASSUME NEW c, CallGoes(s, c), c.at # "count", call[s].at # "count",
             ManagerSent' = ManagerSent
      PROVE  Built'
  BY <1>1, <1>3, ToCountStep DEF Built
<1>4. CASE Drop(s)
  <2> DEFINE c == [at |-> "logDropped", draft |-> NoMessage]
  <2>1. call[s].at # "count" /\ CallGoes(s, c) /\ c.at # "count"
    BY <1>4 DEF CallGoes, Drop
  <2>2. ManagerSent' = ManagerSent
    BY <1>4 DEF Drop, ManagerSent, TypeInv, CountersType
  <2> QED
    BY <1>3, <2>1, <2>2
<1>5. CASE HandOver(s)
  <2> DEFINE c == [at |-> "logSent", draft |-> NoMessage]
  <2>1. call[s].at # "count" /\ CallGoes(s, c) /\ c.at # "count" /\ ManagerSent' = ManagerSent
    BY <1>5 DEF CallGoes, HandOver, ManagerSent
  <2> QED
    BY <1>3, <2>1
<1>6. CASE LogSend(s)
  <2>1. call[s].at # "count" /\ CallGoes(s, Returned) /\ Returned.at # "count"
        /\ ManagerSent' = ManagerSent
    BY <1>6 DEF CallGoes, LogSend, ManagerSent, Returned
  <2> QED
    BY <1>3, <2>1
<1> QED
  BY <1>2, <1>4, <1>5, <1>6 DEF SendMessage

LEMMA BuiltStep == IPCInv /\ Built /\ [Next]_vars => Built'
<1> SUFFICES ASSUME IPCInv, Built, [Next]_vars
             PROVE  Built'
  OBVIOUS
<1>1. TypeInv /\ QueueInv
  BY DEF IPCInv
<1>2. CASE UNCHANGED <<nextMessageID, totals, call>>
  BY <1>2 DEF Built, ManagerSent, ToCount, Calling
<1>3. CASE Launch \/ Halt \/ UNCHANGED vars
  BY <1>2, <1>3 DEF Launch, Halt, StartDispatcher, Start, StopDispatcher, Stop, vars
<1>4. CASE DispatchLoop
  <2>1. CASE CountDelivered
    <3>1. ManagerSent' = ManagerSent
      BY <1>1, <2>1 DEF CountDelivered, ManagerSent, TypeInv, CountersType
    <3>2. UNCHANGED <<nextMessageID, call>>
      BY <2>1 DEF CountDelivered, LoopStep
    <3> QED
      BY <3>1, <3>2 DEF Built, ToCount, Calling
  <2>2. CASE LeaveLoop \/ Tick \/ TakeMessage \/ FindNothing \/ Deliver \/ FindInboxFull
             \/ LogDelivered
    BY <1>2, <2>2
       DEF LeaveLoop, Tick, TakeMessage, FindNothing, Deliver, FindInboxFull, LogDelivered,
           LoopStep
  <2> QED
    BY <1>4, <2>1, <2>2 DEF DispatchLoop
<1>5. ASSUME NEW s \in Sender, SendMessage(s)
      PROVE  Built'
  BY <1>1, <1>5, SendingKeepsBuilt
<1>6. ASSUME NEW t \in Tester, BuildTestMessage(t)
      PROVE  Built'
  BY <1>1, <1>6, BuildingKeepsBuilt DEF BuildTestMessage, Sender
<1>7. ASSUME NEW p \in Proc, BuildMessage(p)
      PROVE  Built'
  BY <1>1, <1>7, BuildingKeepsBuilt DEF BuildMessage, RunStep, Sender
<1>8. ASSUME NEW p \in Proc, CountSend(p) \/ Receive(p) \/ Retry(p) \/ CountReceived(p) \/ Finish(p)
      PROVE  Built'
  BY <1>2, <1>8 DEF CountSend, Receive, Retry, Take, CountReceived, Finish, RunStep
<1> QED
  BY <1>3, <1>4, <1>5, <1>6, <1>7, <1>8 DEF Next, Run, Sender

-----------------------------------------------------------------------------
(* A step of run() that neither begins nor ends a send.                    *)
LEMMA InSendStep ==
  ASSUME TypeInv, QueueInv, NEW p \in Proc, NEW to, ProcessGoes(p, to)
  PROVE  /\ to.pc = "send" /\ process[p].pc # "send" => InSend' = InSend + 1
         /\ to.pc # "send" /\ process[p].pc = "send" => InSend' = InSend - 1
         /\ to.pc # "send" /\ process[p].pc # "send" => InSend' = InSend
<1>1. /\ \A q \in Proc \ {p} : process'[q] = process[q]
      /\ process'[p] = to
  BY DEF TypeInv, ProcessesType, ProcessGoes
<1>2. p \in At("send") <=> process[p].pc = "send"
  BY DEF At
<1>3. IsFiniteSet(At("send"))
  BY SetsFinite
<1>4. ASSUME to.pc = "send", process[p].pc # "send"
      PROVE  InSend' = InSend + 1
  <2>1. At("send")' = At("send") \cup {p}
    BY <1>1, <1>4 DEF At
  <2> QED
    BY <1>2, <1>3, <1>4, <2>1, OneMore DEF InSend
<1>5. ASSUME to.pc # "send", process[p].pc = "send"
      PROVE  InSend' = InSend - 1
  <2>1. At("send")' = At("send") \ {p}
    BY <1>1, <1>5 DEF At
  <2> QED
    BY <1>2, <1>3, <1>5, <2>1, OneLess DEF InSend
<1>6. ASSUME to.pc # "send", process[p].pc # "send"
      PROVE  InSend' = InSend
  <2>1. At("send")' = At("send")
    BY <1>1, <1>6 DEF At
  <2> QED
    BY <2>1 DEF InSend
<1> QED
  BY <1>4, <1>5, <1>6

LEMMA RunKeepsCounted ==
  ASSUME TypeInv, QueueInv, testSends \in Nat, Counted, NEW p \in Proc, Run(p),
         testSends' = testSends
  PROVE  Counted'
<1>1. process \in [Proc -> ProcessType]
  BY DEF TypeInv, ProcessesType
<1>2. ASSUME nextMessageID' = nextMessageID, process' = process
      PROVE  Counted'
  BY <1>2 DEF Counted, SentSum, SentBy, InSend, At
<1>3. CASE SendMessage(p)
  <2>1. nextMessageID' = nextMessageID /\ process' = process
    BY <1>3 DEF SendMessage, CountSent, Drop, HandOver, LogSend, processVars
  <2> QED
    BY <1>2, <2>1
<1>4. CASE BuildMessage(p)
  <2> DEFINE to == [process[p] EXCEPT !.pc = "send", !.state = "RUNNING"]
  <2>1. process[p].pc = "loop" /\ ProcessGoes(p, to)
    BY <1>4 DEF BuildMessage, RunStep, ProcessGoes
  <2>2. to.pc = "send" /\ to.sentCount = process[p].sentCount
        /\ to.receivedCount = process[p].receivedCount
    BY <1>1 DEF ProcessType
  <2> HIDE DEF to
  <2>3. nextMessageID' = nextMessageID + 1
    BY <1>4 DEF BuildMessage, CallSendMessage
  <2>4. SentSum' = SentSum
    BY <2>1, <2>2, QuietSizes, NumbersStay DEF QuietStep
  <2>5. InSend' = InSend + 1
    BY <2>1, <2>2, InSendStep
  <2> QED
    BY <2>3, <2>4, <2>5, BuildNumbers DEF Counted
<1>5. CASE CountSend(p)
  <2> DEFINE to == [process[p] EXCEPT !.pc = "receive", !.sentCount = @ + 1]
  <2>1. process[p].pc = "send" /\ ProcessGoes(p, to) /\ nextMessageID' = nextMessageID
    BY <1>5 DEF CountSend, RunStep, ProcessGoes
  <2>2. to.pc = "receive"
    BY <1>1 DEF ProcessType
  <2> HIDE DEF to
  <2>3. SentSum' = SentSum + 1
    BY <1>5, CountSendSizes DEF SentSum
  <2>4. InSend' = InSend - 1
    BY <2>1, <2>2, InSendStep
  <2> QED
    BY <2>1, <2>3, <2>4, BuildNumbers DEF Counted
<1>6. ASSUME NEW from \in {"receive", "blocked", "loop", "count"}, NEW to, RunStep(p, from, to),
             nextMessageID' = nextMessageID,
             to.pc # "send", to.sentCount = process[p].sentCount
      PROVE  Counted'
  <2>1. process[p].pc # "send" /\ ProcessGoes(p, to)
    BY <1>6 DEF RunStep, ProcessGoes
  <2>2. SentBy' = SentBy
    BY <1>1, <1>6, <2>1 DEF SentBy, ProcessGoes
  <2>3. InSend' = InSend
    BY <1>6, <2>1, InSendStep
  <2> QED
    BY <1>6, <2>2, <2>3, NumbersStay DEF Counted
<1>7. ASSUME NEW at \in {"receive", "blocked"}, Take(p, at), nextMessageID' = nextMessageID
      PROVE  Counted'
  <2>1. PICK m : RunStep(p, at, [process[p] EXCEPT !.pc = "count", !.state = "RUNNING",
                                                   !.received = m])
    BY <1>7 DEF Take
  <2> DEFINE to == [process[p] EXCEPT !.pc = "count", !.state = "RUNNING", !.received = m]
  <2>2. to.pc = "count" /\ to.sentCount = process[p].sentCount
    BY <1>1 DEF ProcessType
  <2> HIDE DEF to
  <2>3. RunStep(p, at, to)
    BY <2>1 DEF to
  <2> QED
    BY <1>6, <1>7, <2>2, <2>3
<1>8. ASSUME NEW from \in {"receive", "blocked", "loop"}, NEW pc \in {"blocked", "loop", "ended"},
             NEW state, RunStep(p, from, [process[p] EXCEPT !.pc = pc, !.state = state]),
             nextMessageID' = nextMessageID
      PROVE  Counted'
  <2> DEFINE to == [process[p] EXCEPT !.pc = pc, !.state = state]
  <2>1. to.pc = pc /\ to.sentCount = process[p].sentCount
    BY <1>1 DEF ProcessType
  <2>2. RunStep(p, from, to)
    BY <1>8
  <2> HIDE DEF to
  <2> QED
    BY <1>6, <1>8, <2>1, <2>2
<1>9. CASE Receive(p)
  BY <1>7, <1>8, <1>9 DEF Receive
<1>10. CASE Retry(p)
  BY <1>7, <1>8, <1>10 DEF Retry
<1>11. CASE Finish(p)
  BY <1>8, <1>11 DEF Finish
<1>12. CASE CountReceived(p)
  <2> DEFINE to == [process[p] EXCEPT !.pc = "loop", !.receivedCount = @ + 1,
                                      !.received = NoMessage]
  <2>1. to.pc = "loop" /\ to.sentCount = process[p].sentCount
    BY <1>1 DEF ProcessType
  <2>2. RunStep(p, "count", to) /\ nextMessageID' = nextMessageID
    BY <1>12 DEF CountReceived
  <2> HIDE DEF to
  <2> QED
    BY <1>6, <2>1, <2>2
<1> QED
  BY <1>3, <1>4, <1>5, <1>9, <1>10, <1>11, <1>12 DEF Run

LEMMA CountedStep ==
  IPCInv /\ MainInv /\ Counted /\ [SimulationNext]_simulationVars => Counted'
<1> SUFFICES ASSUME IPCInv, MainInv, Counted, [SimulationNext]_simulationVars
             PROVE  Counted'
  OBVIOUS
<1>1. TypeInv /\ QueueInv /\ testSends \in Nat
  BY DEF IPCInv, MainInv
<1>2. CASE UNCHANGED <<nextMessageID, process, testSends>>
  BY <1>2 DEF Counted, SentSum, SentBy, InSend, At
<1>3. CASE UNCHANGED <<vars, testSends>>
  BY <1>2, <1>3 DEF vars, processVars
<1>4. CASE \/ MainWaits \/ MainCounts \/ MainEndsLoop \/ MainEndsTests \/ MainJoinsTimer
           \/ MainJoinsDispatcher \/ MainJoinsProcesses \/ MainPrintsStats \/ MainDeletes
           \/ Timer \/ CloseWindow \/ HandleSignal \/ UNCHANGED simulationVars
  BY <1>3, <1>4
     DEF MainWaits, MainCounts, MainEndsLoop, MainEndsTests, MainJoinsTimer,
         MainJoinsDispatcher, MainJoinsProcesses, MainPrintsStats, MainDeletes, Timer,
         TimerCounts, TimerEnds, CountSecond, CloseWindow, HandleSignal, simulationVars, mainVars
<1>5. CASE MainStartsDispatcher \/ MainStopsDispatcher
  BY <1>2, <1>5 DEF MainStartsDispatcher, MainStopsDispatcher, StartDispatcher, StopDispatcher,
                    processVars
<1>6. ASSUME NEW p \in Proc, MainStartsProcess(p)
      PROVE  Counted'
  <2> DEFINE to == [process[p] EXCEPT !.pc = "loop"]
  <2>1. /\ ProcessGoes(p, to) /\ process[p].pc = "none"
        /\ UNCHANGED <<nextMessageID, testSends>>
    BY <1>6 DEF MainStartsProcess, Start, ProcessGoes, mainVars
  <2>2. /\ to.pc = "loop" /\ to.sentCount = process[p].sentCount
        /\ to.receivedCount = process[p].receivedCount
    BY <1>1 DEF TypeInv, ProcessesType, ProcessType
  <2> HIDE DEF to
  <2>3. SentSum' = SentSum
    BY <1>1, <2>1, <2>2, QuietSizes, NumbersStay DEF QuietStep
  <2>4. InSend' = InSend
    BY <1>1, <2>1, <2>2, InSendStep
  <2> QED
    BY <2>1, <2>3, <2>4 DEF Counted
<1>7. ASSUME NEW p \in Proc, MainStopsProcess(p)
      PROVE  Counted'
  BY <1>2, <1>7 DEF MainStopsProcess, Stop, mainVars
<1>8. ASSUME NEW t \in Tester, TestSends(t)
      PROVE  Counted'
  <2>1. /\ process' = process /\ testSends' = testSends + 1
        /\ nextMessageID' = nextMessageID + 1
    BY <1>8 DEF TestSends, BuildTestMessage, CallSendMessage, processVars
  <2>2. SentSum' = SentSum /\ InSend' = InSend
    BY <2>1 DEF SentSum, SentBy, InSend, At
  <2> QED
    BY <1>1, <2>1, <2>2, BuildNumbers DEF Counted
<1>9. CASE Threads
  <2>1. testSends' = testSends
    BY <1>9 DEF Threads, mainVars
  <2>2. CASE DispatchLoop
    BY <1>2, <2>1, <2>2
       DEF DispatchLoop, LeaveLoop, Tick, TakeMessage, FindNothing, Deliver, FindInboxFull,
           CountDelivered, LogDelivered, LoopStep
  <2>3. ASSUME NEW t \in Tester, SendMessage(t)
        PROVE  Counted'
    BY <1>2, <2>1, <2>3 DEF SendMessage, CountSent, Drop, HandOver, LogSend, processVars
  <2>4. ASSUME NEW p \in Proc, Run(p)
        PROVE  Counted'
    BY <1>1, <2>1, <2>4, RunKeepsCounted
  <2> QED
    BY <1>9, <2>2, <2>3, <2>4 DEF Threads
<1> QED
  BY <1>4, <1>5, <1>6, <1>7, <1>8, <1>9 DEF SimulationNext, Main

LEMMA BuildsInit == SimulationInit => Built /\ Counted
<1> SUFFICES ASSUME SimulationInit
             PROVE  Built /\ Counted
  OBVIOUS
<1>1. Init /\ testSends = 0
  BY DEF SimulationInit
<1>2. Ledger /\ nextMessageID = 1
  BY <1>1, LedgerInit DEF Init
<1>3. Calling("count") = {} /\ At("send") = {}
  BY <1>1 DEF Init, Calling, At, Returned, NewProcess
<1>4. ToCount = 0 /\ InSend = 0
  BY <1>3, FS_EmptySet DEF ToCount, InSend
<1>5. ManagerSent = 0
  BY <1>1 DEF Init, ManagerSent
<1>6. SentSum = 0
  <2>1. SentBy \in [Proc -> {0}]
    BY <1>1 DEF Init, SentBy, NewProcess
  <2> QED
    BY <2>1, TotalZero DEF SentSum
<1> QED
  BY <1>1, <1>2, <1>4, <1>5, <1>6 DEF Built, Counted

LEMMA AllInvariance == SimulationSpec => [](IPCInv /\ MainInv /\ Ledger /\ Built /\ Counted)
<1>1. SimulationSpec => []Ledger
  BY SimulationIsIPC, LedgerInvariance, PTL
<1>2. IPCInv /\ Built /\ [SimulationNext]_simulationVars => Built'
  BY BuiltStep, StepIsIPCStep
<1> QED
  BY <1>1, <1>2, BuildsInit, CountedStep, MainInvariance, PTL DEF SimulationSpec

(* When main() has joined everybody, no message is on its way.             *)
LEMMA NothingOnItsWay ==
  ASSUME TypeInv, MainInv, mpc = "stats"
  PROVE  /\ \A a : a # "none" => Calling(a) = {}
         /\ \A a : a # "ended" => At(a) = {}
         /\ dpc = "ended"
<1>1. \A p \in Proc : process[p].pc = "ended"
  BY DEF MainInv, At
<1>2. \A p \in Proc : call[p].at = "none"
  BY <1>1 DEF TypeInv, ProcessesType
<1>3. \A s \in Sender : call[s].at = "none"
  BY <1>2 DEF Sender, MainInv
<1> QED
  BY <1>1, <1>3 DEF Calling, At, MainInv

LEMMA ReportFollows ==
  ASSUME IPCInv, MainInv, Ledger, Built, Counted, mpc = "stats"
  PROVE  /\ LoggerSent + LoggerDropped = testSends + SentSum
         /\ LoggerReceived = ArrivedSum
         /\ LoggerSent = LoggerReceived + Refused + Backlog
<1>1. TypeInv /\ QueueInv
  BY DEF IPCInv
<1>2. Cardinality({}) = 0
  BY FS_EmptySet
<1>3. ToCount = 0 /\ InChannel = 0 /\ ToLogDrop = 0
  BY <1>1, <1>2, NothingOnItsWay DEF ToCount, InChannel, ToLogDrop
<1>4. ToLogSent = 0
  <2>1. Calling("logSent") \cup Calling("channel") = {}
    BY <1>1, NothingOnItsWay
  <2> QED
    BY <1>2, <2>1 DEF ToLogSent
<1>5. InSend = 0 /\ InHands = 0
  BY <1>1, <1>2, NothingOnItsWay DEF InSend, InHands
<1>6. Delivering = 0 /\ Counting = 0 /\ Logging = 0
  BY <1>1, NothingOnItsWay DEF Delivering, Counting, Logging, DispatcherAt
<1>7. testSends \in Nat
  BY DEF MainInv
<1>8. ManagerSent = testSends + SentSum
  BY <1>1, <1>3, <1>5, <1>7, BuildNumbers DEF Built, Counted
<1>9. /\ LoggerDropped = ManagerDropped /\ LoggerSent + ManagerDropped = ManagerSent
      /\ LoggerReceived = ManagerDelivered
  BY <1>1, <1>3, <1>4, <1>6, NumbersAreNat DEF Ledger
<1>10. ManagerDelivered = ArrivedSum
  BY <1>1, <1>5, <1>6, NumbersAreNat DEF Ledger
<1>11. ManagerSent = ManagerDropped + Backlog + Refused + ManagerDelivered
  BY <1>1, <1>3, <1>6, NumbersAreNat DEF Ledger
<1> QED
  BY <1>1, <1>8, <1>9, <1>10, <1>11, NumbersAreNat

(* The final report adds up: what the processes and the tests sent, what   *)
(* the logger counted and what the inboxes got, in every build.            *)
THEOREM FinalReportCorrect == SimulationSpec => []FinalReport
<1>1. IPCInv /\ MainInv /\ Ledger /\ Built /\ Counted => FinalReport
  <2> SUFFICES ASSUME IPCInv, MainInv, Ledger, Built, Counted, mpc = "stats"
               PROVE  FinalReport
    BY DEF FinalReport
  <2>1. Arrived = [p \in Proc |-> process[p].receivedCount + Cardinality(messageQueue[p])]
    <3>1. \A p \in Proc : /\ Cardinality(messageQueue[p]) \in Nat
                          /\ process[p].receivedCount \in Nat
      BY FS_CardinalityType DEF IPCInv, QueueInv, TypeInv, ProcessesType, ProcessType
    <3>2. \A p \in Proc : Cardinality(messageQueue[p]) + process[p].receivedCount
                            = process[p].receivedCount + Cardinality(messageQueue[p])
      BY <3>1
    <3> QED
      BY <3>2 DEF Arrived
  <2>2. ArrivedSum = Total([p \in Proc |-> process[p].receivedCount
                                             + Cardinality(messageQueue[p])])
    BY <2>1 DEF ArrivedSum
  <2> QED
    BY <2>2, ReportFollows
       DEF FinalReport, LoggerSent, LoggerDropped, LoggerReceived, SentSum, SentBy, Refused,
           Backlog
<1> QED
  BY <1>1, AllInvariance, PTL
=============================================================================
