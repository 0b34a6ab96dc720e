----------------------------- MODULE Simulation -----------------------------
(***************************************************************************)
(* main(): it starts the IPC system, waits for an end, stops and joins the *)
(* threads, prints the statistics and deletes the processes. Both builds   *)
(* are here, with the SFML window and without. With --stress-test the two  *)
(* are the same program, "STRESS": main() runs the tests instead, of which *)
(* this module has the messages they send; StressTester.tla has the rest.  *)
(***************************************************************************)
EXTENDS IPC

CONSTANTS
  Builds,              (* of the three programs those that are looked at *)
  SimulationSeconds    (* Config::SIMULATION_SECONDS *)

ASSUME SimulationAssumption ==
  Builds \subseteq {"NO_GUI", "GUI", "STRESS"} /\ SimulationSeconds \in Nat

VARIABLES
  build,        (* which of the programs runs *)
  mpc,          (* where main() is *)
  globalStop,   (* set by Ctrl+C, the timer and main() *)
  seconds,      (* i of the waiting loop, in main() or in the timer *)
  timer,        (* the GUI build's timer thread: "none", "counting", "ended" *)
  testSends     (* history: how many messages the tests have sent *)

mainVars == <<build, mpc, globalStop, seconds, timer, testSends>>
simulationVars == <<vars, mainVars>>

-----------------------------------------------------------------------------
Goto(from, to) == mpc = from /\ mpc' = to

MainStartsDispatcher ==
  /\ Goto("startDispatcher", "startProcesses")
  /\ StartDispatcher
  /\ UNCHANGED <<build, globalStop, seconds, timer, testSends>>

(* The vector's order, which no code depends on, is left open.             *)
MainStartsProcess(p) ==
  /\ mpc = "startProcesses"
  /\ Start(p)
  /\ UNCHANGED mainVars

Waiting == [NO_GUI |-> "seconds", GUI |-> "gui", STRESS |-> "tests"]

MainWaits ==
  /\ Goto("startProcesses", Waiting[build])
  /\ At("none") = {}
  /\ timer' = IF build = "GUI" THEN "counting" ELSE "none"
  /\ UNCHANGED <<vars, build, globalStop, seconds, testSends>>

(* One turn of the loop that counts the seconds, in either build.          *)
CountSecond ==
  /\ seconds < SimulationSeconds /\ ~globalStop
  /\ seconds' = seconds + 1
  /\ UNCHANGED <<vars, build, mpc, globalStop, timer, testSends>>

MainCounts == mpc = "seconds" /\ CountSecond
TimerCounts == timer = "counting" /\ CountSecond

TimeIsUp == seconds = SimulationSeconds \/ globalStop

TimerEnds ==
  /\ timer = "counting" /\ TimeIsUp
  /\ timer' = "ended"
  /\ globalStop' = TRUE
  /\ UNCHANGED <<vars, build, mpc, seconds, testSends>>

MainEndsLoop ==
  /\ Goto("seconds", "stopProcesses")
  /\ TimeIsUp
  /\ UNCHANGED <<vars, build, globalStop, seconds, timer, testSends>>

(* gui.run() returns when the user closes the window, and only then.       *)
CloseWindow ==
  /\ Goto("gui", "joinTimer")
  /\ globalStop' = TRUE
  /\ UNCHANGED <<vars, build, seconds, timer, testSends>>

(* runAll(): main() itself or a thread of a test sends a message, under    *)
(* the name of some process.                                               *)
TestSends(t) ==
  /\ mpc = "tests"
  /\ BuildTestMessage(t)
  /\ testSends' = testSends + 1
  /\ UNCHANGED <<build, mpc, globalStop, seconds, timer>>

(* Slip: runAll() returns without the join of testConcurrentSenders().     *)
MainForgetsTesters ==
  /\ Goto("tests", "stopProcesses")
  /\ globalStop' = TRUE
  /\ UNCHANGED <<vars, build, seconds, timer, testSends>>

MainEndsTests ==
  /\ Goto("tests", "stopProcesses")
  /\ \A t \in Tester : call[t].at = "none"
  /\ globalStop' = TRUE
  /\ UNCHANGED <<vars, build, seconds, timer, testSends>>

(* Slips: a join is left out, or comes before the stop.                    *)
MainForgetsTimer ==
  /\ Goto("joinTimer", "stopProcesses")
  /\ UNCHANGED <<vars, build, globalStop, seconds, timer, testSends>>

MainForgetsDispatcher ==
  /\ Goto("joinDispatcher", "joinProcesses")
  /\ UNCHANGED <<vars, build, globalStop, seconds, timer, testSends>>

MainForgetsProcesses ==
  /\ Goto("joinProcesses", "stats")
  /\ UNCHANGED <<vars, build, globalStop, seconds, timer, testSends>>

MainJoinsBeforeStop ==
  /\ Goto("stopProcesses", "joinDispatcher")
  /\ \A p \in Proc : ~running[p]
  /\ dpc = "ended"
  /\ StopDispatcher
  /\ UNCHANGED <<build, globalStop, seconds, timer, testSends>>

MainJoinsTimer ==
  /\ Goto("joinTimer", "stopProcesses")
  /\ timer = "ended"
  /\ UNCHANGED <<vars, build, globalStop, seconds, timer, testSends>>

MainStopsProcess(p) ==
  /\ mpc = "stopProcesses"
  /\ running[p]
  /\ Stop(p)
  /\ UNCHANGED mainVars

MainStopsDispatcher ==
  /\ Goto("stopProcesses", "joinDispatcher")
  /\ \A p \in Proc : ~running[p]
  /\ StopDispatcher
  /\ UNCHANGED <<build, globalStop, seconds, timer, testSends>>

MainJoinsDispatcher ==
  /\ Goto("joinDispatcher", "joinProcesses")
  /\ dpc = "ended"
  /\ UNCHANGED <<vars, build, globalStop, seconds, timer, testSends>>

MainJoinsProcesses ==
  /\ Goto("joinProcesses", "stats")
  /\ At("ended") = Proc
  /\ UNCHANGED <<vars, build, globalStop, seconds, timer, testSends>>

MainPrintsStats ==
  /\ Goto("stats", "delete")
  /\ UNCHANGED <<vars, build, globalStop, seconds, timer, testSends>>

MainDeletes ==
  /\ Goto("delete", "done")
  /\ UNCHANGED <<vars, build, globalStop, seconds, timer, testSends>>

(* SIGINT: the handler sets the flag.                                      *)
HandleSignal ==
  /\ globalStop' = TRUE
  /\ UNCHANGED <<vars, build, mpc, seconds, timer, testSends>>

-----------------------------------------------------------------------------
SimulationInit ==
  /\ Init
  /\ build \in Builds
  /\ mpc = "startDispatcher" /\ globalStop = FALSE /\ seconds = 0 /\ timer = "none"
  /\ testSends = 0

Main ==
  \/ MainStartsDispatcher \/ MainWaits \/ MainCounts \/ MainEndsLoop \/ MainEndsTests
  \/ MainJoinsTimer \/ MainStopsDispatcher \/ MainJoinsDispatcher
  \/ MainJoinsProcesses \/ MainPrintsStats \/ MainDeletes
  \/ \E p \in Proc : MainStartsProcess(p) \/ MainStopsProcess(p)

Timer == TimerCounts \/ TimerEnds

Threads ==
  /\ DispatchLoop \/ (\E p \in Proc : Run(p)) \/ (\E t \in Tester : SendMessage(t))
  /\ UNCHANGED mainVars

SimulationNext ==
  \/ Main \/ Timer \/ Threads \/ CloseWindow \/ HandleSignal
  \/ \E t \in Tester : TestSends(t)

SimulationSpec == SimulationInit /\ [][SimulationNext]_simulationVars

(* Every thread runs on, main() and the timer too. The user need neither   *)
(* close the window nor press Ctrl+C.                                      *)
FairSimulation ==
  /\ SimulationSpec
  /\ WF_simulationVars(Main)
  /\ WF_simulationVars(Timer)
  /\ WF_simulationVars(DispatchLoop /\ UNCHANGED mainVars)
  /\ \A p \in Proc : WF_simulationVars(Run(p) /\ UNCHANGED mainVars)
  /\ \A t \in Tester : WF_simulationVars(SendMessage(t) /\ UNCHANGED mainVars)

-----------------------------------------------------------------------------
(* main() prints while nobody writes: what the final report shows of one   *)
(* process is still true when it shows the next, nothing reaches an inbox  *)
(* of a process that is being deleted, and no thread outlives main().      *)
QuietAtTheEnd ==
  [][(mpc \in {"stats", "delete", "done"}) =>
       UNCHANGED <<vars, seconds, timer>>]_simulationVars

(* The final report adds up. What it shows as Sent by the processes, with  *)
(* what the tests sent, is what the logger counted as sent or dropped; the *)
(* logger's Received is what the processes received or have in the queue;  *)
(* and what is missing between the logger's Sent and Received was refused  *)
(* by an inbox or never left the scheduler.                                *)
FinalReport ==
  mpc = "stats" =>
    /\ logged.sent + logged.dropped = testSends + Total([p \in Proc |-> process[p].sentCount])
    /\ logged.received =
         Total([p \in Proc |-> process[p].receivedCount + Cardinality(messageQueue[p])])
    /\ logged.sent = logged.received + Cardinality(refused) + Len(pendingMessages)

(* TC-10 and main.cpp:28 "Ctrl+C cleanly stops the simulation": once       *)
(* globalStop is set, by the signal or by the timer, main() gets to its    *)
(* end, with all threads joined.                                           *)
StopMeansStop == globalStop ~> (mpc = "done")

(* No join waits for a thread that was not told to stop, whichever thread  *)
(* is where: main() gets to its end, or the user never closes the window.  *)
ComesToItsEnd == <>[](mpc \in {"done", "gui"})

(* IPCManager.cpp:40 "Scheduler will deliver it later": a message accepted *)
(* by sendMessage() does not stay in the scheduler for good.               *)
AcceptedIsDispatched ==
  \A id \in 1 .. MaxMessages :
    (id \in IDs(Pending)) ~> (id \notin IDs(Pending))
=============================================================================
