----------------------------- MODULE Dispatcher -----------------------------
(***************************************************************************)
(* The Scheduler driven by IPCManager::dispatchLoop(): each iteration      *)
(* counts up agingTimer, ages the pending messages when the timer is due,  *)
(* and then takes one message. schedulerMutex is free between the two      *)
(* calls, so a sender may add a message there. What is done with the       *)
(* message taken is IPC.tla's part.                                        *)
(***************************************************************************)
EXTENDS Scheduler

CONSTANT AgingPeriod   (* the literal 20 of dispatchLoop() *)

ASSUME PeriodAssumption == AgingPeriod \in Nat \ {0}

VARIABLES
  agingTimer,   (* iterations since the last aging pass *)
  dpc           (* "top" of the loop, or about to "get" *)

dispatcherVars == <<pendingMessages, agingTimer, dpc>>

-----------------------------------------------------------------------------
AgingDue == agingTimer + 1 >= AgingPeriod

(* Slip: agingTimer is not reset after the pass.                           *)
TickWithoutReset ==
  /\ dpc = "top"
  /\ dpc' = "get"
  /\ agingTimer' = agingTimer + 1
  /\ IF AgingDue THEN ApplyAging ELSE UNCHANGED pendingMessages

Tick ==
  /\ dpc = "top"
  /\ dpc' = "get"
  /\ \/ AgingDue /\ agingTimer' = 0 /\ ApplyAging
     \/ ~AgingDue /\ agingTimer' = agingTimer + 1 /\ UNCHANGED pendingMessages

TakeMessage ==
  /\ dpc = "get"
  /\ dpc' = "top"
  /\ Dispatch
  /\ UNCHANGED agingTimer

FindNothing ==
  /\ dpc = "get"
  /\ dpc' = "top"
  /\ pendingMessages = << >>
  /\ UNCHANGED <<pendingMessages, agingTimer>>

Arrival == Send /\ UNCHANGED <<agingTimer, dpc>>

LoopInit == Init /\ agingTimer = 0 /\ dpc = "top"

Loop == Tick \/ TakeMessage \/ FindNothing

LoopNext == Loop \/ Arrival

LoopSpec == LoopInit /\ [][LoopNext]_dispatcherVars

(* The dispatcher is a thread of its own: every call it makes returns and  *)
(* its 50 ms sleep ends. Nothing makes senders send.                       *)
FairLoopSpec == LoopSpec /\ WF_dispatcherVars(Loop)

-----------------------------------------------------------------------------
(* The loop's variables have their types.                                  *)
LoopTypeOK ==
  /\ TypeOK
  /\ agingTimer \in 0 .. AgingPeriod - 1
  /\ dpc \in {"top", "get"}

(* How late a boost can come: a message below HIGH has been skipped fewer  *)
(* than AgingThreshold times when a pass has just run, and at most once    *)
(* per iteration since. So TC-07's boost after AGING_THRESHOLD skips comes *)
(* before skip AgingThreshold + AgingPeriod, and no counter runs away.     *)
AgeBound ==
  LET iterations == IF dpc = "top" THEN agingTimer + 1 ELSE agingTimer
  IN  \A i \in DOMAIN pendingMessages :
        pendingMessages[i].priority # HIGH =>
          pendingMessages[i].agingCounter < AgingThreshold + iterations

-----------------------------------------------------------------------------
(* Scheduler.cpp:75 "gets its priority bumped up by one level": an aging   *)
(* pass never makes a message lose its place to a younger one.             *)
AgingNeverCostsAPlace ==
  [][KeepsItsPlace(pendingMessages, pendingMessages', AnyMessage)]_dispatcherVars
=============================================================================
