----------------------------- MODULE Statistics -----------------------------
(***************************************************************************)
(* main()'s thread as a reader of the totals while the processes send: the *)
(* line it prints every second, or the panel with the loss rate that the   *)
(* window draws in every frame. Each read of an atomic is a step; nothing  *)
(* holds the counters still in between.                                    *)
(***************************************************************************)
EXTENDS Channel

CONSTANTS
  Proc,      (* the processes, which send while the readers read *)
  MaxSent    (* bound: they stop to send when so many were sent *)

ASSUME ProcAssumption == Proc \subseteq Sender /\ MaxSent \in Nat

VARIABLES
  build,     (* which program runs: "NO_GUI", "GUI" or "STRESS" *)
  reading,   (* what main() reads next *)
  shown,     (* the line or the panel's texts: the latest value of each *)
  order,     (* the loss rate's operands, in the order they are evaluated *)
  operand    (* their values *)

readerVars == <<build, reading, shown, order, operand>>
statisticsVars == <<channelVars, readerVars>>

-----------------------------------------------------------------------------
(* The processes and the dispatcher. What stopping them does is not looked *)
(* at here.                                                                *)
Traffic ==
  /\ \/ Deliver
     \/ \E p \in Proc : \/ totals.sent < MaxSent /\ Count(p)
                        \/ Drop(p) \/ HandOver(p)
  /\ UNCHANGED readerVars

Read(total, next) ==
  /\ reading = total
  /\ reading' = next
  /\ shown' = [shown EXCEPT ![total] = totals[total]]
  /\ UNCHANGED <<channelVars, build, order, operand>>

(* The chain of << and the three texts alike; then the next line, or the   *)
(* rest of the panel.                                                      *)
ShowTotals ==
  \/ Read("sent", "dropped")
  \/ Read("dropped", "delivered")
  \/ Read("delivered", IF build = "GUI" THEN "check" ELSE "sent")

(* Slip: the rate without the if.                                          *)
CheckNothing ==
  /\ reading = "check"
  /\ reading' = "first"
  /\ UNCHANGED <<channelVars, build, shown, order, operand>>

(* if (totalSent > 0)                                                      *)
CheckSent ==
  /\ reading = "check"
  /\ reading' = IF totals.sent > 0 THEN "first" ELSE "sent"
  /\ UNCHANGED <<channelVars, build, shown, order, operand>>

ReadOperand ==
  \/ /\ reading = "first"
     /\ reading' = "second"
     /\ operand' = [operand EXCEPT ![order[1]] = totals[order[1]]]
     /\ UNCHANGED <<channelVars, build, shown, order>>
  \/ /\ reading = "second"
     /\ reading' = "rate"
     /\ operand' = [operand EXCEPT ![order[2]] = totals[order[2]]]
     /\ UNCHANGED <<channelVars, build, shown, order>>

(* 100 * dropped / sent is shown, and the frame is done.                   *)
ShowRate ==
  /\ reading = "rate"
  /\ reading' = "sent"
  /\ UNCHANGED <<channelVars, build, shown, order, operand>>

Show ==
  /\ build # "STRESS"
  /\ ShowTotals \/ CheckSent \/ ReadOperand \/ ShowRate

(* C++ leaves the order of the operands of / to the compiler. Without the  *)
(* window there is no panel.                                               *)
Orders == IF build = "GUI" THEN {<<"dropped", "sent">>, <<"sent", "dropped">>} ELSE {<< >>}

StatisticsInit ==
  /\ Init
  /\ build \in {"NO_GUI", "GUI", "STRESS"}
  /\ reading = "sent"
  /\ shown = [sent |-> 0, dropped |-> 0, delivered |-> 0]
  /\ order \in Orders
  /\ operand = [sent |-> 0, dropped |-> 0]

-----------------------------------------------------------------------------
(* The three values of a line are not of one moment, and its Dropped and   *)
(* Delivered may add up to more than its Sent; but the next line's Sent,   *)
(* read after all of them, accounts for every message they counted.        *)
NextLineCatchesUp ==
  reading = "dropped" => shown.dropped + shown.delivered <= shown.sent

(* The panel tests one reading of totalSent and divides by another: the    *)
(* divisor is never 0 all the same.                                        *)
RateIsDefined == reading = "rate" => operand.sent > 0

(* Nor does the panel show a loss of more than all messages, provided the  *)
(* compiler reads the numerator first.                                     *)
LossRateIsAtMostAll ==
  reading = "rate" /\ order = <<"dropped", "sent">> => operand.dropped <= operand.sent
=============================================================================
