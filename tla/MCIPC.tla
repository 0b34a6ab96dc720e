------------------------------- MODULE MCIPC -------------------------------
(* Two processes and a few messages. Smaller weights than the code's, so   *)
(* that boosts and overtaking happen within so few.                        *)
EXTENDS IPC, TLC

CONSTANTS P1, P2

TwoProcesses == {P1, P2}
Symmetry == Permutations(TwoProcesses)

(* main() stops the threads only when every message has come to its end:   *)
(* room for one more message. Simulation.tla stops them anywhere.          *)
HaltAtRest ==
  /\ nextMessageID > MaxMessages
  /\ Drafts \cup Pending \cup Routed \cup Queued \cup Received = {}
  /\ Halt

SteadyNext == Launch \/ HaltAtRest \/ DispatchLoop \/ \E p \in Proc : Run(p)

SteadySpec == Init /\ [][SteadyNext]_vars
=============================================================================
