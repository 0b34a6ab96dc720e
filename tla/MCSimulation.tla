---------------------------- MODULE MCSimulation ----------------------------
(* main() with two processes and one or two messages.                      *)
EXTENDS Simulation, TLC

CONSTANTS P1, P2, T1

TwoProcesses == {P1, P2}
OneTester == {T1}
Symmetry == Permutations(TwoProcesses)
=============================================================================
