------------------------------ MODULE MCLocks ------------------------------
(* Two processes, the dispatcher and main().                               *)
EXTENDS Locks, TLC

CONSTANTS P1, P2

TwoProcesses == {P1, P2}
Symmetry == Permutations(TwoProcesses)
=============================================================================
