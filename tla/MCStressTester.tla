--------------------------- MODULE MCStressTester ---------------------------
(* main()'s thread in all three programs: two processes send while it      *)
(* reads the totals or runs the tests, with two threads in test 5.         *)
EXTENDS StressTester

CONSTANTS P1, P2, T1, T2

Processes == {P1, P2}
TwoThreads == {T1, T2}
AllSenders == Processes \cup TwoThreads \cup {Main}
MessageIDs == 1 .. 200
=============================================================================
