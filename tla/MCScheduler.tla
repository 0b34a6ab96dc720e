---------------------------- MODULE MCScheduler ----------------------------
(* The Scheduler with at most four waiting messages and an endless supply  *)
(* of new ones. Smaller weights than the code's, so that with four a HIGH  *)
(* message reaches the threshold too.                                      *)
EXTENDS Scheduler

CONSTANTS e1, e2, e3, e4

FourEnvelopes == {e1, e2, e3, e4}
=============================================================================
