--------------------------- MODULE MCMessageQueue ---------------------------
(* One inbox and three receiving threads.                                  *)
EXTENDS MessageQueue

CONSTANTS e1, e2, e3, e4, t1, t2, t3

FourEnvelopes == {e1, e2, e3, e4}
ThreeThreads  == {t1, t2, t3}
=============================================================================
