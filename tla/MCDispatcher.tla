---------------------------- MODULE MCDispatcher ----------------------------
(* The dispatch loop with at most three waiting messages.                  *)
EXTENDS Dispatcher

CONSTANTS e1, e2, e3

ThreeEnvelopes == {e1, e2, e3}
Symmetry == Permutations(ThreeEnvelopes)
=============================================================================
