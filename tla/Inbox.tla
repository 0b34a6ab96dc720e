------------------------------- MODULE Inbox -------------------------------
(***************************************************************************)
(* The std::priority_queue inside a MessageQueue, as the set of messages   *)
(* it holds: which message top() may be, and when the queue is full.       *)
(***************************************************************************)
EXTENDS Message, FiniteSets

CONSTANT MaxQueueSize   (* Config::MAX_QUEUE_SIZE *)

ASSUME QueueSizeAssumption == MaxQueueSize \in Nat \ {0}

(* Slip: > instead of >=.                                                  *)
IsOverfull(q) == Cardinality(q) > MaxQueueSize

IsFull(q) == Cardinality(q) >= MaxQueueSize

(* Of several messages that none sorts above, std::priority_queue leaves   *)
(* open which one is on top.                                               *)
IsTop(q, m) == m \in q /\ \A n \in q : ~MessageComparator(m, n)
=============================================================================
