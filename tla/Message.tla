------------------------------ MODULE Message ------------------------------
(***************************************************************************)
(* The Message struct, its priorities and its two orders: the comparator   *)
(* an inbox is sorted by and the score the scheduler compares.             *)
(***************************************************************************)
EXTENDS Naturals

CONSTANTS
  Envelope,        (* what no ordering code reads: messageID, sender,      *)
                   (* receiver, text and timestamp. Unique per message,    *)
                   (* as generateMessageID() makes it.                     *)
  PriorityWeight   (* the literal 10 of findHighestPriorityIndex()         *)

ASSUME WeightAssumption == PriorityWeight \in Nat

LOW    == 1
MEDIUM == 2
HIGH   == 3

Priority == {LOW, MEDIUM, HIGH}

(* sentPriority is a history field: the priority given by the sender,      *)
(* which aging leaves alone.                                               *)
Message == [envelope     : Envelope,
            sentPriority : Priority,
            priority     : Priority,
            agingCounter : Nat]

(* The five-argument constructor: a new message has been skipped 0 times.  *)
NewMessage(e, p) ==
  [envelope |-> e, sentPriority |-> p, priority |-> p, agingCounter |-> 0]

(* std::priority_queue's "a sorts below b".                                *)
MessageComparator(a, b) ==
  \/ a.priority < b.priority
  \/ a.priority = b.priority /\ a.agingCounter < b.agingCounter

(* bestScore and currScore of the scheduler's scan.                        *)
Score(m) == m.priority * PriorityWeight + m.agingCounter
=============================================================================
