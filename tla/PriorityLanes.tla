--------------------------- MODULE PriorityLanes ---------------------------
(***************************************************************************)
(* What the Scheduler promises a sender, with scores, skips and aging out  *)
(* of sight: messages wait in arrival order, the next one served is the    *)
(* oldest of some sent priority, and a message served is gone. A message   *)
(* is never lost, duplicated or overtaken within its own lane.             *)
(***************************************************************************)
EXTENDS Naturals, Sequences, SequencesExt

CONSTANTS Envelope, Priority

VARIABLE waiting   (* in the order of arrival *)

Ticket == [envelope : Envelope, sentPriority : Priority]

Arrive(t) ==
  /\ \A i \in DOMAIN waiting : waiting[i].envelope # t.envelope
  /\ waiting' = Append(waiting, t)

Serve(i) ==
  /\ \A j \in DOMAIN waiting :
       waiting[j].sentPriority = waiting[i].sentPriority => i <= j
  /\ waiting' = RemoveAt(waiting, i)

Init == waiting = << >>

Next ==
  \/ \E t \in Ticket : Arrive(t)
  \/ \E i \in DOMAIN waiting : Serve(i)

Spec == Init /\ [][Next]_waiting
=============================================================================
