------------------------------ MODULE Channel ------------------------------
(***************************************************************************)
(* What the three totals of an IPCManager do while threads send and the    *)
(* dispatcher delivers: all that somebody can count on who reads them and  *)
(* nothing else. Messages are only counted. IPC.tla implements this, and   *)
(* Statistics.tla has the readers.                                         *)
(***************************************************************************)
EXTENDS Naturals, FiniteSets

CONSTANT Sender   (* the threads that call sendMessage() *)

ASSUME SenderAssumption == IsFiniteSet(Sender)

VARIABLES
  inChannel,   (* who has counted its message and not drawn its fate yet *)
  totals,      (* totalSent, totalDropped, totalDelivered *)
  accepted     (* how many messages the scheduler was given *)

channelVars == <<inChannel, totals, accepted>>

Count(s) ==
  /\ s \notin inChannel
  /\ inChannel' = inChannel \cup {s}
  /\ totals' = [totals EXCEPT !.sent = @ + 1]
  /\ UNCHANGED accepted

(* Slip: a message that is dropped was not sent.                           *)
DropTakesBack(s) ==
  /\ s \in inChannel
  /\ inChannel' = inChannel \ {s}
  /\ totals' = [totals EXCEPT !.dropped = @ + 1, !.sent = @ - 1]
  /\ UNCHANGED accepted

Drop(s) ==
  /\ s \in inChannel
  /\ inChannel' = inChannel \ {s}
  /\ totals' = [totals EXCEPT !.dropped = @ + 1]
  /\ UNCHANGED accepted

HandOver(s) ==
  /\ s \in inChannel
  /\ inChannel' = inChannel \ {s}
  /\ accepted' = accepted + 1
  /\ UNCHANGED totals

(* Slip: the loop counts without asking whether it found a message.        *)
DeliverNothing ==
  /\ totals' = [totals EXCEPT !.delivered = @ + 1]
  /\ UNCHANGED <<inChannel, accepted>>

(* In any order, some never: an inbox may refuse a message.                *)
Deliver ==
  /\ totals.delivered < accepted
  /\ totals' = [totals EXCEPT !.delivered = @ + 1]
  /\ UNCHANGED <<inChannel, accepted>>

Init ==
  /\ inChannel = {}
  /\ totals = [sent |-> 0, dropped |-> 0, delivered |-> 0]
  /\ accepted = 0

Next == Deliver \/ \E s \in Sender : Count(s) \/ Drop(s) \/ HandOver(s)

Spec == Init /\ [][Next]_channelVars

-----------------------------------------------------------------------------
(* At every moment, whoever is between totalSent++ and the next counter:   *)
(* what was sent was dropped, accepted or is in the channel, and no more   *)
(* is delivered than was accepted.                                         *)
Conserved ==
  /\ totals.sent = totals.dropped + accepted + Cardinality(inChannel)
  /\ totals.delivered <= accepted
=============================================================================
