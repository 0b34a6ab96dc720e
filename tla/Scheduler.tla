----------------------------- MODULE Scheduler -----------------------------
(***************************************************************************)
(* The Scheduler: the vector of messages accepted by sendMessage() and not *)
(* yet picked by the dispatcher. Each operation holds schedulerMutex from  *)
(* its first to its last line, so each is one action. Here they come in    *)
(* any order; Dispatcher.tla adds the loop that calls two of them.         *)
(*                                                                         *)
(* agingEventCount and the log lines are left out: no code reads them.     *)
(***************************************************************************)
EXTENDS Message, Sequences, SequencesExt

CONSTANT AgingThreshold   (* Config::AGING_THRESHOLD *)

ASSUME ThresholdAssumption == AgingThreshold \in Nat \ {0}

(* A lag of AgingThreshold - 1 skips never outweighs a level (5 - 1 < 10). *)
ASSUME WeightCoversThreshold == AgingThreshold <= PriorityWeight + 1

VARIABLE pendingMessages  (* in the order of arrival *)

PendingEnvelopes == {m.envelope : m \in ToSet(pendingMessages)}

-----------------------------------------------------------------------------
AddMessage(m) == pendingMessages' = Append(pendingMessages, m)

(* Slip: >= instead of > in the scan.                                      *)
IsLastHighestIndex(s, best) ==
  \A i \in DOMAIN s : \/ Score(s[i]) < Score(s[best])
                      \/ Score(s[i]) = Score(s[best]) /\ i <= best

(* The scan keeps the first index it sees with the largest score.          *)
IsHighestPriorityIndex(s, best) ==
  \A i \in DOMAIN s : \/ Score(s[i]) < Score(s[best])
                      \/ Score(s[i]) = Score(s[best]) /\ best <= i

Skipped(m) == [m EXCEPT !.agingCounter = @ + 1]

(* Slip: the skip loop starts where the message was taken out.             *)
GetNextSkippingOnlyLater(best) ==
  /\ IsHighestPriorityIndex(pendingMessages, best)
  /\ LET rest == RemoveAt(pendingMessages, best)
     IN  pendingMessages' =
           [i \in DOMAIN rest |-> IF i >= best THEN Skipped(rest[i]) ELSE rest[i]]

(* Slip: the last message is moved into the gap instead of erase().        *)
GetNextBySwap(best) ==
  /\ IsHighestPriorityIndex(pendingMessages, best)
  /\ LET last == Len(pendingMessages)
         swapped == [pendingMessages EXCEPT ![best] = pendingMessages[last]]
     IN  pendingMessages' = [i \in 1 .. last - 1 |-> Skipped(swapped[i])]

(* Slip: the messages left behind are not marked as skipped.               *)
GetNextWithoutSkips(best) ==
  /\ IsHighestPriorityIndex(pendingMessages, best)
  /\ pendingMessages' = RemoveAt(pendingMessages, best)

(* Takes pendingMessages[best] out; every message left behind is skipped.  *)
(* On an empty vector the code returns false and changes nothing.          *)
GetNextMessage(best) ==
  /\ IsHighestPriorityIndex(pendingMessages, best)
  /\ LET rest == RemoveAt(pendingMessages, best)
     IN  pendingMessages' = [i \in DOMAIN rest |-> Skipped(rest[i])]

(* Slips: HIGH is boosted as well; HIGH is not boosted but its counter is  *)
(* reset; the counter survives the boost.                                  *)
AgedBeyondHigh(m) ==
  IF m.agingCounter >= AgingThreshold
  THEN [m EXCEPT !.priority = @ + 1, !.agingCounter = 0]
  ELSE m

AgedResettingHigh(m) ==
  IF m.agingCounter >= AgingThreshold
  THEN [m EXCEPT !.priority = IF @ = HIGH THEN HIGH ELSE @ + 1, !.agingCounter = 0]
  ELSE m

AgedWithoutReset(m) ==
  IF m.agingCounter >= AgingThreshold /\ m.priority # HIGH
  THEN [m EXCEPT !.priority = @ + 1]
  ELSE m

Aged(m) ==
  IF m.agingCounter >= AgingThreshold /\ m.priority # HIGH
  THEN [m EXCEPT !.priority = @ + 1, !.agingCounter = 0]
  ELSE m

ApplyAging ==
  pendingMessages' = [i \in DOMAIN pendingMessages |-> Aged(pendingMessages[i])]

-----------------------------------------------------------------------------
(* A sender may add a message at any time; two messages that wait together *)
(* never share an envelope.                                                *)
Send ==
  \E e \in Envelope \ PendingEnvelopes, p \in Priority :
    AddMessage(NewMessage(e, p))

Dispatch == \E best \in DOMAIN pendingMessages : GetNextMessage(best)

Init == pendingMessages = << >>

Next == Send \/ Dispatch \/ ApplyAging

Spec == Init /\ [][Next]_pendingMessages

(* The dispatcher thread keeps calling getNextMessage().                   *)
FairSpec == Spec /\ WF_pendingMessages(Dispatch)

-----------------------------------------------------------------------------
(* Every pending entry is a message, its priority never below the one its  *)
(* sender gave it, and no two entries are the same message.                *)
TypeOK ==
  /\ pendingMessages \in Seq(Message)
  /\ \A i \in DOMAIN pendingMessages :
       pendingMessages[i].priority >= pendingMessages[i].sentPriority
  /\ \A i, j \in DOMAIN pendingMessages :
       pendingMessages[i].envelope = pendingMessages[j].envelope => i = j

(* How a message a compares with a younger one b that was sent with the    *)
(* same priority: never a lower level; on the same level never fewer       *)
(* skips; and if it is a level or more up, b's counter leads by less than  *)
(* AgingThreshold, since b had not reached it when a was boosted.          *)
InOrder(a, b) ==
  /\ a.priority >= b.priority
  /\ a.priority = b.priority => a.agingCounter >= b.agingCounter
  /\ a.priority > b.priority => b.agingCounter < a.agingCounter + AgingThreshold

(* The inductive reason for the FIFO order below: boosts and resets, which *)
(* hit two messages at different passes, keep them InOrder.                *)
SentOrder ==
  \A i, j \in DOMAIN pendingMessages :
    /\ i < j
    /\ pendingMessages[i].sentPriority = pendingMessages[j].sentPriority
    => InOrder(pendingMessages[i], pendingMessages[j])

(* Per-priority FIFO. Skips, boosts and counter resets change the scores   *)
(* of two messages sent with the same priority at different moments, yet   *)
(* the one getNextMessage() takes is always the oldest of its sent         *)
(* priority.                                                               *)
OldestOfItsPriorityFirst ==
  \A best \in DOMAIN pendingMessages :
    IsHighestPriorityIndex(pendingMessages, best) =>
      \A i \in DOMAIN pendingMessages :
        pendingMessages[i].sentPriority = pendingMessages[best].sentPriority
          => best <= i

(* The ticket a sender would keep of its message.                          *)
TicketOf(m) == [envelope |-> m.envelope, sentPriority |-> m.sentPriority]

Lanes == INSTANCE PriorityLanes
           WITH waiting <- [i \in DOMAIN pendingMessages |-> TicketOf(pendingMessages[i])]

(* To its senders the scheduler is three FIFO lanes served in some order:  *)
(* no skip or boost loses, repeats or reorders a message in its lane.      *)
ImplementsLanes == Lanes!Spec

(* Message i waits before message j and is not outscored: i is picked first. *)
Ahead(s, i, j) == i < j /\ Score(s[i]) >= Score(s[j])

(* From s to t, no message that satisfies Held falls behind a younger      *)
(* message it was ahead of.                                                *)
KeepsItsPlace(s, t, Held(_)) ==
  \A i, j \in DOMAIN s, k, l \in DOMAIN t :
    /\ Held(s[i])
    /\ Ahead(s, i, j)
    /\ t[k].envelope = s[i].envelope
    /\ t[l].envelope = s[j].envelope
    => Ahead(t, k, l)

(* Whatever t has that s has not is behind the messages that satisfy Held. *)
NewcomersBehind(s, t, Held(_)) ==
  \A k, l \in DOMAIN t :
    Held(t[k]) /\ (\A j \in DOMAIN s : s[j].envelope # t[l].envelope)
      => k = l \/ Ahead(t, k, l)

IsHigh(m) == m.priority = HIGH
AnyMessage(m) == TRUE

(* The end of a message's wait: once a message is HIGH, neither a dispatch *)
(* nor an aging pass puts it behind a younger message it was ahead of, and *)
(* no message added later gets ahead of it. (An older one behind it may    *)
(* catch up, when a boost makes it HIGH too.)                              *)
HighKeepsItsPlace ==
  /\ KeepsItsPlace(pendingMessages, pendingMessages', IsHigh)
  /\ NewcomersBehind(pendingMessages, pendingMessages', IsHigh)

HighIsNeverOvertaken == [][HighKeepsItsPlace]_pendingMessages

(* Starvation freedom: every message that is added is picked, whatever     *)
(* arrives after it and whenever aging runs.                               *)
StarvationFree ==
  \A e \in Envelope :
    (e \in PendingEnvelopes) ~> (e \notin PendingEnvelopes)
=============================================================================
