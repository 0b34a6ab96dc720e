------------------------- MODULE IPCCountersProofs -------------------------
(* The counters of the manager, the logger and the processes: that they    *)
(* agree, and that to their readers all the threads are one Channel. A     *)
(* number of the story is a definition of its own, and what a step does to *)
(* each is a lemma, so that the sums are left to plain arithmetic.         *)
EXTENDS IPCProofs

-----------------------------------------------------------------------------
(* Sums over the processes.                                                *)
Pairs(f) == UNION {{p} \X (1 .. f[p]) : p \in Proc}

LEMMA TotalIs == \A f : Total(f) = Cardinality(Pairs(f))
BY DEF Total, Pairs

LEMMA PairsAre ==
  \A f : \A x : x \in Pairs(f) <=> \E p \in Proc : \E k \in 1 .. f[p] : x = <<p, k>>
BY DEF Pairs

LEMMA TotalNat ==
  ASSUME NEW f \in [Proc -> Nat]
  PROVE  IsFiniteSet(Pairs(f)) /\ Total(f) \in Nat
<1> DEFINE g == [p \in Proc |-> {p} \X (1 .. f[p])]
<1>1. IsFiniteSet({g[p] : p \in Proc})
  <2> HIDE DEF g
  <2> QED
    BY ProcAssumption, FiniteRange
<1>2. ASSUME NEW p \in Proc
      PROVE  IsFiniteSet({p} \X (1 .. f[p]))
  <2>1. IsFiniteSet({p})
    BY FS_Singleton
  <2>2. f[p] \in Int /\ 1 \in Int
    OBVIOUS
  <2>3. IsFiniteSet(1 .. f[p])
    BY <2>2, FS_Interval
  <2> QED
    BY <2>1, <2>3, FS_Product
<1>3. Pairs(f) = UNION {g[p] : p \in Proc}
  BY DEF Pairs
<1>4. \A T \in {g[p] : p \in Proc} : IsFiniteSet(T)
  BY <1>2
<1>5. IsFiniteSet(Pairs(f))
  BY <1>1, <1>3, <1>4, FS_UNION
<1> QED
  BY <1>5, FS_CardinalityType, TotalIs

LEMMA TotalZero ==
  ASSUME NEW f \in [Proc -> {0}]
  PROVE  Total(f) = 0
<1>1. \A p \in Proc : 1 .. f[p] = {}
  OBVIOUS
<1>2. Pairs(f) = {}
  BY <1>1, PairsAre
<1> QED
  BY <1>2, FS_EmptySet, TotalIs

(* One more for one process is one more in the sum.                        *)
LEMMA TotalMore ==
  ASSUME NEW f \in [Proc -> Nat], NEW g \in [Proc -> Nat], NEW p \in Proc, g[p] = f[p] + 1,
         \A q \in Proc \ {p} : g[q] = f[q]
  PROVE  Total(g) = Total(f) + 1 /\ Total(f) \in Nat /\ Total(g) \in Nat
<1> DEFINE x == <<p, f[p] + 1>>
<1>1. x \notin Pairs(f)
  BY PairsAre
<1>2. Pairs(g) = Pairs(f) \cup {x}
  <2>1. ASSUME NEW y \in Pairs(g)
        PROVE  y \in Pairs(f) \cup {x}
    <3>1. PICK q \in Proc : \E k \in 1 .. g[q] : y = <<q, k>>
      BY PairsAre
    <3>2. PICK k \in 1 .. g[q] : y = <<q, k>>
      BY <3>1
    <3>3. CASE q = p /\ k = f[p] + 1
      BY <3>2, <3>3
    <3>4. CASE q # p \/ k # f[p] + 1
      <4>1. k \in 1 .. f[q]
        BY <3>4
      <4> QED
        BY <3>2, <4>1, PairsAre
    <3> QED
      BY <3>3, <3>4
  <2>2. ASSUME NEW y \in Pairs(f)
        PROVE  y \in Pairs(g)
    <3>1. PICK q \in Proc : \E k \in 1 .. f[q] : y = <<q, k>>
      BY PairsAre
    <3>2. PICK k \in 1 .. f[q] : y = <<q, k>>
      BY <3>1
    <3>3. k \in 1 .. g[q]
      OBVIOUS
    <3> QED
      BY <3>2, <3>3, PairsAre
  <2>3. x \in Pairs(g)
    BY PairsAre
  <2> QED
    BY <2>1, <2>2, <2>3
<1> HIDE DEF x
<1>3. IsFiniteSet(Pairs(f)) /\ Total(f) \in Nat /\ Total(g) \in Nat
  BY TotalNat
<1> QED
  BY <1>1, <1>2, <1>3, OneMore, TotalIs

-----------------------------------------------------------------------------
(* The numbers that the counters are compared with.                        *)
SentNotCounted == {p \in At("send") : call[p].at # "count"}

Arrived == [p \in Proc |-> Cardinality(messageQueue[p]) + process[p].receivedCount]
SentBy  == [p \in Proc |-> process[p].sentCount]

InChannel == Cardinality(Calling("channel"))
ToLogDrop == Cardinality(Calling("logDropped"))
ToLogSent == Cardinality(Calling("logSent") \cup Calling("channel"))
InHands   == Cardinality(At("count"))
Sending   == Cardinality(SentNotCounted)

LEMMA SetsFinite ==
  ASSUME TypeInv, QueueInv
  PROVE  /\ \A a : IsFiniteSet(Calling(a))
         /\ IsFiniteSet(Calling("logSent") \cup Calling("channel"))
         /\ \A a : IsFiniteSet(At(a))
         /\ IsFiniteSet(SentNotCounted)
         /\ IsFiniteSet(refused)
<1>1. \A a : IsFiniteSet(Calling(a))
  BY SenderFinite DEF Calling
<1>2. IsFiniteSet(Calling("logSent") \cup Calling("channel"))
  BY SenderFinite DEF Calling
<1>3. \A a : IsFiniteSet(At(a))
  BY ProcFinite DEF At
<1>4. IsFiniteSet(SentNotCounted)
  BY ProcFinite DEF At, SentNotCounted
<1>5. IsFiniteSet(refused)
  <2>1. IsFiniteSet(1 .. MaxMessages)
    BY ConfigAssumption, FS_Interval
  <2> QED
    BY <2>1, FS_Subset DEF TypeInv, CountersType
<1> QED
  BY <1>1, <1>2, <1>3, <1>4, <1>5

LEMMA SizesAreNat ==
  ASSUME TypeInv, QueueInv
  PROVE  /\ InChannel \in Nat /\ ToLogDrop \in Nat /\ ToLogSent \in Nat
         /\ InHands \in Nat /\ Sending \in Nat /\ Cardinality(refused) \in Nat
         /\ Arrived \in [Proc -> Nat] /\ Total(Arrived) \in Nat
         /\ SentBy \in [Proc -> Nat] /\ Total(SentBy) \in Nat
         /\ Len(pendingMessages) \in Nat
         /\ totals \in [sent : Nat, dropped : Nat, delivered : Nat]
         /\ logged \in [sent : Nat, dropped : Nat, received : Nat]
<1>1. /\ InChannel \in Nat /\ ToLogDrop \in Nat /\ ToLogSent \in Nat
      /\ InHands \in Nat /\ Sending \in Nat /\ Cardinality(refused) \in Nat
  BY SetsFinite, FS_CardinalityType DEF InChannel, ToLogDrop, ToLogSent, InHands, Sending
<1>2. Arrived \in [Proc -> Nat]
  <2>1. \A p \in Proc : Cardinality(messageQueue[p]) \in Nat
    BY FS_CardinalityType DEF QueueInv
  <2>2. \A p \in Proc : process[p].receivedCount \in Nat
    BY DEF TypeInv, ProcessesType, ProcessType
  <2> QED
    BY <2>1, <2>2 DEF Arrived
<1>3. SentBy \in [Proc -> Nat]
  BY DEF TypeInv, ProcessesType, ProcessType, SentBy
<1>4. Len(pendingMessages) \in Nat
  BY DEF TypeInv, PendingType
<1> QED
  BY <1>1, <1>2, <1>3, <1>4, TotalNat DEF TypeInv, CountersType

(* A sender goes from one place in sendMessage() to another.               *)
CallGoes(s, c) == call' = [call EXCEPT ![s] = c]

LEMMA CallingStep ==
  ASSUME TypeInv, NEW s \in Sender, NEW c, CallGoes(s, c)
  PROVE  /\ \A a : s \in Calling(a) <=> a = call[s].at
         /\ c.at = "channel" => Calling("channel")' = Calling("channel") \cup {s}
         /\ c.at # "channel" => Calling("channel")' = Calling("channel") \ {s}
         /\ c.at # "channel" /\ call[s].at # "channel" => Calling("channel")' = Calling("channel")
         /\ c.at = "logSent" => Calling("logSent")' = Calling("logSent") \cup {s}
         /\ c.at # "logSent" => Calling("logSent")' = Calling("logSent") \ {s}
         /\ c.at # "logSent" /\ call[s].at # "logSent" => Calling("logSent")' = Calling("logSent")
         /\ c.at = "logDropped" => Calling("logDropped")' = Calling("logDropped") \cup {s}
         /\ c.at # "logDropped" => Calling("logDropped")' = Calling("logDropped") \ {s}
         /\ c.at # "logDropped" /\ call[s].at # "logDropped" =>
              Calling("logDropped")' = Calling("logDropped")
<1>1. /\ \A t \in Sender \ {s} : call'[t] = call[t]
      /\ call'[s] = c
  BY DEF TypeInv, CallsType, CallGoes
<1>2. \A a : s \in Calling(a) <=> a = call[s].at
  BY DEF Calling
<1>3. /\ c.at = "channel" => Calling("channel")' = Calling("channel") \cup {s}
      /\ c.at # "channel" => Calling("channel")' = Calling("channel") \ {s}
  BY <1>1 DEF Calling
<1>4. /\ c.at = "logSent" => Calling("logSent")' = Calling("logSent") \cup {s}
      /\ c.at # "logSent" => Calling("logSent")' = Calling("logSent") \ {s}
  BY <1>1 DEF Calling
<1>5. /\ c.at = "logDropped" => Calling("logDropped")' = Calling("logDropped") \cup {s}
      /\ c.at # "logDropped" => Calling("logDropped")' = Calling("logDropped") \ {s}
  BY <1>1 DEF Calling
<1> QED
  BY <1>2, <1>3, <1>4, <1>5

(* The same for a process and its run().                                   *)
ProcessGoes(p, c) == process' = [process EXCEPT ![p] = c]

LEMMA AtStep ==
  ASSUME TypeInv, NEW p \in Proc, NEW c, ProcessGoes(p, c)
  PROVE  /\ \A a : p \in At(a) <=> a = process[p].pc
         /\ At("count")' = IF c.pc = "count" THEN At("count") \cup {p} ELSE At("count") \ {p}
BY DEF TypeInv, ProcessesType, At, ProcessGoes

LEMMA CountSentSizes ==
  ASSUME TypeInv, QueueInv, NEW s \in Sender, CountSent(s)
  PROVE  /\ InChannel' = InChannel + 1 /\ ToLogDrop' = ToLogDrop /\ ToLogSent' = ToLogSent + 1
         /\ Tester = {} => Sending' = Sending + 1
<1> DEFINE c == [call[s] EXCEPT !.at = "channel"]
<1>1. call[s].at = "count" /\ CallGoes(s, c) /\ c.at = "channel"
  BY DEF CallGoes, CountSent, TypeInv, CallsType, CallType
<1> HIDE DEF c
<1>2. /\ s \notin Calling("channel") /\ Calling("channel")' = Calling("channel") \cup {s}
      /\ s \notin Calling("logSent") /\ Calling("logSent")' = Calling("logSent")
      /\ Calling("logDropped")' = Calling("logDropped")
  BY <1>1, CallingStep
<1>3. InChannel' = InChannel + 1
  BY <1>2, SetsFinite, OneMore DEF InChannel
<1>4. ToLogDrop' = ToLogDrop
  BY <1>2 DEF ToLogDrop
<1>5. ToLogSent' = ToLogSent + 1
  <2> DEFINE U == Calling("logSent") \cup Calling("channel")
  <2>1. U' = U \cup {s} /\ s \notin U /\ IsFiniteSet(U)
    BY <1>2, SetsFinite
  <2>2. ToLogSent = Cardinality(U) /\ ToLogSent' = Cardinality(U')
    BY DEF ToLogSent
  <2> HIDE DEF U
  <2> QED
    BY <2>1, <2>2, OneMore
<1>6. ASSUME Tester = {}
      PROVE  Sending' = Sending + 1
  <2>1. s \in Proc /\ process[s].pc = "send"
    BY <1>1, <1>6 DEF Sender, TypeInv, ProcessesType
  <2>2. process' = process
    BY DEF CountSent, processVars
  <2>3. \A p \in Proc \ {s} : call'[p] = call[p]
    BY <1>1 DEF CallGoes, TypeInv, CallsType
  <2>4. call'[s].at = "channel"
    BY <1>1 DEF CallGoes, TypeInv, CallsType
  <2>5. s \notin SentNotCounted /\ SentNotCounted' = SentNotCounted \cup {s}
    BY <1>1, <2>1, <2>2, <2>3, <2>4 DEF SentNotCounted, At
  <2> QED
    BY <2>5, SetsFinite, OneMore DEF Sending
<1> QED
  BY <1>3, <1>4, <1>5, <1>6

(* From the channel on nothing changes for the count of sends.             *)
LEMMA SendingStays ==
  ASSUME TypeInv, NEW s \in Sender, NEW c, CallGoes(s, c),
         process' = process, c.at # "count", call[s].at # "count"
  PROVE  Sending' = Sending
<1>1. /\ \A p \in Proc \ {s} : call'[p] = call[p]
      /\ call'[s].at # "count"
  BY DEF CallGoes, TypeInv, CallsType
<1>2. SentNotCounted' = SentNotCounted
  BY <1>1 DEF SentNotCounted, At
<1> QED
  BY <1>2 DEF Sending

LEMMA DropSizes ==
  ASSUME TypeInv, QueueInv, NEW s \in Sender, Drop(s)
  PROVE  /\ InChannel' = InChannel - 1 /\ ToLogDrop' = ToLogDrop + 1
         /\ ToLogSent' = ToLogSent - 1 /\ Sending' = Sending
<1> DEFINE c == [at |-> "logDropped", draft |-> NoMessage]
<1>1. call[s].at = "channel" /\ CallGoes(s, c) /\ c.at = "logDropped"
  BY DEF CallGoes, Drop
<1> HIDE DEF c
<1>2. /\ s \in Calling("channel") /\ Calling("channel")' = Calling("channel") \ {s}
      /\ s \notin Calling("logSent") /\ Calling("logSent")' = Calling("logSent")
      /\ s \notin Calling("logDropped")
      /\ Calling("logDropped")' = Calling("logDropped") \cup {s}
  BY <1>1, CallingStep
<1>3. InChannel' = InChannel - 1
  BY <1>2, SetsFinite, OneLess DEF InChannel
<1>4. ToLogDrop' = ToLogDrop + 1
  BY <1>2, SetsFinite, OneMore DEF ToLogDrop
<1>5. ToLogSent' = ToLogSent - 1
  <2> DEFINE U == Calling("logSent") \cup Calling("channel")
  <2>1. U' = U \ {s} /\ s \in U /\ IsFiniteSet(U)
    BY <1>2, SetsFinite
  <2>2. ToLogSent = Cardinality(U) /\ ToLogSent' = Cardinality(U')
    BY DEF ToLogSent
  <2> HIDE DEF U
  <2> QED
    BY <2>1, <2>2, OneLess
<1>6. Sending' = Sending
  BY <1>1, SendingStays DEF Drop, processVars
<1> QED
  BY <1>3, <1>4, <1>5, <1>6

LEMMA HandOverSizes ==
  ASSUME TypeInv, QueueInv, NEW s \in Sender, HandOver(s)
  PROVE  /\ InChannel' = InChannel - 1 /\ ToLogDrop' = ToLogDrop
         /\ ToLogSent' = ToLogSent /\ Sending' = Sending
         /\ Len(pendingMessages') = Len(pendingMessages) + 1
<1> DEFINE c == [at |-> "logSent", draft |-> NoMessage]
<1>1. call[s].at = "channel" /\ CallGoes(s, c) /\ c.at = "logSent"
  BY DEF CallGoes, HandOver
<1> HIDE DEF c
<1>2. /\ s \in Calling("channel") /\ Calling("channel")' = Calling("channel") \ {s}
      /\ Calling("logSent")' = Calling("logSent") \cup {s}
      /\ Calling("logDropped")' = Calling("logDropped")
  BY <1>1, CallingStep
<1>3. InChannel' = InChannel - 1
  BY <1>2, SetsFinite, OneLess DEF InChannel
<1>4. ToLogDrop' = ToLogDrop
  BY <1>2 DEF ToLogDrop
<1>5. ToLogSent' = ToLogSent
  <2>1. (Calling("logSent") \cup Calling("channel"))' = Calling("logSent") \cup Calling("channel")
    BY <1>2
  <2> QED
    BY <2>1 DEF ToLogSent
<1>6. Sending' = Sending
  BY <1>1, SendingStays DEF HandOver, processVars
<1>7. Len(pendingMessages') = Len(pendingMessages) + 1
  BY DEF HandOver, Sched!AddMessage, TypeInv, PendingType
<1> QED
  BY <1>3, <1>4, <1>5, <1>6, <1>7

LEMMA LogSendSizes ==
  ASSUME TypeInv, QueueInv, NEW s \in Sender, LogSend(s)
  PROVE  /\ InChannel' = InChannel /\ Sending' = Sending
         /\ call[s].at = "logSent" => ToLogDrop' = ToLogDrop /\ ToLogSent' = ToLogSent - 1
         /\ call[s].at = "logDropped" => ToLogDrop' = ToLogDrop - 1 /\ ToLogSent' = ToLogSent
         /\ call[s].at \in {"logSent", "logDropped"}
<1>1. CallGoes(s, Returned) /\ Returned.at = "none" /\ process' = process
      /\ call[s].at \in {"logSent", "logDropped"}
  BY DEF CallGoes, LogSend, Returned, processVars
<1>2. Sending' = Sending
  BY <1>1, SendingStays
<1>3. InChannel' = InChannel
  BY <1>1, CallingStep DEF InChannel
<1>4. ASSUME call[s].at = "logSent"
      PROVE  ToLogDrop' = ToLogDrop /\ ToLogSent' = ToLogSent - 1
  <2>1. /\ Calling("logDropped")' = Calling("logDropped")
        /\ s \notin Calling("channel") /\ Calling("channel")' = Calling("channel")
        /\ s \in Calling("logSent") /\ Calling("logSent")' = Calling("logSent") \ {s}
    BY <1>1, <1>4, CallingStep
  <2> DEFINE U == Calling("logSent") \cup Calling("channel")
  <2>2. U' = U \ {s} /\ s \in U /\ IsFiniteSet(U)
    BY <2>1, SetsFinite
  <2>3. ToLogSent = Cardinality(U) /\ ToLogSent' = Cardinality(U')
    BY DEF ToLogSent
  <2> HIDE DEF U
  <2>4. ToLogSent' = ToLogSent - 1
    BY <2>2, <2>3, OneLess
  <2> QED
    BY <2>1, <2>4 DEF ToLogDrop
<1>5. ASSUME call[s].at = "logDropped"
      PROVE  ToLogDrop' = ToLogDrop - 1 /\ ToLogSent' = ToLogSent
  <2>1. /\ s \in Calling("logDropped")
        /\ Calling("logDropped")' = Calling("logDropped") \ {s}
        /\ Calling("channel")' = Calling("channel") /\ Calling("logSent")' = Calling("logSent")
    <3>1. s \in Calling("logDropped") /\ s \notin Calling("channel") /\ s \notin Calling("logSent")
      BY <1>1, <1>5, CallingStep
    <3>2. /\ Calling("logDropped")' = Calling("logDropped") \ {s}
          /\ Calling("channel")' = Calling("channel") \ {s}
          /\ Calling("logSent")' = Calling("logSent") \ {s}
      BY <1>1, CallingStep
    <3> QED
      BY <3>1, <3>2
  <2>2. ToLogDrop' = ToLogDrop - 1
    BY <2>1, SetsFinite, OneLess DEF ToLogDrop
  <2> QED
    BY <2>1, <2>2 DEF ToLogSent
<1> QED
  BY <1>1, <1>2, <1>3, <1>4, <1>5

LEMMA BuildSizes ==
  ASSUME TypeInv, NEW s \in Sender, NEW from, NEW to, NEW prio, CallSendMessage(s, from, to, prio)
  PROVE  InChannel' = InChannel /\ ToLogDrop' = ToLogDrop /\ ToLogSent' = ToLogSent
<1> DEFINE e == [messageID |-> nextMessageID, senderID |-> from, receiverID |-> to]
           c == [at |-> "count", draft |-> Sched!NewMessage(e, prio)]
<1>1. call[s].at = "none" /\ CallGoes(s, c) /\ c.at = "count"
  BY DEF CallGoes, CallSendMessage
<1> HIDE DEF c
<1>2. /\ Calling("channel")' = Calling("channel") /\ Calling("logSent")' = Calling("logSent")
      /\ Calling("logDropped")' = Calling("logDropped")
  BY <1>1, CallingStep
<1> QED
  BY <1>2 DEF InChannel, ToLogDrop, ToLogSent

(* A step of run() that counts nothing leaves the sums alone.              *)
QuietStep(p, to) ==
  /\ ProcessGoes(p, to)
  /\ to.sentCount = process[p].sentCount /\ to.receivedCount = process[p].receivedCount
  /\ to.pc # "count" /\ process[p].pc # "count"

LEMMA QuietSizes ==
  ASSUME TypeInv, NEW p \in Proc, NEW to, QuietStep(p, to)
  PROVE  /\ InHands' = InHands /\ SentBy' = SentBy
         /\ messageQueue' = messageQueue => Arrived' = Arrived
<1>1. /\ process \in [Proc -> ProcessType] /\ process' = [process EXCEPT ![p] = to]
      /\ to.sentCount = process[p].sentCount /\ to.receivedCount = process[p].receivedCount
  BY DEF TypeInv, ProcessesType, QuietStep, ProcessGoes
<1>2. At("count")' = At("count")
  <2>1. p \notin At("count") /\ At("count")' = At("count") \ {p}
    BY AtStep DEF QuietStep
  <2> QED
    BY <2>1
<1>3. SentBy' = SentBy
  BY <1>1 DEF SentBy
<1>4. messageQueue' = messageQueue => Arrived' = Arrived
  BY <1>1 DEF Arrived
<1> QED
  BY <1>2, <1>3, <1>4 DEF InHands

LEMMA SentNotCountedStays ==
  ASSUME TypeInv, NEW p \in Proc, NEW to, ProcessGoes(p, to),
         \A q \in Proc \ {p} : call'[q] = call[q],
         \/ call' = call /\ to.pc # "send" /\ process[p].pc # "send"
         \/ call'[p].at = "count" /\ process[p].pc # "send"
  PROVE  Sending' = Sending
<1>1. process \in [Proc -> ProcessType] /\ process' = [process EXCEPT ![p] = to]
  BY DEF TypeInv, ProcessesType, ProcessGoes
<1>2. SentNotCounted' = SentNotCounted
  BY <1>1 DEF SentNotCounted, At
<1> QED
  BY <1>2 DEF Sending

LEMMA CountSendSizes ==
  ASSUME TypeInv, QueueInv, NEW p \in Proc, CountSend(p)
  PROVE  /\ InHands' = InHands /\ Sending' = Sending - 1 /\ Arrived' = Arrived
         /\ Total(SentBy') = Total(SentBy) + 1
<1> DEFINE to == [process[p] EXCEPT !.pc = "receive", !.sentCount = @ + 1]
<1>1. /\ process \in [Proc -> ProcessType] /\ process' = [process EXCEPT ![p] = to]
      /\ process[p].pc = "send" /\ call[p].at = "none" /\ UNCHANGED <<call, messageQueue>>
  BY DEF TypeInv, ProcessesType, CountSend, RunStep
<1>2. /\ to.pc = "receive" /\ to.receivedCount = process[p].receivedCount
      /\ to.sentCount = process[p].sentCount + 1 /\ process[p].sentCount \in Nat
  BY <1>1 DEF ProcessType
<1>3. ProcessGoes(p, to)
  BY <1>1 DEF ProcessGoes
<1> HIDE DEF to
<1>4. InHands' = InHands
  <2>1. p \notin At("count") /\ At("count")' = At("count") \ {p}
    BY <1>1, <1>2, <1>3, AtStep
  <2> QED
    BY <2>1 DEF InHands
<1>5. Sending' = Sending - 1
  <2>1. p \in SentNotCounted /\ SentNotCounted' = SentNotCounted \ {p}
    BY <1>1, <1>2 DEF SentNotCounted, At
  <2> QED
    BY <2>1, SetsFinite, OneLess DEF Sending
<1>6. Arrived' = Arrived
  BY <1>1, <1>2 DEF Arrived
<1>7. Total(SentBy') = Total(SentBy) + 1
  <2> DEFINE g == SentBy'
  <2>1. g[p] = SentBy[p] + 1 /\ \A q \in Proc \ {p} : g[q] = SentBy[q]
    BY <1>1, <1>2 DEF SentBy
  <2>2. SentBy \in [Proc -> Nat]
    BY SizesAreNat
  <2>3. g \in [Proc -> Nat]
    BY <2>1, <2>2 DEF SentBy
  <2> HIDE DEF g
  <2>4. Total(g) = Total(SentBy) + 1
    BY <2>1, <2>2, <2>3, TotalMore
  <2> QED
    BY <2>4 DEF g
<1> QED
  BY <1>4, <1>5, <1>6, <1>7

LEMMA TakeSizes ==
  ASSUME TypeInv, QueueInv, QueueInv', NEW p \in Proc, NEW at \in {"receive", "blocked"},
         Take(p, at), call' = call
  PROVE  /\ InHands' = InHands + 1 /\ Sending' = Sending
         /\ Total(Arrived) = Total(Arrived') + 1 /\ Total(Arrived') \in Nat /\ SentBy' = SentBy
<1>1. PICK m \in messageQueue[p] :
        /\ RunStep(p, at, [process[p] EXCEPT !.pc = "count", !.state = "RUNNING", !.received = m])
        /\ messageQueue' = [messageQueue EXCEPT ![p] = @ \ {m}]
  BY DEF Take
<1> DEFINE to == [process[p] EXCEPT !.pc = "count", !.state = "RUNNING", !.received = m]
<1>2. /\ process \in [Proc -> ProcessType] /\ messageQueue \in [Proc -> SUBSET Message]
      /\ process' = [process EXCEPT ![p] = to] /\ process[p].pc = at
  BY <1>1 DEF TypeInv, ProcessesType, RunStep
<1>3. /\ to.pc = "count" /\ to.receivedCount = process[p].receivedCount
      /\ to.sentCount = process[p].sentCount /\ process[p].receivedCount \in Nat
  BY <1>2 DEF ProcessType
<1>4. ProcessGoes(p, to)
  BY <1>2 DEF ProcessGoes
<1> HIDE DEF to
<1>5. InHands' = InHands + 1
  <2>1. p \notin At("count") /\ At("count")' = At("count") \cup {p}
    BY <1>2, <1>3, <1>4, AtStep
  <2> QED
    BY <2>1, SetsFinite, OneMore DEF InHands
<1>6. Sending' = Sending
  BY <1>2, <1>3, <1>4, SentNotCountedStays
<1>7. SentBy' = SentBy
  BY <1>2, <1>3 DEF SentBy
<1>8. Total(Arrived) = Total(Arrived') + 1 /\ Total(Arrived') \in Nat
  <2> DEFINE g == Arrived'
  <2>1. /\ messageQueue'[p] = messageQueue[p] \ {m}
        /\ \A q \in Proc \ {p} : messageQueue'[q] = messageQueue[q]
    BY <1>1, <1>2
  <2>2. Cardinality(messageQueue'[p]) = Cardinality(messageQueue[p]) - 1
        /\ Cardinality(messageQueue[p]) \in Nat /\ Cardinality(messageQueue'[p]) \in Nat
    BY <2>1, OneLess, FS_CardinalityType DEF QueueInv
  <2>3. Arrived[p] = g[p] + 1
    BY <1>2, <1>3, <2>2 DEF Arrived
  <2>4. \A q \in Proc \ {p} : Arrived[q] = g[q]
    BY <1>2, <2>1 DEF Arrived
  <2>5. Arrived \in [Proc -> Nat]
    BY SizesAreNat
  <2>6. g \in [Proc -> Nat]
    <3>1. g[p] \in Nat
      BY <1>2, <1>3, <2>2 DEF Arrived
    <3> QED
      BY <2>4, <2>5, <3>1 DEF Arrived
  <2> HIDE DEF g
  <2>7. Total(Arrived) = Total(g) + 1 /\ Total(g) \in Nat
    BY <2>3, <2>4, <2>5, <2>6, TotalMore
  <2> QED
    BY <2>7 DEF g
<1> QED
  BY <1>5, <1>6, <1>7, <1>8

LEMMA CountReceivedSizes ==
  ASSUME TypeInv, QueueInv, NEW p \in Proc, CountReceived(p)
  PROVE  /\ InHands' = InHands - 1 /\ Sending' = Sending /\ SentBy' = SentBy
         /\ Total(Arrived') = Total(Arrived) + 1
<1> DEFINE to == [process[p] EXCEPT !.pc = "loop", !.receivedCount = @ + 1,
                                    !.received = NoMessage]
<1>1. /\ process \in [Proc -> ProcessType] /\ process' = [process EXCEPT ![p] = to]
      /\ process[p].pc = "count" /\ UNCHANGED <<call, messageQueue>>
  BY DEF TypeInv, ProcessesType, CountReceived, RunStep
<1>2. /\ to.pc = "loop" /\ to.receivedCount = process[p].receivedCount + 1
      /\ to.sentCount = process[p].sentCount /\ process[p].receivedCount \in Nat
  BY <1>1 DEF ProcessType
<1>3. ProcessGoes(p, to)
  BY <1>1 DEF ProcessGoes
<1> HIDE DEF to
<1>4. InHands' = InHands - 1
  <2>1. p \in At("count") /\ At("count")' = At("count") \ {p}
    BY <1>1, <1>2, <1>3, AtStep
  <2> QED
    BY <2>1, SetsFinite, OneLess DEF InHands
<1>5. Sending' = Sending
  BY <1>1, <1>2, <1>3, SentNotCountedStays
<1>6. SentBy' = SentBy
  BY <1>1, <1>2 DEF SentBy
<1>7. Total(Arrived') = Total(Arrived) + 1
  <2> DEFINE g == Arrived'
  <2>1. Cardinality(messageQueue[p]) \in Nat
    BY FS_CardinalityType DEF QueueInv
  <2>2. g[p] = Arrived[p] + 1 /\ \A q \in Proc \ {p} : g[q] = Arrived[q]
    BY <1>1, <1>2, <2>1 DEF Arrived
  <2>3. Arrived \in [Proc -> Nat]
    BY SizesAreNat
  <2>4. g \in [Proc -> Nat]
    BY <2>2, <2>3 DEF Arrived
  <2> HIDE DEF g
  <2>5. Total(g) = Total(Arrived) + 1
    BY <2>2, <2>3, <2>4, TotalMore
  <2> QED
    BY <2>5 DEF g
<1> QED
  BY <1>4, <1>5, <1>6, <1>7

LEMMA DeliverSizes ==
  ASSUME TypeInv, OnceInv, QueueInv, Deliver
  PROVE  InHands' = InHands /\ Total(Arrived') = Total(Arrived) + 1
<1> DEFINE p == msg.envelope.receiverID
<1>1. /\ msg \in Message /\ msg # NoMessage /\ p \in Proc
  BY MessageFacts DEF Deliver, LoopStep, TypeInv, DispatcherType
<1>2. /\ messageQueue' = [messageQueue EXCEPT ![p] = @ \cup {msg}] /\ process' = process
  BY DEF Deliver, LoopStep
<1> HIDE DEF p
<1>3. /\ messageQueue'[p] = messageQueue[p] \cup {msg}
      /\ \A q \in Proc \ {p} : messageQueue'[q] = messageQueue[q]
  BY <1>1, <1>2 DEF TypeInv, ProcessesType
<1>4. msg \notin messageQueue[p]
  <2>1. ID(msg) \in Spread[OnItsWay]
    BY <1>1, SpreadIs DEF IDsOf
  <2>2. OnItsWay # InboxOf(p) /\ OnItsWay \in Place /\ InboxOf(p) \in Place
    BY <1>1, Places DEF OnItsWay, InboxOf
  <2>3. ID(msg) \notin Spread[InboxOf(p)]
    BY <2>1, <2>2, NotElsewhere
  <2> QED
    BY <1>1, <2>3, SpreadIs DEF IDs, ID
<1>5. Cardinality(messageQueue'[p]) = Cardinality(messageQueue[p]) + 1
      /\ Cardinality(messageQueue[p]) \in Nat
  BY <1>1, <1>3, <1>4, OneMore DEF QueueInv
<1> DEFINE g == Arrived'
<1>6. process[p].receivedCount \in Nat
  BY <1>1 DEF TypeInv, ProcessesType, ProcessType
<1>7. g[p] = Arrived[p] + 1 /\ \A q \in Proc \ {p} : g[q] = Arrived[q]
  BY <1>1, <1>2, <1>3, <1>5, <1>6 DEF Arrived
<1>8. Arrived \in [Proc -> Nat]
  BY SizesAreNat
<1>9. g \in [Proc -> Nat]
  BY <1>7, <1>8 DEF Arrived
<1> HIDE DEF g
<1>10. Total(g) = Total(Arrived) + 1
  BY <1>1, <1>7, <1>8, <1>9, TotalMore
<1> QED
  BY <1>2, <1>10 DEF g, InHands, At

LEMMA SizesStay ==
  /\ call' = call => InChannel' = InChannel /\ ToLogDrop' = ToLogDrop /\ ToLogSent' = ToLogSent
  /\ process' = process =>
       /\ InHands' = InHands /\ SentBy' = SentBy
       /\ messageQueue' = messageQueue => Arrived' = Arrived
       /\ call' = call => Sending' = Sending
BY DEF InChannel, ToLogDrop, ToLogSent, InHands, SentBy, Arrived, Sending, SentNotCounted, Calling,
       At

(* The numbers in the counters' story, each under one name.                *)
ManagerSent      == totals.sent
ManagerDropped   == totals.dropped
ManagerDelivered == totals.delivered
LoggerSent       == logged.sent
LoggerDropped    == logged.dropped
LoggerReceived   == logged.received
Backlog          == Len(pendingMessages)
Delivering       == DispatcherAt("deliver")
Counting         == DispatcherAt("count")
Logging          == DispatcherAt("log")
Refused          == Cardinality(refused)
ArrivedSum       == Total(Arrived)
SentSum          == Total(SentBy)

Ledger ==
  /\ ManagerSent = ManagerDropped + InChannel + Backlog + Delivering + Refused + Counting
                     + ManagerDelivered
  /\ ManagerDelivered + Counting = ArrivedSum + InHands
  /\ Tester = {} => ManagerSent = SentSum + Sending
  /\ LoggerDropped + ToLogDrop = ManagerDropped
  /\ LoggerSent + ToLogSent + ManagerDropped = ManagerSent
  /\ LoggerReceived + Logging = ManagerDelivered

LEMMA LedgerAgrees == CountersAgree <=> Ledger
BY DEF CountersAgree, ManagerAgrees, ProcessesAgree, LoggerAgrees, InChannel, ToLogDrop,
       ToLogSent, InHands, Sending, SentNotCounted, Arrived, SentBy, Ledger, ManagerSent,
       ManagerDropped, ManagerDelivered, LoggerSent, LoggerDropped, LoggerReceived, Backlog,
       Delivering, Counting, Logging, Refused, ArrivedSum, SentSum

LEMMA NumbersAreNat ==
  ASSUME TypeInv, QueueInv
  PROVE  /\ InChannel \in Nat /\ ToLogDrop \in Nat /\ ToLogSent \in Nat
         /\ InHands \in Nat /\ Sending \in Nat /\ Refused \in Nat
         /\ ArrivedSum \in Nat /\ SentSum \in Nat /\ Backlog \in Nat
         /\ Delivering \in Nat /\ Counting \in Nat /\ Logging \in Nat
         /\ ManagerSent \in Nat /\ ManagerDropped \in Nat /\ ManagerDelivered \in Nat
         /\ LoggerSent \in Nat /\ LoggerDropped \in Nat /\ LoggerReceived \in Nat
<1>1. /\ InChannel \in Nat /\ ToLogDrop \in Nat /\ ToLogSent \in Nat
      /\ InHands \in Nat /\ Sending \in Nat /\ Refused \in Nat
      /\ ArrivedSum \in Nat /\ SentSum \in Nat /\ Backlog \in Nat
  BY SizesAreNat DEF Refused, ArrivedSum, SentSum, Backlog
<1>2. /\ ManagerSent \in Nat /\ ManagerDropped \in Nat /\ ManagerDelivered \in Nat
      /\ LoggerSent \in Nat /\ LoggerDropped \in Nat /\ LoggerReceived \in Nat
  BY DEF TypeInv, CountersType, ManagerSent, ManagerDropped, ManagerDelivered, LoggerSent,
         LoggerDropped, LoggerReceived
<1>3. Delivering \in Nat /\ Counting \in Nat /\ Logging \in Nat
  BY DEF DispatcherAt, Delivering, Counting, Logging
<1> QED
  BY <1>1, <1>2, <1>3

(* What a step that leaves a variable alone leaves alone.                  *)
LEMMA NumbersStay ==
  /\ totals' = totals => /\ ManagerSent' = ManagerSent /\ ManagerDropped' = ManagerDropped
                         /\ ManagerDelivered' = ManagerDelivered
  /\ logged' = logged => /\ LoggerSent' = LoggerSent /\ LoggerDropped' = LoggerDropped
                         /\ LoggerReceived' = LoggerReceived
  /\ pendingMessages' = pendingMessages => Backlog' = Backlog
  /\ refused' = refused => Refused' = Refused
  /\ Arrived' = Arrived => ArrivedSum' = ArrivedSum
  /\ SentBy' = SentBy => SentSum' = SentSum
  /\ \/ dpc' = dpc
     \/ dpc' \notin {"deliver", "count", "log"} /\ dpc \notin {"deliver", "count", "log"}
     => Delivering' = Delivering /\ Counting' = Counting /\ Logging' = Logging
BY DEF ManagerSent, ManagerDropped, ManagerDelivered, LoggerSent, LoggerDropped, LoggerReceived,
       Backlog, Refused, ArrivedSum, SentSum, Delivering, Counting, Logging, DispatcherAt

LEMMA AgreeAfterSending ==
  ASSUME TypeInv, QueueInv, Ledger, NEW s \in Sender, SendMessage(s)
  PROVE  Ledger'
<1>1. /\ Delivering' = Delivering /\ Counting' = Counting /\ Logging' = Logging
      /\ Refused' = Refused /\ InHands' = InHands
      /\ ArrivedSum' = ArrivedSum /\ SentSum' = SentSum
  <2>1. UNCHANGED <<dpc, messageQueue, process, refused>>
    BY DEF SendMessage, CountSent, Drop, HandOver, LogSend, dispatcherVars, processVars
  <2> QED
    BY <2>1, SizesStay, NumbersStay
<1>2. /\ totals \in [sent : Nat, dropped : Nat, delivered : Nat]
      /\ logged \in [sent : Nat, dropped : Nat, received : Nat]
  BY DEF TypeInv, CountersType
<1>3. CASE CountSent(s)
  <2>1. /\ ManagerSent' = ManagerSent + 1 /\ ManagerDropped' = ManagerDropped
        /\ ManagerDelivered' = ManagerDelivered
    BY <1>2, <1>3 DEF CountSent, ManagerSent, ManagerDropped, ManagerDelivered
  <2>2. /\ LoggerSent' = LoggerSent /\ LoggerDropped' = LoggerDropped
        /\ LoggerReceived' = LoggerReceived /\ Backlog' = Backlog
    BY <1>3, NumbersStay DEF CountSent
  <2>3. /\ InChannel' = InChannel + 1 /\ ToLogDrop' = ToLogDrop /\ ToLogSent' = ToLogSent + 1
        /\ Tester = {} => Sending' = Sending + 1
    BY <1>3, CountSentSizes
  <2> QED
    BY <1>1, <2>1, <2>2, <2>3, NumbersAreNat DEF Ledger
<1>4. CASE Drop(s)
  <2>1. /\ ManagerSent' = ManagerSent /\ ManagerDropped' = ManagerDropped + 1
        /\ ManagerDelivered' = ManagerDelivered
    BY <1>2, <1>4 DEF Drop, ManagerSent, ManagerDropped, ManagerDelivered
  <2>2. /\ LoggerSent' = LoggerSent /\ LoggerDropped' = LoggerDropped
        /\ LoggerReceived' = LoggerReceived /\ Backlog' = Backlog
    BY <1>4, NumbersStay DEF Drop
  <2>3. /\ InChannel' = InChannel - 1 /\ ToLogDrop' = ToLogDrop + 1
        /\ ToLogSent' = ToLogSent - 1 /\ Sending' = Sending
    BY <1>4, DropSizes
  <2> QED
    BY <1>1, <2>1, <2>2, <2>3, NumbersAreNat DEF Ledger
<1>5. CASE HandOver(s)
  <2>1. /\ ManagerSent' = ManagerSent /\ ManagerDropped' = ManagerDropped
        /\ ManagerDelivered' = ManagerDelivered
        /\ LoggerSent' = LoggerSent /\ LoggerDropped' = LoggerDropped
        /\ LoggerReceived' = LoggerReceived
    BY <1>5, NumbersStay DEF HandOver
  <2>2. /\ InChannel' = InChannel - 1 /\ ToLogDrop' = ToLogDrop
        /\ ToLogSent' = ToLogSent /\ Sending' = Sending /\ Backlog' = Backlog + 1
    BY <1>5, HandOverSizes DEF Backlog
  <2> QED
    BY <1>1, <2>1, <2>2, NumbersAreNat DEF Ledger
<1>6. CASE LogSend(s)
  <2>1. /\ ManagerSent' = ManagerSent /\ ManagerDropped' = ManagerDropped
        /\ ManagerDelivered' = ManagerDelivered /\ Backlog' = Backlog
    BY <1>6, NumbersStay DEF LogSend
  <2>2. LoggerReceived' = LoggerReceived /\ InChannel' = InChannel /\ Sending' = Sending
    BY <1>2, <1>6, LogSendSizes DEF LogSend, LoggerReceived
  <2>3. CASE call[s].at = "logSent"
    <3>1. LoggerSent' = LoggerSent + 1 /\ LoggerDropped' = LoggerDropped
      BY <1>2, <1>6, <2>3 DEF LogSend, LoggerSent, LoggerDropped
    <3>2. ToLogDrop' = ToLogDrop /\ ToLogSent' = ToLogSent - 1
      BY <1>6, <2>3, LogSendSizes
    <3> QED
      BY <1>1, <2>1, <2>2, <3>1, <3>2, NumbersAreNat DEF Ledger
  <2>4. CASE call[s].at = "logDropped"
    <3>1. LoggerSent' = LoggerSent /\ LoggerDropped' = LoggerDropped + 1
      BY <1>2, <1>6, <2>4 DEF LogSend, LoggerSent, LoggerDropped
    <3>2. ToLogDrop' = ToLogDrop - 1 /\ ToLogSent' = ToLogSent
      BY <1>6, <2>4, LogSendSizes
    <3>3. LoggerDropped' + ToLogDrop' = LoggerDropped + ToLogDrop
      BY <3>1, <3>2, NumbersAreNat
    <3> QED
      BY <1>1, <2>1, <2>2, <3>1, <3>2, <3>3 DEF Ledger
  <2> QED
    BY <1>6, <2>3, <2>4, LogSendSizes
<1> QED
  BY <1>3, <1>4, <1>5, <1>6 DEF SendMessage

LEMMA AgreeAfterRunning ==
  ASSUME TypeInv, QueueInv, QueueInv', Ledger, NEW p \in Proc, Run(p)
  PROVE  Ledger'
<1>1. process \in [Proc -> ProcessType]
  BY DEF TypeInv, ProcessesType
<1>2. ASSUME NEW from, NEW to, RunStep(p, from, to)
      PROVE  /\ ManagerSent' = ManagerSent /\ ManagerDropped' = ManagerDropped
             /\ ManagerDelivered' = ManagerDelivered
             /\ LoggerSent' = LoggerSent /\ LoggerDropped' = LoggerDropped
             /\ LoggerReceived' = LoggerReceived /\ Backlog' = Backlog /\ Refused' = Refused
             /\ Delivering' = Delivering /\ Counting' = Counting /\ Logging' = Logging
             /\ ProcessGoes(p, to) /\ process[p].pc = from
  BY <1>2, NumbersStay DEF RunStep, dispatcherVars, ProcessGoes
<1>3. CASE SendMessage(p)
  BY <1>3, AgreeAfterSending DEF Sender
<1>4. CASE BuildMessage(p)
  <2> DEFINE to == [process[p] EXCEPT !.pc = "send", !.state = "RUNNING"]
  <2>1. RunStep(p, "loop", to) /\ messageQueue' = messageQueue
    BY <1>4 DEF BuildMessage
  <2>2. to.pc = "send" /\ to.sentCount = process[p].sentCount
        /\ to.receivedCount = process[p].receivedCount
    BY <1>1 DEF ProcessType
  <2>3. PICK target \in PickRandomTarget(p), prio \in DrawnPriority :
          CallSendMessage(p, p, target, prio)
    BY <1>4 DEF BuildMessage
  <2>4. (\A q \in Proc \ {p} : call'[q] = call[q]) /\ call'[p].at = "count"
    BY <2>3 DEF CallSendMessage, TypeInv, CallsType, Sender
  <2> HIDE DEF to
  <2>5. InHands' = InHands /\ SentSum' = SentSum /\ ArrivedSum' = ArrivedSum
    BY <1>2, <2>1, <2>2, QuietSizes, NumbersStay DEF QuietStep
  <2>6. Sending' = Sending
    BY <1>2, <2>1, <2>4, SentNotCountedStays
  <2>7. InChannel' = InChannel /\ ToLogDrop' = ToLogDrop /\ ToLogSent' = ToLogSent
    BY <2>3, BuildSizes DEF Sender
  <2> QED
    BY <1>2, <2>1, <2>5, <2>6, <2>7 DEF Ledger
<1>5. ASSUME NEW from, NEW to, RunStep(p, from, to), call' = call
      PROVE  InChannel' = InChannel /\ ToLogDrop' = ToLogDrop /\ ToLogSent' = ToLogSent
  BY <1>5, SizesStay
<1>6. CASE CountSend(p)
  <2>1. PICK to : RunStep(p, "send", to) /\ call' = call
    BY <1>6 DEF CountSend
  <2>2. /\ InHands' = InHands /\ Sending' = Sending - 1
        /\ ArrivedSum' = ArrivedSum /\ SentSum' = SentSum + 1
    BY <1>6, CountSendSizes DEF ArrivedSum, SentSum
  <2> QED
    BY <1>2, <1>5, <2>1, <2>2, NumbersAreNat DEF Ledger
<1>7. CASE CountReceived(p)
  <2>1. PICK to : RunStep(p, "count", to) /\ call' = call
    BY <1>7 DEF CountReceived
  <2>2. /\ InHands' = InHands - 1 /\ Sending' = Sending
        /\ ArrivedSum' = ArrivedSum + 1 /\ SentSum' = SentSum
    BY <1>7, CountReceivedSizes DEF ArrivedSum, SentSum
  <2>3. ArrivedSum' + InHands' = ArrivedSum + InHands
    BY <2>2, NumbersAreNat
  <2> QED
    BY <1>2, <1>5, <2>1, <2>2, <2>3 DEF Ledger
<1>8. ASSUME NEW at \in {"receive", "blocked"}, Take(p, at), call' = call
      PROVE  Ledger'
  <2>1. PICK to : RunStep(p, at, to)
    BY <1>8 DEF Take
  <2>2. /\ InHands' = InHands + 1 /\ Sending' = Sending
        /\ ArrivedSum = ArrivedSum' + 1 /\ SentSum' = SentSum
    BY <1>8, TakeSizes DEF ArrivedSum, SentSum
  <2>3. ArrivedSum' \in Nat
    BY <1>8, TakeSizes DEF ArrivedSum
  <2> QED
    BY <1>2, <1>5, <1>8, <2>1, <2>2, <2>3, NumbersAreNat DEF Ledger
<1>9. ASSUME NEW from \in {"receive", "blocked", "loop"},
             NEW pc \in {"blocked", "loop", "ended"}, NEW state,
             RunStep(p, from, [process[p] EXCEPT !.pc = pc, !.state = state]),
             UNCHANGED <<call, messageQueue>>
      PROVE  Ledger'
  <2> DEFINE to == [process[p] EXCEPT !.pc = pc, !.state = state]
  <2>1. to.pc = pc /\ to.sentCount = process[p].sentCount
        /\ to.receivedCount = process[p].receivedCount
    BY <1>1 DEF ProcessType
  <2>2. RunStep(p, from, to)
    BY <1>9
  <2> HIDE DEF to
  <2>3. InHands' = InHands /\ SentSum' = SentSum /\ ArrivedSum' = ArrivedSum
    BY <1>2, <1>9, <2>1, <2>2, QuietSizes, NumbersStay DEF QuietStep
  <2>4. Sending' = Sending
    BY <1>2, <1>9, <2>1, <2>2, SentNotCountedStays
  <2> QED
    BY <1>2, <1>5, <1>9, <2>2, <2>3, <2>4 DEF Ledger
<1>10. CASE Receive(p)
  BY <1>8, <1>9, <1>10 DEF Receive
<1>11. CASE Retry(p)
  BY <1>8, <1>9, <1>11 DEF Retry
<1>12. CASE Finish(p)
  BY <1>9, <1>12 DEF Finish
<1> QED
  BY <1>3, <1>4, <1>6, <1>7, <1>10, <1>11, <1>12 DEF Run

(* What a step of the dispatcher leaves alone.                             *)
LEMMA LoopStepSizes ==
  ASSUME NEW from, NEW to, LoopStep(from, to)
  PROVE  /\ InChannel' = InChannel /\ ToLogDrop' = ToLogDrop /\ ToLogSent' = ToLogSent
         /\ InHands' = InHands /\ SentSum' = SentSum /\ Sending' = Sending
         /\ messageQueue' = messageQueue => ArrivedSum' = ArrivedSum
         /\ dpc = from /\ dpc' = to
BY SizesStay, NumbersStay DEF LoopStep

LEMMA PickWaiting ==
  ASSUME TypeInv, TakeMessage
  PROVE  Backlog = Backlog' + 1 /\ Backlog' \in Nat
<1>1. PICK best \in DOMAIN pendingMessages : Sched!GetNextMessage(best)
  BY DEF TakeMessage
<1>2. pendingMessages \in Seq(Message)
  BY DEF TypeInv, PendingType
<1> QED
  BY <1>1, <1>2, PickStep DEF Backlog

LEMMA TickWaiting ==
  ASSUME TypeInv, Tick
  PROVE  Backlog' = Backlog
<1>1. pendingMessages \in Seq(Message)
  BY DEF TypeInv, PendingType
<1> QED
  BY <1>1, AgeStep DEF Tick, Backlog

LEMMA RefuseSizes ==
  ASSUME TypeInv, OnceInv, QueueInv, FindInboxFull
  PROVE  Refused' = Refused + 1
<1>1. msg \in Message /\ msg # NoMessage
  BY DEF FindInboxFull, LoopStep, TypeInv, DispatcherType
<1>2. ID(msg) \in Spread[OnItsWay]
  BY <1>1, SpreadIs DEF IDsOf
<1>5. ID(msg) \notin refused
  BY <1>2, Places DEF OnceInv
<1>6. refused' = refused \cup {ID(msg)}
  BY DEF FindInboxFull, ID
<1> QED
  BY <1>5, <1>6, SetsFinite, OneMore DEF Refused

LEMMA AgreeAfterDispatching ==
  ASSUME TypeInv, OnceInv, QueueInv, Ledger, DispatchLoop
  PROVE  Ledger'
<1>1. /\ totals \in [sent : Nat, dropped : Nat, delivered : Nat]
      /\ logged \in [sent : Nat, dropped : Nat, received : Nat]
  BY DEF TypeInv, CountersType
<1>2. ASSUME NEW from, NEW to, LoopStep(from, to), totals' = totals
      PROVE  /\ ManagerSent' = ManagerSent /\ ManagerDropped' = ManagerDropped
             /\ ManagerDelivered' = ManagerDelivered
  BY <1>2, NumbersStay
<1>3. ASSUME NEW from, NEW to, LoopStep(from, to), logged' = logged
      PROVE  /\ LoggerSent' = LoggerSent /\ LoggerDropped' = LoggerDropped
             /\ LoggerReceived' = LoggerReceived
  BY <1>3, NumbersStay
<1>4. ASSUME NEW from \in {"top", "get"}, NEW to \in {"top", "get", "ended"}, LoopStep(from, to),
             Backlog' = Backlog, UNCHANGED <<totals, logged, messageQueue, refused>>
      PROVE  Ledger'
  <2>1. Delivering' = Delivering /\ Counting' = Counting /\ Logging' = Logging
    BY <1>4 DEF LoopStep, Delivering, Counting, Logging, DispatcherAt
  <2>2. Refused' = Refused
    BY <1>4, NumbersStay
  <2> QED
    BY <1>2, <1>3, <1>4, <2>1, <2>2, LoopStepSizes DEF Ledger
<1>5. CASE LeaveLoop \/ FindNothing
  BY <1>4, <1>5, NumbersStay DEF LeaveLoop, FindNothing
<1>6. CASE Tick
  BY <1>4, <1>6, TickWaiting DEF Tick
<1>7. CASE TakeMessage
  <2>1. LoopStep("get", "deliver") /\ UNCHANGED <<totals, logged, messageQueue, refused>>
    BY <1>7 DEF TakeMessage
  <2>2. Delivering = 0 /\ Delivering' = 1 /\ Counting' = Counting /\ Logging' = Logging
    BY <2>1 DEF LoopStep, Delivering, Counting, Logging, DispatcherAt
  <2>3. Refused' = Refused
    BY <2>1, NumbersStay
  <2>4. Backlog + Delivering = Backlog' + Delivering' /\ Backlog' \in Nat
    BY <1>7, <2>2, PickWaiting
  <2> QED
    BY <1>2, <1>3, <2>1, <2>2, <2>3, <2>4, LoopStepSizes, NumbersAreNat DEF Ledger
<1>8. CASE Deliver
  <2>1. /\ LoopStep("deliver", "count")
        /\ UNCHANGED <<totals, logged, pendingMessages, refused>>
    BY <1>8 DEF Deliver
  <2>2. /\ Delivering = 1 /\ Delivering' = 0 /\ Counting = 0 /\ Counting' = 1
        /\ Logging' = Logging
    BY <2>1 DEF LoopStep, Delivering, Counting, Logging, DispatcherAt
  <2>3. Refused' = Refused /\ Backlog' = Backlog
    BY <2>1, NumbersStay
  <2>4. ArrivedSum' = ArrivedSum + 1
    BY <1>8, DeliverSizes DEF ArrivedSum
  <2> QED
    BY <1>2, <1>3, <2>1, <2>2, <2>3, <2>4, LoopStepSizes, NumbersAreNat DEF Ledger
<1>9. CASE FindInboxFull
  <2>1. /\ LoopStep("deliver", "top")
        /\ UNCHANGED <<totals, logged, pendingMessages, messageQueue>>
    BY <1>9 DEF FindInboxFull
  <2>2. /\ Delivering = 1 /\ Delivering' = 0 /\ Counting' = Counting
        /\ Logging' = Logging
    BY <2>1 DEF LoopStep, Delivering, Counting, Logging, DispatcherAt
  <2>3. Backlog' = Backlog
    BY <2>1, NumbersStay
  <2>4. Refused' = Refused + 1
    BY <1>9, RefuseSizes
  <2> QED
    BY <1>2, <1>3, <2>1, <2>2, <2>3, <2>4, LoopStepSizes, NumbersAreNat DEF Ledger
<1>10. CASE CountDelivered
  <2>1. /\ LoopStep("count", "log")
        /\ UNCHANGED <<logged, pendingMessages, messageQueue, refused>>
    BY <1>10 DEF CountDelivered
  <2>2. /\ Delivering' = Delivering /\ Counting = 1 /\ Counting' = 0
        /\ Logging = 0 /\ Logging' = 1
    BY <2>1 DEF LoopStep, Delivering, Counting, Logging, DispatcherAt
  <2>3. Backlog' = Backlog /\ Refused' = Refused
    BY <2>1, NumbersStay
  <2>4. /\ ManagerSent' = ManagerSent /\ ManagerDropped' = ManagerDropped
        /\ ManagerDelivered' = ManagerDelivered + 1
    BY <1>1, <1>10 DEF CountDelivered, ManagerSent, ManagerDropped, ManagerDelivered
  <2> QED
    BY <1>3, <2>1, <2>2, <2>3, <2>4, LoopStepSizes, NumbersAreNat DEF Ledger
<1>11. CASE LogDelivered
  <2>1. /\ LoopStep("log", "top")
        /\ UNCHANGED <<totals, pendingMessages, messageQueue, refused>>
    BY <1>11 DEF LogDelivered
  <2>2. /\ Delivering' = Delivering /\ Counting' = Counting
        /\ Logging = 1 /\ Logging' = 0
    BY <2>1 DEF LoopStep, Delivering, Counting, Logging, DispatcherAt
  <2>3. Backlog' = Backlog /\ Refused' = Refused
    BY <2>1, NumbersStay
  <2>4. /\ LoggerSent' = LoggerSent /\ LoggerDropped' = LoggerDropped
        /\ LoggerReceived' = LoggerReceived + 1
    BY <1>1, <1>11 DEF LogDelivered, LoggerSent, LoggerDropped, LoggerReceived
  <2> QED
    BY <1>2, <2>1, <2>2, <2>3, <2>4, LoopStepSizes, NumbersAreNat DEF Ledger
<1> QED
  BY <1>5, <1>6, <1>7, <1>8, <1>9, <1>10, <1>11 DEF DispatchLoop

(* Only a call that begins, or a process whose thread does.                *)
LEMMA AgreeAfterOthers ==
  ASSUME TypeInv, QueueInv, Ledger,
         UNCHANGED <<pendingMessages, totals, logged, messageQueue, refused>>,
         \/ call' = call /\ process' = process
         \/ call' = call /\ \E p \in Proc : Start(p)
         \/ process' = process /\ \E t \in Tester : BuildTestMessage(t),
         \/ dpc' = dpc
         \/ dpc' \notin {"deliver", "count", "log"} /\ dpc \notin {"deliver", "count", "log"}
  PROVE  Ledger'
<1>1. /\ ManagerSent' = ManagerSent /\ ManagerDropped' = ManagerDropped
      /\ ManagerDelivered' = ManagerDelivered
      /\ LoggerSent' = LoggerSent /\ LoggerDropped' = LoggerDropped
      /\ LoggerReceived' = LoggerReceived /\ Backlog' = Backlog /\ Refused' = Refused
      /\ Delivering' = Delivering /\ Counting' = Counting /\ Logging' = Logging
  BY NumbersStay
<1>2. CASE call' = call /\ process' = process
  BY <1>1, <1>2, SizesStay, NumbersStay DEF Ledger
<1>3. ASSUME NEW p \in Proc, Start(p), call' = call
      PROVE  Ledger'
  <2> DEFINE to == [process[p] EXCEPT !.pc = "loop"]
  <2>1. ProcessGoes(p, to) /\ process[p].pc = "none"
    BY <1>3 DEF Start, ProcessGoes
  <2>2. /\ to.pc = "loop" /\ to.sentCount = process[p].sentCount
        /\ to.receivedCount = process[p].receivedCount
    BY DEF TypeInv, ProcessesType, ProcessType
  <2> HIDE DEF to
  <2>3. InHands' = InHands /\ SentSum' = SentSum /\ ArrivedSum' = ArrivedSum
    BY <2>1, <2>2, QuietSizes, NumbersStay DEF QuietStep
  <2>4. Sending' = Sending
    BY <1>3, <2>1, <2>2, SentNotCountedStays
  <2>5. InChannel' = InChannel /\ ToLogDrop' = ToLogDrop /\ ToLogSent' = ToLogSent
    BY <1>3, SizesStay
  <2> QED
    BY <1>1, <2>3, <2>4, <2>5 DEF Ledger
<1>4. ASSUME NEW t \in Tester, BuildTestMessage(t), process' = process
      PROVE  Ledger'
  <2>1. InHands' = InHands /\ SentSum' = SentSum /\ ArrivedSum' = ArrivedSum
    BY <1>4, SizesStay, NumbersStay
  <2>2. InChannel' = InChannel /\ ToLogDrop' = ToLogDrop /\ ToLogSent' = ToLogSent
    BY <1>4, BuildSizes DEF BuildTestMessage, Sender
  <2> QED
    BY <1>1, <1>4, <2>1, <2>2 DEF Ledger
<1> QED
  BY <1>2, <1>3, <1>4

LEMMA LedgerStep == IPCInv /\ IPCInv' /\ Ledger /\ [Next]_vars => Ledger'
<1> SUFFICES ASSUME IPCInv, IPCInv', Ledger, [Next]_vars
             PROVE  Ledger'
  OBVIOUS
<1>1. TypeInv /\ OnceInv /\ QueueInv /\ QueueInv'
  BY DEF IPCInv
<1>2. CASE Halt \/ StartDispatcher \/ UNCHANGED vars
  BY <1>1, <1>2, AgreeAfterOthers
     DEF Halt, StopDispatcher, Stop, StartDispatcher, processVars, dispatcherVars, vars
<1>3. ASSUME NEW p \in Proc, Start(p)
      PROVE  Ledger'
  BY <1>1, <1>3, AgreeAfterOthers DEF Start, dispatcherVars
<1>4. ASSUME NEW t \in Tester, BuildTestMessage(t)
      PROVE  Ledger'
  BY <1>1, <1>4, AgreeAfterOthers DEF BuildTestMessage, processVars, dispatcherVars
<1>5. ASSUME NEW s \in Sender, SendMessage(s)
      PROVE  Ledger'
  BY <1>1, <1>5, AgreeAfterSending
<1>6. ASSUME NEW p \in Proc, Run(p)
      PROVE  Ledger'
  BY <1>1, <1>6, AgreeAfterRunning
<1>7. CASE DispatchLoop
  BY <1>1, <1>7, AgreeAfterDispatching
<1> QED
  BY <1>2, <1>3, <1>4, <1>5, <1>6, <1>7 DEF Next, Launch, Sender

LEMMA LedgerInit == Init => Ledger
<1> SUFFICES ASSUME Init
             PROVE  Ledger
  OBVIOUS
<1>1. /\ Calling("channel") = {} /\ Calling("logDropped") = {}
      /\ Calling("logSent") \cup Calling("channel") = {}
      /\ At("count") = {} /\ SentNotCounted = {} /\ refused = {}
  BY DEF Init, Calling, At, Returned, NewProcess, SentNotCounted
<1>2. Cardinality({}) = 0
  BY FS_EmptySet
<1>3. /\ InChannel = 0 /\ ToLogDrop = 0 /\ ToLogSent = 0 /\ InHands = 0 /\ Sending = 0
      /\ Refused = 0
  BY <1>1, <1>2 DEF InChannel, ToLogDrop, ToLogSent, InHands, Sending, Refused
<1>4. Arrived \in [Proc -> {0}] /\ SentBy \in [Proc -> {0}]
  BY <1>2 DEF Init, Arrived, SentBy, NewProcess
<1>5. ArrivedSum = 0 /\ SentSum = 0
  BY <1>4, TotalZero DEF ArrivedSum, SentSum
<1>6. /\ ManagerSent = 0 /\ ManagerDropped = 0 /\ ManagerDelivered = 0
      /\ LoggerSent = 0 /\ LoggerDropped = 0 /\ LoggerReceived = 0
      /\ Delivering = 0 /\ Counting = 0 /\ Logging = 0
  BY DEF Init, ManagerSent, ManagerDropped, ManagerDelivered, LoggerSent, LoggerDropped,
         LoggerReceived, Delivering, Counting, Logging, DispatcherAt
<1>7. Backlog = 0
  BY DEF Init, Backlog
<1> QED
  BY <1>3, <1>5, <1>6, <1>7 DEF Ledger

LEMMA LedgerInvariance == Spec => []Ledger
BY LedgerInit, LedgerStep, IPCInvariance, PTL DEF Spec

(* The counters of the manager, the logger and the processes tell one      *)
(* story, whatever steps interleave.                                       *)
THEOREM CountersAgreeCorrect == Spec => []CountersAgree
BY LedgerInvariance, LedgerAgrees, PTL

-----------------------------------------------------------------------------
(* The totals, in here and in Channel.tla.                                 *)
LEMMA AcceptedIs == Accepted = Backlog + Delivering + Refused + Counting + ManagerDelivered
BY DEF Accepted, Backlog, Delivering, Refused, Counting, ManagerDelivered

LEMMA AcceptedIsNext ==
  Accepted' = Backlog' + Delivering' + Refused' + Counting' + ManagerDelivered'
BY DEF Accepted, Backlog, Delivering, Refused, Counting, ManagerDelivered

LEMMA AcceptedStays ==
  UNCHANGED <<pendingMessages, totals, refused, dpc>> => Accepted' = Accepted
BY DEF Accepted, DispatcherAt

LEMMA ChannelStays == call' = call => Calling("channel")' = Calling("channel")
BY DEF Calling

LEMMA SendingImplements ==
  ASSUME IPCInv, NEW s \in Sender, SendMessage(s)
  PROVE  [Counters!Next]_(Counters!channelVars)
<1>1. TypeInv /\ QueueInv
  BY DEF IPCInv
<1>2. CASE CountSent(s)
  <2> DEFINE c == [call[s] EXCEPT !.at = "channel"]
  <2>1. call[s].at = "count" /\ CallGoes(s, c) /\ c.at = "channel"
    BY <1>1, <1>2 DEF CallGoes, CountSent, TypeInv, CallsType, CallType
  <2> HIDE DEF c
  <2>2. s \notin Calling("channel") /\ Calling("channel")' = Calling("channel") \cup {s}
    BY <1>1, <2>1, CallingStep
  <2>3. Accepted' = Accepted
    <3>1. /\ Backlog' = Backlog /\ Delivering' = Delivering /\ Refused' = Refused
          /\ Counting' = Counting
      BY <1>2, NumbersStay DEF CountSent, dispatcherVars
    <3>2. ManagerDelivered' = ManagerDelivered
      BY <1>1, <1>2 DEF CountSent, ManagerDelivered, TypeInv, CountersType
    <3> QED
      BY <3>1, <3>2, AcceptedIs, AcceptedIsNext
  <2>4. Counters!Count(s)
    BY <1>2, <2>2, <2>3 DEF CountSent, Counters!Count
  <2> QED
    BY <2>4 DEF Counters!Next
<1>3. CASE Drop(s)
  <2> DEFINE c == [at |-> "logDropped", draft |-> NoMessage]
  <2>1. call[s].at = "channel" /\ CallGoes(s, c) /\ c.at = "logDropped"
    BY <1>3 DEF CallGoes, Drop
  <2> HIDE DEF c
  <2>2. s \in Calling("channel") /\ Calling("channel")' = Calling("channel") \ {s}
    BY <1>1, <2>1, CallingStep
  <2>3. Accepted' = Accepted
    <3>1. /\ Backlog' = Backlog /\ Delivering' = Delivering /\ Refused' = Refused
          /\ Counting' = Counting
      BY <1>3, NumbersStay DEF Drop, dispatcherVars
    <3>2. ManagerDelivered' = ManagerDelivered
      BY <1>1, <1>3 DEF Drop, ManagerDelivered, TypeInv, CountersType
    <3> QED
      BY <3>1, <3>2, AcceptedIs, AcceptedIsNext
  <2>4. Counters!Drop(s)
    BY <1>3, <2>2, <2>3 DEF Drop, Counters!Drop
  <2> QED
    BY <2>4 DEF Counters!Next
<1>4. CASE HandOver(s)
  <2> DEFINE c == [at |-> "logSent", draft |-> NoMessage]
  <2>1. call[s].at = "channel" /\ CallGoes(s, c) /\ c.at = "logSent"
    BY <1>4 DEF CallGoes, HandOver
  <2> HIDE DEF c
  <2>2. s \in Calling("channel") /\ Calling("channel")' = Calling("channel") \ {s}
    BY <1>1, <2>1, CallingStep
  <2>3. Accepted' = Accepted + 1
    <3>1. /\ Delivering' = Delivering /\ Refused' = Refused /\ Counting' = Counting
          /\ ManagerDelivered' = ManagerDelivered
      BY <1>4, NumbersStay DEF HandOver, dispatcherVars
    <3>2. Backlog' = Backlog + 1
      BY <1>1, <1>4, HandOverSizes DEF Backlog
    <3> QED
      BY <1>1, <3>1, <3>2, AcceptedIs, AcceptedIsNext, NumbersAreNat
  <2>4. Counters!HandOver(s)
    BY <1>4, <2>2, <2>3 DEF HandOver, Counters!HandOver
  <2> QED
    BY <2>4 DEF Counters!Next
<1>5. CASE LogSend(s)
  <2>1. CallGoes(s, Returned) /\ Returned.at = "none"
        /\ call[s].at \in {"logSent", "logDropped"}
    BY <1>5 DEF CallGoes, LogSend, Returned
  <2>2. Calling("channel")' = Calling("channel")
    BY <1>1, <2>1, CallingStep
  <2> QED
    BY <1>5, <2>2, AcceptedStays DEF LogSend, dispatcherVars, Counters!channelVars
<1> QED
  BY <1>2, <1>3, <1>4, <1>5 DEF SendMessage

LEMMA BuildingImplements ==
  ASSUME TypeInv, NEW s \in Sender, NEW from, NEW to, NEW prio, CallSendMessage(s, from, to, prio),
         UNCHANGED <<pendingMessages, totals, refused, dpc>>
  PROVE  UNCHANGED (Counters!channelVars)
<1> DEFINE e == [messageID |-> nextMessageID, senderID |-> from, receiverID |-> to]
           c == [at |-> "count", draft |-> Sched!NewMessage(e, prio)]
<1>1. call[s].at = "none" /\ CallGoes(s, c) /\ c.at = "count"
  BY DEF CallGoes, CallSendMessage
<1> HIDE DEF c
<1>2. Calling("channel")' = Calling("channel")
  BY <1>1, CallingStep
<1> QED
  BY <1>2, AcceptedStays DEF Counters!channelVars

LEMMA DispatchingImplements ==
  ASSUME IPCInv, DispatchLoop
  PROVE  [Counters!Next]_(Counters!channelVars)
<1>1. TypeInv /\ OnceInv /\ QueueInv
  BY DEF IPCInv
<1>2. ASSUME NEW from, NEW to, LoopStep(from, to)
      PROVE  Calling("channel")' = Calling("channel") /\ dpc = from /\ dpc' = to
  BY <1>2, ChannelStays DEF LoopStep
<1>3. ASSUME NEW from, NEW to, LoopStep(from, to), totals' = totals, Accepted' = Accepted
      PROVE  [Counters!Next]_(Counters!channelVars)
  BY <1>2, <1>3 DEF Counters!channelVars
<1>4. ASSUME totals' = totals
      PROVE  ManagerDelivered' = ManagerDelivered
  BY <1>4, NumbersStay
<1>5. ASSUME NEW from \in {"top", "get", "log"}, NEW to \in {"top", "get", "ended"},
             LoopStep(from, to), Backlog' = Backlog, UNCHANGED <<totals, refused>>
      PROVE  [Counters!Next]_(Counters!channelVars)
  <2>1. Delivering' = Delivering /\ Counting' = Counting
    BY <1>5 DEF LoopStep, Delivering, Counting, DispatcherAt
  <2>2. Accepted' = Accepted
    BY <1>4, <1>5, <2>1, NumbersStay, AcceptedIs, AcceptedIsNext
  <2> QED
    BY <1>3, <1>5, <2>2
<1>6. CASE LeaveLoop \/ FindNothing \/ LogDelivered
  BY <1>5, <1>6, NumbersStay DEF LeaveLoop, FindNothing, LogDelivered
<1>7. CASE Tick
  BY <1>1, <1>5, <1>7, TickWaiting DEF Tick
<1>8. CASE TakeMessage
  <2>1. LoopStep("get", "deliver") /\ UNCHANGED <<totals, refused>>
    BY <1>8 DEF TakeMessage
  <2>2. Delivering = 0 /\ Delivering' = 1 /\ Counting' = Counting
    BY <2>1 DEF LoopStep, Delivering, Counting, DispatcherAt
  <2>3. Backlog + Delivering = Backlog' + Delivering' /\ Backlog' \in Nat
    BY <1>1, <1>8, <2>2, PickWaiting
  <2>4. Refused' = Refused /\ ManagerDelivered' = ManagerDelivered
    BY <1>4, <2>1, NumbersStay
  <2>5. Accepted' = Accepted
    BY <1>1, <2>2, <2>3, <2>4, AcceptedIs, AcceptedIsNext, NumbersAreNat
  <2> QED
    BY <1>3, <2>1, <2>5
<1>9. CASE Deliver
  <2>1. LoopStep("deliver", "count") /\ UNCHANGED <<totals, pendingMessages, refused>>
    BY <1>9 DEF Deliver
  <2>2. Delivering = 1 /\ Delivering' = 0 /\ Counting = 0 /\ Counting' = 1
    BY <2>1 DEF LoopStep, Delivering, Counting, DispatcherAt
  <2>3. Refused' = Refused /\ ManagerDelivered' = ManagerDelivered /\ Backlog' = Backlog
    BY <1>4, <2>1, NumbersStay
  <2>4. Accepted' = Accepted
    BY <1>1, <2>2, <2>3, AcceptedIs, AcceptedIsNext, NumbersAreNat
  <2> QED
    BY <1>3, <2>1, <2>4
<1>10. CASE FindInboxFull
  <2>1. LoopStep("deliver", "top") /\ UNCHANGED <<totals, pendingMessages>>
    BY <1>10 DEF FindInboxFull
  <2>2. Delivering = 1 /\ Delivering' = 0 /\ Counting' = Counting
    BY <2>1 DEF LoopStep, Delivering, Counting, DispatcherAt
  <2>3. ManagerDelivered' = ManagerDelivered /\ Backlog' = Backlog
    BY <1>4, <2>1, NumbersStay
  <2>4. Refused' = Refused + 1
    BY <1>1, <1>10, RefuseSizes
  <2>5. Accepted' = Accepted
    BY <1>1, <2>2, <2>3, <2>4, AcceptedIs, AcceptedIsNext, NumbersAreNat
  <2> QED
    BY <1>3, <2>1, <2>5
<1>11. CASE CountDelivered
  <2>1. LoopStep("count", "log") /\ UNCHANGED <<pendingMessages, refused>>
    BY <1>11 DEF CountDelivered
  <2>2. Delivering' = Delivering /\ Counting = 1 /\ Counting' = 0
    BY <2>1 DEF LoopStep, Delivering, Counting, DispatcherAt
  <2>3. Backlog' = Backlog /\ Refused' = Refused
    BY <2>1, NumbersStay
  <2>4. ManagerDelivered' = ManagerDelivered + 1
    BY <1>1, <1>11 DEF CountDelivered, ManagerDelivered, TypeInv, CountersType
  <2>5. Accepted' = Accepted /\ ManagerDelivered < Accepted
    BY <1>1, <2>2, <2>3, <2>4, AcceptedIs, AcceptedIsNext, NumbersAreNat
  <2>6. Calling("channel")' = Calling("channel")
    BY <1>2, <2>1
  <2>7. totals' = [totals EXCEPT !.delivered = @ + 1] /\ totals.delivered < Accepted
    BY <1>11, <2>5 DEF CountDelivered, ManagerDelivered
  <2>8. Counters!Deliver
    BY <2>5, <2>6, <2>7 DEF Counters!Deliver
  <2> QED
    BY <2>8 DEF Counters!Next
<1> QED
  BY <1>6, <1>7, <1>8, <1>9, <1>10, <1>11 DEF DispatchLoop

LEMMA StepIsChannelStep == IPCInv /\ [Next]_vars => [Counters!Next]_(Counters!channelVars)
<1> SUFFICES ASSUME IPCInv, [Next]_vars
             PROVE  [Counters!Next]_(Counters!channelVars)
  OBVIOUS
<1>1. TypeInv
  BY DEF IPCInv
<1>2. CASE UNCHANGED <<pendingMessages, totals, refused, dpc, call>>
  BY <1>2, AcceptedStays, ChannelStays DEF Counters!channelVars
<1>3. CASE StartDispatcher
  <2>1. Backlog' = Backlog /\ Refused' = Refused /\ ManagerDelivered' = ManagerDelivered
        /\ Delivering' = Delivering /\ Counting' = Counting
    BY <1>3, NumbersStay DEF StartDispatcher
  <2>2. Accepted' = Accepted
    BY <2>1, AcceptedIs, AcceptedIsNext
  <2> QED
    BY <1>3, <2>2, ChannelStays DEF StartDispatcher, Counters!channelVars
<1>4. CASE Halt \/ (\E p \in Proc : Start(p)) \/ UNCHANGED vars
  BY <1>2, <1>4 DEF Halt, StopDispatcher, Stop, Start, dispatcherVars, vars
<1>5. CASE DispatchLoop
  BY <1>5, DispatchingImplements
<1>6. ASSUME NEW s \in Sender, SendMessage(s)
      PROVE  [Counters!Next]_(Counters!channelVars)
  BY <1>6, SendingImplements
<1>7. ASSUME NEW t \in Tester, BuildTestMessage(t)
      PROVE  [Counters!Next]_(Counters!channelVars)
  BY <1>1, <1>7, BuildingImplements DEF BuildTestMessage, Sender, dispatcherVars
<1>8. ASSUME NEW p \in Proc, BuildMessage(p)
      PROVE  [Counters!Next]_(Counters!channelVars)
  BY <1>1, <1>8, BuildingImplements DEF BuildMessage, RunStep, Sender, dispatcherVars
<1>9. ASSUME NEW p \in Proc, CountSend(p) \/ Receive(p) \/ Retry(p) \/ CountReceived(p) \/ Finish(p)
      PROVE  [Counters!Next]_(Counters!channelVars)
  BY <1>2, <1>9
     DEF CountSend, Receive, Retry, Take, CountReceived, Finish, RunStep, dispatcherVars
<1> QED
  BY <1>3, <1>4, <1>5, <1>6, <1>7, <1>8, <1>9 DEF Next, Launch, Run, Sender

(* To those who read the totals, the threads are one Channel: what is      *)
(* proved of Channel.tla is true of the manager's three counters.          *)
THEOREM ChannelIsImplemented == Spec => ImplementsChannel
<1>1. Init => Counters!Init
  <2> SUFFICES ASSUME Init
               PROVE  Counters!Init
    OBVIOUS
  <2>1. Calling("channel") = {}
    BY DEF Init, Calling, Returned
  <2>2. Accepted = 0
    BY FS_EmptySet DEF Init, Accepted, DispatcherAt
  <2> QED
    BY <2>1, <2>2 DEF Init, Counters!Init
<1> QED
  BY <1>1, StepIsChannelStep, IPCInvariance, PTL DEF Spec, ImplementsChannel, Counters!Spec
=============================================================================
