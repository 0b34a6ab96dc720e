---------------------------- MODULE LocksProofs ----------------------------
(* No data race under a mutex and no deadlock, for any number of process   *)
(* threads.                                                                *)
EXTENDS Locks, TLAPS

Data == LockedData \cup UnlockedData

(* What t accesses only under a mutex: main() prints without.              *)
Printed    == LockedData \cup {cout}
Guarded(t) == IF t = Main THEN LockedData ELSE Printed

Step == [op : {"lock", "unlock", "read", "write"}, on : Mutex \cup Data]

(* Which mutex an access to d is under.                                    *)
GuardOf(d) ==
  IF d = pendingMessages THEN schedulerMutex
  ELSE IF d = processRegistry THEN registryMutex
  ELSE IF d \in {recentLogs, cout} THEN logMutex
  ELSE <<"queueMutex", d[2]>>

(* A sequence of steps keeps the rules of the code: what is locked is      *)
(* unlocked, nothing is locked twice or unlocked twice, the data G is      *)
(* accessed under its mutex, and whoever holds a mutex locks only logMutex *)
(* on top of it.                                                           *)
KeepsRules(s, G) ==
  \A i \in 1 .. Len(s) :
    /\ s[i].op = "lock" =>
         /\ s[i].on \in HeldAt(s, i + 1)
         /\ HeldAt(s, i) # {} => s[i].on = logMutex
    /\ s[i].op = "unlock" => s[i].on \in Mutex /\ s[i].on \notin HeldAt(s, i + 1)
    /\ (s[i].op \in {"read", "write"} /\ s[i].on \in G) =>
         GuardOf(s[i].on) \in HeldAt(s, i)

LocksInv ==
  /\ owner \in [Mutex -> Thread \cup {NoThread}]
  /\ todo \in [Thread -> Seq(Step)]
  /\ \A t \in Thread : KeepsRules(todo[t], Guarded(t))
  /\ \A m \in Mutex, t \in Thread : owner[m] = t <=> m \in HeldAt(todo[t], 1)

-----------------------------------------------------------------------------
(* What is held follows from step to step.                                 *)
LEMMA HeldAtEnd ==
  ASSUME NEW s \in Seq(Step)
  PROVE  HeldAt(s, Len(s) + 1) = {}
BY DEF HeldAt

LEMMA HeldStep ==
  ASSUME NEW s \in Seq(Step), NEW i \in 1 .. Len(s)
  PROVE  /\ s[i].op = "lock" => HeldAt(s, i) = HeldAt(s, i + 1) \ {s[i].on}
         /\ (s[i].op = "unlock" /\ s[i].on \in Mutex) =>
              HeldAt(s, i) = HeldAt(s, i + 1) \cup {s[i].on}
         /\ s[i].op \in {"read", "write"} => HeldAt(s, i) = HeldAt(s, i + 1)
<1>1. s[i] \in Step
  OBVIOUS
<1>2. ASSUME NEW m \in HeldAt(s, i)
      PROVE  \/ s[i] = Unlock(m)
             \/ m \in HeldAt(s, i + 1) /\ s[i] # Lock(m)
  <2>1. PICK k \in i .. Len(s) : s[k] = Unlock(m) /\ \A j \in i .. k : s[j] # Lock(m)
    BY DEF HeldAt
  <2>2. CASE k = i
    BY <2>1, <2>2
  <2>3. CASE k # i
    BY <2>1, <2>3 DEF HeldAt
  <2> QED
    BY <2>2, <2>3
<1>3. ASSUME NEW m \in HeldAt(s, i + 1), s[i] # Lock(m)
      PROVE  m \in HeldAt(s, i)
  <2>1. PICK k \in i + 1 .. Len(s) : s[k] = Unlock(m) /\ \A j \in i + 1 .. k : s[j] # Lock(m)
    BY DEF HeldAt
  <2>2. \A j \in i .. k : j = i \/ j \in i + 1 .. k
    OBVIOUS
  <2> QED
    BY <1>3, <2>1, <2>2 DEF HeldAt
<1>4. ASSUME NEW m \in Mutex, s[i] = Unlock(m)
      PROVE  m \in HeldAt(s, i)
  BY <1>4 DEF HeldAt, Unlock, Lock
<1>5. HeldAt(s, i) \subseteq Mutex /\ HeldAt(s, i + 1) \subseteq Mutex
  BY DEF HeldAt
<1>6. /\ s[i].op = "lock" => s[i] = Lock(s[i].on)
      /\ s[i].op = "unlock" => s[i] = Unlock(s[i].on)
  BY <1>1 DEF Step, Lock, Unlock
<1>7. \A m : (Lock(m).op = "lock" /\ Lock(m).on = m) /\ (Unlock(m).op = "unlock" /\ Unlock(m).on = m)
  BY DEF Lock, Unlock
<1>8. CASE s[i].op = "lock"
  BY <1>2, <1>3, <1>5, <1>6, <1>7, <1>8
<1>9. CASE s[i].op = "unlock" /\ s[i].on \in Mutex
  BY <1>2, <1>3, <1>4, <1>5, <1>6, <1>7, <1>9
<1>10. CASE s[i].op \in {"read", "write"}
  <2>1. \A m : s[i] # Lock(m) /\ s[i] # Unlock(m)
    BY <1>7, <1>10
  <2> QED
    BY <1>2, <1>3, <1>10, <2>1
<1> QED
  BY <1>8, <1>9, <1>10

LEMMA HeldInTail ==
  ASSUME NEW s \in Seq(Step), s # << >>, NEW i \in 1 .. Len(s)
  PROVE  HeldAt(Tail(s), i) = HeldAt(s, i + 1)
<1>1. /\ Tail(s) \in Seq(Step) /\ Len(Tail(s)) = Len(s) - 1
      /\ \A k \in 1 .. Len(s) - 1 : Tail(s)[k] = s[k + 1]
  OBVIOUS
<1>2. ASSUME NEW m \in HeldAt(Tail(s), i)
      PROVE  m \in HeldAt(s, i + 1)
  <2>1. PICK k \in i .. Len(Tail(s)) :
          Tail(s)[k] = Unlock(m) /\ \A j \in i .. k : Tail(s)[j] # Lock(m)
    BY DEF HeldAt
  <2>2. k + 1 \in i + 1 .. Len(s) /\ s[k + 1] = Unlock(m)
    BY <1>1, <2>1
  <2>3. ASSUME NEW j \in i + 1 .. k + 1
        PROVE  s[j] # Lock(m)
    <3>1. j - 1 \in i .. k /\ Tail(s)[j - 1] = s[j]
      BY <1>1, <2>1
    <3> QED
      BY <2>1, <3>1
  <2> QED
    BY <2>2, <2>3 DEF HeldAt
<1>3. ASSUME NEW m \in HeldAt(s, i + 1)
      PROVE  m \in HeldAt(Tail(s), i)
  <2>1. PICK k \in i + 1 .. Len(s) : s[k] = Unlock(m) /\ \A j \in i + 1 .. k : s[j] # Lock(m)
    BY DEF HeldAt
  <2>2. k - 1 \in i .. Len(Tail(s)) /\ Tail(s)[k - 1] = Unlock(m)
    BY <1>1, <2>1
  <2>3. ASSUME NEW j \in i .. k - 1
        PROVE  Tail(s)[j] # Lock(m)
    <3>1. j + 1 \in i + 1 .. k /\ Tail(s)[j] = s[j + 1]
      BY <1>1, <2>1
    <3> QED
      BY <2>1, <3>1
  <2> QED
    BY <2>2, <2>3 DEF HeldAt
<1> QED
  BY <1>2, <1>3

LEMMA TailKeepsRules ==
  ASSUME NEW s \in Seq(Step), s # << >>, NEW G, KeepsRules(s, G)
  PROVE  Tail(s) \in Seq(Step) /\ KeepsRules(Tail(s), G)
<1>1. /\ Tail(s) \in Seq(Step) /\ Len(Tail(s)) = Len(s) - 1 /\ Len(s) \in Nat
      /\ \A k \in 1 .. Len(s) - 1 : Tail(s)[k] = s[k + 1]
  OBVIOUS
<1>2. ASSUME NEW i \in 1 .. Len(s) - 1
      PROVE  /\ HeldAt(Tail(s), i) = HeldAt(s, i + 1)
             /\ HeldAt(Tail(s), i + 1) = HeldAt(s, (i + 1) + 1)
             /\ i + 1 \in 1 .. Len(s)
  BY HeldInTail
<1> QED
  BY <1>1, <1>2 DEF KeepsRules

-----------------------------------------------------------------------------
(* The calls, one lemma for each form they have. All of them start and     *)
(* return without a mutex.                                                 *)
Correct(c, G) == c \in Seq(Step) /\ KeepsRules(c, G) /\ HeldAt(c, 1) = {}

LEMMA LessIsGuarded ==
  ASSUME NEW c, Correct(c, Printed)
  PROVE  Correct(c, LockedData)
<1>1. LockedData \subseteq Printed
  BY DEF Printed
<1> QED
  BY <1>1 DEF Correct, KeepsRules

LEMMA Concatenation ==
  ASSUME NEW s \in Seq(Step), NEW t \in Seq(Step)
  PROVE  /\ s \o t \in Seq(Step) /\ Len(s \o t) = Len(s) + Len(t)
         /\ \A k \in 1 .. Len(s) : (s \o t)[k] = s[k]
         /\ \A k \in 1 .. Len(t) : (s \o t)[Len(s) + k] = t[k]
OBVIOUS

LEMMA LockedSteps ==
  ASSUME NEW m \in Mutex, NEW body \in Seq(Step)
  PROVE  /\ Locked(m, body) \in Seq(Step)
         /\ Len(Locked(m, body)) = Len(body) + 2
         /\ Locked(m, body)[1].op = "lock" /\ Locked(m, body)[1].on = m
         /\ \A k \in 1 .. Len(body) : Locked(m, body)[k + 1] = body[k]
         /\ Locked(m, body)[Len(body) + 2].op = "unlock"
         /\ Locked(m, body)[Len(body) + 2].on = m
<1> DEFINE first == <<Lock(m)>>
           last == <<Unlock(m)>>
<1>1. /\ first \in Seq(Step) /\ Len(first) = 1 /\ first[1] = Lock(m)
      /\ last \in Seq(Step) /\ Len(last) = 1 /\ last[1] = Unlock(m)
  BY DEF Lock, Unlock, Step
<1>2. Locked(m, body) = (first \o body) \o last
  BY DEF Locked
<1> HIDE DEF first, last
<1> DEFINE c == first \o body
<1>3. /\ c \in Seq(Step) /\ Len(c) = Len(body) + 1 /\ c[1] = Lock(m)
      /\ \A k \in 1 .. Len(body) : c[k + 1] = body[k]
  <2>1. c \in Seq(Step) /\ Len(c) = Len(body) + 1
    BY <1>1, Concatenation
  <2>2. c[1] = Lock(m)
    BY <1>1, Concatenation
  <2>3. ASSUME NEW k \in 1 .. Len(body)
        PROVE  c[k + 1] = body[k]
    <3>1. c[Len(first) + k] = body[k]
      BY <1>1, Concatenation
    <3>2. Len(first) + k = k + 1
      BY <1>1
    <3> QED
      BY <3>1, <3>2
  <2> QED
    BY <2>1, <2>2, <2>3
<1> HIDE DEF c
<1> DEFINE d == c \o last
<1>4. /\ d \in Seq(Step) /\ Len(d) = Len(c) + 1 /\ d[Len(c) + 1] = Unlock(m)
      /\ \A k \in 1 .. Len(c) : d[k] = c[k]
  <2>1. 1 \in 1 .. Len(last)
    BY <1>1
  <2>2. d[Len(c) + 1] = last[1]
    BY <1>1, <1>3, <2>1, Concatenation
  <2>3. d \in Seq(Step) /\ Len(d) = Len(c) + Len(last)
    BY <1>1, <1>3, Concatenation
  <2>4. \A k \in 1 .. Len(c) : d[k] = c[k]
    BY <1>1, <1>3, Concatenation
  <2> QED
    BY <1>1, <2>2, <2>3, <2>4
<1>5. Locked(m, body) = d
  BY <1>2 DEF c
<1> HIDE DEF d
<1>6. Len(body) \in Nat /\ Len(c) + 1 = Len(body) + 2
  BY <1>3
<1>7. d[Len(body) + 2] = Unlock(m) /\ Len(d) = Len(body) + 2
  BY <1>4, <1>6
<1>8. d[1] = Lock(m)
  BY <1>3, <1>4, <1>6
<1>9. \A k \in 1 .. Len(body) : d[k + 1] = body[k]
  BY <1>3, <1>4, <1>6
<1> QED
  BY <1>4, <1>5, <1>7, <1>8, <1>9 DEF Lock, Unlock

(* A lock_guard around one access.                                         *)
LEMMA LockedAccessIsCorrect ==
  ASSUME NEW m \in Mutex, NEW a \in Step, a.op \in {"read", "write"},
         a.on \in Printed => GuardOf(a.on) = m
  PROVE  Correct(Locked(m, <<a>>), Printed)
<1> DEFINE c == Locked(m, <<a>>)
<1>1. /\ c \in Seq(Step) /\ Len(c) = 3
      /\ c[1].op = "lock" /\ c[1].on = m
      /\ c[2] = a
      /\ c[3].op = "unlock" /\ c[3].on = m
  <2> DEFINE body == <<a>>
  <2>1. body \in Seq(Step) /\ Len(body) = 1 /\ body[1] = a
    OBVIOUS
  <2> HIDE DEF body
  <2>2. c = Locked(m, body)
    BY DEF body
  <2> HIDE DEF c
  <2>3. Len(body) + 2 = 3 /\ 1 \in 1 .. Len(body) /\ 1 + 1 = 2
    BY <2>1
  <2>4. c[1 + 1] = body[1] /\ c[Len(body) + 2].op = "unlock" /\ c[Len(body) + 2].on = m
    BY <2>1, <2>2, <2>3, LockedSteps
  <2> QED
    BY <2>1, <2>2, <2>3, <2>4, LockedSteps
<1> HIDE DEF c
<1>2. HeldAt(c, 4) = {}
  <2>1. Len(c) + 1 = 4
    BY <1>1
  <2> QED
    BY <1>1, <2>1, HeldAtEnd
<1>3. HeldAt(c, 3) = {m}
  <2>1. 3 \in 1 .. Len(c) /\ 3 + 1 = 4
    BY <1>1
  <2>2. HeldAt(c, 3) = HeldAt(c, 4) \cup {m}
    BY <1>1, <2>1, HeldStep
  <2> QED
    BY <1>2, <2>2
<1>4. HeldAt(c, 2) = {m}
  BY <1>1, <1>3, HeldStep
<1>5. HeldAt(c, 1) = {}
  BY <1>1, <1>4, HeldStep
<1>6. KeepsRules(c, Printed)
  BY <1>1, <1>2, <1>3, <1>4, <1>5 DEF KeepsRules
<1> QED
  BY <1>1, <1>5, <1>6 DEF Correct, c

(* log(), by itself and under a mutex.                                     *)
LEMMA LogData ==
  /\ Write(tm) \in Step /\ Read(tm) \in Step
  /\ Write(cout) \in Step /\ Write(recentLogs) \in Step
  /\ GuardOf(cout) = logMutex /\ GuardOf(recentLogs) = logMutex
  /\ tm \notin Printed /\ logMutex \in Mutex
<1>1. /\ tm # pendingMessages /\ tm # processRegistry /\ tm # recentLogs /\ tm # cout
      /\ recentLogs # pendingMessages /\ recentLogs # processRegistry
      /\ cout # pendingMessages /\ cout # processRegistry
  BY DEF tm, pendingMessages, processRegistry, recentLogs, cout, All
<1>2. \A p \in Proc : tm # pq(p)
  BY DEF tm, pq, All, Of
<1> QED
  BY <1>1, <1>2 DEF Printed, LockedData, UnlockedData, Data, Step, Mutex, Read, Write, GuardOf

LEMMA LogSteps ==
  /\ Log \in Seq(Step) /\ Len(Log) = 6
  /\ Log[1].op = "lock" /\ Log[1].on = logMutex
  /\ Log[2].op = "write" /\ Log[2].on = tm
  /\ Log[3].op = "read" /\ Log[3].on = tm
  /\ Log[4].op = "write" /\ Log[4].on = cout
  /\ Log[5].op = "write" /\ Log[5].on = recentLogs
  /\ Log[6].op = "unlock" /\ Log[6].on = logMutex
<1> DEFINE last == <<Write(cout), Write(recentLogs)>>
           body == GetCurrentTimestamp \o last
<1>1. /\ GetCurrentTimestamp \in Seq(Step) /\ Len(GetCurrentTimestamp) = 2
      /\ GetCurrentTimestamp[1] = Write(tm) /\ GetCurrentTimestamp[2] = Read(tm)
  BY LogData DEF GetCurrentTimestamp
<1>2. /\ last \in Seq(Step) /\ Len(last) = 2
      /\ last[1] = Write(cout) /\ last[2] = Write(recentLogs)
  BY LogData
<1>3. Log = Locked(logMutex, body)
  BY DEF Log
<1> HIDE DEF last
<1>4. /\ body \in Seq(Step) /\ Len(body) = 4
      /\ body[1] = Write(tm) /\ body[2] = Read(tm)
      /\ body[3] = Write(cout) /\ body[4] = Write(recentLogs)
  <2>1. /\ 1 \in 1 .. Len(GetCurrentTimestamp) /\ 2 \in 1 .. Len(GetCurrentTimestamp)
        /\ 1 \in 1 .. Len(last) /\ 2 \in 1 .. Len(last)
        /\ Len(GetCurrentTimestamp) + 1 = 3 /\ Len(GetCurrentTimestamp) + 2 = 4
    BY <1>1, <1>2
  <2>2. body[1] = Write(tm) /\ body[2] = Read(tm)
    BY <1>1, <1>2, <2>1, Concatenation
  <2>3. /\ body[Len(GetCurrentTimestamp) + 1] = last[1]
        /\ body[Len(GetCurrentTimestamp) + 2] = last[2]
    BY <1>1, <1>2, <2>1, Concatenation
  <2>4. body \in Seq(Step) /\ Len(body) = Len(GetCurrentTimestamp) + Len(last)
    BY <1>1, <1>2, Concatenation
  <2> QED
    BY <1>1, <1>2, <2>1, <2>2, <2>3, <2>4
<1> HIDE DEF body
<1>5. /\ Log \in Seq(Step) /\ Len(Log) = 6
      /\ Log[1].op = "lock" /\ Log[1].on = logMutex
      /\ Log[1 + 1] = body[1] /\ Log[2 + 1] = body[2]
      /\ Log[3 + 1] = body[3] /\ Log[4 + 1] = body[4]
      /\ Log[4 + 2].op = "unlock" /\ Log[4 + 2].on = logMutex
  <2>1. 1 \in 1 .. Len(body) /\ 2 \in 1 .. Len(body) /\ 3 \in 1 .. Len(body)
        /\ 4 \in 1 .. Len(body) /\ Len(body) + 2 = 6 /\ body \in Seq(Step) /\ logMutex \in Mutex
    BY <1>4, LogData
  <2>2. \A k \in 1 .. Len(body) : Log[k + 1] = body[k]
    BY <1>3, <2>1, LockedSteps
  <2>3. /\ Log \in Seq(Step) /\ Len(Log) = Len(body) + 2
        /\ Log[1].op = "lock" /\ Log[1].on = logMutex
        /\ Log[Len(body) + 2].op = "unlock" /\ Log[Len(body) + 2].on = logMutex
    BY <1>3, <2>1, LockedSteps
  <2> QED
    BY <2>1, <2>2, <2>3
<1> QED
  BY <1>4, <1>5 DEF Read, Write

LEMMA LogIsCorrect == Correct(Log, Printed)
<1>1. HeldAt(Log, 7) = {}
  <2>1. Len(Log) + 1 = 7
    BY LogSteps
  <2> QED
    BY <2>1, LogSteps, HeldAtEnd
<1>2. HeldAt(Log, 6) = {logMutex}
  <2>1. 6 \in 1 .. Len(Log) /\ 6 + 1 = 7
    BY LogSteps
  <2>2. HeldAt(Log, 6) = HeldAt(Log, 7) \cup {logMutex}
    BY <2>1, LogSteps, LogData, HeldStep
  <2> QED
    BY <1>1, <2>2
<1>3. HeldAt(Log, 5) = {logMutex}
  BY <1>2, LogSteps, HeldStep
<1>4. HeldAt(Log, 4) = {logMutex}
  BY <1>3, LogSteps, HeldStep
<1>5. HeldAt(Log, 3) = {logMutex}
  BY <1>4, LogSteps, HeldStep
<1>6. HeldAt(Log, 2) = {logMutex}
  BY <1>5, LogSteps, HeldStep
<1>7. HeldAt(Log, 1) = {}
  BY <1>6, LogSteps, HeldStep
<1>8. KeepsRules(Log, Printed)
  BY <1>1, <1>2, <1>3, <1>4, <1>5, <1>6, <1>7, LogSteps, LogData DEF KeepsRules
<1> QED
  BY <1>7, <1>8, LogSteps DEF Correct

LEMMA LogUnderMutexIsCorrect ==
  ASSUME NEW m \in Mutex \ {logMutex}, NEW a \in Step, a.op \in {"read", "write"},
         a.on \in Printed => GuardOf(a.on) = m
  PROVE  Correct(Locked(m, <<a>> \o Log), Printed)
<1> DEFINE first == <<a>>
           body == first \o Log
           c == Locked(m, body)
<1>1. first \in Seq(Step) /\ Len(first) = 1 /\ first[1] = a
  OBVIOUS
<1> HIDE DEF first
<1>2. /\ body \in Seq(Step) /\ Len(body) = 7 /\ body[1] = a
      /\ \A k \in 1 .. 6 : body[k + 1] = Log[k]
  <2>1. /\ body \in Seq(Step) /\ Len(body) = Len(first) + Len(Log)
        /\ \A k \in 1 .. Len(first) : body[k] = first[k]
        /\ \A k \in 1 .. Len(Log) : body[Len(first) + k] = Log[k]
    BY <1>1, LogSteps, Concatenation
  <2>2. 1 \in 1 .. Len(first) /\ Len(first) + Len(Log) = 7
    BY <1>1, LogSteps
  <2>3. \A k \in 1 .. 6 : k \in 1 .. Len(Log) /\ Len(first) + k = k + 1
    BY <1>1, LogSteps
  <2> QED
    BY <1>1, <2>1, <2>2, <2>3
<1> HIDE DEF body
<1>3. /\ c \in Seq(Step) /\ Len(c) = 9
      /\ c[1].op = "lock" /\ c[1].on = m
      /\ \A k \in 1 .. 7 : c[k + 1] = body[k]
      /\ c[9].op = "unlock" /\ c[9].on = m
  <2>1. m \in Mutex /\ body \in Seq(Step) /\ Len(body) + 2 = 9 /\ 1 .. Len(body) = 1 .. 7
    BY <1>2
  <2>2. /\ c \in Seq(Step) /\ Len(c) = Len(body) + 2 /\ c[1].op = "lock" /\ c[1].on = m
        /\ \A k \in 1 .. Len(body) : c[k + 1] = body[k]
        /\ c[Len(body) + 2].op = "unlock" /\ c[Len(body) + 2].on = m
    BY <2>1, LockedSteps
  <2> QED
    BY <2>1, <2>2
<1> HIDE DEF c
<1>4. /\ c[2] = a
      /\ c[3].op = "lock" /\ c[3].on = logMutex
      /\ c[4].op = "write" /\ c[4].on = tm
      /\ c[5].op = "read" /\ c[5].on = tm
      /\ c[6].op = "write" /\ c[6].on = cout
      /\ c[7].op = "write" /\ c[7].on = recentLogs
      /\ c[8].op = "unlock" /\ c[8].on = logMutex
  <2>1. /\ c[1 + 1] = body[1] /\ c[2 + 1] = body[1 + 1] /\ c[3 + 1] = body[2 + 1]
        /\ c[4 + 1] = body[3 + 1] /\ c[5 + 1] = body[4 + 1] /\ c[6 + 1] = body[5 + 1]
        /\ c[7 + 1] = body[6 + 1]
    BY <1>3
  <2>2. /\ body[1 + 1] = Log[1] /\ body[2 + 1] = Log[2] /\ body[3 + 1] = Log[3]
        /\ body[4 + 1] = Log[4] /\ body[5 + 1] = Log[5] /\ body[6 + 1] = Log[6]
    BY <1>2
  <2> QED
    BY <1>2, <2>1, <2>2, LogSteps
<1>5. HeldAt(c, 10) = {}
  <2>1. Len(c) + 1 = 10
    BY <1>3
  <2> QED
    BY <1>3, <2>1, HeldAtEnd
<1>6. HeldAt(c, 9) = {m}
  <2>1. 9 \in 1 .. Len(c) /\ 9 + 1 = 10
    BY <1>3
  <2>2. HeldAt(c, 9) = HeldAt(c, 10) \cup {m}
    BY <1>3, <2>1, HeldStep
  <2> QED
    BY <1>5, <2>2
<1>7. HeldAt(c, 8) = {m, logMutex}
  <2>1. 8 \in 1 .. Len(c) /\ 8 + 1 = 9
    BY <1>3
  <2>2. HeldAt(c, 8) = HeldAt(c, 9) \cup {logMutex}
    BY <1>3, <1>4, <2>1, LogData, HeldStep
  <2> QED
    BY <1>6, <2>2
<1>8. HeldAt(c, 7) = {m, logMutex}
  BY <1>3, <1>4, <1>7, HeldStep
<1>9. HeldAt(c, 6) = {m, logMutex}
  BY <1>3, <1>4, <1>8, HeldStep
<1>10. HeldAt(c, 5) = {m, logMutex}
  BY <1>3, <1>4, <1>9, HeldStep
<1>11. HeldAt(c, 4) = {m, logMutex}
  BY <1>3, <1>4, <1>10, HeldStep
<1>12. HeldAt(c, 3) = {m}
  <2>1. HeldAt(c, 3) = HeldAt(c, 4) \ {logMutex}
    BY <1>3, <1>4, HeldStep
  <2> QED
    BY <1>11, <2>1
<1>13. HeldAt(c, 2) = {m}
  BY <1>3, <1>4, <1>12, HeldStep
<1>14. HeldAt(c, 1) = {}
  <2>1. HeldAt(c, 1) = HeldAt(c, 2) \ {m}
    BY <1>3, HeldStep
  <2> QED
    BY <1>13, <2>1
<1>15. KeepsRules(c, Printed)
  <2> SUFFICES ASSUME NEW k \in 1 .. Len(c)
               PROVE  /\ c[k].op = "lock" =>
                           /\ c[k].on \in HeldAt(c, k + 1)
                           /\ HeldAt(c, k) # {} => c[k].on = logMutex
                      /\ c[k].op = "unlock" =>
                           c[k].on \in Mutex /\ c[k].on \notin HeldAt(c, k + 1)
                      /\ (c[k].op \in {"read", "write"} /\ c[k].on \in Printed) =>
                           GuardOf(c[k].on) \in HeldAt(c, k)
    BY DEF KeepsRules
  <2>1. CASE k \in {1, 2, 3, 4}
    BY <1>3, <1>4, <1>10, <1>11, <1>12, <1>13, <1>14, <2>1, LogData
  <2>2. CASE k \in {5, 6, 7, 8, 9}
    BY <1>3, <1>4, <1>5, <1>6, <1>7, <1>8, <1>9, <1>10, <2>2, LogData
  <2> QED
    BY <1>3, <2>1, <2>2
<1> QED
  BY <1>3, <1>14, <1>15 DEF Correct, c, body, first

(* Data that no mutex guards is accessed freely.                           *)
LEMMA FreeAccessIsCorrect ==
  ASSUME NEW c \in Seq(Step),
         NEW G, \A i \in 1 .. Len(c) : c[i].op \in {"read", "write"} /\ c[i].on \notin G
  PROVE  Correct(c, G)
<1>1. ASSUME NEW m \in HeldAt(c, 1)
      PROVE  FALSE
  <2>1. PICK k \in 1 .. Len(c) : c[k] = Unlock(m)
    BY DEF HeldAt
  <2> QED
    BY <2>1 DEF Unlock
<1>2. HeldAt(c, 1) = {}
  BY <1>1
<1>3. KeepsRules(c, G)
  BY DEF KeepsRules
<1> QED
  BY <1>2, <1>3 DEF Correct

(* Which names are whose.                                                  *)
LEMMA Names ==
  /\ GuardOf(pendingMessages) = schedulerMutex
  /\ GuardOf(processRegistry) = registryMutex
  /\ GuardOf(recentLogs) = logMutex
  /\ \A p \in Proc : GuardOf(pq(p)) = queueMutex(p)
  /\ GuardOf(cout) = logMutex /\ cout \notin LockedData
  /\ \A p \in Proc : state(p) \notin Printed
  /\ rng \notin Printed /\ tm \notin Printed
  /\ schedulerMutex \in Mutex \ {logMutex} /\ registryMutex \in Mutex /\ logMutex \in Mutex
  /\ \A p \in Proc : queueMutex(p) \in Mutex \ {logMutex} /\ stateMutex(p) \in Mutex
<1> USE DEF pendingMessages, processRegistry, recentLogs, cout, rng, tm, pq, state,
            schedulerMutex, registryMutex, logMutex, queueMutex, stateMutex, All, Of
<1>1. /\ GuardOf(pendingMessages) = schedulerMutex
      /\ GuardOf(processRegistry) = registryMutex
      /\ GuardOf(recentLogs) = logMutex /\ GuardOf(cout) = logMutex
  BY DEF GuardOf
<1>2. \A p \in Proc : GuardOf(pq(p)) = queueMutex(p)
  BY DEF GuardOf
<1>3. \A p \in Proc : state(p) \notin Printed
  BY DEF Printed, LockedData
<1>4. rng \notin Printed /\ tm \notin Printed /\ cout \notin LockedData
  BY DEF Printed, LockedData
<1>5. schedulerMutex \in Mutex \ {logMutex} /\ registryMutex \in Mutex /\ logMutex \in Mutex
  BY DEF Mutex
<1>6. \A p \in Proc : queueMutex(p) \in Mutex \ {logMutex} /\ stateMutex(p) \in Mutex
  BY DEF Mutex
<1> QED
  BY <1>1, <1>2, <1>3, <1>4, <1>5, <1>6

LEMMA AccessType ==
  ASSUME NEW d \in Data
  PROVE  /\ Read(d) \in Step /\ Read(d).op = "read" /\ Read(d).on = d
         /\ Write(d) \in Step /\ Write(d).op = "write" /\ Write(d).on = d
BY DEF Read, Write, Step

LEMMA FreeCalls ==
  /\ Correct(GetCurrentTimestamp, Printed) /\ Correct(ShouldDropMessage, Printed)
  /\ \A p \in Proc : Correct(GetState(p), Printed)
<1>1. tm \in Data /\ rng \in Data /\ \A p \in Proc : state(p) \in Data
  BY DEF Data, UnlockedData
<1>2. Correct(GetCurrentTimestamp, Printed)
  <2>1. /\ GetCurrentTimestamp \in Seq(Step) /\ Len(GetCurrentTimestamp) = 2
        /\ GetCurrentTimestamp[1] = Write(tm) /\ GetCurrentTimestamp[2] = Read(tm)
    BY <1>1, AccessType DEF GetCurrentTimestamp
  <2> QED
    BY <1>1, <2>1, AccessType, Names, FreeAccessIsCorrect
<1>3. Correct(ShouldDropMessage, Printed)
  <2>1. /\ ShouldDropMessage \in Seq(Step) /\ Len(ShouldDropMessage) = 1
        /\ ShouldDropMessage[1] = Write(rng)
    BY <1>1, AccessType DEF ShouldDropMessage
  <2> QED
    BY <1>1, <2>1, AccessType, Names, FreeAccessIsCorrect
<1>4. ASSUME NEW p \in Proc
      PROVE  Correct(GetState(p), Printed)
  <2>1. /\ GetState(p) \in Seq(Step) /\ Len(GetState(p)) = 1
        /\ GetState(p)[1] = Read(state(p))
    BY <1>1, AccessType DEF GetState
  <2> QED
    BY <1>1, <2>1, AccessType, Names, FreeAccessIsCorrect
<1> QED
  BY <1>2, <1>3, <1>4

LEMMA PrintLineIsCorrect == Correct(PrintLine, LockedData)
<1>1. /\ PrintLine \in Seq(Step) /\ Len(PrintLine) = 1 /\ PrintLine[1] = Write(cout)
  BY LogData DEF PrintLine
<1> QED
  BY <1>1, Names, FreeAccessIsCorrect DEF Write

(* Every call of every thread keeps the rules.                             *)
LEMMA CallsAreCorrect ==
  ASSUME NEW t \in Thread, NEW c \in Calls(t)
  PROVE  Correct(c, Guarded(t))
<1>1. /\ pendingMessages \in Data /\ processRegistry \in Data /\ recentLogs \in Data
      /\ cout \in Data
      /\ \A p \in Proc : pq(p) \in Data /\ state(p) \in Data
  BY DEF Data, LockedData, UnlockedData
<1>2. ASSUME NEW m \in Mutex, NEW d \in Data, d \in Printed => GuardOf(d) = m
      PROVE  Correct(Locked(m, <<Read(d)>>), Printed) /\ Correct(Locked(m, <<Write(d)>>), Printed)
  BY <1>2, AccessType, LockedAccessIsCorrect
<1>3. ASSUME NEW m \in Mutex \ {logMutex}, NEW d \in Data, d \in Printed => GuardOf(d) = m
      PROVE  /\ Correct(Locked(m, <<Read(d)>> \o Log), Printed)
             /\ Correct(Locked(m, <<Write(d)>> \o Log), Printed)
  BY <1>3, AccessType, LogUnderMutexIsCorrect
<1>4. /\ Correct(AddMessage, Printed) /\ Correct(GetNext, Printed)
      /\ Correct(GetProcess, Printed) /\ Correct(GetRecentLogs, Printed)
      /\ Correct(PrintStats, Printed)
  BY <1>1, <1>2, Names DEF AddMessage, GetNext, GetProcess, GetRecentLogs, PrintStats
<1>5. \A a \in ApplyAging : Correct(a, Printed)
  BY <1>1, <1>2, <1>3, Names DEF ApplyAging
<1>6. ASSUME NEW p \in Proc
      PROVE  /\ Correct(SetState(p), Printed) /\ Correct(NonBlockingReceive(p), Printed)
             /\ Correct(GetSnapshot(p), Printed) /\ \A e \in Enqueue(p) : Correct(e, Printed)
  <2>1. /\ pq(p) \in Data /\ GuardOf(pq(p)) = queueMutex(p)
        /\ queueMutex(p) \in Mutex \ {logMutex} /\ queueMutex(p) \in Mutex
    BY <1>1, Names
  <2>2. /\ state(p) \in Data /\ state(p) \notin Printed /\ stateMutex(p) \in Mutex
    BY <1>1, Names
  <2>3. Correct(SetState(p), Printed)
    BY <1>2, <2>2 DEF SetState
  <2>4. Correct(NonBlockingReceive(p), Printed) /\ Correct(GetSnapshot(p), Printed)
    BY <1>2, <2>1 DEF NonBlockingReceive, GetSnapshot
  <2>5. \A e \in Enqueue(p) : Correct(e, Printed)
    BY <1>2, <1>3, <2>1 DEF Enqueue
  <2> QED
    BY <2>3, <2>4, <2>5
<1>7. CASE t = Dispatcher
  <2>1. c \in DispatcherCalls
    BY <1>7 DEF Calls
  <2>2. Correct(c, Printed)
    BY <1>4, <1>5, <1>6, <2>1, LogIsCorrect DEF DispatcherCalls
  <2> QED
    BY <1>7, <2>2, ThreadAssumption DEF Guarded
<1>8. CASE t = Main
  <2>1. c \in MainCalls
    BY <1>8, ThreadAssumption DEF Calls
  <2>2. CASE c = PrintLine
    BY <1>8, <2>2, PrintLineIsCorrect DEF Guarded
  <2>3. CASE c # PrintLine
    <3>1. Correct(c, Printed)
      BY <1>4, <1>6, <2>1, <2>3, LogIsCorrect, FreeCalls DEF MainCalls, DrawCalls
    <3> QED
      BY <1>8, <3>1, LessIsGuarded DEF Guarded
  <2> QED
    BY <2>2, <2>3
<1>9. CASE t \in Proc
  <2>1. c \in RunCalls(t)
    BY <1>9, ThreadAssumption DEF Calls
  <2>2. Correct(c, Printed)
    BY <1>4, <1>6, <1>9, <2>1, LogIsCorrect, FreeCalls DEF RunCalls
  <2> QED
    BY <1>9, <2>2, ThreadAssumption DEF Guarded
<1> QED
  BY <1>7, <1>8, <1>9 DEF Thread

-----------------------------------------------------------------------------
(* The invariant. Only the step of t changes what t is about to do.        *)
LEMMA LocksInit == Init => LocksInv
<1> SUFFICES ASSUME Init
             PROVE  LocksInv
  OBVIOUS
<1>1. owner \in [Mutex -> Thread \cup {NoThread}] /\ todo \in [Thread -> Seq(Step)]
  BY DEF Init
<1>2. ASSUME NEW t \in Thread
      PROVE  KeepsRules(todo[t], Guarded(t)) /\ HeldAt(todo[t], 1) = {}
  <2>1. todo[t] = << >>
    BY DEF Init
  <2> QED
    BY <2>1 DEF KeepsRules, HeldAt
<1>3. \A m \in Mutex, t \in Thread : owner[m] # t
  BY ThreadAssumption DEF Init, Thread
<1> QED
  BY <1>1, <1>2, <1>3 DEF LocksInv

LEMMA LocksStep == LocksInv /\ [Next]_vars => LocksInv'
<1> SUFFICES ASSUME LocksInv, [Next]_vars
             PROVE  LocksInv'
  OBVIOUS
<1>1. /\ owner \in [Mutex -> Thread \cup {NoThread}]
      /\ todo \in [Thread -> Seq(Step)]
      /\ \A t \in Thread : KeepsRules(todo[t], Guarded(t))
      /\ \A m \in Mutex, t \in Thread : owner[m] = t <=> m \in HeldAt(todo[t], 1)
  BY DEF LocksInv
<1>2. CASE UNCHANGED vars
  BY <1>2 DEF LocksInv, vars
<1>3. ASSUME NEW t \in Thread, todo[t] # << >>, todo' = [todo EXCEPT ![t] = Tail(@)]
      PROVE  /\ todo' \in [Thread -> Seq(Step)]
             /\ \A u \in Thread : KeepsRules(todo'[u], Guarded(u))
             /\ \A u \in Thread \ {t} : HeldAt(todo'[u], 1) = HeldAt(todo[u], 1)
             /\ HeldAt(todo'[t], 1) = HeldAt(todo[t], 2)
             /\ 1 \in 1 .. Len(todo[t]) /\ Head(todo[t]) = todo[t][1]
             /\ todo[t] \in Seq(Step)
  <2>1. todo[t] \in Seq(Step) /\ 1 \in 1 .. Len(todo[t]) /\ Head(todo[t]) = todo[t][1]
    BY <1>1, <1>3
  <2>2. Tail(todo[t]) \in Seq(Step) /\ KeepsRules(Tail(todo[t]), Guarded(t))
    BY <1>1, <1>3, <2>1, TailKeepsRules
  <2>3. HeldAt(Tail(todo[t]), 1) = HeldAt(todo[t], 1 + 1)
    BY <1>3, <2>1, HeldInTail
  <2>4. todo'[t] = Tail(todo[t]) /\ \A u \in Thread \ {t} : todo'[u] = todo[u]
    BY <1>1, <1>3
  <2>5. todo' \in [Thread -> Seq(Step)]
    BY <1>1, <1>3, <2>2
  <2>6. \A u \in Thread : KeepsRules(todo'[u], Guarded(u))
    BY <1>1, <2>2, <2>4
  <2>7. 1 + 1 = 2
    OBVIOUS
  <2>8. HeldAt(todo'[t], 1) = HeldAt(todo[t], 2)
    BY <2>3, <2>4, <2>7
  <2>9. \A u \in Thread \ {t} : HeldAt(todo'[u], 1) = HeldAt(todo[u], 1)
    BY <2>4
  <2> QED
    BY <2>1, <2>5, <2>6, <2>8, <2>9
<1>4. ASSUME NEW t \in Thread, Call(t)
      PROVE  LocksInv'
  <2>1. PICK c \in Calls(t) : todo' = [todo EXCEPT ![t] = c]
    BY <1>4 DEF Call
  <2>2. c \in Seq(Step) /\ KeepsRules(c, Guarded(t)) /\ HeldAt(c, 1) = {}
    BY CallsAreCorrect DEF Correct
  <2>3. HeldAt(todo[t], 1) = {}
    BY <1>4 DEF Call, HeldAt
  <2>4. owner' = owner
    BY <1>4 DEF Call
  <2>5. todo'[t] = c /\ \A u \in Thread \ {t} : todo'[u] = todo[u]
    BY <1>1, <2>1
  <2>6. todo' \in [Thread -> Seq(Step)]
    BY <1>1, <2>1, <2>2
  <2>7. \A u \in Thread : KeepsRules(todo'[u], Guarded(u)) /\ HeldAt(todo'[u], 1) = HeldAt(todo[u], 1)
    BY <1>1, <2>2, <2>3, <2>5
  <2> QED
    BY <1>1, <2>4, <2>6, <2>7 DEF LocksInv
<1>5. ASSUME NEW t \in Thread, NEW m \in Mutex, Acquire(t, m)
      PROVE  LocksInv'
  <2>1. /\ todo[t] # << >> /\ Head(todo[t]).op = "lock" /\ Head(todo[t]).on = m
        /\ owner[m] = NoThread /\ owner' = [owner EXCEPT ![m] = t]
        /\ todo' = [todo EXCEPT ![t] = Tail(@)]
    BY <1>5 DEF Acquire, IsNext
  <2>2. /\ todo' \in [Thread -> Seq(Step)] /\ \A u \in Thread : KeepsRules(todo'[u], Guarded(u))
        /\ \A u \in Thread \ {t} : HeldAt(todo'[u], 1) = HeldAt(todo[u], 1)
        /\ HeldAt(todo'[t], 1) = HeldAt(todo[t], 2)
        /\ 1 \in 1 .. Len(todo[t]) /\ Head(todo[t]) = todo[t][1] /\ todo[t] \in Seq(Step)
    BY <1>3, <2>1
  <2>3. HeldAt(todo[t], 1) = HeldAt(todo[t], 1 + 1) \ {m}
    BY <2>1, <2>2, HeldStep
  <2>4. m \in HeldAt(todo[t], 1 + 1)
    BY <1>1, <2>1, <2>2 DEF KeepsRules
  <2>5. HeldAt(todo'[t], 1) = HeldAt(todo[t], 1) \cup {m}
    BY <2>2, <2>3, <2>4
  <2>6. \A u \in Thread : m \notin HeldAt(todo[u], 1)
    BY <1>1, <2>1, ThreadAssumption DEF Thread
  <2>7. ASSUME NEW n \in Mutex, NEW u \in Thread
        PROVE  owner'[n] = u <=> n \in HeldAt(todo'[u], 1)
    <3>1. owner[n] = u <=> n \in HeldAt(todo[u], 1)
      BY <1>1
    <3>2. owner'[n] = IF n = m THEN t ELSE owner[n]
      BY <1>1, <2>1
    <3> QED
      BY <2>2, <2>5, <2>6, <3>1, <3>2
  <2>8. owner' \in [Mutex -> Thread \cup {NoThread}]
    BY <1>1, <2>1
  <2> QED
    BY <2>2, <2>7, <2>8 DEF LocksInv
<1>6. ASSUME NEW t \in Thread, NEW m \in Mutex, Release(t, m)
      PROVE  LocksInv'
  <2>1. /\ todo[t] # << >> /\ Head(todo[t]).op = "unlock" /\ Head(todo[t]).on = m
        /\ owner' = [owner EXCEPT ![m] = NoThread]
        /\ todo' = [todo EXCEPT ![t] = Tail(@)]
    BY <1>6 DEF Release, IsNext
  <2>2. /\ todo' \in [Thread -> Seq(Step)] /\ \A u \in Thread : KeepsRules(todo'[u], Guarded(u))
        /\ \A u \in Thread \ {t} : HeldAt(todo'[u], 1) = HeldAt(todo[u], 1)
        /\ HeldAt(todo'[t], 1) = HeldAt(todo[t], 2)
        /\ 1 \in 1 .. Len(todo[t]) /\ Head(todo[t]) = todo[t][1] /\ todo[t] \in Seq(Step)
    BY <1>3, <2>1
  <2>3. HeldAt(todo[t], 1) = HeldAt(todo[t], 1 + 1) \cup {m}
    BY <2>1, <2>2, HeldStep
  <2>4. m \notin HeldAt(todo[t], 1 + 1)
    BY <1>1, <2>1, <2>2 DEF KeepsRules
  <2>5. HeldAt(todo'[t], 1) = HeldAt(todo[t], 1) \ {m}
    BY <2>2, <2>3, <2>4
  <2>6. owner[m] = t /\ NoThread \notin Thread
    BY <1>1, <2>3, ThreadAssumption DEF Thread
  <2>7. ASSUME NEW n \in Mutex, NEW u \in Thread
        PROVE  owner'[n] = u <=> n \in HeldAt(todo'[u], 1)
    <3>1. owner[n] = u <=> n \in HeldAt(todo[u], 1)
      BY <1>1
    <3>2. owner'[n] = IF n = m THEN NoThread ELSE owner[n]
      BY <1>1, <2>1
    <3> QED
      BY <2>2, <2>5, <2>6, <3>1, <3>2
  <2>8. owner' \in [Mutex -> Thread \cup {NoThread}]
    BY <1>1, <2>1
  <2> QED
    BY <2>2, <2>7, <2>8 DEF LocksInv
<1>7. ASSUME NEW t \in Thread, Access(t)
      PROVE  LocksInv'
  <2>1. /\ todo[t] # << >> /\ Head(todo[t]).op \in {"read", "write"}
        /\ owner' = owner /\ todo' = [todo EXCEPT ![t] = Tail(@)]
    BY <1>7 DEF Access
  <2>2. /\ todo' \in [Thread -> Seq(Step)] /\ \A u \in Thread : KeepsRules(todo'[u], Guarded(u))
        /\ \A u \in Thread \ {t} : HeldAt(todo'[u], 1) = HeldAt(todo[u], 1)
        /\ HeldAt(todo'[t], 1) = HeldAt(todo[t], 2)
        /\ 1 \in 1 .. Len(todo[t]) /\ Head(todo[t]) = todo[t][1] /\ todo[t] \in Seq(Step)
    BY <1>3, <2>1
  <2>3. HeldAt(todo[t], 1) = HeldAt(todo[t], 1 + 1)
    BY <2>1, <2>2, HeldStep
  <2>4. \A u \in Thread : HeldAt(todo'[u], 1) = HeldAt(todo[u], 1)
    BY <2>2, <2>3
  <2> QED
    BY <1>1, <2>1, <2>2, <2>4 DEF LocksInv
<1> QED
  BY <1>2, <1>4, <1>5, <1>6, <1>7 DEF Next

(* In every reachable state what each thread has left of its call keeps    *)
(* the rules, and each mutex has the owner that the rest of the calls say. *)
THEOREM LocksInvariance == Spec => []LocksInv
BY LocksInit, LocksStep, PTL DEF Spec

-----------------------------------------------------------------------------
(* A mutex belongs to the thread that is about to release it, and to no    *)
(* other: no call forgets to unlock or locks twice.                        *)
THEOREM LocksTypeCorrect == Spec => []LocksTypeOK
<1>1. LocksInv => LocksTypeOK
  BY DEF LocksInv, LocksTypeOK
<1> QED
  BY <1>1, LocksInvariance, PTL

(* An access to guarded data is made by the owner of its mutex; there is   *)
(* only one.                                                               *)
LEMMA OwnerAccesses ==
  ASSUME LocksInv, NEW t \in Thread, NEW d \in Guarded(t), Accesses(t, d)
  PROVE  GuardOf(d) \in Mutex /\ owner[GuardOf(d)] = t
<1>1. todo[t] \in Seq(Step) /\ KeepsRules(todo[t], Guarded(t))
  BY DEF LocksInv
<1>2. 1 \in 1 .. Len(todo[t]) /\ todo[t][1].op \in {"read", "write"} /\ todo[t][1].on = d
  BY <1>1 DEF Accesses, IsNext
<1>3. GuardOf(d) \in HeldAt(todo[t], 1)
  BY <1>1, <1>2 DEF KeepsRules
<1>4. GuardOf(d) \in Mutex
  BY <1>3 DEF HeldAt
<1> QED
  BY <1>3, <1>4 DEF LocksInv

(* TC-04 "Scheduler thread safety": what has a mutex is never accessed by  *)
(* two threads at once if one of them writes; nor is the console, main()   *)
(* apart, which prints without logMutex (main.cpp:84-86).                  *)
THEOREM RaceFreeCorrect == Spec => []LockedDataIsRaceFree
<1>1. ASSUME LocksInv, NEW T \in SUBSET Thread, NEW d, \A t \in T : d \in Guarded(t)
      PROVE  ~DataRace(d, T)
  <2> SUFFICES ASSUME NEW t \in T, NEW u \in T,
                      t # u, IsNext(t, "write", d), Accesses(u, d)
               PROVE  FALSE
    BY DEF DataRace
  <2>1. Accesses(t, d)
    BY DEF Accesses
  <2>2. owner[GuardOf(d)] = t
    BY <1>1, <2>1, OwnerAccesses
  <2>3. owner[GuardOf(d)] = u
    BY <1>1, OwnerAccesses
  <2> QED
    BY <2>2, <2>3
<1>2. \A d \in LockedData, t \in Thread : d \in Guarded(t)
  BY DEF Guarded, Printed
<1>3. \A t \in Thread \ {Main} : cout \in Guarded(t)
  BY DEF Guarded, Printed
<1>4. LocksInv => LockedDataIsRaceFree
  BY <1>1, <1>2, <1>3 DEF LockedDataIsRaceFree
<1> QED
  BY <1>4, LocksInvariance, PTL

(* A thread that waits while it owns a mutex waits for logMutex; nobody    *)
(* locks what it owns.                                                     *)
LEMMA WaitsInOrder ==
  ASSUME LocksInv, NEW t \in Thread, NEW m \in Mutex, IsNext(t, "lock", m)
  PROVE  /\ owner[m] # t
         /\ \A n \in Mutex : owner[n] = t => m = logMutex
<1>1. todo[t] \in Seq(Step) /\ KeepsRules(todo[t], Guarded(t))
  BY DEF LocksInv
<1>2. 1 \in 1 .. Len(todo[t]) /\ todo[t][1].op = "lock" /\ todo[t][1].on = m
  BY <1>1 DEF IsNext
<1>3. HeldAt(todo[t], 1) # {} => m = logMutex
  BY <1>1, <1>2 DEF KeepsRules
<1>4. m \notin HeldAt(todo[t], 1)
  <2>1. HeldAt(todo[t], 1) = HeldAt(todo[t], 1 + 1) \ {m}
    BY <1>1, <1>2, HeldStep
  <2> QED
    BY <2>1
<1> QED
  BY <1>3, <1>4 DEF LocksInv

(* TC-04 "no deadlock": in a set of threads that wait for each other there *)
(* would be one that waits for an owner, who so waits for logMutex, whose  *)
(* owner waits for the mutex it owns.                                      *)
THEOREM NoDeadlockCorrect == Spec => []NoDeadlock
<1>1. LocksInv => NoDeadlock
  <2> SUFFICES ASSUME LocksInv, NEW S \in (SUBSET Thread) \ {{}},
                      \A t \in S : \E u \in S : WaitsFor(t, u)
               PROVE  FALSE
    BY DEF NoDeadlock
  <2>1. PICK t \in S : TRUE
    OBVIOUS
  <2>2. PICK u \in S : WaitsFor(t, u)
    BY <2>1
  <2>3. PICK m \in Mutex : owner[m] = u
    BY <2>2 DEF WaitsFor
  <2>4. PICK v \in S : WaitsFor(u, v)
    BY <2>2
  <2>5. PICK n \in Mutex : IsNext(u, "lock", n) /\ owner[n] = v
    BY <2>4 DEF WaitsFor
  <2>6. n = logMutex
    BY <2>2, <2>3, <2>5, WaitsInOrder
  <2>7. PICK w \in S : WaitsFor(v, w)
    BY <2>4
  <2>8. PICK k \in Mutex : IsNext(v, "lock", k) /\ owner[k] = w
    BY <2>7 DEF WaitsFor
  <2>9. k = logMutex
    BY <2>4, <2>5, <2>8, WaitsInOrder
  <2> QED
    BY <2>4, <2>5, <2>6, <2>8, <2>9, WaitsInOrder
<1> QED
  BY <1>1, LocksInvariance, PTL
=============================================================================
