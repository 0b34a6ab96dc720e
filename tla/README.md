# TLA+ specifications of the microkernel message-passing simulation

This directory keeps the formal model of the program under `src/`: a
simulation in C++ in which a handful of "processes" (threads) send each other
messages through an `IPCManager`, a `Scheduler` with priorities and aging, and
per-process inboxes. TLC checks the modules on small instances; TLAPS proves
the theorems of the `*Proofs` modules for every value of the constants.

## 1. The system

| Component | State | Operations | Interacts with |
|---|---|---|---|
| `Message` (Message.h) | priority, agingCounter, IDs, text, timestamp | constructor, `MessageComparator` | copied by value everywhere |
| `Scheduler` (Scheduler.cpp) | `pendingMessages`, a vector, under `schedulerMutex` | `addMessage`, `getNextMessage`, `applyAging` | senders add; the dispatcher takes and ages |
| `IPCManager` (IPCManager.cpp) | registry, three atomic totals, `nextMessageID`, the dispatcher thread and its flag, the loss generator | `sendMessage`, `generateMessageID`, `startDispatcher`, `stopDispatcher`, `dispatchLoop` | called by processes; calls the scheduler and the receivers' inboxes |
| `MessageQueue` (MessageQueue.cpp) | a bounded `std::priority_queue`, `queueMutex`, `messageAvailable` | `enqueue`, `nonBlockingReceive`, `blockingReceive` | the dispatcher fills it, its owner empties it |
| `Process` (Process.cpp) | a thread, `running`, `state`, `sentCount`, `receivedCount`, its inbox | `start`, `stop`, `join`, `run` | sends through the manager, polls its inbox |
| `main()` (main.cpp) | `globalStop`, the waiting loop, the timer thread of the window build | set up, wait, stop, join, print, delete | starts and stops everything |
| `Logger` (Logger.cpp) | three totals and the recent lines, under `logMutex`; a file | `log`, `getRecentLogs`, `printStats` | called by all threads, with other locks held too |
| `GUIManager` (GUIManager.cpp) | a window | `run`, which draws the panels | reads states, inboxes, totals and lines while all others run |
| `StressTester` (StressTester.cpp) | pass and fail counts | six tests | `main()` runs it with `--stress-test`, beside the running processes; three tests send through the manager, three have a queue of their own |

One message's way: a process counts it as sent, the channel may drop it
(`MSG_LOSS_CHANCE`), otherwise it waits in the scheduler. The dispatcher
thread loops every 50 ms: every 20th time it ages the pending messages, then
it takes the best one and puts it into the receiver's inbox, which refuses it
when full. The receiver polls its inbox once, and once more 300 ms later.

**What is hard here.** Six kinds of threads (processes, dispatcher, `main()`,
timer, window, test senders) interleave between any two holds of a lock and any two
atomic counters. Aging changes scores at moments the senders do not see.
Counters on three sides, the manager's, the logger's and the processes', must
tell one story, and are read one by one while they move. Nothing is told when an inbox
refuses a message. Shutdown stops threads wherever they are, the dispatcher
before the senders.

**What makes each part correct.** Scheduler: FIFO among equals, no starvation,
no overtaking of a message that made it to HIGH. Dispatch loop: a boost comes
within a bounded number of skips. Inbox: bounded, no lost wake-up. Manager and
processes: nothing duplicated, every loss accounted for, per-sender order.
`main()`: it comes to an end, everything is joined before it reads and deletes.
Readers of moving counters: what they conclude holds whatever moved between two
reads. Tests: their verdicts do not depend on the schedule.
The full list of hazards, each at its line and with the properties that would
catch it, is in `PROJECT.json`.

## 2. The modules

| Module | Models | Extends / instantiates |
|---|---|---|
| `Message` | the struct, the comparator, the score | |
| `Scheduler` | the three operations of the scheduler, in any order | EXTENDS `Message`; `Lanes == INSTANCE PriorityLanes` |
| `PriorityLanes` | abstract: three FIFO lanes served in some order | |
| `Dispatcher` | the loop that calls the scheduler, senders in between | EXTENDS `Scheduler` |
| `Inbox` | the `std::priority_queue` as a set: full, top | EXTENDS `Message` |
| `MessageQueue` | one inbox as a monitor, any number of receiving threads | EXTENDS `Inbox` |
| `IPC` | manager, dispatcher thread, process threads, inboxes, composed | `Sched == INSTANCE Scheduler`, `Queue == INSTANCE Inbox`, `Loop == INSTANCE Dispatcher` |
| `Simulation` | `main()`, the timer, Ctrl+C, the tests' messages, around the whole of `IPC` | EXTENDS `IPC` |
| `Channel` | abstract: the manager's three totals, for any senders | `Counters == INSTANCE Channel` in `IPC` |
| `Statistics` | `main()` as a reader: the printed line, the window's loss rate | EXTENDS `Channel` |
| `StressTester` | `runAll()`: six tests on a manager others use | EXTENDS `Statistics`, `Inbox`; `Queue == INSTANCE MessageQueue` |
| `Locks` | every access to shared data and the mutexes held, across all classes | |
| `SchedulerProofs`, `DispatcherProofs`, `MessageQueueProofs`, `StressTesterProofs`, `LocksProofs` | theorems | EXTEND the module they are about |
| `IPCProofs`, `IPCCountersProofs` | theorems about `IPC`: where the messages are, what the counters say | the second EXTENDS the first; `SP == INSTANCE SchedulerProofs` |
| `SimulationProofs` | theorems about the whole program | EXTENDS `Simulation`, `IPCCountersProofs` |
| `MC*` | instances for TLC | EXTEND the module they check |

`Locks` stands beside the others: they take one hold of a lock as one step,
and `Locks` is what shows where that is justified (`LockedDataIsRaceFree`)
and where the code has no lock to justify it: the generator `rng`, the `state`
that `getState()` reads, the buffer of `localtime()`, and `std::cout`, on which `main()`
prints lines of its own without the `logMutex` under which all others do. No value
of the other modules depends on any of the four.

### State and actions against the code

*Scheduler.* `pendingMessages` is the vector, in its order. `AddMessage` is
`push_back`. `GetNextMessage(best)` takes the index `best` that the scan ends
with (the first with the largest score: `IsHighestPriorityIndex`), erases it
and adds a skip to everything left. `ApplyAging` maps `Aged` over the vector.
Each holds `schedulerMutex` throughout and is one action. A message is its
envelope (IDs, text, timestamp, which no ordering code reads), priority,
agingCounter, and the history field `sentPriority`.

*Dispatcher.* `dpc` says whether the thread is before `Tick` (timer and
aging) or before `getNextMessage()`; `Arrival` can happen at both.

*MessageQueue.* `waiting` are the threads inside `messageAvailable.wait()`,
`woken` those taken off it that have not got the mutex back. `notify_one`
moves one; a spurious wake-up moves one too. `wait(lock, predicate)` tests
before it sleeps and after each wake-up. `enqueue()` notifies while it holds
the lock, so push and notification are one step.

*IPC.* One step is one access that another thread can see: an atomic counter,
or one hold of a lock. `call[s]` says where sender `s` is in `sendMessage()`,
with the message it sends; a sender is a process or a thread of the tests:

| call[s].at | next statement |
|---|---|
| `count` | `totalSent++` |
| `channel` | `shouldDropMessage()`: `totalDropped++`, or `addMessage` |
| `logSent`, `logDropped` | the call of `LOG`, which counts too |
| `none` | not in `sendMessage()` |

`process[p].pc` names the place in `run()`:

| pc | next statement |
|---|---|
| `loop` | `while (running)`, then pick target and priority, `generateMessageID` |
| `send` | in `sendMessage()`, or `sentCount++` |
| `receive` | first `nonBlockingReceive` |
| `blocked` | second one, after 300 ms |
| `count` | `receivedCount++` |
| `none`, `ended` | thread not started, thread function returned |

`dpc` likewise: `top` (the test of `dispatcherRunning`, timer and aging),
`get`, `deliver`, `count` (`totalDelivered++`), `log`. `totals` are the
manager's counters, `logged` the logger's: its Sent leaves out what was
dropped, its Received is what reached an inbox. The set `refused` is a history
variable. A tester, a thread of the stress tests, builds messages under the name of
any process (`BuildTestMessage`) and sends them like a process. So what `IPC` says of one
sender's order, of a process that never sends to itself and of the sum of the
processes' counts is said where only processes send (`Tester = {}`), and
`FinalReport` of `Simulation` has the sum with the tests' messages in it.
`DrawnPriority` is what `pickRandomPriority()` may draw.
Sleeps are not modelled: any delay is possible between any two steps. The
draw in `shouldDropMessage()` is a free choice of `Drop` or `HandOver`.

*Simulation.* `mpc` is the place in `main()`. A join is a guard (the thread
is at its end); `build` says which program it is: `GUI` with the window,
`NO_GUI` without, `STRESS` with `--stress-test`, which both have. In `STRESS` a
`Tester` sends any number of messages between any processes, which covers what
tests 3 to 5 send through the manager; `MainEndsTests` has their joins. `seconds` is the index of the one
loop that counts the time, in `main()` or in the timer thread; its loop
length is `SimulationSeconds` with and without the window (the timer of the code counts
tenths).

*Channel, Statistics, StressTester.* `inChannel` is the set of senders between
`totalSent++` and the next counter, `accepted` counts the messages handed over. That
`IPC` implements `Channel` (`ImplementsChannel`) is what allows the other two
to leave out the messages themselves. `reading` is the next read of `main()`;
`shown` holds what was read. `order` is the order in which the
compiler evaluates `getTotalDropped()` and `getTotalSent()` in
GUIManager.cpp:181-182, which C++17 leaves open. In `StressTester`, `test` is the place in
`runAll()`; `i[t]` the loop index of a sending thread; a queue that no other thread
knows is filled and emptied in one step (`Enqueued`); the queue of
test 6 is a `MessageQueue` with `main()` as its one receiver. `report()` is
`Report`; `passed` and `failed` hold the names it prints instead of two counts.

*Locks.* `todo[t]` is what is left of the call thread `t` is in, a sequence
of lock, unlock, read and write steps; `owner[m]` the holder of a mutex.
`Locked(m, body)` is a `lock_guard` over `body`; calls made under it are part of
its body, such as `Log` inside `Enqueue` and `ApplyAging`. What a thread does between two
calls needs no lock, so the next call is any of those its code makes; `getProcessCount()` and `size()` take
the same steps as `GetProcess` and `GetSnapshot`. `Main` is `main()`'s thread in any of
the programs: it draws the window, sends for the tests, logs, and prints its own
lines (`PrintLine`) with no mutex. The threads that the tests start make
no call that a process does not make. Atomics are left out.

## 3. The runs

| Run | Checks | Instance |
|---|---|---|
| `scheduler` | `TypeOK`, `SentOrder`, `OldestOfItsPriorityFirst`, `ImplementsLanes`, `HighIsNeverOvertaken`, `StarvationFree` | 4 waiting messages at a time, endless supply; weight 3, threshold 2 |
| `dispatcher` | `LoopTypeOK`, `AgeBound`, `StarvationFree` | 3 waiting messages at a time; weight 10, threshold 5, period 20 as in the code |
| `inbox` | `QueueTypeOK`, `NoLostWakeup`, `NeverStuck` | 3 places, 3 threads, 4 messages at a time, arriving with 0 or 1 skips |
| `ipc` | `TypeOK`, `CountersAgree`, `AtMostOnce`, `SenderOrderKept`, `NothingComesBack`, `ImplementsDispatcher` | 2 processes, 3 messages, inboxes of 1, stopped at rest |
| `simulation` | `FinalReport`, `QuietAtTheEnd`, `ImplementsChannel` | all three programs, 2 processes, 1 tester, 2 messages, 1 second |
| `simulation_live` | `ComesToItsEnd`, `StopsCleanly`, `Delivered` | with and without window, 2 processes, 2 messages, no waiting |
| `observers` | `StressTypeOK`, `Conserved`, `NextLineCatchesUp`, `RateIsDefined`, `LossRateIsAtMostAll`, `OnlyLossMayFail`, `OwnSendsAreCounted`, `ComesToResults` | 2 processes; test 3 sends 2, test 4 sends 1, test 5 has 2 threads with 2 each; inboxes of 3 |
| `locks` | `LocksTypeOK`, `LockedDataIsRaceFree`, `NoDeadlock` | 2 processes, dispatcher, `main()`; deadlock checked |

**Why the bounds suffice.** A pending message leaves only when it is picked
and then frees its envelope for a new one: the scheduler runs have no bound on
the number of messages, only on how many wait together. Counters cannot run
away there (a message is skipped only while better ones are taken), so the
state space is finite without a constraint. With four, and weight 3 and
threshold 2, a message can be boosted twice, a HIGH one can pass the threshold, and
two can change places while a third is taken; the code's weights run in
`dispatcher`, and the theorems are for any number and any weights. In
`ipc` three messages give an inbox of one place a message to take and one to
refuse while a third is under way; weight, threshold and period are 1, 1 and 2, so that
skips, boosts and both branches of the timer happen with so few messages. There the threads
are stopped only once every message has come to its end, which leaves room for the third; the
runs of `Simulation` stop them anywhere. Two messages, as there, are the least with which a
process receives anything, since `run()` sends before it receives. No property
of `main()` depends on priorities, so there all messages are MEDIUM
(`DrawnPriority`). `simulation_live` ages at every turn (period 1) and waits
0 seconds, as no liveness property depends on either timer, and leaves the
tests to `observers`. In `observers` the processes stop sending once
`MaxSent = 3` messages were sent, of which all, some or none fall
between two reads; the tests' own messages are not bounded by it. The
acceptable loss is one message in 4 to one in 2 there, in place of one in 50
to one in 10, so that both verdicts occur with so few messages.
`MaxMessages` bounds `nextMessageID`: with it used up a process rests at
`loop` until it is stopped. That is the only behaviour the bound adds, and
the reason why deadlock is not checked in the runs of `IPC` and `Simulation`; besides, a
program with all threads ended has stopped properly, and so has `StressTester`
with its results. Processes are
symmetric in the safety runs: the code treats all of them alike. `locks` has
no bound but the number of processes: two give two owners of inboxes and states, and every pair
of threads that can meet at a lock.

**Fairness.** Weak fairness for each thread, as one action: the dispatcher's
`Loop`, each process's `Run(p)`, `Main`, `Timer`. The code justifies it: no thread
waits for anything but a lock held for a few statements, a sleep that ends, or a
join. In `StressTester`: `RunAll`, the test threads and the sender of test 6, but
neither the processes nor the readers. None is assumed for senders (`Send`, `Arrival`), calls of
`main()` in `IPC`, signals, spurious wake-ups, the tests' sending in
`Simulation`, or the user who closes the window.

### Where code and comments part

Four runs end in a counterexample; each checks one statement of a comment:

| Run | Statement | What the code does |
|---|---|---|
| `aging_costs_a_place` | Scheduler.cpp:75: a skipped message is bumped up | the boost gives 10 points and takes all skips away: with more than 10 skips a message is set back |
| `data_races` | README.md:28: all shared data protected by locks; test_cases.cpp:32: no data races | all threads draw from one generator without a lock; likewise `getState()`, the buffer of `localtime()`, and what `main()` prints to `std::cout` |
| `gui_ignores_stop` | main.cpp:28, 111: Ctrl+C and the timer stop the simulation | with a window, `gui.run()` never reads `globalStop` |
| `pending_at_stop` | IPCManager.cpp:40: delivered later | what is pending when the dispatcher stops, or comes after, stays |

More comments differ from the code by their wording alone, and the
modules have what the code does. Scheduler.cpp:26 "pick the highest-priority
pending message": ten skips weigh as much as a level (`Score`). Message.h:51
"lower agingCounter comes first": the higher one does (`MessageComparator`).
Logger.cpp:4 "Uses a mutex so multiple threads don't interleave output": that holds among
the callers of `log()` and `printStats()`, and is what `LockedDataIsRaceFree` says of
`cout`; `main()` prints at main.cpp:84-86 and 130, and the tests print, without the mutex
while the others log, so that lines may mix (`NoDataRace` counts `cout`; the
run stops at the generator first).
test_cases.cpp:43 "After AGING_THRESHOLD skips, priority should be MEDIUM":
aging looks only every 20 iterations, and `AgeBound` is the bound that holds.
StressTester.cpp:4 "Each test creates its own mini environment": tests 3 to 5
send through the running manager, and test 3's rate is over the processes' messages as
well as its own; its dropped messages are counted from an earlier to a later
moment than its sent ones, so that the rate can exceed 100%. `OnlyLossMayFail` says which verdicts are
out of their reach. StressTester.cpp:96 "Send 1000 messages": 500. The
printed line is headed "Pending in scheduler" (main.cpp:130) and shows totals. The
"Sent" of the final report leaves out dropped messages for the logger, and
includes them for each process (`FinalReport` has the sum). In the window, a compiler that
reads the divisor first lets the loss rate exceed 100%
(`LossRateIsAtMostAll` has the other order).

## 4. The proofs

Eight modules hold the theorems. They are about any number of processes, test
threads, messages and places, and any constants that satisfy the assumptions named in
the modules that declare them. Most of these give types: `WeightAssumption`,
`ThresholdAssumption`, `PeriodAssumption`, `QueueSizeAssumption`,
`ThreadAssumption`, `SenderAssumption`, `TesterAssumption`, `ConfigAssumption`,
`MessageAssumption`, `SimulationAssumption`, `StressAssumption`, the `ProcAssumption` of
`Statistics`. Two say more.

* `WeightCoversThreshold` (also in `ConfigAssumption`),
  `AgingThreshold <= PriorityWeight + 1`: the code has 5 and 10. With a larger
  threshold a boosted message could be outscored by a younger one of its own
  sent priority.
* `ProcAssumption` of `IPC`, at least two processes: the code has 5, and with
  one, `pickRandomTarget()` does not return.

`MaxMessages` bounds `IPC`, and the theorems are for any such bound.

**Scheduler and loop.**

* `SchedulerProofs`. *FIFO.* `OldestOfItsPriorityFirst` is not inductive: that
  the oldest has the largest score now says nothing after the next aging
  pass. The strengthening is `TypeOK /\ SentOrder`: of two messages with one sent
  priority the older is on no lower level, has no fewer skips on the same
  level, and when it is a level or more up the younger one's counter exceeds
  its own by less than the threshold. Skips keep it (both counters grow), a boost keeps it
  (`AgedKeepsOrder`), and it implies the order of the scores by
  `WeightCoversThreshold` (`OrderImpliesScore`). *HIGH.*
  `HighIsNeverOvertakenCorrect` is an action property from the same invariant:
  a HIGH message has no reset, so its lead over a younger message shrinks with
  neither a skip nor a boost. *Lanes.* `Spec => Lanes!Spec`: the refinement maps each
  entry to its ticket; a send is `Arrive`, a dispatch is `Serve` (by FIFO),
  an aging pass stutters.
* `DispatcherProofs`. `LoopSpec => Spec`, so that all of the above holds of the
  loop; the timer's type; and `AgeBound`, which is inductive by itself with the type
  invariant: a pass leaves every message below HIGH with fewer skips than the
  threshold, each iteration adds at most one.

**One inbox.**

* `MessageQueueProofs`. `QueueTypeOK`, and `NoLostWakeup`, inductive with it: a
  push with a sleeper wakes one, a thread leaves `woken` only with a message or
  having found the queue empty.

**All threads together.**

* `IPCProofs`. `IPCInv == TypeInv /\ OnceInv /\ RouteInv /\ QueueInv`. `TypeInv` ties
  each thread's place to the message it holds. `OnceInv` is `AtMostOnce`
  made inductive: `Spread` has for every place a message can be in (a sender's draft, the
  scheduler, the dispatcher's hands, an inbox, a receiver's hands) the IDs that are there, no two
  places share one, none of them was refused and all are below `nextMessageID`.
  Every step of every thread is one of a few moves between two places (`Moves`), so that
  the argument is made once for each move and not for each step. *Nothing comes back.*
  Of these moves only the building of a message makes an ID appear that was
  in no place, and it is a new one (`OnlyNewEnter`): a message that was counted,
  dropped or refused, which leaves all places, is gone for good, and so is its number. *Order.*
  `SenderOrderKept` spans three threads: its strengthening `OrderInv` says that
  of one sender and sent priority, what left the scheduler is older than what is in it,
  and that older than what is with the sender. That the scheduler hands over the older one
  first is `SentOrder`, taken from `SchedulerProofs` through `SP`. *Refinement.*
  `DispatcherIsImplemented`: each step of all threads is a step of `Dispatcher`'s
  loop, an arrival, or invisible to both; hence the scheduler's theorems hold here.
* `IPCCountersProofs`. `CountersAgree` is inductive with `IPCInv` once every
  number has a name: `Ledger` restates it as equations between them,
  one lemma says what a kind of step does to each, and what remains is sums. The
  processes' counts are summed by `Total`, the number of pairs of a process and one of
  its counts: a set, so that no recursive sum has to be reasoned about.
  `ChannelIsImplemented` is the refinement on which `Statistics` and `StressTester` rest.

**The program.**

* `SimulationProofs`. `SimulationIsIPC`, `SimulationSpec => Spec`: `main()`, timer,
  signal and tests only restrict when threads are started and stopped, so that
  every theorem about `IPC` is one about the program (`ProgramKeepsThreads`).
  `QuietAtTheEnd` follows from `MainInv`, which says for each place of `main()` which
  threads are through. `FinalReport` needs `Ledger` and two more equations, inductive beside it:
  everything built is in `totalSent` or about to be (`Built`), and in a process's
  count, the tests' or about to be (`Counted`); `MainInv` empties the two "about to be".

**Readers and tests.**

* `StressTesterProofs`. `Conserved` is inductive with the types. The readers'
  invariant is that whatever was shown is still a lower bound, as counters only
  grow; `NextLineCatchesUp`, `RateIsDefined` and `LossRateIsAtMostAll` follow whatever
  moved between two reads. For the tests: `LossInv` (the messages of `main()` are in the
  difference it takes), `TotalSentInv` (test 5's counter is the number of its
  threads' sends, `ThreadSends`), `BlockingInv` (test 6's one message), `ResultsInv`. Together
  they are `StressInv`. `StressImplementsChannel` says that the whole is still a `Channel`.

**Locks.**

* `LocksProofs`. `LocksInv`: a mutex is held by exactly the thread whose
  remaining steps release it, and the remaining steps of each thread keep the rules
  (`KeepsRules`: what is locked is unlocked, nothing is locked twice, guarded data is accessed
  under its mutex, whoever holds a mutex locks only `logMutex`). `cout` is guarded
  data for every thread but `main()`'s (`Guarded`). Each call of the
  code keeps the rules and so does every suffix. Two threads at the same guarded data would both be
  the mutex's holder (`LockedDataIsRaceFree`); in a circle of waiting threads, one
  would hold `logMutex` and wait for a mutex (`NoDeadlock`).

Only model-checked: liveness (`StarvationFree`, `NeverStuck`, `StopsCleanly`,
`Delivered`, `ComesToItsEnd`, `ComesToResults`), since liveness under fairness and
ENABLED are out of the prover's reach. Every invariant and every action property
that a passing run checks is also proved; the counterexamples of the four
other runs are TLC's.

## 5. Not modelled

* `Logger`: the format of a line, the file, and what `recentLogs` holds (the last
  100 lines); no other part reads them back. Its totals are in `IPC`, its
  lock and the accesses to the ring in `Locks`.
* `GUIManager`: the drawing. `Locks` has the shared data it reads, `Statistics`
  the stats panel; what the other parts feel of the window is `CloseWindow`.
* How many messages wait in the scheduler: the vector has no bound, and no
  document gives one.
* Aging inside an inbox: there is none, so a LOW message may wait in an inbox
  for as long as better ones keep coming. No run states this; `StarvationFree`
  is about the scheduler.
* `shutdownFlag`: initialised false, never set, so it adds nothing to the
  wait predicate. The sentinel `Message()` of `blockingReceive` cannot be returned.
* The "unknown target" branch of `dispatchLoop()`: targets are drawn from
  `1 .. getProcessCount()`, all registered.
* The width of the counters: at 20 messages a second an `int` lasts for years.
* Text, timestamps, log lines, `agingEventCount`, `pendingCount()`,
  `size()`, `isEmpty()`, `isFull()`, `getSnapshot()`: no decision reads them.

## 6. Plan

Done: the core above, in the order scheduler, loop, inbox, composition,
`main()`, the locks, the logger's totals, the readers and the stress tests; and
the theorems of section 4, from the bottom up. What is left:

1. Carry the results along the refinements: `Conserved` and what the
   readers conclude, stated of the program itself through `ChannelIsImplemented`; FIFO and
   the bound on ages, stated of it through `DispatcherIsImplemented`.
2. The steps of `IPC` on one inbox against `MessageQueue` as a refinement, so that
   composition and monitor are tied by a theorem and not by their common `Inbox`.
3. Shorter proofs: the lemmas of `IPCProofs` on moves and those of
   `IPCCountersProofs` on numbers have cases in common.
