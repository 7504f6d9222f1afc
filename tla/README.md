# Verification of revpi-modbus

TLA+ models of the Modbus master and slave of the Revolution Pi, the TLC
configurations that check them on small instances, and proofs, checked by
TLAPS, that every safety property of the passing runs holds for every instance,
some of them under a hypothesis that is named and explained below. Paths are
relative to the repository (`src/Scheduler.c` is `src/src/Scheduler.c` in
`PROJECT.json`, which also maps every definition to its lines).

## The system

Two processes share the *process image* of the kernel module piControl with
the PLC program and with each other's runs:

    config.rsc --parse--> main --pthread_create/cancel--> one thread per device
                           |                                    |
               piControlWaitForEvent                 libmodbus (bus), piControl
               (reset of the driver)                 (process image) <--> PLC

| Component | Source | State | Operations |
|---|---|---|---|
| scheduler | `Scheduler.c` | the event list of one master thread, sorted by due date | `initScheduler`, `getNextEvent`, `insertEventByDueDate` |
| bus timing | `Scheduler.c`, `ModbusMasterThread.c` | none; results computed once per connection | minimal interval, response timeout, minimal offset (TCP and RTU differ) |
| master threads | `ModbusMasterThread.c` | libmodbus context, `err_cnt`, `nextEvent`, earliest next trigger time | connect, retry, pick, sleep, process, reconnect (TCP), end |
| master process | `piModbusMaster.c` | configuration list, thread handles, `mutex_modbus_context` | parse, create, wait for reset, cancel, free |
| data path | `ComAndDataProcessor.c` | one buffer per thread | `processModbusAction`, a case per function code |
| status and resets | `ComAndDataProcessor.c` | a status byte and a reset bit per action and device, in the process image | `writeErrorMessage`, `reset_modbus_action_status` |
| slave process | `piModbusSlave.c` | configuration list, thread handles | as the master's main |
| slave threads | `ModbusSlaveThread.c` | socket, `refset`, `fdmax`, mapping | listen, select, accept, serve, close; the RTU thread only serves |
| slave image | `ModbusSlaveThread.c:346`, `piProcessImageAccess.c` | libmodbus mapping, process image | read before, write after a request |
| parser | `piConfigParser.c` | configuration lists | walk over PiCtory's JSON |

What makes this code hard:

* **Cancellation.** Threads are cancelled, not joined. Each of sleep, select,
  read, write, connect and accept is a cancellation point, so that any state a
  thread can be in at one of them is a state in which it ends, while the next
  generation of threads already starts. Locks, contexts, sockets and the
  configuration must survive that.
* **Unsynchronised partners.** The PLC program reads and writes the image
  between any two calls of piControl; piControl can fail at each of them.
* **Time.** Due dates are sums of two fields; a schedule can fall behind and
  catches up; a reconnection starts it anew.
* **Sharing of numbers.** File descriptors are reused by other threads at once.
* **Two copies.** A slave answers from the mapping of libmodbus and the PLC
  works on the process image; replies, flushes and restarts each touch one.
* **Configuration by exception.** A flaw in PiCtory's file costs an action, a
  device, the devices behind it or the process, depending on where it is found.

## Modules

| Module | Models | Extends |
|---|---|---|
| `Timespec` | `timespec_add`, `timespec_diff`, `us_to_timespec`, the order of time values | |
| `Scheduler` | the event list, an action per call; `initScheduler` a step per element, as each allocation can fail | `Timespec` |
| `PeriodicDispatch` | what the list promises: a *set* of pending events of which one that is due first is served and put back an interval later | `Timespec` |
| `BusTiming` | timeout and offsets as functions of an action list | `Timespec` |
| `MasterLoop` | the thread's loop against a clock, TCP or RTU, with the offset of its list | `Scheduler`, `BusTiming` |
| `ConfigParser` | the parser of both processes, with what each thread derives from its list | `BusTiming` |
| `MasterProcess` | main, threads, mutex, contexts, configuration | |
| `MasterStatus` | status bytes, reset bits, error counter, link, PLC | |
| `ProcessAction` | the data of one command after the other | |
| `SlaveProcess` | main, slave threads, file descriptors | |
| `SlaveImage` | one slave's requests, mapping and process image | |
| `BusTimingProofs` | lemmas about times, sums and products, timeout and offsets | `BusTiming` |
| `MasterLoopProofs` | theorems about the list and its refinement, then about the loop | `MasterLoop`, `BusTimingProofs` |
| `ConfigParserProofs` | theorems about the parser and the times derived from what it returns | `ConfigParser`, `BusTimingProofs` |
| `MasterProcessProofs`, `MasterStatusProofs`, `ProcessActionProofs`, `SlaveProcessProofs`, `SlaveImageProofs` | inductive invariant and theorems of a module | the module before `Proofs` |
| `MC*` | values of the constants for TLC | the module after `MC` |

Correspondence in short:

* **Scheduler.** `InitBegin` is `initScheduler` up to its loop, `InitInsert` an
  iteration, `InitMallocFails` and `InitNoActions` its ways to return -1,
  `GetNextEvent` the whole of `getNextEvent` with `determineNextEvent` and
  `insertEventByDueDate`, `ConnectionLost` the thread leaving its list behind.
  The scan of the list is the operator `DuePosition`: the place before the
  first entry that is due strictly later.
* **MasterLoop.** `Pick`, `Sleep`, `CommandOk`, `CommandFails` are the loop
  body cut where time passes; `now` is `CLOCK_MONOTONIC`. A command takes any
  of `Durations`, a sleep ends late by any of `Jitter`. `offset` is chosen when
  the loop is entered from `Offsets`: what `BusTiming` says the code can compute
  from the intervals of the list, for the protocol.
* **BusTiming.** An operator per function or block of the code, on the list of
  `i32uInterval_us`. `AsLong` wraps a product as a C `long` does. The mean of
  the intervals, a `double`, is one of `HarmonicMeans`: the whole part of the
  exact mean or a number next to it, as rounding can take the double to either
  side of a whole number before it is truncated.
* **ConfigParser.** The outer loop over devices is `at = "devices"` with the
  devices to do in `rest`; the loop of `parse_modbus_master_action_list` is
  `at = "actions"` with the keys to do in `keys`. Each `continue`, `return` and
  `assert` is an action: `SkipAction`, `OutOfRange`, `LimitExceeded`,
  `BadDevice`, `NoDeviceMisc`, `OddArea`, ... `TakeAction` and `MasterDone`,
  `SlaveDone` insert at the head of the lists. `ParseAgain` is main after a
  reset of the driver, with the file PiCtory may have saved in between.
* **MasterProcess.** A thread is a pair of generation and device. Its `pc` is
  the cancellation point or the call it is in; `ActOnCancel` is enabled at the
  cancellation points and runs the handler if `HandlerPushed`. `Process` ends
  the critical section, and a thread cancelled there leaves `mutex` as it is.
* **MasterStatus.** A step per call of piControl: `Check` reads a reset bit,
  `Clear` writes the status byte, `Ack` clears the bit. A TCP thread looks at
  the bits of the picked action and the device, an RTU thread at all of them.
  `PlcWrites` and `LinkBreaks` are the environment. `Unsent` are the actions
  whose function code the parser accepts but `processModbusAction` has no call
  of libmodbus for (`ComAndDataProcessor.c:171-175`, `:272-275`): it returns 0
  for them, and the thread takes that for a success whatever the link
  (`ModbusMasterThread.c:279`).
* **ProcessAction.** A cell of the image or of the buffer holds where its value
  comes from: an answer and the index in it, or a PLC cycle and a cell. Coils
  take a step each (`StoreBit`, `GatherBit`), registers one (`StoreBlock`,
  `GatherBlock`).
* **SlaveProcess.** `owner` says which thread opened each descriptor, and a new
  one is the lowest free number. `Skip`, `Readable`, `AcceptOk`, `ServeOk` and
  `Drop` are the scan after `select`; `Release`, `CloseNext` and `End` the
  cleanup handler.
* **SlaveImage.** `process_modbus_request` is cut between its calls: `Receive`,
  `ReadImage` (for two function codes), `Reply`, `Flush` (for six), each with
  its failure. `PlcCycle` writes the inputs at any time, and `Restart` replaces
  the thread by a new one with a cleared mapping. `owed` records the registers
  in which the mapping may be ahead of the image, and `fresh` the inputs an
  answer to the current request may carry.

Operators named `Fault_...` stand before the definition they distort. They are
slips a programmer could make in that place; with one of them put in the place
of the definition, TLC finds the property violated that is listed with it under
`mutants` in `PROJECT.json`. No specification uses them.

## Runs

`tlc -config X.cfg M`, with the state counts of the runs that pass:

| Run | Question | Distinct states |
|---|---|---|
| `MCScheduler` | Does the list stay sorted, complete, fair and free of drift, and implement `PeriodicDispatch`? | 2 784 |
| `MCMasterLoop` | Do commands keep their distance, never run ahead, and stay punctual while the schedule has room? | 846 315 |
| `MCConfigParser` | Do the threads get what the file says, and are registers, timeout and offsets derived from it right? | 234 821 |
| `MCMasterProcess` | Do mutex, contexts and configuration survive a reset at any moment? | 91 958 |
| `MCMasterStatus` | Is no error lost, no reset acknowledged in vain, and when does TCP recover and answer resets? | 50 688 |
| `MCProcessAction` | Does every value end where it belongs, and nowhere else? | 133 521 |
| `MCSlaveProcess` | Does select watch exactly the slave's own sockets, and does an ended thread hold none? | 247 499 |
| `MCSlaveImage` | Does what masters write reach the process image, and what they read come from it, over failures and restarts? | 619 456 |

### Properties

*Scheduler.* `SortedByDueDate`, `EachActionOnce` (no action is lost or
doubled), `DueWithinOneInterval` (no entry is later than its interval after the
event served last, hence none starves), `NoDrift` (the n-th due date is exactly
n intervals after the start), `RateFair` (services of two actions are in
proportion to their rates), `ServedInDueOrder`, `ImplementsPeriodicDispatch`.

*MasterLoop.* `CommandsSpaced` (the minimal offset holds after long commands,
in a backlog and over a reconnection), `NeverAheadOfSchedule` (a backlog is
worked off but not overdone), `LatenessBounded` (if commands and late wake-ups
take at most three quarters of the schedule, which leaves the offsets their
quarter, and a nanosecond for the rounding of the mean, none is late by more
than the others take). The README of the
repository announces a change of the backlog ("Upcoming changes"); the module
models the code as it is, which catches up.

*ConfigParser.* `ParsedAsWritten`: the state machine of the parser, with its
early exits and the identifier that outlives its key, returns what a reading of
the whole file at once says. The devices are `WrittenDevices`, the last one
first; the actions of each are those of its `SoundKeys`, the last one first and
none twice (`AreActions`). Where an allocation failed (`lost`), actions may be
missing, but those that are there are still the right ones in order. `RegistersCoverVariables` for
slaves. `TimeoutIsHalfMinInterval` and `GapsFitSchedule` for every action list
the parser returns: the offset of an RTU thread takes at most a quarter of the
schedule; that of a TCP thread is a quarter, cut to a nanosecond, of a mean that
rounding has made at most a nanosecond longer or shorter. The property speaks of
intervals whose nanoseconds fit a `long`: no document says what the offset should
be beyond (`Scheduler.c:371` overflows).

*SlaveImage.* `WritesReachImage` (between two requests the image lacks only
what a failure since the last flush kept out), `OwnEffectsOnly` (the flush of
all registers changes none that was not written), `InputsFresh` (an answer
carries the inputs of one moment after the request arrived).

*MasterProcess.* `MutualExclusion`, `ContextReleasedOnce`,
`NoTcpContextLeaked`, `OnlyDoomedReadFreedConfig`.
Doomed threads do read freed configuration in this code, as main does not wait
for them: the property bounds the damage, it does not deny it.

*MasterStatus.* `OnlineMeansNoError`, `AckMeansCleared`, `ErrorStaysUntilReset`,
and under fairness `TcpHonoursResets` and `LostLinkReopened`. The reset bit of
the device is looked at with every command, and so is cleared however often the
connection is lost. That of an action is looked at when the action is picked, and
a new connection moves all due dates: if connections are made again and again,
each shorter than the action's first due date, it stays set. A lost link is
opened again after `MaxErr` errors in a row, unless an action of `Unsent`
is executed again and again, which resets `err_cnt`. Both properties say so, and
both speak of TCP: an RTU thread that cannot open its line ends.

*ProcessAction.* `AnswerInPlace`, `StoresOwnAnswer`, `SendsOwnOutputs`.

*SlaveProcess.* `EverySocketPolled`, `WatchesItsOwnSockets`, `OnlyListenerLeaks`.

### Bounds, and why they are enough

* `MCScheduler`: three actions, the smallest number for which an entry can
  belong to the head, the middle and the tail. A second has 4 nanoseconds, the
  intervals are half a second, one and one and a half, so that due dates tie,
  differ in either field and carry. `Horizon` ends a schedule after 9 seconds;
  the relative due dates repeat after 3 of them. Clock readings reach over two
  reconnections.
* `MCMasterLoop`: lists of three, two and no actions, TCP and RTU. A second has
  32 nanoseconds and the intervals are 12, 20 and 24 of them: the computed
  offset is 1 for three actions, and for two, whose mean is 8, it is 2 or 1 as
  rounding has it. Commands take no time or 3 nanoseconds and sleeps end
  late by up to 1, at the edge of what `Fits` allows, so that backlogs build and
  are worked off; a restart after two errors in a row (100 in the code: only
  whether the limit is reached matters). `Horizon` is 9 seconds, several times
  the period after which the due dates repeat.
* `MCConfigParser`: a second has 15 nanoseconds and 5 microseconds. Every list
  of up to three of twelve intervals below, at and above one and two seconds,
  odd and even; a `long` overflows at 4 seconds, within the intervals. Every
  order of up to three keys, with each flaw and a key without an identifier;
  every order of up to three devices of a process, with each way to be foreign,
  incomplete or wrong. Three is enough for something before and after a flaw.
  `Saved` is the content a file has after a reset: one per process, so that a
  second parse follows each first one.
* `MCSlaveImage`: two holding and two input registers, one a request writes and
  one it does not; two values. Nothing else is bounded: requests, failures and
  restarts are as many as one likes.
* `MCMasterProcess`: two generations, as the third meets the first only through
  threads that were cancelled before; a TCP and a RTU device compete for the
  mutex, a third has no actions. `malloc` does not fail here: its failure has
  the effect of an empty action list.
* `MCMasterStatus`: two actions and the device; `MaxErr` is 2. `Modes` are both
  protocols with every failure, and the TCP master with failing links only, of
  which liveness is asked: with libmodbus reconnecting by itself and without (the
  Stretch build), with all actions sent and with one that is not.
* `MCProcessAction`: a byte has two bits, so that four coils reach into a
  second byte; commands of every kind; any number of commands and PLC cycles.
  One list holds the reads of bits, one the registers and the written coils;
  in a third, writes gather into a buffer that coils were read into.
* `MCSlaveProcess`: three descriptors, so that a slave has room for a listener
  and two masters, and two generations compete for them; configurations of a
  TCP slave, another one, two RTU slaves, none; everything can fail.

Deadlock is checked in `MCConfigParser` and `MCSlaveImage`: no content of a file
leaves the parser without a step, and a slave always has one. The other models
may stop where a bound on generations or time is reached, or where all threads
have ended.

### Fairness

* `MasterStatus`: weak fairness of the thread's steps (the kernel runs it, and
  the mutex is free again and again: no thread was cancelled while it held it).
  For each action, `Pick(a)` is strongly fair *or* connections are made again and
  again (`[]<>(pc = "init")`): while one connection lasts the due date of a
  pending action stays where it is and the others pass it (`DueWithinOneInterval`
  and `NoStarvation` below), but `initScheduler` moves all due dates with each
  connection. Strong fairness of `ConnectOk` says that a peer that is tried for
  ever answers at some time; without it no program recovers.
* `MasterProcess`: weak fairness of main and of each thread's steps, strong
  fairness of taking the mutex and of acting on a cancellation, since threads
  compete for the first and pass through cancellation points for the second. No
  reset is assumed to come.

## Where the code and its documents disagree

Four runs expect a violation; each checks the one property, and the trace TLC
prints is the scenario.

| Run | Violated | What happens |
|---|---|---|
| `MCMasterProcessReset` | `EventsAreServed` | A thread cancelled inside `processModbusAction` (any cancellation point between `ComAndDataProcessor.c:53` and `:305`) keeps the mutex: after the reset no thread sends a command any more. |
| `MCMasterProcessNoActions` | `ContextReleasedOnce` | An RTU device without actions: `ModbusMasterThread.c:385-388` frees the context and `pthread_exit` runs the handler that frees it again. |
| `MCProcessActionUnaligned` | `AnswerInPlace` | Coils that start at a bit other than 0 and cross a byte wrap around in it (`ComAndDataProcessor.c:72-73`). |
| `MCConfigParserResetBits` | `ResetBitsInByte` | The reset bit of an action beyond the eighth keeps its bit offset above 7 (`piConfigParser.c:1362`), where the data of coils carry it into the byte. |

Seen while reading, without a run: an RTU master that cannot open its line at
the start ends (`ModbusMasterThread.c:361-367`) where the TCP thread tries again,
and its reset bits are never looked at; with a 32-bit `long` the product in
`Scheduler.c:371` overflows from three seconds on, and the minimal offset is
wrong (`AsLong` models it, `GapsFitSchedule` excepts it); a slave whose variables
are all at offset 0 gets no registers (`piConfigParser.c:769`); the README lists 0x10 for a failed
initialisation, where the code writes 0xf0 (`ModbusMasterThread.c:75,133`); its
`ActionInterval` is in microseconds, where the parser reads milliseconds
(`piConfigParser.c:1276-1282`).

## Proofs

`tlapm M.tla` checks them. Each module of proofs states an inductive invariant,
which TLC checked on the module's run before it was proved, has one lemma (or
one step) per action that it is preserved, and reads the properties off it. All
rest on the named assumptions of the modules they are about, which TLC evaluates
in the runs, and on nothing else but the hypotheses named below. The bounds of
the runs (`MaxGen`, `MaxErr`, `Horizon`, ...) are parameters: a theorem holds for
every value of them.

### The scheduler

`MasterLoopProofs`, first part, for any set of actions, any positive intervals, any clock
readings and any action lists without repetition:

| Theorem | States |
|---|---|
| `SchedulerInvariant` | `Spec => []SchedInv` |
| `TypeCorrect`, `DueOrder`, `NoActionLost`, `NoStarvation` | the invariants that are its conjuncts |
| `ScheduleDoesNotDrift`, `RatesAreFair` | `Spec => []NoDrift`, `Spec => []RateFair` |
| `DueDatesMonotone` | `Spec => ServedInDueOrder` |
| `SchedulerImplementsDispatch` | `Spec => ImplementsPeriodicDispatch` |

The assumptions are `SchedulerAssumption` and those of `Timespec` (a second
is a positive number of nanoseconds). They hold of the code: the parser rejects
an interval of 0 and puts a new node into the list for each action.

The argument. `SortedByDueDate` is not inductive: inserting keeps a list sorted
only if `Before` is a total order of normalised time values, so typing comes
along. `DueWithinOneInterval` needs that the head is the earliest entry, hence
sortedness; that the event served last is not after any entry
(`NothingOverdueBeforeServed`), hence again that the head was the earliest; and
that entries of one action are not doubled. While `initScheduler` fills the
list none of this holds yet; `FilledSoFar` says what does. The lemmas go up in
this order: order and addition of time values (`BusTimingProofs`); the place
`DuePosition` chooses exists (the least index of a set of indices,
`LeastElement`, by the well-foundedness of the naturals); an insertion adds one
entry and keeps the others (`InsertEntries`, `InsertContent`), keeps the order
(`InsertKeepsDueOrder`) and the uniqueness (`InsertKeepsOneEntry`); the head is
the earliest (`HeadIsEarliest`); each action keeps `SchedInv`
(`InitBeginKeepsInv`, `InitInsertKeepsInv`, `GetNextEventKeepsInv`, ...).

`NoDrift` and `RateFair` are about numbers: `NsOfSum` and `NsOrder` say that
`timespec_add` and the order of two fields are addition and order of
nanoseconds. `RateInv` is inductive on top of `SchedInv`: an entry is due
`count + 1` whole intervals after the start (`DriftInv`), during the filling
too, and an action was served at its last due date, which the event served last
has reached (`ServedInv`). That event is not after any entry, so that the due
date reached by one action is bounded by the next one of any other; dividing by
a microsecond (`RatesCompared`) gives the ratio of services.

Refinement maps the entries of the list to the pending set once the list is
filled; the steps before that stutter, except the one that inserts the last
entry, which is `Start` (`FilledIsStart`), and `GetNextEvent` is `Serve`
(`GetNextEventIsServe`).

### The master loop

`MasterLoopProofs`, second part, for any actions and intervals, TCP and RTU, any
durations of commands and lateness of sleeps, and any number of reconnections:

| Theorem | States |
|---|---|
| `LoopInvariant` | `LoopSpec => []LoopInv` |
| `LoopTypeCorrect` | `LoopSpec => []LoopTypeOK` |
| `OffsetIsKept` | `LoopSpec => []CommandsSpaced` |
| `BacklogNeverOverdone` | `LoopSpec => []NeverAheadOfSchedule` |
| `LatenessIsBounded` | `TimesBounded /\ IntervalsFit => (LoopSpec => []LatenessBounded)` |
| `RestartsAfterServed` | when the thread connects again, no event served lies ahead of the clock |
| `LoopImplementsScheduler` | `Clock = TimeVal => (LoopSpec => Spec)` |

The assumptions are those of the scheduler, `LoopAssumption` and
`LongAssumption`; a long of any width may overflow.

`LoopInv` contains the scheduler's `SchedInv` and `RateInv`, as a step of the
loop is a call into the scheduler at the current reading of the clock
(`LoopStepsScheduler`), and adds where the list is in each phase (`PhaseInv`),
that what was served or has ended lies behind the clock (`ClockInv`), and
`SpacingInv`: the offset is one of `Offsets`; between two commands, `earliest`
is at least the offset after the end of the last one, *or* the schedule began
after it. The second case is the reconnection, where the code forgets the time
of the last command. Then the first due date helps, which is an interval and a
second after the start, and the offset is never longer than any interval
(`OffsetFacts`).

That last fact is about the products, sums and means of `BusTiming`.
They are folds, and a fold is given by recursion over a set of indices. The
provers cannot use an induction theorem that takes an operator, so that the
lemmas go by sets: the set of numbers `k` for which there is a fold over `1 .. k`
contains 0 and is closed under successor, hence is `Nat` (`NatSetInduction`,
`FoldExists`); the fold of a sequence is then the last link of a chain of
numbers (`SumChain`, `ProductChain`), a sum of naturals is at least each of them
(`SumFacts`), each positive factor divides the product (`ProductFacts`), and the
quarter of the harmonic mean, rounded up or down, is not greater than any
positive element (`MeanFacts`). A wrapped
product of longs is never greater than the interval itself (`IntervalNsFacts`).
Should every interval overflow, the code computes an offset of years or converts
a number out of range; `BusTiming` takes `Zero` there, and the theorems say
nothing about that case.

`LatenessIsBounded` is a statement about a queue. `TimesBounded` says that
there is a longest command and a latest end of a sleep, `IntervalsFit` that no
interval in nanoseconds is beyond a long, which is where the offset the code
computes is the quarter it is meant to be; `MCMasterLoop` satisfies both.
Lateness alone is not inductive: how late the next command is depends on how
many were waiting. `BusyInv` therefore looks back. At every point of the loop
there is a time `t`, and a number of services `c[a]` of each action before it,
such that everything served since was due at `t` or later, and the clock is
behind `t` by at most `Longest` for each of those services (`Backlog`). Such a
point exists when the loop begins (`FreshInv`, `EnterLoopIsBusy`). `Pick` either
finds the next event due and adds it to the busy time, or finds that the loop
has to wait for it, and then its trigger time is a new `t` (`PickIsBusy`). The
bound follows without an induction over time (`BoundFollows`): the services of
an action between `t` and its due date are at most one more than the intervals
that fit in between (`DueAtDistance`); together they kept the bus no longer
than that time, because of `Fits` and because the offset is at most its quarter
and a nanosecond's rounding of the mean, which `Fits` leaves room for
(`RtuOffsetsFit`, `TcpOffsetsFit`; `BacklogWorkedOff`); what is left is one
command of every other action. `BusyInv` was checked with TLC before it was
proved.

`RestartsAfterServed` is the guard of `InitBegin` in `Scheduler`: there a
schedule starts no earlier than the last event served, and this theorem shows
that the loop, which knows the clock, only starts schedules then.
`LoopImplementsScheduler` carries every theorem about `Scheduler` over to the
loop, if every time is a reading of the clock.

### The master process

`MasterProcessProofs`, for any devices, configurations and number of resets:

| Theorem | States |
|---|---|
| `ProcessInvariant` | `Spec => []Inv` |
| `ProcessTypeCorrect`, `BusIsExclusive`, `NoTcpLeak`, `FreedConfigOnlyReadByDoomed` | `TypeOK`, `MutualExclusion`, `NoTcpContextLeaked`, `OnlyDoomedReadFreedConfig` |
| `ContextIsReleasedOnce` | `RtuSchedulersStart => (Spec => []ContextReleasedOnce)` |

The assumption is `ProcessAssumption`; a configuration has each device once, as
the parser allocates a new entry for each. `OnlyDoomedReadFreedConfig` is not
inductive: it needs that main frees a configuration only after its loop has
cancelled every thread it had started. `StartedInv` and `CancelledInv` relate
the threads started and cancelled to the place main has reached in the list, in
both loops; `UnstartedInv` says that the others have done nothing.
`MutualExclusion` needs `MutexInv`: who is inside the critical section is the
holder, although a cancelled holder never unlocks. `ContextInv` follows the
context along a thread's way, so that each place where a cancellation takes
effect is one where the handler frees it.

`RtuSchedulersStart` (malloc does not fail, and an RTU device has actions) is
what the code needs for a context to be freed once: without it `pthread_exit`
runs the handler for a context that has been freed, which is the run
`MCMasterProcessNoActions`. `MCMasterProcess` satisfies the hypothesis.

### Status bytes and reset bits

`MasterStatusProofs`, for any actions, errors, limit of errors and modes:
`StatusInvariant` (`Spec => []Inv`), `StatusTypeCorrect` (`TypeOK`),
`PollingDeviceShowsNoError` (`OnlineMeansNoError`), `ResetIsAcknowledgedLast`
(`AckMeansCleared`) and `ErrorsAreKept` (`ErrorStaysUntilReset`). The two action
properties need to know what a reset bit read some steps ago still means:
`ResetInv` says that a set bit was set since the unit's last error, that a unit
about to be cleared was asked for, and that its status is clear when the bit is
about to be. `OnlineInv` adds that a polling thread writes errors of commands to
the bytes of actions only.

### The data of a command

`ProcessActionProofs`, for any image, width of a byte, areas and sequence of
commands. `ActionTypeCorrect` (`Spec => []TypeOK`) holds for every layout. The
other theorems have the form `SoundLayout => (Spec => ...)`:

| Theorem | States |
|---|---|
| `ActionInvariant` | `[](PhaseInv /\ DataInv)` |
| `AnswersArriveInPlace` | `[]AnswerInPlace` |
| `OnlyOwnAnswerStored` | `StoresOwnAnswer` |
| `OnlyOwnOutputsSent` | `SendsOwnOutputs` |

`SoundLayout` says that an area of coils starts at bit 0 of a byte or stays in
it, and that no action reads into an area another one writes from. The first
is where the code is right: `MCProcessActionUnaligned` shows what happens
elsewhere. The second is PiCtory's part. `MCProcessAction` satisfies both. The
invariant says where in the image values can come from (`OutputInv`,
`AnswerInv`: outputs are the PLC's and never an answer) and which part of the
buffer has been filled (`PayloadInv`), which is what keeps a command from
sending what an earlier one left behind.

### The slave process

`SlaveProcessProofs`, for any slaves, number of descriptors and resets:
`SlaveProcessInvariant` (`Spec => []Inv`), `SlaveProcessTypeCorrect` (`TypeOK`),
`NoSocketForgotten` (`EverySocketPolled`), `WatchedIsOwned`
(`WatchesItsOwnSockets`) and `NothingElseLeaks` (`OnlyListenerLeaks`). `Inv` has
a `ThreadInv` per thread: what it owns, for each place it can be at (`OwnAt`);
what it watches is its own as long as no other thread closed it (`KeepAt`); and
`fdmax` bounds what it watches (`PollAt`). Descriptors are shared by the
process, so that each step needs two lemmas: what it does to the thread itself
and that it takes from another at most a descriptor that is then in `robbed`
(`OpensFacts`, `ClosesFacts`, `OtherThread`). A close of a reused number
(`ModbusSlaveThread.c:64`) is a step of the model, not excluded by an assumption.

### The requests of a slave

`SlaveImageProofs` proves, for any sets of registers and of values:

| Theorem | States |
|---|---|
| `SlaveInvariant` | `Spec => []Inv` |
| `SlaveTypeCorrect` | `Spec => []TypeOK` |
| `WritesArrive` | `Spec => []WritesReachImage` |
| `InputsAreFresh` | `Spec => []InputsFresh` |
| `FlushOwnEffects` | `Spec => OwnEffectsOnly` |

The assumptions are that a register can hold 0 (`ImageAssumption`) and that
`NoRequest` is no request (`RequestAssumption`). `WritesReachImage` speaks of
the moments between two requests only and is not inductive. `Inv` says how far
the mapping may be ahead of the image at every step: by `owed`, and while a
flush is due by the registers of the request as well (`Unflushed`). For the
inputs it says that the image as it is now is always among those an answer may
carry, from the arrival of the request on. That a request which does not lead
to a flush does not change the holding registers (`AppliedValues`) rests on the
list of function codes in `process_modbus_request`: leave one that writes out of
it and the proof of `NextInv` fails at `Reply`, as TLC finds the property
violated.

### The parser

`ConfigParserProofs`, for any files, any length of the second, any width of a
long and any order in which memory runs out:

| Theorem | States |
|---|---|
| `ParserInvariant` | `Spec => []Inv` |
| `ParserTypeCorrect` | `Spec => []TypeOK` |
| `ParsesWhatIsWritten` | `Spec => []ParsedAsWritten` |
| `RegistersHold` | `SlavesLaidOut => (Spec => []RegistersCoverVariables)` |
| `TimeoutHolds` | `USEC > 1 => (Spec => []TimeoutIsHalfMinInterval)` |
| `GapsHold` | `Spec => []GapsFitSchedule` |

`FilesAssumption` says what a file is: offsets and lengths are numbers without
a sign, every `ActionId` key has the action that starts with it, an interval is
not 0 (the parser asserts that). `SlavesLaidOut` is PiCtory's part again, whole
bytes for the variables of a slave and none over another; `MCConfigParser`
satisfies it. `USEC` is 1000000 in the code: with one microsecond in a second
there is no timeout libmodbus takes.

`ParsedAsWritten` compares two loops with a reading of the whole file and is
about their end. `Inv` says where they are. Of the outer loop: the entries have
smaller indices than the device in hand, each is the entry of its device
(`IsParsed`), and while nothing is lost the devices that count are parsed and
none so far ended the parse (`SoFar`). Of the inner loop (`InActions`): the
actions are those of a set `Q` of keys that are done (`IsTaken`). The hazard is
`identifier`, which outlives its key: a key without one takes the action of an
earlier key. If nothing of the device is lost that action is not sound, and so
is skipped again; no action comes twice. If an allocation failed while the
action was looked up it may be sound, and is then taken late, at a key that is
not its own. `Inv` says that its key is still behind every key in `Q`, so that
the order is kept. One lemma adds an action at the head (`OneMoreAction`), one
an entry (`EntryKept`), one drops a device (`DropKept`); the actions of the model
are instances of these. `NothingBehind` closes the parse early.

The times rest on `BusTimingProofs`: the first interval no other is less than is
the smallest (`MinimalInterval`), the odd second carries its half into the
microseconds (`TimeoutFacts`), each interval times its summand in
`InverseSum` is the product of all (`InverseFacts`), and a sum whose summands
are bounded is bounded (`SumBound`).

### Only model-checked

* Liveness: `TcpHonoursResets`, `LostLinkReopened`, and that `EventsAreServed`
  fails. Fairness and `ENABLED` are out of the prover's reach.
* The violations of the four runs above, which are counterexamples.

For what is proved, the runs show what a proof does not: that every action of
the models fires, and that each property is violated by a plausible slip in the
code (`mutants`).

## Abstractions, and what is not modelled

* libmodbus, piControl, json-c and the kernel are external. They are modelled
  by how the code uses them: a call succeeds, fails or answers short; a
  descriptor is the lowest free number; `select` returns a subset.
* The `double` of `get_minimal_modbus_event_offset` is not computed bit by bit:
  `HarmonicMeans` is the whole part of the exact mean and both its neighbours,
  more than rounding can reach. The N inverses, their sum and its inverse each
  have a relative error of 2^-53, the mean is below 2^42 / N nanoseconds, so that
  the double is off by about a thousandth of a nanosecond: enough to fall below a
  whole number, never to miss one by more. Properties and theorems hold for each
  of the values. Where a 32-bit `long` overflows to a negative number, its
  `uint64_t` is near 2^64 and takes a little off the mean, which the set allows
  for.
* Use of freed memory is recorded (`stale`, `released`, `robbed`), not
  continued with arbitrary effects.
* In `SlaveProcess` a request only succeeds or fails; what it does to the
  process image is `SlaveImage`, for one slave: slaves have areas of their own.
  Coils and discrete inputs of a slave are not modelled beyond their function
  codes: the parser never configures any (`piConfigParser.c:436-437`).
* In `ConfigParser` the text of the file is data: a parameter is there and
  well-formed or not, an action has its first flaw. Regular expressions,
  `strtoul` and prefix comparisons of keys and product types are behind that,
  and numbers fit the fields of 8 and 16 bits they are stored in.
  The status bytes and reset bits the parser clears are the initial state of
  `MasterStatus`. That `maxModbusConnections` is only the backlog of `listen`
  is visible in `SlaveProcess`, where nothing limits the connections.
* Thread priorities, syslog, build files, systemd units: no behaviour of the
  state above depends on them, except that `setprio` can fail.

## Plan

Written so far, in the order of importance: `Timespec`, `Scheduler` with
`PeriodicDispatch` and its proofs, `MasterProcess`, `MasterStatus`,
`ProcessAction`, `SlaveProcess`, `BusTiming`, `MasterLoop` composed with it,
`ConfigParser`, `SlaveImage` and its proofs. Every component with behaviour of
its own has its module. The proofs about `MasterProcess`, `MasterStatus`,
`ProcessAction`, `SlaveProcess`, `MasterLoop` and, last, `LatenessBounded` and
the parser followed: every safety property of the runs is a theorem. What could
follow:

1. The parser's text: prefix comparisons of keys and product types, which are
   data here.
2. The coils and discrete inputs of a slave, once the parser configures any.
3. An RTU slave whose line fails at once, which spins
   (`ModbusSlaveThread.c:325`): a question about time, not about states.
