# KernelBridge: a TLA+ model of the ring-buffer character device

This directory models the Linux character device `ringbuf_char`, the circular
buffer under it, its life as a module, the threaded stress test that exercises
it, and the Python laboratory that judges it: contract, simulator, history
checker, reducers, device session, evidence, studies, benchmark and the Linux
validation campaign. The models are checked with TLC on small instances; their
safety properties, and that the buffer and the driver implement the contract,
are also proved with TLAPS, for every value of the constants. Paths below are
relative to the repository root.

## 1. The system

| Component | Source | State it keeps | Operations |
|---|---|---|---|
| circular buffer | `kernel/ringbuf_char_buffer.c/.h` | storage, capacity, `len`, `read_pos`, `write_pos` | init, read/write spans, consume, commit, whole reads and writes, clear, resize |
| character device driver | `kernel/ringbuf_char.c`, `include/ringbuf_char_ioctl.h` | the buffer, one mutex, two wait queues, `mode`, `state_generation`, `shutting_down`, eleven counters and `open_handles` | open, release, read, write, eight ioctls, poll |
| module load and unload | `kernel/ringbuf_char.c` | the six resources of init, `ringbuf_dev`, module references | init with its unwinding labels, exit |
| byte-stream contract | `lab/contract.py` | capacity, data | `ReferenceModel.apply` |
| stress test | `userspace/concurrent_test.c` | stop flag, counters, `seen`, one stream, two locks | writer and reader threads, main |
| client, ABI dump, regression test | `userspace/*.c` | none beyond a call | single calls, `write_all` retries |
| history checker | `lab/history.py` | the search's frontier and budget | linearizability search, prefix reduction, checking a saved run again |
| scenario execution and reduction | `lab/runner.py`, `replay.py`, `dradd.py`, `concurrency.py` | a run's history; candidates and budgets of a search | sequential and concurrent evaluation, three delta-debugging loops |
| device backends | `lab/backends.py`, `research_targets.py` | one device, real or simulated, with a fault or without | prepare, apply, restore, close |
| evidence and studies | `lab/runner.py`, `report.py`, `demo.py`, `research.py`, `benchmark.py`, `experiment.py` | JSON files and histories on disk | save, load, count, seal, verify, measure |
| Linux validation campaign | `lab/validate_linux.py` | steps, kernel logs, manifest, the guest | timed steps, suite, cleanup, verdict |
| scripts | `scripts/*.sh` | none | insmod, rmmod, build |

**How they interact.** File operations of many tasks enter the driver at once.
They share the buffer under `dev->lock`, and three words outside it: the wait
conditions read `buffer.len`, `buffer.capacity` and `state_generation` with
`READ_ONCE` while not holding the mutex, and every wake-up comes after the
unlock. Control ioctls change the buffer or the mode, bump the generation and
wake both queues. The module core keeps exit from running while a file is open.
User programs and the Python laboratory see the device only through its calls;
the laboratory compares every backend with `ReferenceModel`. Inside it, workers
of one process share a device, a lock and a barrier; the runner, the demo, the
study and the campaign are processes that start each other under timeouts and
know each other by exit codes and by the files they leave.

**What is hard.** Lock-free tests next to wake-ups; two `READ_ONCE`s that
together are one condition; a wake-up that several tasks answer; user copies
that stop anywhere; five ways out of each handler with the mutex held; counters
updated after the unlock; six acquisitions that can each fail; the wrap-around
and the exactly full buffer; threads that decide to stop from counters loaded
one after the other. In the laboratory: a verdict drawn from timestamps taken
outside the calls; errors that look like short histories; budgets that run out
in the middle of a search; descriptors whose number is reused; saves that are
cut off and processes killed between two of them; a process that outlives the
step that started it. `PROJECT.json` lists the hazards at the lines where they bite,
with the properties that watch each; neighbouring ones share an entry.

**What makes each part correct.**

* Buffer: it is a FIFO of the bytes supplied, whatever the positions; calls end.
* Driver: calls linearize to the contract; nobody sleeps through its event; the
  mutex is freed on every path; a read never reports a false end of file; exit
  meets no call.
* Load and unload: reverse order, no leak, nothing taken from an open file.
* Stress test: it passes on a device that works, fails on one that does not,
  and ends.
* Checker and concurrent run: the verdict is that of the definition of
  linearizability, a lawful device is never accused, an incomplete capture is
  never judged, nobody waits for ever.
* Reducers: what is reported was confirmed, is a lawful part of the input, and
  cannot lose a single operation unless the budget cut the search off.
* Device session: the device is restored or the run is inconclusive; the
  descriptor is closed once.
* Evidence: what the readers accept was observed, whatever failed in between.
* Campaign: passed means a clean guest, and every campaign ends.

## 2. Modules

| Module | Models | Uses |
|---|---|---|
| `ByteFifo` | `ReferenceModel.apply` of `lab/contract.py`: the abstract specification | |
| `RingBuffer` | the fields and operations of `ringbuf_char_buffer.c` as operators and actions | |
| `BufferCalls` | the whole calls of the buffer, chunk by chunk, from one caller | `RingBuffer`, `ByteFifo` |
| `RingbufChar` | the driver, any number of tasks | `RingBuffer`, `ByteFifo` |
| `ModuleLifecycle` | `ringbuf_char_init` and `_exit` with open files | |
| `StressTest` | `userspace/concurrent_test.c` | `ByteFifo` |
| `Contract` | `ReferenceModel.apply` as a function of model and operation, with its replies | |
| `Scenario` | `validate` and `generate` of `lab/contract.py`: which scenarios there are | `Contract` |
| `SimulatedDevice` | the simulator and its injected faults | `Contract` |
| `History` | `check_history` and `reduce_history_prefix` as functions | `Contract` |
| `ConcurrentRun` | `evaluate_concurrent`: barrier, workers, clocks, the recorded history, the verdict | `History`, `Scenario`, `SimulatedDevice` |
| `Reduction` | `reduce_scenario` and `reduce_concurrent` | |
| `Dradd` | `reduce` of `lab/dradd.py`, with workloads, groups of trials and both budgets | |
| `DeviceSession` | `evaluate` around `LinuxDevice`, each system call a step | `Scenario`, `SimulatedDevice` |
| `JsonFile` | `save_json`: how a save can end | |
| `RunEvidence` | the files of one run, from the runner to the report, the second check and the demo | `JsonFile` |
| `StepRunner` | `run_step` against the processes of its command | |
| `LinuxValidation` | `main` of the campaign, the guest and its kernel log | `JsonFile` |
| `Study` | `study`, `execute_job`, `seal` and `verify` | `JsonFile` |
| `RoundTrip` | the benchmark's transports, exchanges and repeats | |
| `MCBufferCalls`, `MCRingbufChar`, `MCStressTest`, `MCConcurrentRun`, `MCDeviceSession` | instances for TLC | |
| `MCModuleLifecycle` | `ModuleLifecycle` under names that do not meet those of the driver | `ModuleLifecycle` |
| `MCReducers` | a call of any of the three reducers | `Dradd`, `Reduction` |
| `MCLaboratory` | one invocation of any of the commands that leave evidence | `StepRunner`, `LinuxValidation`, `RunEvidence`, `Study`, `RoundTrip` |
| `RingBufferProofs` | lemmas about the buffer's operations | `RingBuffer` |
| `BufferCallsProofs` | proofs about the buffer's calls | `RingBufferProofs` |
| `RingbufCharProofs` | proofs about the driver and, in its last section, about `ModuleLifecycle` | `RingBufferProofs`, `MCModuleLifecycle` |
| `ConcurrentRunProofs`, `StressTestProofs`, `DeviceSessionProofs` | proofs about the modules of these names | |
| `ReducersProofs`, `LaboratoryProofs` | proofs about `MCReducers` and `MCLaboratory`, that is, about each part of these unions | |

### RingBuffer and BufferCalls

`data` is a function on `0..capacity-1`. A slot holds a byte or `Junk`, which
stands for what `kvmalloc` returns and what a faulting `copy_from_user` leaves;
the properties may then say that junk is never inside the stored range. A resize
allocates new storage, copies in order and may fail. `BufferCalls` makes each
loop iteration of `ringbuf_char_buffer_read` and `_write` a step.

### RingbufChar

Each task has a program counter `pc[t]` and a record `call[t]` of its locals. A
step is one access to shared state that other tasks can see the middle of:

* `Enter`, `ReadCall`, `WriteCall`, `ArgIoctl`, `PlainIoctl`, `BadIoctl`,
  `PollCall`: the code before the mutex, with the argument copies and checks
  that may fail;
* `Acquire`, `LockInterrupted`, `Unlock`: the mutex; `_interruptible` only where
  the code says so;
* `ReadDecide`, `WriteDecide`: under the mutex, transfer, refuse with `EAGAIN`,
  return, or note `state_generation` and go to wait;
* `TestCapacity`, `TestLen`, `TestGeneration`, `PrepareToWait`, `Schedule`:
  `wait_event_interruptible` as the kernel expands it, one `READ_ONCE` each: the
  condition is tested first without queueing, then queued, tested again, slept
  on;
* `ReadChunk`, `WriteChunk`: one user copy, which may fault after any number of
  bytes;
* `Wake`, `WakeReaders`, `WakeWriters`: after the unlock; `BumpGeneration` is a
  step of its own because the lock-free tests can see the moment before it. `Wake`
  adds to the byte counter and wakes in one step: nothing is decided by a counter;
* `Control`: the ioctl bodies under the mutex; `ResetStats` sets one counter a
  step, since nothing protects them;
* `PollRegister`, `PollMask`, `PollWait`: poll, with the task on both queues
  before it looks;
* `Open`, `Release`, `Signal`, `Unload`. When the module goes no task is in the
  driver, so the mutex section and the wake-ups of the exit are one step.

Of `GET_STATS`, the fields about the buffer are in the reply (`DoQuery`). The counters
it also copies are promised to be approximate only (`docs/device-contract.md:23`);
the number of open handles and the mode are copied as they are and left out.

The kernel's mutex, wait queues, signals and user copies are external: they are
modelled from how the driver calls them, and marked so in the map. Memory is
sequentially consistent in the model; that is what the mutex, the atomics and
the barriers inside `prepare_to_wait_event` and `wake_up` provide for these
accesses. A read or write file is one per task.

### ModuleLifecycle

`held` is the set of resources acquired, `at` the next one to acquire or to give
back, `UnwindFrom` the label each failure jumps to. The labels give back what comes
next in their order without looking, as the C code does: a jump to a label too early
gives back what was never acquired, one too late leaves something, and
`NothingDangles` and `NothingLeaks` tell the two apart. Files go through opening, open, released and closed, with
the module reference held from the first to the last.

### StressTest

The device is `ByteFifo` itself, opened nonblocking, so the composition rests on
what the driver runs show. A frame is a few units instead of bytes: the magic
(the same in all frames), the rest of the header, the payload. Two frames differ
in every unit after the magic, which is what the checksum is for; collisions of
the 32-bit checksum are outside the model. `Scan` is `validate_available_frames`:
a recursive function of the number of iterations, each of which (`ScanStep`) skips
to the next magic, skips a unit, or takes a frame off, until what is left is
`Waiting` for more. `delivered` is a history variable. `test` is the
test that is run: messages, what the device holds at first, how often it
misbehaves, which threads may fail.

### Contract, Scenario and SimulatedDevice

The same source as `ByteFifo`, as functions: `Apply(model, operation)` returns the
next model and the reply, errors included, because the laboratory compares
replies one by one. `SimApply` and `ResearchApply` are the simulator with a fault
of `backends.py` or `research_targets.py` switched on.

### History and ConcurrentRun

`CheckHistory` is the search of the code: its checks of the capture, the edges by
time and by worker, and the depth-first search, which may be resumed at any event
of its loop, as a recursive function of the transitions the budget has left. The
reference definition in `ConcurrentRun` (`Explains`) quantifies over permutations
and shares nothing with it.
In `ConcurrentRun` a worker waits at the barrier, reads the clock, calls, reads
the clock again, and records under the lock; each is a step, the clock may stand
still, and each may raise. `shadow` remembers whether the device kept the
contract in the order in which it was called.

### Reduction and Dradd

A group of runs may end in any way, independently of the candidate, so an
intermittent fault is covered. Operations are positions in the original input.
In `Dradd` the Wilson bound is the number of matching trials at which it holds.
`log` keeps what `verify` of `research.py` recomputes from the saved groups.

### DeviceSession

`table` says who owns the descriptor's number. Another thread may take it as
soon as it is free, which is why `_close` gives up `self.fd` first.

### RunEvidence, Study, StepRunner, LinuxValidation, RoundTrip

A save ends well, leaves the old file, or leaves one that is cut off. Between any
two steps a process may be killed; what it started in a session of its own runs
on. `RunEvidence` abstracts a call to match, mismatch or error, and models the
readers as predicates over the directory: `LoadRun`, `Recheck`, `Harness`.
`Study` lets files be edited after the seal; a hash stands for the content.
In `StepRunner` the command's processes fork, exit, ignore `SIGTERM` and leave
the group next to `run_step`. `LinuxValidation` sees a step from outside and lets
a straggler of the suite load or unload the module while the campaign goes on;
the kernel log is a ring. A suite that failed, was cut off or was interrupted may
leave a straggler, one that passed may not: it has waited for each of its tests
(`tests/run_all_tests.sh:41`), and that a campaign that passed has none rests on it.
In `RoundTrip` a byte knows the exchange that wrote it, and `left` is what somebody
else left in the transport before the first: any number of bytes of any values.

`MCLaboratory` is their disjoint union: `command` is drawn at the start, variables
of one name are shared, and those of the other commands are `Unused`.

## 3. Runs

| Run | What it asks | Instance |
|---|---|---|
| `buffer_calls` | The buffer under every sequence of calls implements `ByteFifo`, with the contract's replies; representation invariant, calls return. | capacities 1 to 3, transfers up to 3, two byte values |
| `driver_control` | No lost wake-up, unload meets no call. | reader, writer, and a task that clears, resizes, switches the mode and polls |
| `driver_contention` | No false end of file when two readers compete; the counters, with the updates still due, account for every byte. | two readers, one of them signalled, one with bad memory, and a writer with bad memory |
| `driver_calls` | Every ioctl, valid or not, next to faulting, chunked transfers: error paths free the mutex, calls are whole steps of the byte stream, replies included. | a writer and a nonblocking task with all ioctls and reads, unreadable memory, requests of 0, 1, 3, capacities 0 to 3 around the valid 1 to 2 |
| `driver_liveness` | Readers and writers are served; a switch to nonblocking releases those who block. | reader, writer, mode and capacity changes |
| `lifecycle` | Reverse unwinding, no leak, files find the device. | four files, any number of loads |
| `stress` | On a device that works the test passes and no reader gives up; it passes only if all was delivered; it ends. | two writers, two readers, two messages each on a sound device; dirty device, one misbehaviour, threads that fail |
| `concurrent` | Verdicts are those of the definition; lawful devices are not accused; only whole captures are judged; counterexamples can be cut; nobody waits for ever. | two workers, scenarios of two to four calls, nine faults, one error anywhere, clocks that repeat, budgets 3 and 100 |
| `reducers` | Lawful candidates, reserved and honoured budgets, confirmed and one-minimal results. | scenarios of six operations; all workloads of three with two workers and some of four and five, five strategies |
| `device_session` | Restored or inconclusive, not accused by the environment's errors, descriptor closed once. | all generated scenarios of two operations, some of three, dirty device, four faults, two errors anywhere |
| `laboratory` | See the properties below; the commands end. | four processes; logs of two lines; four operations, two repeats, three errors; three jobs, two errors, two edits; two repeats of three exchanges |
| `log_cleared` | Expected violation: a rolled-over log after `dmesg --clear`. | an empty log of one line |

**Properties.**

* `RingShape`: the representation of the buffer.
* `ImplementsFifo`: refinement of `ByteFifo` under the mapping `Stream`, in which
  a call takes effect when it leaves the critical section: bytes a read has taken
  so far still count, bytes a write has stored so far do not.
* `RepliesMatchContract`, `RepliesLinearize`: at that instant the reply is the
  one the contract gives. A copy that faults after n bytes makes the call one for
  n bytes, and `EFAULT` when n is 0 leaves the stream alone.
* `MutexDiscipline`, `NoLostWakeup`, `NoFalseEof`, `UnloadFindsNoCall`,
  `BytesAccountedFor`, `ReaderServed`, `WriterServed`, `ModeChangeReleases`.
* `NothingDangles`: no resource outlives what it is built on, and nothing is given
  back, while a load is undone or the module goes, that is not held.
  `NothingLeaks`, `FilesFindDevice`.
* `HealthyPasses`, `NoReaderGivesUp`, `PassMeansDelivered`, `TestEnds`.
* `VerdictIsCorrect`, `LawfulPasses`, `CaptureIsWhole`, `CounterexampleReduces`,
  `NobodyWaitsForEver`. A concurrent run has no cycles, so the last one, an
  invariant, means that every run ends.
* `DraddIsLawful`, `DraddIsConfirmed`, `DraddIsMinimal`, `ReductionIsSound`,
  `ReductionIsMinimal`: conjunctions whose parts are stated one by one in `Dradd`
  and `Reduction`. That the reducers end follows from their budgets.
* `LawfulNotAccused`, `DescriptorIsOwn`, `ResultIsEarned`.
* `StepIsContained`, `ValidationIsEarned`, `EvidenceIsTrue`, `StudyIsVerified`,
  `BenchmarkIsHonest`: what each command promises, stated part by part in its
  module; `CommandsEnd` for the step, the campaign and the benchmark.

`NoFalseEof` is checked where two readers compete for one write; that run makes no
control changes. A reader woken by a clear, a resize or a mode change is covered by
the theorem `ReadNeverFalseEof`.

**What the benchmark cannot tell.** `exchange` and `measure` compare contents only, so
`CompleteMeansFresh` has a way out: bytes that were in the transport before and begin
like the payloads. A sound transport then lets every exchange read bytes of earlier
ones, and the repeat completes. The property says how many such bytes it takes: at
least as many as `Base` (256) payloads have, after which the first byte of the payloads
comes round again, or so many that at most two payloads come after them. With
payloads of one byte, the first of the default sizes, 00 to FF left in the device keep
every exchange stale however many there are, and with `--warmup 0 --iterations 2` 00 01
is enough. With 16 bytes or more at the default `--capacity` of 4096, and the default
5200 exchanges, neither fits into the device next to a payload, and a repeat that
completes on a sound transport has read its own bytes. A transport that loses bytes
is hidden only by leftovers that make up for each of them. Whatever does not begin like
the payloads is noticed. Only the device is open to other processes; what keeps them
away is `--exclusive`, a promise of the caller, and the clear at the start of the
session.

**Disagreements between code and documents.** One is shown by a run:

* `log_cleared`: `new_kernel_messages` (`lab/validate_linux.py:65`) finds a rotated
  log by its beginning. When the first reading was empty, every later log begins
  with it, and an error that has rolled out is not seen; its comment and
  `docs/linux-validation.md:51` say that a log that rolls over does not pass.
  `ValidationIsEarned` is checked with a first reading that is not empty, and
  holds.

Three more were met while modelling, and no property covers them:

* On a timeout `run_step` signals one process group (`lab/validate_linux.py:51`).
  `tests/run_all_tests.sh` runs each test under `timeout`, in a group of its own,
  which lives on next to the cleanup; `docs/linux-validation.md:66` says that child
  process groups are terminated. `StepIsContained` speaks of the one group;
  `ValidationIsEarned` shows that such a campaign does not pass.
* The demo counts a run by its exit code and `result.json`
  (`lab/demo.py:91`). A runner whose last save of `manifest.json` raised has
  written its result and exits with 1, which also means a mismatch:
  it is counted with the verdict it reached although its manifest says running,
  which `docs/contract-lab.md:26` says must not count as a pass.
* The benchmark stores a repeat's measurement before it writes the samples
  (`lab/benchmark.py:264`): a write that raises leaves an inconclusive repeat with
  a measurement and some rows, against `docs/benchmarking.md:57` ("Partial samples
  from an aborted repeat are not published"). `FirstErrorKept` says what the code
  does: such a repeat is inconclusive and keeps its measurement; one in which the
  setup, an exchange or the cleanup raised has neither measurement nor rows. The
  aggregate leaves both out.

**Bounds, and why they are enough.** Capacity 3 with transfers of 3 reaches each
shape of the buffer: empty, partly filled, full, wrapped, and a request larger than
what fits. Two readers and a writer are the least that make a wake-up fail to
find what it was for; three tasks are the least in which a transfer, a control
change and a sleeper overlap. `MaxGeneration` bounds the control changes: two let
one fall between the moment a task notes the generation and its test, and
another after it. `CounterModulus` lets a counter that a run is not about wrap at
once; `driver_contention` keeps the byte counters modulo 4, more than a buffer holds.
In the stress test a device smaller than a frame forces both sides to work in
pieces; `IdleLimit` stands for 2000. One misbehaviour: two could
cancel out, which no checker of contents can see.
Four calls of two workers are the least on which the checker's search has to back
out of a first choice that looked right; the budget of 3 runs out on every plan
of three. Six operations let `Reduction` start with chunks of three and come down
to one; pruning needs a chain of three prerequisites to take two rounds. The
errors allowed (`MaxErrors`, `RunErrors`) let one failure meet the handler of
another. A log of two lines of which one was there before rolls over with the
second line of the campaign. The benchmark exchanges five payloads of two bytes that
are digits to the base 2, over a transport of eight bytes that up to seven leftovers
of every content may fill. So both kinds of leftovers that pass are reached (0 0 1 1
on a sound transport, 0 0 1 1 0 0 1 on one that loses bytes), many that are noticed
late, and the write that finds no room.

**Deadlock** is checked in all runs but `laboratory` and `log_cleared`, whose
commands end at many places. After unload and after a test, run or search has
ended the other models stutter explicitly (`Unloaded`, `Ended`).

**Fairness.** The driver: weak fairness of each task's steps inside a call (the
scheduler runs what can run) and strong fairness of `Acquire` (the kernel's mutex
hands itself to a waiter that has been passed over). Nothing makes a task call,
open or receive a signal. `ReaderServed` and `WriterServed` are for one reader
and one writer: with more, another may always be first, and the code promises no
order. The buffer: weak fairness of a call in progress. The stress test: weak
fairness of each thread and of main; none of the failures is fair. In
`laboratory`: weak fairness of `run_step` (its waits have timeouts), of the
campaign's own steps (each is such a step or a file operation) and of the
benchmark (its descriptors do not block). The command's processes, the kernel
log, stragglers and kills are not fair. A process in an uninterruptible kernel
call, which not even `SIGKILL` ends, is outside the model.

## 4. Proofs

Each theorem is for every value of the constants: the sets of tasks, files,
bytes, payloads, capacities, processes and calls are arbitrary, infinite ones
too where no assumption says otherwise, and so are the numbers of operations,
jobs, repeats, errors and edits.

**Assumptions.** The named ones of the modules, which TLC evaluates in every run:

* buffer and driver: `CapacityAssumption` (the least capacity is positive and at
  most the greatest), `JunkAssumption` (junk is not a byte), `ThreadAssumption`,
  `InputAssumption`, `TransferAssumption`;
* `DeviceSession`: `CapacityAssumption`, and `ScenarioAssumption`, that the
  scenarios are of the kind `validate` of `lab/contract.py` lets through;
* `MCReducers` and `Dradd`: `ReductionAssumption` and `CallsAssumption`, the checks
  `reduce`, `reduce_scenario` and `Workload` make of their arguments;
* `StressTest`: `StressAssumption`: finitely many writers, at least one reader, a
  magic shorter than the header, which is at most the frame, an `IdleLimit` of at
  least 1, and a device that at first holds units of frames, as many as fit;
* `ConcurrentRun`: `WorkersAssumption` (two to four, as the runner has it),
  `BoundsAssumption`, `BudgetsAssumption` (a budget is positive) and
  `PlansAssumption`: a plan was read from JSON, its capacity is an integer and its
  payloads are lists of bytes. Plans need not be valid;
* `MCLaboratory`: one for each command (a leader, a log with room for a line, at
  least one job, operation and repeat, two to four workers), and for the benchmark
  `SizeAssumption`, `ClockAssumption` and `IndexAssumption`, that at least one exchange
  is measured.

Three kinds of hypothesis stand in theorems themselves. `ManifestIsTrue` needs
`0 \notin InitialLines`: with an empty first reading of the kernel log the property
is false, which the run `log_cleared` shows. `EveryByteAccountedFor` needs
`Undisturbed`: no task clears the buffer or resets the counters, which `GET_STATS`
cannot tell from lost bytes, and the two byte counters wrap at the same number, as
two `atomic64_t` do. `ReadersSeeTheTruth` and
`AcceptedMeansComplete` need that `Absent` and `Torn`, the two states of a file that
is not readable, are no content (`Mark`) and not each other. In TLC they are model
values, for which this holds; the logic has no notion of a model value.

**Buffer.**

* `BufferSafe` (`BufferCallsProofs`): `[](TypeOK /\ RingShape /\ NoJunkStored)`
  for whole calls. `RingBufferProofs` has one lemma per buffer operation
  (`ConsumeInv`, `CopyCommitInv`, `ClearInv`, `ResizeInv`), each needing only that
  the span it moves is bounded; the arithmetic of the wrap-around is in
  `WrapOnce`. The strengthening `CallInv` says that `copied` never exceeds
  `count` and that `count` is the length of the bytes to write.
* `BufferImplementsFifo` and `BufferRepliesMatchContract`: every step is a step of
  `ByteFifo` on `Stream` or leaves it alone, and the reply is the contract's. A
  second set of lemmas in `RingBufferProofs` says what an operation does to
  `Contents`: a consumption cuts off its beginning, a commit appends what was
  copied, a resize keeps it. `StreamInv` adds that while a call copies, what it has
  handed out is the part of the old stream that is missing now, or what it has
  stored is the part of the payload that is there.

**Driver.**

* `DriverSafe` (`RingbufCharProofs`): `[](TypeOK /\ MutexDiscipline /\ RingShape
  /\ NoJunkStored)` for any number of tasks. `SafeInv` adds `CallOK`: which calls
  can be at which label, and how many bytes a transfer may have moved there.
  Without it a commit could be one of more bytes than the span, or an unlock one
  by a task that never locked.
* `WakeupSafe`: `[]NoLostWakeup`. The property speaks of tasks asleep; `WakeInv`
  must begin where a task has queued itself. `TaskOK` says, for each point of the
  condition (`c_cap`, `c_len`, `c_gen`, `schedule`), that if what was tested
  before it is no longer so then the task has been woken or whoever changed it
  has still to wake its queue. The two `READ_ONCE`s of the writer's condition
  need the case `capacity # cap_seen`.
* `ReadNeverFalseEof` and `UnloadSafely` follow from the same invariant.
* `DriverImplementsFifo` and `DriverRepliesLinearize`: the refinement with any
  number of tasks. Only the holder of the mutex can be in the middle of a
  transfer, so `Stream` differs from `Contents` by that one task's
  bytes; `StreamInv` carries them from the decision over every chunk and fault to
  the unlock, at which `Stream` makes the step of the contract. Everything the
  others do in between leaves it alone, which is one lemma per action.
* `EveryByteAccountedFor`: `[]BytesAccountedFor`. `CountInv` states the balance
  without the wrap: for some integer i, the bytes written and those in flight from
  writers are the bytes read, those in flight to readers, those stored and i times
  the modulus. A step of one task changes the bytes in flight of that task only
  (`FlightOf`), by what it copies or adds to a counter; only finitely many tasks
  are in flight at a time, however many there are.

**Load and unload** (the end of `RingbufCharProofs`). `NothingEverDangles`,
`NothingEverLeaks` and `LifecycleSafe`. `ResourcesOK` says that what is held is what
the position in init, unwinding or exit implies; the rest is the tables of the
three orders (`LoaderOrders`).

**Stress test** (`StressTestProofs`). The theorems rest on one invariant, `Inv`.

* `PassIsEarned`: `[]PassMeansDelivered`. `ReadInv` says that, as long as nothing
  was reported, what the device has delivered is the frames seen, in the order in
  which they were scanned, followed by what is not scanned yet (the stream and,
  between the read and the append, the bytes of the lock's owner). `ScanReads`
  shows that a scan keeps this or reports, by the number of iterations: each
  shortens the stream, so as many as it is long are enough (`ScanStepShortens`).
  When main passes, the stream is empty and the frames are as many as the
  messages, so they are all of them (`DifferentCount`).
* `HealthyDevicePasses`: `[]HealthyPasses`. `WriteInv` says that what was delivered
  and what the device still holds are the frames of the writers in the order in
  which they took the write lock, the last one up to the writer's offset. A list
  of frames has one reading only (`ReadAsWritten`), so the scan meets whole, fresh
  frames and nothing else (`ScanOfWritten`), whatever pieces it gets them in.
* `ReadersStay`: `[]NoReaderGivesUp`. `IdleInv`: a reader that found the device empty
  after all writers had left knows, when it next finds nothing, that all frames
  were seen: whoever read the last bytes has scanned them by the time the read
  lock is free again (`AllDone`, `AllRead`).

**Device session.** `NobodyIsAccused`, `DescriptorStaysOwn` and `VerdictIsEarned`
(`DeviceSessionProofs`) follow from `SessionInv` (`SessionIsSound`). Its parts say,
for each place of the session, who owns the descriptor's number, what of the
device was saved and restored, which exception is on its way, and that the model
and a device that keeps the contract hold the same bytes whenever a comparison
can come.

**History checker and concurrent run** (`ConcurrentRunProofs`).

* `Correct`: `[]VerdictIsCorrect`. The search is compared with the definition over
  permutations (`SearchDecides`): a witness it returns explains the history, and
  where it says that no order exists none does, for every history and every
  budget. `SearchRight` is the induction over the transitions that are left, with
  `ExploreRight` for its step: from every place the search reaches, `found` means an
  order that begins as the place's does, `none` that there is no such order from
  this event of the loop on, and `exhausted` claims nothing.
* `Whole`: `[]CaptureIsWhole`. `CaptureInv` says for each worker, by where it is, how
  much of its share is in the history, which event it carries, how that event's
  times lie to the clock, and where an error is on its way.
* `Lawful`: `[]LawfulPasses`. `LawInv` keeps the order in which the device took the
  calls (`DeviceOrder`): no call in it was over before an earlier one had started,
  because both timestamps are taken outside the call, so it is one of the orders
  the checker may choose. `SearchAffords` bounds the transitions of a search by
  the partial orders, so a budget of that size never runs out.
* `Reducible`: `[]CounterexampleReduces`. Sorting by start and worker keeps the order
  of each worker's calls, and renumbering loses nothing an explanation depends on
  (`OrderedMeans`, `ReorderExplains`). So each prefix that is checked can be judged,
  the last of them is the whole history, which nothing explains, and behind a
  quiescent cut all others start later still.

**Reducers** (`ReducersProofs`, for any of the three, over `AnySpec`).

* `ReproducersAreSound`, `ReproducersAreMinimal`: `DeltaInv`. The current candidate
  is a strictly increasing list of positions with their owners (`DeltaParts`); the
  groups of trials belong to it and fit in what the budget has left
  (`DeltaGroups`); with chunks of one, everything before the place of the scan has
  been tried and rejected since the candidate last changed (`DeltaScanned`).
* `ReducedIsConfirmed`, `ReducedIsMinimal`, `ReducedIsLawful`: `DraddInv`. In
  addition `DraddBudget` keeps the confirmation's trials in reserve, `DraddLog`
  relates the saved groups to the counts `verify` recomputes, and `DraddPart` says
  that the candidate has its prerequisites. `PruneMeans`: the fixed point is the
  largest supported part. `PartIsWorkload`: renumbering the edges of such a part
  makes no cycle.

**Evidence** (`LaboratoryProofs`). A behaviour is one command, so each theorem has an
invariant about that command, which the others leave alone.

* `StepLeavesNobody`: `StepIsContained`. `StepInv` says that from the `killpg` on the
  group is empty; a child is in its parent's group, so it stays empty.
* `ManifestIsTrue`: `ValidationIsEarned`. `LogInv` follows the ring: while line 1 is
  there an error since the first reading lies behind what that reading saw, and
  once it is gone the readings differ at their beginning. `ProgressInv` says what
  each position of `main` implies for the guest.
* `ReadersSeeTheTruth`: `EvidenceIsTrue`. `DirectoryInv` says what each file may
  hold at each position; a final manifest is written last, so behind it are the
  whole history and the result.
* `AcceptedMeansComplete`: `StudyIsVerified`. The seal is what the files were when it
  was made, and it is only made with the status the jobs earned.
* `MeasurementsAreHonest`: `BenchmarkIsHonest`. `Flow` says what is on its way to an
  exchange, read or still in the transport. A sound transport hands over what was
  in it and then all the payloads as one stream, so an exchange that got its payload
  got the next bytes of that sequence (`Coming`), and what the earlier ones got passed
  for theirs (`Past`). With d bytes left behind, then, byte p of the stream is byte
  p - d of it for every p above d that was read, and the leftovers are its beginning.
  `NoShortPeriod` refutes this for a d that is shorter than `Base` payloads and leaves
  more than two of them: if d is a whole number of payloads, the next one begins with
  another byte than the first. If not, the next whole payload begins with a zero out
  of the first, so it is that of `Base`; the first bytes of the second and the third
  payload then fall on the same place of those of `Base` and `Base + 1`, which agree
  there, but the third begins with a two. A lossy transport loses a byte in every
  exchange, which only leftovers can make up for (`Counted`). The percentiles are
  nearest ranks because `Ordered` counts: at place k stands the value with fewer
  than k samples below it and k or more up to it (`Ranks`).

**Induction.** Facts about data that need it (the search, the scan, sorting, the
rounds of `Prune`, the acyclicity of a projection) are proved from `LeastNatural`: a
set of numbers that is not empty has a least member, so a least counterexample is
refuted. `Induction` states this for a set of numbers that contains 0 and with
each number the next one. For the same reason the models have recursive functions,
or definitions that count, where the code has a loop or a recursion, and no
recursive operators.

The invariants above were checked by TLC on the runs' instances first. Two
formulas turned out too narrow that way or in the proof and were corrected:
`DeltaDone` holds in the confirmation phase whatever the count of groups, and
`NothingInvalidRuns` exempts the construction that raised `ValueError`.

**Only model-checked**, and why:

* all liveness (`CallsReturn`, `ReaderServed`, `WriterServed`,
  `ModeChangeReleases`, `TestEnds`, `CommandsEnd`): fairness is outside the prover;
* `NobodyWaitsForEver`, which says that a step is enabled (`ENABLED`);
* `RolledOverDoesNotPass`, which does not hold: it is the claim of `log_cleared`.

## 5. Not modelled

* Logging, version fields and the wording of messages.
* Opens through a device node made by hand while init is still running, between
  `cdev_add` and a failure of `class_create` or `device_create`:
  `docs/correctness-audit.md` leaves the same question open.
* What `RESET_STATS` makes of a snapshot taken while it runs: the contract calls
  the counters approximate. The reset itself is modelled.
* A stress test on a device that still holds whole frames of an earlier one:
  `tests/test_concurrency.sh` clears the device first. The hazard list says what
  could happen otherwise.
* The client, the ABI dump, the regression test and the shell scripts: single
  calls, fixed sequences of them, or commands of the operating system. The
  client's retries are those of the stress test.
* `lab/experiment.py` and the statistics and HTML of `lab/research.py` and
  `lab/report.py`: arithmetic and rendering over runs that are finished. Argument
  parsing (`replay.main`), the demo's `generate_workload` and the research
  targets other than the faulty devices have no state of their own.
* The Windows branch of `run_step`.
* In `RunEvidence`, `Study` and `LinuxValidation` the work between two saves is
  reduced to how it can end; what it computes is in the other modules.

## 6. Plan

Done, in this order: `ByteFifo`, `RingBuffer`, `BufferCalls`, `RingbufChar`, their
proofs, `ModuleLifecycle` and its proofs, `StressTest`; then the laboratory:
`Contract`, `Scenario`, `SimulatedDevice`, `History`, `ConcurrentRun`, `Reduction`,
`Dradd`, `DeviceSession`, `JsonFile`, `RunEvidence`, `StepRunner`,
`LinuxValidation`, `Study`, `RoundTrip` and their compositions.

Then the proofs, from the device outwards: the buffer and the driver with their
refinements of `ByteFifo`, load and unload, the device session, the reducers, the
evidence of each command; then the byte counters, the benchmark, the history
checker with the concurrent run, and the stress test. With these every safety
property a run checks is a theorem, except the two named above.

What would extend the development: a model of the opens that `cdev_add` lets in
before the load is complete, with a node made by hand; a stress test on a device
that holds whole frames of an earlier one; and the statistics of `research.py`,
which need an arithmetic of fractions.
