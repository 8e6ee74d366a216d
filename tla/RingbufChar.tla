---------------------------- MODULE RingbufChar ----------------------------
(***************************************************************************)
(* The character device of kernel/ringbuf_char.c: tasks in read, write,    *)
(* ioctl and poll calls over one shared circular buffer, one mutex, two    *)
(* wait queues and a generation counter.                                   *)
(*                                                                         *)
(* A task has a file of its own and makes one call at a time.  A step is   *)
(* the longest stretch of the C code that other tasks cannot tell from an  *)
(* atomic one: what happens under the mutex to data only its owner looks   *)
(* at is one step, every access to what is read without the mutex (len,    *)
(* capacity, state_generation, the queues, the counters) is one of its own.*)
(* Wake and Unload join two such accesses, and say why.                    *)
(***************************************************************************)
EXTENDS RingBuffer, FiniteSets

CONSTANTS Threads,          \* the tasks
          NoThread,         \* the owner of a free mutex
          Ops,              \* Ops[t]: the calls task t makes
          NonblockFiles,    \* the tasks whose file has O_NONBLOCK
          BadMemory,        \* the tasks whose user pointers may fault
          Signalled,        \* the tasks that may be sent a signal
          Counts,           \* the counts readers ask for
          Payloads,         \* what writers write
          Capacities,       \* the arguments of SET_CAPACITY
          Modes,            \* the arguments of SET_MODE
          MaxGeneration,    \* bound: control changes per behaviour
          CounterModulus    \* where each statistics counter wraps: 2^64

OpKinds == {"read", "write", "clear", "get_stats", "set_capacity", "get_capacity",
            "set_mode", "reset_stats", "bad_ioctl", "pollin", "pollout"}

\* The counters reset_stats zeroes, in its order, and all of them.
ResetOrder == <<"total_bytes_read", "total_bytes_written", "read_calls",
                "write_calls", "open_calls", "ioctl_calls", "failed_operations",
                "blocked_reads", "blocked_writes", "clears", "resizes">>
Counter == {ResetOrder[i] : i \in 1..11} \cup {"open_handles"}

ASSUME ThreadAssumption ==
  /\ NoThread \notin Threads
  /\ Ops \in [Threads -> SUBSET OpKinds]

ASSUME InputAssumption ==
  /\ Counts \subseteq Nat
  /\ Payloads \subseteq Seq(Byte)
  /\ Capacities \subseteq Nat
  /\ Modes \subseteq Nat
  /\ MaxGeneration \in Nat
  /\ CounterModulus \in [Counter -> Nat \ {0}]

VARIABLES
  state_generation,   \* bumped by every control change
  mode,
  shutting_down,
  lock,               \* dev->lock: its owner
  stats,              \* the atomic64 counters, by name
  read_queue,         \* the tasks on dev->read_queue
  write_queue,        \* the tasks on dev->write_queue
  awake,              \* the tasks schedule() would not put to sleep
  open_files,         \* the tasks whose file is open
  signal,             \* the tasks with a pending signal
  pc,                 \* where each task is
  call                \* the arguments and locals of its call

controlVars == <<state_generation, mode, shutting_down>>
sleepVars   == <<read_queue, write_queue, awake>>
vars == <<ringVars, controlVars, lock, stats, sleepVars, open_files, signal, pc, call>>

(***************************************************************************)
(* The locals of a handler: the call and its argument (count, or that of   *)
(* the ioctl), the user memory written from (src) and read into (dst), the *)
(* bytes copied and those the last copy left behind, seen_generation, the  *)
(* capacity the lock-free test has read, how far wait_event has come, what *)
(* a query answers, and the result.                                        *)
(***************************************************************************)
NewCall(o, n, payload, result) ==
  [op |-> o, count |-> n, src |-> payload, dst |-> << >>, copied |-> 0, missing |-> 0,
   seen |-> 0, cap_seen |-> 0, phase |-> "none", answer |-> << >>, ret |-> result]

NoCall == NewCall("none", 0, << >>, 0)

CallRecord == [op : OpKinds \cup {"none"}, count : Nat, src : Seq(Byte), dst : Seq(Slot),
               copied : Nat, missing : Nat, seen : Nat, cap_seen : Nat,
               phase : {"none", "first", "queued", "interrupted"},
               answer : Seq(Nat), ret : Int]

EINTR       == -4
EAGAIN      == -11
ENOMEM      == -12
EFAULT      == -14
ENODEV      == -19
EINVAL      == -22
ENOTTY      == -25
EMSGSIZE    == -90
ERESTARTSYS == -512

POLLIN          == 1
POLLOUT         == 4
MODE_F_NONBLOCK == 1

ReadWrite == {"read", "write"}
Polls     == {"pollin", "pollout"}
Controls  == {"clear", "set_capacity", "set_mode"}
Queries   == {"get_stats", "get_capacity"}

\* The places of a task: between mutex_lock and mutex_unlock, and elsewhere.
Locked == {"decide", "copy", "control", "bump", "mask", "unlock"}
Labels == Locked \cup
  {"idle", "lock", "mutex", "wake", "wake_r", "wake_w", "c_cap", "c_len", "c_gen", "prepare",
   "schedule", "poll_reg", "poll_wait", "copy_out", "reset", "failing", "return"}

Goto(t, l) == pc' = [pc EXCEPT ![t] = l]

Add(k, n) == stats' = [stats EXCEPT ![k] = (@ + n) % CounterModulus[k]]

NoteFailure == Add("failed_operations", 1)

(***************************************************************************)
(* wake_up_interruptible and wake_up_interruptible_all: the waiters are    *)
(* not exclusive, so both wake the whole queue.  A waiter of wait_event    *)
(* takes itself off as it is woken, one of poll stays on.                  *)
(***************************************************************************)
Remaining(queue) == {t \in queue : call[t].op \in Polls}

WakeReadQueue ==
  /\ awake' = awake \cup read_queue
  /\ read_queue' = Remaining(read_queue)
  /\ write_queue' = write_queue

WakeWriteQueue ==
  /\ awake' = awake \cup write_queue
  /\ write_queue' = Remaining(write_queue)
  /\ read_queue' = read_queue

-----------------------------------------------------------------------------

Init ==
  /\ \E c \in MinCapacity..MaxCapacity : BufferInit(c)
  /\ state_generation = 0
  /\ mode = 0
  /\ shutting_down = FALSE
  /\ lock = NoThread
  /\ stats = [k \in Counter |-> 0]
  /\ read_queue = {} /\ write_queue = {}
  /\ awake = Threads
  /\ open_files = {}
  /\ signal = {}
  /\ pc = [t \in Threads |-> "idle"]
  /\ call = [t \in Threads |-> NoCall]

(***************************************************************************)
(* open and release.  chrdev_open takes a module reference first (the      *)
(* owner field of cdev and fops), which fails once the module is going.    *)
(***************************************************************************)
Open(t) ==
  /\ t \notin open_files
  /\ ~shutting_down
  /\ open_files' = open_files \cup {t}
  /\ stats' = [stats EXCEPT !["open_calls"] = (@ + 1) % CounterModulus["open_calls"],
                            !["open_handles"] = (@ + 1) % CounterModulus["open_handles"]]
  /\ UNCHANGED <<ringVars, controlVars, lock, sleepVars, signal, pc, call>>

Release(t) ==
  /\ t \in open_files
  /\ pc[t] = "idle"
  /\ open_files' = open_files \ {t}
  /\ Add("open_handles", -1)
  /\ UNCHANGED <<ringVars, controlVars, lock, sleepVars, signal, pc, call>>

\* Mutant: the file operations name no owner, so open files do not hold the module.
Unreferenced_NoOwner == TRUE

\* The module's reference count is zero: one reference for every open file.
Unreferenced == open_files = {}

(***************************************************************************)
(* ringbuf_char_exit up to the teardown.  rmmod is refused while a file is *)
(* open, so no task is in the driver: nobody sees the middle of it, the    *)
(* mutex is free and the wake-ups find empty queues.                       *)
(***************************************************************************)
Unload ==
  /\ Unreferenced
  /\ ~shutting_down
  /\ shutting_down' = TRUE
  /\ state_generation' = state_generation + 1
  /\ UNCHANGED <<ringVars, mode, lock, stats, sleepVars, open_files, signal, pc, call>>

\* The module is gone and nothing happens any more.
Unloaded == shutting_down /\ UNCHANGED vars

\* A signal arrives while the task is in a call; it is gone when the call is.
Signal(t) ==
  /\ t \in Signalled
  /\ pc[t] # "idle"
  /\ signal' = signal \cup {t}
  /\ UNCHANGED <<ringVars, controlVars, lock, stats, sleepVars, open_files, pc, call>>

-----------------------------------------------------------------------------

(***************************************************************************)
(* The system calls up to the first access to shared state: the counter of *)
(* the call, then the early returns.                                       *)
(***************************************************************************)
Enter(t, o, n, payload, result, l) ==
  /\ t \in open_files
  /\ pc[t] = "idle"
  /\ o \in Ops[t]
  /\ call' = [call EXCEPT ![t] = NewCall(o, n, payload, result)]
  /\ Goto(t, l)
  /\ UNCHANGED <<ringVars, controlVars, lock, sleepVars, open_files, signal>>

ReadCall(t, n) ==
  /\ Enter(t, "read", n, << >>, 0, IF n = 0 THEN "return" ELSE "lock")
  /\ Add("read_calls", 1)

WriteCall(t, payload) ==
  /\ Enter(t, "write", Len(payload), payload, 0, IF payload = << >> THEN "return" ELSE "lock")
  /\ Add("write_calls", 1)

\* CLEAR, GET_STATS and GET_CAPACITY take no argument, RESET_STATS no mutex.
PlainIoctl(t, o) ==
  /\ o \in Queries \cup {"clear", "reset_stats"}
  /\ o = "clear" => state_generation < MaxGeneration
  /\ Enter(t, o, 0, << >>, 0, IF o = "reset_stats" THEN "reset" ELSE "mutex")
  /\ Add("ioctl_calls", 1)

BadIoctl(t) ==
  /\ Enter(t, "bad_ioctl", 0, << >>, ENOTTY, "failing")
  /\ Add("ioctl_calls", 1)

\* SET_CAPACITY and SET_MODE: copy_from_user may fail, then the range test.
ArgumentValid(o, arg) ==
  IF o = "set_capacity" THEN CapacityValid(arg) ELSE arg \in {0, MODE_F_NONBLOCK}

ArgIoctl(t, o, arg) ==
  /\ state_generation < MaxGeneration
  /\ Add("ioctl_calls", 1)
  /\ \/ t \in BadMemory /\ Enter(t, o, arg, << >>, EFAULT, "failing")
     \/ ~ArgumentValid(o, arg) /\ Enter(t, o, arg, << >>, EINVAL, "failing")
     \/ ArgumentValid(o, arg) /\ Enter(t, o, arg, << >>, 0, "mutex")

PollCall(t, o) ==
  /\ Enter(t, o, 0, << >>, 0, "poll_reg")
  /\ UNCHANGED stats

Call(t) ==
  \/ \E n \in Counts : ReadCall(t, n)
  \/ \E payload \in Payloads : WriteCall(t, payload)
  \/ \E o \in OpKinds : PlainIoctl(t, o)
  \/ BadIoctl(t)
  \/ \E n \in Capacities : ArgIoctl(t, "set_capacity", n)
  \/ \E m \in Modes : ArgIoctl(t, "set_mode", m)
  \/ \E o \in Polls : PollCall(t, o)

-----------------------------------------------------------------------------

(***************************************************************************)
(* The mutex.  mutex_lock_interruptible gives up on a pending signal only  *)
(* after it has found the mutex taken.                                     *)
(***************************************************************************)
AfterLock(o) ==
  IF o \in ReadWrite THEN "decide" ELSE IF o \in Polls THEN "mask" ELSE "control"

Acquire(t) ==
  /\ pc[t] \in {"lock", "mutex"}
  /\ lock = NoThread
  /\ lock' = t
  /\ Goto(t, AfterLock(call[t].op))
  /\ UNCHANGED <<ringVars, controlVars, stats, sleepVars, open_files, signal, call>>

LockInterrupted(t) ==
  /\ pc[t] = "lock"
  /\ lock # NoThread
  /\ t \in signal
  /\ call' = [call EXCEPT ![t].ret = ERESTARTSYS]
  /\ Goto(t, "failing")
  /\ UNCHANGED <<ringVars, controlVars, lock, stats, sleepVars, open_files, signal>>

\* Where wait_event starts to test its condition.
TestStart(o) == IF o = "read" THEN "c_len" ELSE "c_cap"

\* Mutant: the control calls wake nobody.
AfterControl_NoWake(k) == IF k.ret = 0 THEN "return" ELSE "failing"

AfterControl(k) == IF k.ret = 0 THEN "wake_r" ELSE "failing"

AfterTransfer(k) ==
  CASE k.phase = "first" -> TestStart(k.op)
    [] k.phase # "first" /\ k.copied > 0 -> "wake"
    [] k.phase # "first" /\ k.copied = 0 ->
         IF k.ret \in {EAGAIN, ENODEV} THEN "failing" ELSE "return"

\* Where call k goes on after mutex_unlock.
AfterUnlock(k) ==
  CASE k.op \in ReadWrite -> AfterTransfer(k)
    [] k.op \in Controls  -> AfterControl(k)
    [] k.op \in Polls     -> IF k.ret = 0 THEN "poll_wait" ELSE "return"
    [] OTHER              -> "copy_out"

Unlock(t) ==
  /\ pc[t] = "unlock"
  /\ lock' = NoThread
  /\ Goto(t, AfterUnlock(call[t]))
  /\ UNCHANGED <<ringVars, controlVars, stats, sleepVars, open_files, signal, call>>

(***************************************************************************)
(* ringbuf_char_read and ringbuf_char_write with the mutex just taken: go  *)
(* on to the copy, fail with EAGAIN, or note the generation and block.     *)
(***************************************************************************)
Nonblocking(t) == t \in NonblockFiles \/ mode = MODE_F_NONBLOCK

Refuse(t, code) ==
  call' = [call EXCEPT ![t].ret = code] /\ Goto(t, "unlock") /\ UNCHANGED stats

Block(t, blocked) ==
  /\ call' = [call EXCEPT ![t].seen = state_generation, ![t].phase = "first"]
  /\ Add(blocked, 1)
  /\ Goto(t, "unlock")

\* Mutant: a reader with a signal pending does not block, and reports what it has: nothing.
ReadBreaks_OnSignal(t) == Stored > 0 \/ shutting_down \/ t \in signal

ReadBreaks(t) == Stored > 0 \/ shutting_down

ReadDecide(t) ==
  /\ pc[t] = "decide"
  /\ call[t].op = "read"
  /\ \/ /\ ReadBreaks(t)
        /\ Goto(t, IF Stored = 0 THEN "unlock" ELSE "copy")
        /\ UNCHANGED <<call, stats>>
     \/ /\ ~ReadBreaks(t) /\ Nonblocking(t)
        /\ Refuse(t, EAGAIN)
     \/ /\ ~ReadBreaks(t) /\ ~Nonblocking(t)
        /\ Block(t, "blocked_reads")
  /\ UNCHANGED <<ringVars, controlVars, lock, sleepVars, open_files, signal>>

WriteDecide(t) ==
  /\ pc[t] = "decide"
  /\ call[t].op = "write"
  /\ IF shutting_down
     THEN Refuse(t, ENODEV)
     ELSE \/ /\ Available > 0
             /\ call' = [call EXCEPT ![t].count = Least(@, Available)]
             /\ Goto(t, "copy")
             /\ UNCHANGED stats
          \/ /\ Available = 0 /\ Nonblocking(t)
             /\ Refuse(t, EAGAIN)
          \/ /\ Available = 0 /\ ~Nonblocking(t)
             /\ Block(t, "blocked_writes")
  /\ UNCHANGED <<ringVars, controlVars, lock, sleepVars, open_files, signal>>

-----------------------------------------------------------------------------

(***************************************************************************)
(* One iteration of the copy loops, mutex held.  A user copy leaves        *)
(* `missing' bytes of the chunk behind; when it does, the call fails with  *)
(* EFAULT if nothing has been moved and returns the partial count if       *)
(* something has.                                                          *)
(***************************************************************************)
Missing(t, chunk) == IF t \in BadMemory THEN 0..chunk ELSE {0}

\* Mutants: the whole chunk counts as moved; any fault fails the call.
Transferred_Chunk(chunk, missing) == chunk
CopyResult_AlwaysEfault(total, missing) == IF missing > 0 THEN EFAULT ELSE total

Transferred(chunk, missing) == chunk - missing

CopyResult(total, missing) == IF total = 0 THEN EFAULT ELSE total

\* The end of an iteration that moved n bytes into or out of `memory'.
AfterCopy(t, memory, n, missing, more) ==
  LET total == call[t].copied + n
      goesOn == more /\ missing = 0
  IN  /\ call' = [call EXCEPT ![t].dst = memory, ![t].copied = total,
                              ![t].missing = missing,
                              ![t].ret = IF goesOn THEN 0 ELSE CopyResult(total, missing)]
      /\ IF missing > 0 THEN NoteFailure ELSE UNCHANGED stats
      /\ Goto(t, IF goesOn THEN "copy" ELSE "unlock")
      /\ UNCHANGED <<controlVars, lock, sleepVars, open_files, signal>>

ReadChunk(t) ==
  /\ pc[t] = "copy"
  /\ call[t].op = "read"
  /\ LET left  == call[t].count - call[t].copied
         chunk == Least(left, ReadSpan)
     IN  \E missing \in Missing(t, chunk) :
           LET n == Transferred(chunk, missing)
           IN  /\ Consume(n)
               /\ AfterCopy(t, call[t].dst \o SpanBytes(chunk - missing), n, missing,
                            n < left /\ n < len)

WriteChunk(t) ==
  /\ pc[t] = "copy"
  /\ call[t].op = "write"
  /\ LET left  == call[t].count - call[t].copied
         chunk == Least(left, WriteSpan)
     IN  \E missing \in Missing(t, chunk) :
           LET n == Transferred(chunk, missing)
           IN  /\ CopyIn(call[t].src, call[t].copied, chunk, chunk - missing)
               /\ Commit(n)
               /\ AfterCopy(t, << >>, n, missing, n < left /\ n < Available)

\* Mutants: the own side is woken; the count asked for is accounted.
WakeOther_OwnSide(o) == IF o = "write" THEN WakeWriteQueue ELSE WakeReadQueue
BytesMoved_Asked(k) == k.count

WakeOther(o) == IF o = "read" THEN WakeWriteQueue ELSE WakeReadQueue

BytesMoved(k) == k.copied

\* After the unlock: account for the bytes and wake the other side.  These are two accesses, but
\* no code decides anything by a counter, and until the wake-up the task is about to wake.
Wake(t) ==
  /\ pc[t] = "wake"
  /\ Add(IF call[t].op = "read" THEN "total_bytes_read" ELSE "total_bytes_written",
         BytesMoved(call[t]))
  /\ WakeOther(call[t].op)
  /\ Goto(t, "return")
  /\ UNCHANGED <<ringVars, controlVars, lock, open_files, signal, call>>

-----------------------------------------------------------------------------

(***************************************************************************)
(* wait_event_interruptible.  The condition is tested without the mutex,   *)
(* once before the task is queued and again after, one READ_ONCE a step.   *)
(* shutting_down cannot change during a call and is read with len.         *)
(***************************************************************************)
TestCapacity(t) ==
  /\ pc[t] = "c_cap"
  /\ call' = [call EXCEPT ![t].cap_seen = capacity]
  /\ Goto(t, "c_len")
  /\ UNCHANGED <<ringVars, controlVars, lock, stats, sleepVars, open_files, signal>>

\* The condition is true: finish_wait, and back to the top of the loop.
StopWaiting(t) ==
  /\ read_queue' = read_queue \ {t}
  /\ write_queue' = write_queue \ {t}
  /\ awake' = awake \cup {t}
  /\ call' = [call EXCEPT ![t].phase = "none"]
  /\ Goto(t, "lock")

TestLen(t) ==
  LET ready == shutting_down \/ IF call[t].op = "read" THEN len > 0 ELSE call[t].cap_seen > len
  IN  /\ pc[t] = "c_len"
      /\ IF ready THEN StopWaiting(t) ELSE Goto(t, "c_gen") /\ UNCHANGED <<sleepVars, call>>
      /\ UNCHANGED <<ringVars, controlVars, lock, stats, open_files, signal>>

\* The condition is false: queue, sleep, or give up on the signal.
KeepWaiting(t) ==
  /\ UNCHANGED sleepVars
  /\ \/ /\ call[t].phase = "first"
        /\ Goto(t, "prepare")
        /\ UNCHANGED call
     \/ /\ call[t].phase = "queued"
        /\ Goto(t, "schedule")
        /\ UNCHANGED call
     \/ /\ call[t].phase = "interrupted"
        /\ Goto(t, "failing")
        /\ call' = [call EXCEPT ![t].phase = "none", ![t].ret = ERESTARTSYS]

TestGeneration(t) ==
  /\ pc[t] = "c_gen"
  /\ IF state_generation # call[t].seen THEN StopWaiting(t) ELSE KeepWaiting(t)
  /\ UNCHANGED <<ringVars, controlVars, lock, stats, open_files, signal>>

\* prepare_to_wait_event: with a signal pending the task is not queued.
PrepareToWait(t) ==
  LET interrupted == t \in signal
      joins == IF interrupted THEN {} ELSE {t}
  IN  /\ pc[t] = "prepare"
      /\ call' = [call EXCEPT ![t].phase = IF interrupted THEN "interrupted" ELSE "queued"]
      /\ awake' = IF interrupted THEN awake \cup {t} ELSE awake \ {t}
      /\ IF call[t].op = "read"
         THEN read_queue' = (read_queue \ {t}) \cup joins /\ UNCHANGED write_queue
         ELSE write_queue' = (write_queue \ {t}) \cup joins /\ UNCHANGED read_queue
      /\ Goto(t, TestStart(call[t].op))
      /\ UNCHANGED <<ringVars, controlVars, lock, stats, open_files, signal>>

\* schedule() returns once the task is woken or has a signal.
Schedule(t) ==
  /\ pc[t] = "schedule"
  /\ t \in awake \cup signal
  /\ awake' = awake \cup {t}
  /\ Goto(t, "prepare")
  /\ UNCHANGED <<ringVars, controlVars, lock, stats, read_queue, write_queue, open_files,
                 signal, call>>

-----------------------------------------------------------------------------

(***************************************************************************)
(* ringbuf_char_ioctl with the mutex held.                                 *)
(***************************************************************************)
DoClear(t) ==
  /\ call[t].op = "clear"
  /\ Clear
  /\ Add("clears", 1)
  /\ Goto(t, "bump")
  /\ UNCHANGED <<mode, call>>

\* Mutant: a mode change does not bump the generation.
AfterSetMode_NoBump == "unlock"

AfterSetMode == "bump"

DoSetMode(t) ==
  /\ call[t].op = "set_mode"
  /\ mode' = call[t].count
  /\ Goto(t, AfterSetMode)
  /\ UNCHANGED <<ringVars, stats, call>>

\* Mutant: a failed resize forgets the mutex.
ResizeFails_KeepsMutex(t, code) ==
  call' = [call EXCEPT ![t].ret = code] /\ Goto(t, "failing") /\ UNCHANGED <<ringVars, stats>>

ResizeFails(t, code) ==
  call' = [call EXCEPT ![t].ret = code] /\ Goto(t, "unlock") /\ UNCHANGED <<ringVars, stats>>

\* A resize is refused, fails to allocate, or installs the new storage.
DoSetCapacity(t) ==
  /\ call[t].op = "set_capacity"
  /\ mode' = mode
  /\ \/ ResizeRefused(call[t].count) /\ ResizeFails(t, EMSGSIZE)
     \/ ~ResizeRefused(call[t].count) /\ ResizeFails(t, ENOMEM)
     \/ /\ Resize(call[t].count)
        /\ Add("resizes", 1)
        /\ Goto(t, "bump")
        /\ UNCHANGED call

\* GET_CAPACITY and, of the fields of GET_STATS, those about the buffer.  It also copies the
\* counters, which are promised to be approximate only, the number of open handles and the mode.
DoQuery(t) ==
  /\ call[t].op \in Queries
  /\ call' = [call EXCEPT ![t].answer = IF call[t].op = "get_capacity"
                                        THEN <<capacity>>
                                        ELSE <<capacity, Stored, Available>>]
  /\ Goto(t, "unlock")
  /\ UNCHANGED <<ringVars, mode, stats>>

Control(t) ==
  /\ pc[t] = "control"
  /\ DoClear(t) \/ DoSetMode(t) \/ DoSetCapacity(t) \/ DoQuery(t)
  /\ UNCHANGED <<state_generation, shutting_down, lock, sleepVars, open_files, signal>>

BumpGeneration(t) ==
  /\ pc[t] = "bump"
  /\ state_generation' = state_generation + 1
  /\ Goto(t, "unlock")
  /\ UNCHANGED <<ringVars, mode, shutting_down, lock, stats, sleepVars, open_files, signal, call>>

WakeReaders(t) ==
  /\ pc[t] = "wake_r"
  /\ WakeReadQueue
  /\ Goto(t, "wake_w")
  /\ UNCHANGED <<ringVars, controlVars, lock, stats, open_files, signal, call>>

WakeWriters(t) ==
  /\ pc[t] = "wake_w"
  /\ WakeWriteQueue
  /\ Goto(t, "return")
  /\ UNCHANGED <<ringVars, controlVars, lock, stats, open_files, signal, call>>

\* The copy_to_user of the GET_ calls, after the unlock.
CopyOut(t) ==
  /\ pc[t] = "copy_out"
  /\ \/ Goto(t, "return") /\ UNCHANGED call
     \/ t \in BadMemory /\ Goto(t, "failing") /\ call' = [call EXCEPT ![t].ret = EFAULT]
  /\ UNCHANGED <<ringVars, controlVars, lock, stats, sleepVars, open_files, signal>>

\* ringbuf_char_reset_stats: one atomic64_set a step, without the mutex.
ResetStats(t) ==
  LET next == call[t].copied + 1
  IN  /\ pc[t] = "reset"
      /\ stats' = [stats EXCEPT ![ResetOrder[next]] = 0]
      /\ call' = [call EXCEPT ![t].copied = next]
      /\ Goto(t, IF next = Len(ResetOrder) THEN "return" ELSE "reset")
      /\ UNCHANGED <<ringVars, controlVars, lock, sleepVars, open_files, signal>>

-----------------------------------------------------------------------------

(***************************************************************************)
(* poll(2) for one event.  The handler queues the task on both queues and  *)
(* computes the mask under the mutex; the core sleeps while the event is   *)
(* missing and asks again, without queueing, after a wake-up.              *)
(***************************************************************************)
PollQueues(t) == read_queue' = read_queue \cup {t} /\ write_queue' = write_queue \cup {t}

PollRegister(t) ==
  /\ pc[t] = "poll_reg"
  /\ PollQueues(t)
  /\ awake' = awake \ {t}
  /\ Goto(t, "mutex")
  /\ UNCHANGED <<ringVars, controlVars, lock, stats, open_files, signal, call>>

PollEvent(o) ==
  CASE o = "pollin" /\ Stored > 0     -> POLLIN
    [] o = "pollout" /\ Available > 0 -> POLLOUT
    [] OTHER                          -> 0

PollMask(t) ==
  LET event == PollEvent(call[t].op)
  IN  /\ pc[t] = "mask"
      /\ call' = [call EXCEPT ![t].ret = IF event = 0 /\ t \in signal THEN EINTR ELSE event]
      /\ Goto(t, "unlock")
      /\ UNCHANGED <<ringVars, controlVars, lock, stats, sleepVars, open_files, signal>>

\* poll_schedule_timeout: `awake' is the triggered flag of the poll table.
PollWait(t) ==
  /\ pc[t] = "poll_wait"
  /\ t \in awake \cup signal
  /\ awake' = awake \ {t}
  /\ Goto(t, "mutex")
  /\ UNCHANGED <<ringVars, controlVars, lock, stats, read_queue, write_queue, open_files,
                 signal, call>>

-----------------------------------------------------------------------------

\* ringbuf_char_note_failure on the paths where it follows the unlock.
Fail(t) ==
  /\ pc[t] = "failing"
  /\ NoteFailure
  /\ Goto(t, "return")
  /\ UNCHANGED <<ringVars, controlVars, lock, sleepVars, open_files, signal, call>>

\* Back in user space: the call's locals are gone, poll has left the queues.
Return(t) ==
  /\ pc[t] = "return"
  /\ Goto(t, "idle")
  /\ call' = [call EXCEPT ![t] = NoCall]
  /\ read_queue' = read_queue \ {t}
  /\ write_queue' = write_queue \ {t}
  /\ awake' = awake \cup {t}
  /\ signal' = signal \ {t}
  /\ UNCHANGED <<ringVars, controlVars, lock, stats, open_files>>

\* What a task does once it is in a call.
Step(t) ==
  \/ Acquire(t) \/ LockInterrupted(t) \/ Unlock(t)
  \/ ReadDecide(t) \/ WriteDecide(t)
  \/ ReadChunk(t) \/ WriteChunk(t) \/ Wake(t)
  \/ TestCapacity(t) \/ TestLen(t) \/ TestGeneration(t)
  \/ PrepareToWait(t) \/ Schedule(t)
  \/ Control(t) \/ BumpGeneration(t) \/ WakeReaders(t) \/ WakeWriters(t)
  \/ CopyOut(t) \/ ResetStats(t)
  \/ PollRegister(t) \/ PollMask(t) \/ PollWait(t)
  \/ Fail(t) \/ Return(t)

Next ==
  \/ \E t \in Threads : Open(t) \/ Release(t) \/ Signal(t) \/ Call(t) \/ Step(t)
  \/ Unload
  \/ Unloaded

Spec == Init /\ [][Next]_vars

(***************************************************************************)
(* The scheduler runs every task that can run, and the mutex is handed to  *)
(* a waiter that has been passed over (MUTEX_FLAG_HANDOFF).  Nothing makes *)
(* a task open its file, make a call or be sent a signal.                  *)
(***************************************************************************)
Fairness == \A t \in Threads : WF_vars(Step(t)) /\ SF_vars(Acquire(t))

FairSpec == Spec /\ Fairness

-----------------------------------------------------------------------------

\* The device and the tasks' locals have their types.
TypeOK ==
  /\ RingTypeOK
  /\ state_generation \in Nat
  /\ mode \in {0, MODE_F_NONBLOCK}
  /\ shutting_down \in BOOLEAN
  /\ lock \in Threads \cup {NoThread}
  /\ stats \in [Counter -> Nat]
  /\ read_queue \subseteq Threads
  /\ write_queue \subseteq Threads
  /\ awake \subseteq Threads
  /\ open_files \subseteq Threads
  /\ signal \subseteq Threads
  /\ pc \in [Threads -> Labels]
  /\ call \in [Threads -> CallRecord]

(***************************************************************************)
(* The mutex is owned by exactly the task that is between mutex_lock and   *)
(* mutex_unlock: no path through the handlers forgets to unlock, unlocks   *)
(* twice or touches the buffer without it.                                 *)
(***************************************************************************)
MutexDiscipline == \A t \in Threads : pc[t] \in Locked <=> lock = t

-----------------------------------------------------------------------------
(***************************************************************************)
(* Sleeping and waking.                                                    *)
(***************************************************************************)
\* schedule() has been or will be called with nothing to wake the task.
Asleep(t) == pc[t] \in {"schedule", "poll_wait"} /\ t \notin awake

\* What the task sleeps for has happened.
Ready(t) ==
  LET k == call[t]
  IN  \/ k.op \in {"read", "pollin"} /\ len > 0
      \/ k.op \in {"write", "pollout"} /\ capacity > len
      \/ k.op \in ReadWrite /\ state_generation # k.seen

\* Task u is on its way to a wake_up of the read queue, of the write queue.
WakesReaders(u) ==
  LET k == call[u]
  IN  \/ k.op = "write" /\ k.copied > 0 /\ pc[u] \in {"copy", "unlock", "wake"}
      \/ k.op \in Controls /\ k.ret = 0 /\ pc[u] \in {"bump", "unlock", "wake_r"}

WakesWriters(u) ==
  LET k == call[u]
  IN  \/ k.op = "read" /\ k.copied > 0 /\ pc[u] \in {"copy", "unlock", "wake"}
      \/ k.op \in Controls /\ k.ret = 0 /\ pc[u] \in {"bump", "unlock", "wake_r", "wake_w"}

WakeUpComing(t) ==
  IF call[t].op \in {"read", "pollin"} THEN \E u \in Threads : WakesReaders(u)
                                       ELSE \E u \in Threads : WakesWriters(u)

(***************************************************************************)
(* No lost wake-up.  The condition is tested and the queue is woken        *)
(* without the mutex; still, a task never sleeps through what it waits     *)
(* for: if that has happened, some task is about to wake it.               *)
(***************************************************************************)
NoLostWakeup == \A t \in Threads : Asleep(t) /\ Ready(t) => WakeUpComing(t)

(***************************************************************************)
(* A wake-up is not an end of file.  API_SPECIFICATION.md promises that    *)
(* control changes do not produce one: a read of more than zero bytes      *)
(* returns 0 only when the module is going, whatever emptied the buffer    *)
(* between the wake-up and the mutex.                                      *)
(***************************************************************************)
NoFalseEof ==
  \A t \in Threads :
    LET k == call[t]
    IN  pc[t] = "return" /\ k.op = "read" /\ k.count > 0 /\ k.ret = 0 => shutting_down

(***************************************************************************)
(* When the module goes no task is in the driver: the shutting_down        *)
(* branches of read and write never meet a call (architecture.md: "normal  *)
(* module ownership keeps `rmmod` from removing it").                      *)
(***************************************************************************)
UnloadFindsNoCall ==
  shutting_down =>
    /\ lock = NoThread
    /\ read_queue = {} /\ write_queue = {}
    /\ \A t \in Threads : pc[t] = "idle"

(***************************************************************************)
(* The statistics account for every byte.  The counters are added to after *)
(* the mutex is released, so they lag behind the buffer by exactly the     *)
(* transfers that have not got there yet; with those added, and if nobody  *)
(* clears the buffer or resets the counters, what was written is what was  *)
(* read and what is stored.                                                *)
(***************************************************************************)
InTransfer(o) == {t \in Threads : call[t].op = o /\ pc[t] \in {"copy", "unlock", "wake"}}

\* The bytes tasks have moved and not counted, each with its task.
InFlight(o) == UNION {{t} \X (1..call[t].copied) : t \in InTransfer(o)}

BytesAccountedFor ==
  LET modulus == CounterModulus["total_bytes_read"]
  IN  (stats["total_bytes_written"] + Cardinality(InFlight("write"))) % modulus =
      (stats["total_bytes_read"] + Cardinality(InFlight("read")) + len) % modulus

-----------------------------------------------------------------------------
(***************************************************************************)
(* The device as a byte stream.                                            *)
(***************************************************************************)
\* A transfer in progress counts as not having started.
Stream ==
  IF lock = NoThread THEN Contents
  ELSE CASE call[lock].op = "read"  -> call[lock].dst \o Contents
         [] call[lock].op = "write" -> SubSeq(Contents, 1, len - call[lock].copied)
         [] OTHER                   -> Contents

\* A write of more than fits is one of what fits.
Fifo == INSTANCE ByteFifo WITH data <- Stream, capacity <- capacity,
                               MaxTransfer <- MaxCapacity

(***************************************************************************)
(* The device implements the contract: chunk by chunk copies, faults,      *)
(* blocking, resizing and clearing amount to whole reads, writes, resizes  *)
(* and clears of one byte stream, each taking effect at one instant        *)
(* (concurrency-model.md: "the final FIFO update in that critical section  *)
(* is a suitable abstract linearization point").                           *)
(***************************************************************************)
ImplementsFifo == Fifo!Spec

\* The contract's step for call k of which a fault may have cut off the end.
ReadReplies(k) ==
  IF k.ret = EFAULT THEN UNCHANGED Stream
  ELSE Fifo!Read(IF k.missing > 0 THEN k.copied ELSE k.count, k.ret, k.dst)

WriteReplies(k) ==
  IF k.ret = EFAULT THEN UNCHANGED Stream
  ELSE Fifo!Write(IF k.missing > 0 THEN SubSeq(k.src, 1, k.copied) ELSE k.src, k.ret)

ControlReplies(k, result) ==
  /\ k.op = "clear" => Fifo!Clear(result.ret)
  /\ k.op = "set_capacity" /\ result.ret # ENOMEM => Fifo!Resize(k.count, result.ret)
  /\ k.op = "get_stats" =>
       result.answer = <<capacity, Len(Stream), capacity - Len(Stream)>>
  /\ k.op = "get_capacity" => Fifo!GetCapacity(result.answer[1])

(***************************************************************************)
(* And every reply is the one the contract gives at that instant: bytes,   *)
(* counts, EAGAIN, EMSGSIZE, and what GET_STATS says of the buffer.  A     *)
(* user copy that faults after n bytes makes the call one for n bytes.     *)
(***************************************************************************)
RepliesLinearize ==
  [][\A t \in Threads :
       /\ Unlock(t) /\ call[t].op = "read" /\ call[t].phase = "none" => ReadReplies(call[t])
       /\ Unlock(t) /\ call[t].op = "write" /\ call[t].phase = "none" => WriteReplies(call[t])
       /\ Control(t) => ControlReplies(call[t], call'[t])]_vars

(***************************************************************************)
(* SET_MODE to nonblocking releases the tasks it finds blocked: the mode   *)
(* is not part of what they wait for, the generation has to tell them.     *)
(***************************************************************************)
ModeChangeReleases ==
  \A t \in Threads :
    call[t].op \in ReadWrite /\ mode = MODE_F_NONBLOCK
      ~> call[t].op \notin ReadWrite \/ mode # MODE_F_NONBLOCK

=============================================================================
