----------------------------- MODULE StressTest -----------------------------
(***************************************************************************)
(* userspace/concurrent_test.c: writer threads send framed messages        *)
(* through one device, reader threads collect them into one stream and     *)
(* check them off, main starts, joins and judges.  The device is the byte  *)
(* stream ByteFifo, which RingbufChar implements, opened nonblocking; it   *)
(* may misbehave MaxFaults times.                                          *)
(*                                                                         *)
(* A frame is FrameSize units: Magic units that are the same in every      *)
(* frame, the rest of the header, the payload.  Two frames differ in every *)
(* unit after the magic, so the checksum holds for whole frames only.      *)
(***************************************************************************)
EXTENDS Integers, Sequences, FiniteSets, FiniteSetsExt

CONSTANTS Writers, Readers,  \* the threads
          NoThread,          \* the owner of a free lock
          Magic, Header, FrameSize,
          DeviceCapacity,    \* of the device, in units
          ReadChunk,         \* READ_CHUNK_SIZE
          IdleLimit,         \* 2000 in the code: how often a reader finds nothing
          Tests              \* the tests to run: messages per writer and, of the environment,
                             \* leftover (what the device holds when the test starts),
                             \* faults (bound: how often it misbehaves) and failing (the
                             \* threads whose creation, open or malloc may fail)

Threads == Writers \cup Readers

\* What the device can hold: the units of frames.
Units == (Threads \cup {NoThread}) \X Nat \X (1..FrameSize)

ASSUME StressAssumption ==
  /\ NoThread \notin Threads /\ Writers \cap Readers = {}
  /\ IsFiniteSet(Writers) /\ Readers # {}
  /\ Magic \in Nat \ {0} /\ Header \in Nat /\ FrameSize \in Nat
  /\ Magic < Header /\ Header <= FrameSize
  /\ DeviceCapacity \in Nat \ {0} /\ ReadChunk \in Nat \ {0}
  /\ IdleLimit \in Nat \ {0}
  /\ \A t \in Tests : /\ t.messages \in Nat \ {0} /\ t.faults \in Nat /\ t.failing \subseteq Threads
                       /\ t.leftover \in Seq(Units) /\ Len(t.leftover) <= DeviceCapacity

VARIABLES
  test,              \* the member of Tests that is run
  device, capacity,  \* the device: a byte stream
  faults,            \* how often it has misbehaved
  stop,              \* state->stop
  failed,            \* state->stats.validation_failures > 0
  completed,         \* state->stats.writes_completed
  done,              \* state->stats.writer_threads_done
  seen,              \* state->seen; frames_validated counts it
  stream,            \* what was read and is not a frame yet
  write_lock, read_lock,
  pc,                \* where each thread is
  sequence, offset,  \* a writer's locals
  got, idle,         \* a reader's locals: the bytes of a read, idle_after_writers
  main,              \* what main does
  startup_failed,
  exit_code,
  delivered          \* everything the device has handed out, for the properties

deviceVars == <<device, capacity, faults>>
writerVars == <<sequence, offset, completed, done, write_lock>>
readerVars == <<got, idle, seen, stream, read_lock, delivered>>
mainVars   == <<test, main, startup_failed, exit_code>>
vars == <<deviceVars, writerVars, readerVars, mainVars, stop, failed, pc>>

Device == INSTANCE ByteFifo WITH data <- device, Byte <- {}, MinCapacity <- 1,
                                 MaxCapacity <- DeviceCapacity, MaxTransfer <- FrameSize

Messages  == test.messages
MaxFaults == test.faults
Failing   == test.failing

Expected == Cardinality(Writers) * Messages

Goto(t, l) == pc' = [pc EXCEPT ![t] = l]

-----------------------------------------------------------------------------
(***************************************************************************)
(* Frames: build_frame and validate_available_frames.                      *)
(***************************************************************************)
Unit(w, n, i) == IF i <= Magic THEN <<NoThread, 0, i>> ELSE <<w, n, i>>

Frame(w, n) == [i \in 1..FrameSize |-> Unit(w, n, i)]

\* memcmp with the magic, k units into s.
MagicAt(s, k) == \A i \in 1..Magic : s[k + i] = Unit(NoThread, 0, i)

\* The length field is where it belongs and says FrameSize.
LengthOK(s) == \A i \in Magic+1..Header : s[i][3] = i

Drop(s, n) == SubSeq(s, n + 1, Len(s))

\* The frame at the head of s passes the tests of its writer, number and checksum.
FrameOK(s, found) ==
  LET id == <<s[Magic + 1][1], s[Magic + 1][2]>>
  IN  /\ id \in Writers \X (0..Messages-1)
      /\ id \notin found
      /\ SubSeq(s, 1, FrameSize) = Frame(id[1], id[2])

\* No header yet, or the header of a frame that is not whole yet.
Waiting(s) == Len(s) < Header \/ (MagicAt(s, 0) /\ LengthOK(s) /\ Len(s) < FrameSize)

\* One iteration of the loop: skip to the next magic, skip a unit, or take a frame off.
ScanStep(x) ==
  LET s    == x.stream
      next == {k \in 1..Len(s) - Magic : MagicAt(s, k)}
      ok   == FrameOK(s, x.seen)
  IN  CASE Waiting(s) -> x
        [] Len(s) >= Header /\ ~MagicAt(s, 0) ->
             [stream |-> Drop(s, IF next = {} THEN Len(s) - (Magic - 1) ELSE Min(next)),
              seen |-> x.seen, failed |-> TRUE]
        [] Len(s) >= Header /\ MagicAt(s, 0) /\ ~LengthOK(s) ->
             [stream |-> Drop(s, 1), seen |-> x.seen, failed |-> TRUE]
        [] OTHER ->
             [stream |-> Drop(s, FrameSize),
              seen |-> IF ok THEN x.seen \cup {<<s[Magic + 1][1], s[Magic + 1][2]>>} ELSE x.seen,
              failed |-> x.failed \/ ~ok]

\* The loop, one state for each number of iterations.  All but the last shorten the stream, so
\* that Len(s) of them are enough.
Scan(s, found, bad) ==
  LET after[n \in 0..Len(s)] ==
        IF n = 0 THEN {[stream |-> s, seen |-> found, failed |-> bad]}
                 ELSE {ScanStep(x) : x \in after[n - 1]}
  IN  CHOOSE x \in after[Len(s)] : TRUE

-----------------------------------------------------------------------------

Init ==
  /\ test \in Tests /\ device = test.leftover /\ capacity = DeviceCapacity /\ faults = 0
  /\ stop = FALSE /\ failed = FALSE /\ completed = 0 /\ done = 0
  /\ seen = {} /\ stream = << >> /\ delivered = << >>
  /\ write_lock = NoThread /\ read_lock = NoThread
  /\ pc = [t \in Threads |-> "none"]
  /\ sequence = [w \in Writers |-> 0] /\ offset = [w \in Writers |-> 0]
  /\ got = [r \in Readers |-> << >>] /\ idle = [r \in Readers |-> 0]
  /\ main = "create" /\ startup_failed = FALSE /\ exit_code = 1

(***************************************************************************)
(* main: all readers, then all writers, until one cannot be started; the   *)
(* threads that were are joined and the books compared.                    *)
(***************************************************************************)
NextThread == IF \E r \in Readers : pc[r] = "none" THEN Readers ELSE Writers

Create(t) ==
  /\ main = "create" /\ t \in NextThread /\ pc[t] = "none"
  /\ Goto(t, "start")
  /\ main' = IF \A u \in Threads \ {t} : pc[u] # "none" THEN "join" ELSE "create"
  /\ UNCHANGED <<test, deviceVars, writerVars, readerVars, startup_failed, exit_code, stop, failed>>

CreateFails(t) ==
  /\ main = "create" /\ t \in NextThread \cap Failing /\ pc[t] = "none"
  /\ stop' = TRUE /\ startup_failed' = TRUE /\ main' = "join"
  /\ UNCHANGED <<test, deviceVars, writerVars, readerVars, exit_code, failed, pc>>

\* Mutant: an unfinished frame at the end of the stream is not looked at.
Passed_IgnoresStream == completed = Expected /\ Cardinality(seen) = Expected /\ ~failed

Passed == /\ completed = Expected /\ Cardinality(seen) = Expected
          /\ ~failed /\ stream = << >>

Join ==
  /\ main = "join" /\ \A t \in Threads : pc[t] \in {"none", "exit"}
  /\ main' = "done"
  /\ exit_code' = IF ~startup_failed /\ Passed THEN 0 ELSE 1
  /\ UNCHANGED <<test, deviceVars, writerVars, readerVars, startup_failed, stop, failed, pc>>

\* The process is gone.
Ended == main = "done" /\ UNCHANGED vars

\* Mutant: a thread that gives up does not tell the others.
StopAll_Forgotten == failed' = TRUE /\ UNCHANGED stop

\* What every error path does.
StopAll == failed' = TRUE /\ stop' = TRUE

\* A thread whose malloc or open fails; a writer is then not counted as done.
StartFails(t) ==
  /\ pc[t] = "start" /\ t \in Failing
  /\ StopAll
  /\ Goto(t, "exit")
  /\ UNCHANGED <<deviceVars, writerVars, readerVars, mainVars>>

\* A write or a read has failed and the lock is free again: the loop ends.
GiveUp(t) ==
  /\ pc[t] = "failed"
  /\ StopAll
  /\ Goto(t, "loop")
  /\ UNCHANGED <<deviceVars, writerVars, readerVars, mainVars>>

Start(t) ==
  /\ pc[t] = "start"
  /\ Goto(t, "loop")
  /\ UNCHANGED <<deviceVars, writerVars, readerVars, mainVars, stop, failed>>

-----------------------------------------------------------------------------
(***************************************************************************)
(* writer_thread and write_frame_retry.                                    *)
(***************************************************************************)
NextMessage(w) ==
  /\ pc[w] = "loop"
  /\ IF sequence[w] < Messages /\ ~stop
     THEN Goto(w, "lock") /\ UNCHANGED done
     ELSE Goto(w, "exit") /\ done' = done + 1
  /\ UNCHANGED <<deviceVars, readerVars, mainVars, sequence, offset, completed, write_lock, stop, failed>>

\* Mutant: the lock is taken for each write, not for each frame.
FrameLock_PerWrite(w) == NoThread

\* Who holds the write lock between the writes of a frame.
FrameLock(w) == w

LockWrites(w) ==
  /\ pc[w] = "lock" /\ write_lock = NoThread
  /\ write_lock' = FrameLock(w)
  /\ offset' = [offset EXCEPT ![w] = 0]
  /\ Goto(w, "write")
  /\ UNCHANGED <<deviceVars, readerVars, mainVars, sequence, completed, done, stop, failed>>

\* One write(2): what fits goes in, or EAGAIN and another try.
WriteSome(w) ==
  LET rest == Drop(Frame(w, sequence[w]), offset[w])
      room == capacity - Len(device)
      n    == Device!Lesser(Len(rest), room)
  IN  /\ pc[w] = "write" /\ offset[w] < FrameSize /\ ~stop
      /\ Device!Write(rest, IF n = 0 THEN -Device!EAGAIN ELSE n)
      /\ offset' = [offset EXCEPT ![w] = @ + n]
      /\ UNCHANGED <<readerVars, mainVars, faults, sequence, completed, done, write_lock,
                     stop, failed, pc>>

FrameWritten(w) ==
  /\ pc[w] = "write" /\ offset[w] = FrameSize
  /\ write_lock' = NoThread
  /\ completed' = completed + 1
  /\ sequence' = [sequence EXCEPT ![w] = @ + 1]
  /\ Goto(w, "loop")
  /\ UNCHANGED <<deviceVars, readerVars, mainVars, offset, done, stop, failed>>

\* ECANCELED: told to stop in the middle of a frame.
FrameCancelled(w) ==
  /\ pc[w] = "write" /\ offset[w] < FrameSize /\ stop
  /\ write_lock' = NoThread
  /\ Goto(w, "failed")
  /\ UNCHANGED <<deviceVars, readerVars, mainVars, sequence, offset, completed, done, stop, failed>>

\* Any other error of write, or a write of nothing.
WriteError(w) ==
  /\ pc[w] = "write" /\ offset[w] < FrameSize /\ ~stop /\ faults < MaxFaults
  /\ faults' = faults + 1
  /\ write_lock' = NoThread
  /\ Goto(w, "failed")
  /\ UNCHANGED <<device, capacity, readerVars, mainVars, sequence, offset, completed, done,
                 stop, failed>>

-----------------------------------------------------------------------------
(***************************************************************************)
(* reader_thread.                                                          *)
(***************************************************************************)
NextRead(r) ==
  /\ pc[r] = "loop"
  /\ Goto(r, IF stop THEN "exit" ELSE "lock")
  /\ UNCHANGED <<deviceVars, writerVars, readerVars, mainVars, stop, failed>>

LockReads(r) ==
  /\ pc[r] = "lock" /\ read_lock = NoThread
  /\ read_lock' = r
  /\ Goto(r, "read")
  /\ UNCHANGED <<deviceVars, writerVars, mainVars, got, idle, seen, stream, delivered, stop, failed>>

\* What a device that misbehaves once makes of the bytes it should deliver.
Misread(out) ==
  {Tail(out), <<out[1]>> \o out, [i \in 1..Len(out) |-> out[Len(out) + 1 - i]]}

\* Mutant: the lock is for the read only.
ReadLockAfter_Freed(r) == NoThread

\* Who holds the read lock once bytes were read.
ReadLockAfter(r) == r

Deliver(r, bytes) ==
  /\ got' = [got EXCEPT ![r] = bytes]
  /\ delivered' = delivered \o bytes
  /\ read_lock' = IF bytes = << >> THEN NoThread ELSE ReadLockAfter(r)
  /\ Goto(r, IF bytes = << >> THEN "nothing" ELSE "append")
  /\ UNCHANGED <<writerVars, mainVars, idle, seen, stream, stop, failed>>

\* One read(2) under the lock.
Read(r) ==
  LET n   == Device!Lesser(ReadChunk, Len(device))
      out == SubSeq(device, 1, n)
  IN  /\ pc[r] = "read"
      /\ Device!Read(ReadChunk, IF n = 0 THEN -Device!EAGAIN ELSE n, out)
      /\ \/ Deliver(r, out) /\ UNCHANGED faults
         \/ /\ out # << >> /\ faults < MaxFaults /\ faults' = faults + 1
            /\ \E bytes \in Misread(out) : Deliver(r, bytes)

\* An errno other than EAGAIN.
ReadError(r) ==
  /\ pc[r] = "read" /\ faults < MaxFaults
  /\ faults' = faults + 1
  /\ read_lock' = NoThread
  /\ Goto(r, "failed")
  /\ UNCHANGED <<device, capacity, writerVars, mainVars, got, idle, seen, stream, delivered,
                 stop, failed>>

\* append_and_validate, and the unlock.
AppendAndValidate(r) ==
  LET result == Scan(stream \o got[r], seen, failed)
  IN  /\ pc[r] = "append"
      /\ stream' = result.stream /\ seen' = result.seen /\ failed' = result.failed
      /\ read_lock' = NoThread
      /\ got' = [got EXCEPT ![r] = << >>]
      /\ Goto(r, "appended")
      /\ UNCHANGED <<deviceVars, writerVars, mainVars, idle, delivered, stop>>

\* ensure_stream_capacity cannot grow the stream.
AppendFails(r) ==
  /\ pc[r] = "append" /\ r \in Failing
  /\ StopAll
  /\ read_lock' = NoThread
  /\ got' = [got EXCEPT ![r] = << >>]
  /\ Goto(r, "appended")
  /\ UNCHANGED <<deviceVars, writerVars, mainVars, idle, seen, stream, delivered>>

Appended(r) ==
  /\ pc[r] = "appended"
  /\ idle' = [idle EXCEPT ![r] = 0]
  /\ Goto(r, IF Cardinality(seen) >= Expected THEN "exit" ELSE "loop")
  /\ UNCHANGED <<deviceVars, writerVars, mainVars, got, seen, stream, read_lock, delivered, stop, failed>>

\* all_writers_done, then, by another load, frames_validated.
NothingRead(r) ==
  /\ pc[r] = "nothing"
  /\ Goto(r, IF done >= Cardinality(Writers) THEN "idle" ELSE "loop")
  /\ UNCHANGED <<deviceVars, writerVars, readerVars, mainVars, stop, failed>>

Idle(r) ==
  LET finished == Cardinality(seen) >= Expected
      count    == IF finished THEN idle[r] ELSE idle[r] + 1
  IN  /\ pc[r] = "idle"
      /\ idle' = [idle EXCEPT ![r] = count]
      /\ Goto(r, IF finished \/ count > IdleLimit THEN "exit" ELSE "loop")
      /\ UNCHANGED <<deviceVars, writerVars, mainVars, got, seen, stream, read_lock, delivered,
                     stop, failed>>

-----------------------------------------------------------------------------

WriterStep(w) == NextMessage(w) \/ LockWrites(w) \/ WriteSome(w) \/ FrameWritten(w)
                 \/ FrameCancelled(w) \/ WriteError(w) \/ GiveUp(w)

ReaderStep(r) == \/ NextRead(r) \/ LockReads(r) \/ Read(r) \/ ReadError(r) \/ AppendAndValidate(r)
                 \/ AppendFails(r) \/ Appended(r) \/ NothingRead(r) \/ Idle(r) \/ GiveUp(r)

Next ==
  \/ \E t \in Threads : Create(t) \/ CreateFails(t) \/ Start(t) \/ StartFails(t)
  \/ \E w \in Writers : WriterStep(w)
  \/ \E r \in Readers : ReaderStep(r)
  \/ Join
  \/ Ended

\* Every thread the scheduler can run runs; a lock that stays free is got.
Fairness ==
  /\ WF_vars(\E t \in Threads : Create(t)) /\ WF_vars(Join)
  /\ \A t \in Threads : WF_vars(Start(t))
  /\ \A w \in Writers : WF_vars(WriterStep(w))
  /\ \A r \in Readers : WF_vars(ReaderStep(r))

Spec == Init /\ [][Next]_vars /\ Fairness

-----------------------------------------------------------------------------

\* Nothing goes wrong in the test that is run.
Healthy == test.leftover = << >> /\ test.faults = 0 /\ test.failing = {}

(***************************************************************************)
(* A device that works passes: no reader reports a broken, foreign or      *)
(* repeated frame, whatever the interleaving of partial writes and reads,  *)
(* and main ends with exit code 0.                                         *)
(***************************************************************************)
HealthyPasses == Healthy => ~failed /\ (main = "done" => exit_code = 0)

(***************************************************************************)
(* Readers do not give up on a device that works: having found nothing     *)
(* after all writers are done, a reader finds the books complete the next  *)
(* time it looks.  So the limit of 2000 is never near.                     *)
(***************************************************************************)
NoReaderGivesUp == Healthy => \A r \in Readers : idle[r] <= 1

(***************************************************************************)
(* The test passes only if the device handed out the frames of all         *)
(* messages, whole, each once, and nothing else: no unit that was lost,    *)
(* repeated, reversed or there before goes unnoticed.                      *)
(***************************************************************************)
PassMeansDelivered ==
  exit_code = 0 =>
    /\ Len(delivered) = Expected * FrameSize
    /\ \A id \in Writers \X (0..Messages-1) :
         \E k \in 0..Expected-1 :
           SubSeq(delivered, k * FrameSize + 1, (k + 1) * FrameSize) = Frame(id[1], id[2])

(***************************************************************************)
(* The test ends, whether or not the device works and whatever cannot be   *)
(* opened, allocated or started.                                           *)
(***************************************************************************)
TestEnds == <>(main = "done")

=============================================================================
