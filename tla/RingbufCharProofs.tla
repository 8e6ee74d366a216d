-------------------------- MODULE RingbufCharProofs --------------------------
(***************************************************************************)
(* The driver keeps its types, its mutex discipline and the buffer's       *)
(* representation invariant, for every set of tasks, every capacity range  *)
(* and every mix of calls, faults and signals; and, below, no task sleeps  *)
(* through what it waits for.  At the end: loading and unloading the       *)
(* module that holds it.                                                   *)
(*                                                                         *)
(* A step changes the place and the locals of one task.  CallOK says which *)
(* locals go with which place; LocalStep reduces a step to the new place   *)
(* and locals of that task, so an action's proof is about them alone.      *)
(***************************************************************************)
EXTENDS RingbufChar, MCModuleLifecycle, RingBufferProofs, FiniteSetTheorems

Waits == {"c_cap", "c_len", "c_gen", "prepare", "schedule"}

\* Where each kind of call can be.
PlaceOK(l, k) ==
  /\ l \in {"lock", "decide", "copy", "wake"} \cup Waits => k.op \in ReadWrite
  /\ l \in {"mask", "poll_reg", "poll_wait"} => k.op \in Polls
  /\ l = "control" => k.op \in Controls \cup Queries
  /\ l \in {"bump", "wake_r", "wake_w"} => k.op \in Controls
  /\ l = "reset" => k.op = "reset_stats"
  /\ l = "copy_out" => k.op \in Queries
  /\ l = "mutex" => k.op \in Polls \cup Controls \cup Queries
  /\ l = "unlock" => k.op \in ReadWrite \cup Polls \cup Controls \cup Queries

(***************************************************************************)
(* A transfer never exceeds its count, that of a write never exceeds the   *)
(* memory written from, and nothing is copied before the wait is over.     *)
(***************************************************************************)
CountOK(l, k) ==
  /\ k.op \in ReadWrite => k.copied <= k.count
  /\ k.op = "write" => k.count <= Len(k.src)
  /\ l \in {"lock", "decide"} \cup Waits => k.copied = 0
  /\ l = "unlock" /\ k.op \in ReadWrite /\ k.phase = "first" => k.copied = 0
  /\ l = "copy" => k.phase # "first"
  /\ l = "decide" => k.phase = "none"
  /\ l = "lock" => k.phase = "none"
  /\ k.op = "set_mode" /\ l \in {"mutex", "control"} => k.count \in {0, MODE_F_NONBLOCK}

CallOK(l, k) == PlaceOK(l, k) /\ CountOK(l, k)

DeviceTypeOK ==
  /\ state_generation \in Nat
  /\ mode \in {0, MODE_F_NONBLOCK}
  /\ shutting_down \in BOOLEAN
  /\ stats \in [Counter -> Nat]
  /\ read_queue \subseteq Threads
  /\ write_queue \subseteq Threads
  /\ awake \subseteq Threads
  /\ open_files \subseteq Threads
  /\ signal \subseteq Threads

\* The inductive invariant.
SafeInv ==
  /\ TypeOK
  /\ RingShape
  /\ NoJunkStored
  /\ MutexDiscipline
  /\ \A t \in Threads : CallOK(pc[t], call[t])

-----------------------------------------------------------------------------

LEMMA RingOfSafeInv == SafeInv => RingInv /\ DeviceTypeOK
BY DEF SafeInv, TypeOK, RingInv, DeviceTypeOK

LEMMA RingUnchanged == RingInv /\ UNCHANGED ringVars => RingInv'
BY DEF RingInv, RingTypeOK, RingShape, NoJunkStored, ringVars

LEMMA TaskOfSafeInv ==
  ASSUME SafeInv, NEW t \in Threads
  PROVE  /\ pc[t] \in Labels /\ call[t] \in CallRecord
         /\ CallOK(pc[t], call[t])
         /\ pc[t] \in Locked <=> lock = t
         /\ lock \in Threads \cup {NoThread}
         /\ t # NoThread
         /\ [pc EXCEPT ![t] = pc[t]] = pc
         /\ [call EXCEPT ![t] = call[t]] = call
BY ThreadAssumption DEF SafeInv, TypeOK, MutexDiscipline

\* A counter that is added to, or reset, still holds a number.
LEMMA AddType ==
  ASSUME stats \in [Counter -> Nat], NEW k \in Counter, NEW n \in Int, Add(k, n)
  PROVE  stats' \in [Counter -> Nat]
<1>1. (stats[k] + n) % CounterModulus[k] \in Nat
  BY InputAssumption
<1> QED
  BY <1>1 DEF Add

\* One task moves to place l with locals k and may take or free the mutex.
LEMMA LocalStep ==
  ASSUME SafeInv, NEW t \in Threads, NEW l \in Labels, NEW k \in CallRecord,
         pc' = [pc EXCEPT ![t] = l],
         call' = [call EXCEPT ![t] = k],
         CallOK(l, k),
         l \in Locked <=> lock' = t,
         \/ lock' = lock
         \/ lock = NoThread /\ lock' = t
         \/ lock = t /\ lock' = NoThread,
         RingInv', DeviceTypeOK'
  PROVE  SafeInv'
<1>1. /\ pc \in [Threads -> Labels] /\ call \in [Threads -> CallRecord]
      /\ lock \in Threads \cup {NoThread}
      /\ \A u \in Threads : pc[u] \in Locked <=> lock = u
      /\ \A u \in Threads : CallOK(pc[u], call[u])
      /\ NoThread \notin Threads
  BY ThreadAssumption DEF SafeInv, TypeOK, MutexDiscipline
<1>2. TypeOK'
  BY <1>1 DEF TypeOK, RingInv, DeviceTypeOK
<1>3. MutexDiscipline'
  BY <1>1 DEF MutexDiscipline
<1>4. \A u \in Threads : CallOK(pc'[u], call'[u])
  BY <1>1
<1>5. (\A u \in Threads : CallOK(pc[u], call[u]))'
  BY <1>4 DEF CallOK, PlaceOK, CountOK
<1> QED
  BY <1>2, <1>3, <1>5 DEF SafeInv, RingInv

\* No task moves.
LEMMA DeviceStep ==
  ASSUME SafeInv, lock' = lock, pc' = pc, call' = call, RingInv', DeviceTypeOK'
  PROVE  SafeInv'
<1>1. TypeOK'
  BY DEF SafeInv, TypeOK, RingInv, DeviceTypeOK
<1>2. MutexDiscipline'
  BY DEF SafeInv, MutexDiscipline
<1>3. (\A t \in Threads : CallOK(pc[t], call[t]))'
  BY DEF SafeInv, CallOK, PlaceOK, CountOK
<1> QED
  BY <1>1, <1>2, <1>3 DEF SafeInv, RingInv

\* The locals of a call that starts.
LEMMA FreshCall ==
  ASSUME NEW o \in OpKinds \cup {"none"}, NEW n \in Nat, NEW payload \in Seq(Byte),
         NEW result \in Int,
         NEW k, k = NewCall(o, n, payload, result)
  PROVE  /\ k \in CallRecord
         /\ k.op = o /\ k.count = n /\ k.src = payload /\ k.copied = 0
         /\ k.phase = "none" /\ k.ret = result
BY DEF NewCall, CallRecord

LEMMA NoCallOK == NoCall \in CallRecord /\ CallOK("idle", NoCall)
<1>1. NoCall \in CallRecord
  BY DEF NoCall, NewCall, CallRecord
<1>2. NoCall.op = "none" /\ NoCall.phase = "none"
  BY DEF NoCall, NewCall
<1> QED
  BY <1>1, <1>2 DEF CallOK, PlaceOK, CountOK, Waits, ReadWrite

-----------------------------------------------------------------------------
(***************************************************************************)
(* The updates the handlers make to their locals.                          *)
(***************************************************************************)
SameTransfer(j, k) == j.op = k.op /\ j.count = k.count /\ j.src = k.src /\ j.copied = k.copied

LEMMA RetUpdate ==
  ASSUME NEW k \in CallRecord, NEW x \in Int
  PROVE  LET j == [k EXCEPT !.ret = x]
         IN  /\ j \in CallRecord /\ SameTransfer(j, k)
             /\ j.phase = k.phase /\ j.ret = x
BY DEF CallRecord, SameTransfer

LEMMA PhaseUpdate ==
  ASSUME NEW k \in CallRecord, NEW x \in {"none", "first", "queued", "interrupted"}
  PROVE  LET j == [k EXCEPT !.phase = x]
         IN  /\ j \in CallRecord /\ SameTransfer(j, k)
             /\ j.phase = x /\ j.ret = k.ret
BY DEF CallRecord, SameTransfer

LEMMA BlockUpdate ==
  ASSUME NEW k \in CallRecord, NEW g \in Nat
  PROVE  LET j == [k EXCEPT !.seen = g, !.phase = "first"]
         IN  /\ j \in CallRecord /\ SameTransfer(j, k)
             /\ j.phase = "first" /\ j.ret = k.ret /\ j.seen = g
BY DEF CallRecord, SameTransfer

LEMMA CapSeenUpdate ==
  ASSUME NEW k \in CallRecord, NEW n \in Nat
  PROVE  LET j == [k EXCEPT !.cap_seen = n]
         IN  /\ j \in CallRecord /\ SameTransfer(j, k)
             /\ j.phase = k.phase /\ j.ret = k.ret /\ j.seen = k.seen /\ j.cap_seen = n
BY DEF CallRecord, SameTransfer

LEMMA InterruptUpdate ==
  ASSUME NEW k \in CallRecord, NEW x \in Int
  PROVE  LET j == [k EXCEPT !.phase = "none", !.ret = x]
         IN  j \in CallRecord /\ SameTransfer(j, k) /\ j.phase = "none" /\ j.ret = x
BY DEF CallRecord, SameTransfer

LEMMA CopiedUpdate ==
  ASSUME NEW k \in CallRecord, NEW n \in Nat
  PROVE  LET j == [k EXCEPT !.copied = n]
         IN  j \in CallRecord /\ j.op = k.op /\ j.phase = k.phase /\ j.ret = k.ret
BY DEF CallRecord

LEMMA AnswerUpdate ==
  ASSUME NEW k \in CallRecord, NEW answer \in Seq(Nat)
  PROVE  LET j == [k EXCEPT !.answer = answer]
         IN  /\ j \in CallRecord /\ SameTransfer(j, k)
             /\ j.phase = k.phase /\ j.ret = k.ret
BY DEF CallRecord, SameTransfer

LEMMA CountUpdate ==
  ASSUME NEW k \in CallRecord, NEW n \in Nat
  PROVE  LET j == [k EXCEPT !.count = n]
         IN  /\ j \in CallRecord
             /\ j.op = k.op /\ j.count = n /\ j.src = k.src /\ j.copied = k.copied
             /\ j.phase = k.phase /\ j.ret = k.ret
BY DEF CallRecord

-----------------------------------------------------------------------------
(***************************************************************************)
(* Calls start, files are opened and closed, the module goes.              *)
(***************************************************************************)
LEMMA InitSafe == Init => SafeInv
<1> SUFFICES ASSUME Init PROVE SafeInv
  OBVIOUS
<1>1. PICK n \in MinCapacity..MaxCapacity : BufferInit(n)
  BY DEF Init
<1>2. RingInv
  BY <1>1, CapacityAssumption, BufferInitInv
<1>3. NoCall \in CallRecord /\ CallOK("idle", NoCall)
  BY NoCallOK
<1>4. TypeOK
  BY <1>2, <1>3 DEF Init, TypeOK, RingInv, Labels, Locked, MODE_F_NONBLOCK
<1>5. MutexDiscipline
  BY ThreadAssumption DEF Init, MutexDiscipline, Locked
<1> QED
  BY <1>2, <1>3, <1>4, <1>5 DEF Init, SafeInv, RingInv

LEMMA FilesSafe ==
  ASSUME SafeInv, NEW t \in Threads, Open(t) \/ Release(t) \/ Signal(t)
  PROVE  SafeInv'
<1>1. UNCHANGED <<ringVars, controlVars, lock, sleepVars, pc, call>>
  BY DEF Open, Release, Signal
<1>2. RingInv'
  BY <1>1, RingOfSafeInv, RingUnchanged
<1>3. stats' \in [Counter -> Nat] /\ open_files' \subseteq Threads /\ signal' \subseteq Threads
  <2>1. stats \in [Counter -> Nat] /\ open_files \subseteq Threads /\ signal \subseteq Threads
    BY DEF SafeInv, TypeOK
  <2>2. {"open_calls", "open_handles"} \subseteq Counter
    BY DEF Counter, ResetOrder
  <2>3. CASE Open(t)
    <3>1. /\ (stats["open_calls"] + 1) % CounterModulus["open_calls"] \in Nat
          /\ (stats["open_handles"] + 1) % CounterModulus["open_handles"] \in Nat
      BY <2>1, <2>2, InputAssumption
    <3> QED
      BY <2>1, <2>2, <2>3, <3>1 DEF Open
  <2>4. CASE Release(t)
    BY <2>1, <2>2, <2>4, AddType DEF Release
  <2>5. CASE Signal(t)
    BY <2>1, <2>5 DEF Signal
  <2> QED
    BY <2>3, <2>4, <2>5
<1>4. DeviceTypeOK'
  BY <1>1, <1>3, RingOfSafeInv DEF DeviceTypeOK, controlVars, sleepVars
<1>5. UNCHANGED <<lock, pc, call>>
  BY <1>1
<1> QED
  BY <1>2, <1>4, <1>5, DeviceStep

LEMMA UnloadSafe ==
  ASSUME SafeInv, Unload \/ UNCHANGED vars
  PROVE  SafeInv'
<1>1. RingInv'
  BY RingOfSafeInv, RingUnchanged DEF Unload, vars
<1>2. /\ UNCHANGED <<mode, lock, stats, sleepVars, open_files, signal, pc, call>>
      /\ \/ shutting_down' = TRUE /\ state_generation' = state_generation + 1
         \/ UNCHANGED <<shutting_down, state_generation>>
  BY DEF Unload, vars, controlVars
<1>3. DeviceTypeOK'
  <2>1. shutting_down' \in BOOLEAN
    BY <1>2, RingOfSafeInv, Zenon DEF DeviceTypeOK
  <2>2. state_generation' \in Nat
    BY <1>2, RingOfSafeInv DEF DeviceTypeOK
  <2> QED
    BY <1>2, <2>1, <2>2, RingOfSafeInv DEF DeviceTypeOK, sleepVars
<1>4. UNCHANGED <<lock, pc, call>>
  BY <1>2
<1> QED
  BY <1>1, <1>3, <1>4, DeviceStep

\* The places where a call goes on after its early returns.
Entries == {"return", "lock", "mutex", "reset", "failing", "poll_reg"}

\* A call starts with fresh locals at place l.
LEMMA EnterSafe ==
  ASSUME SafeInv, NEW t \in Threads, NEW o \in OpKinds, NEW n \in Nat, NEW payload \in Seq(Byte),
         NEW result \in Int, NEW l \in Entries,
         Enter(t, o, n, payload, result, l), stats' \in [Counter -> Nat],
         \A k \in CallRecord : k.op = o => PlaceOK(l, k),
         o = "write" => n <= Len(payload),
         o = "set_mode" /\ l \in {"mutex", "control"} => n \in {0, MODE_F_NONBLOCK}
  PROVE  SafeInv'
<1> DEFINE k == NewCall(o, n, payload, result)
<1>1. k \in CallRecord
  BY FreshCall
<1>2. k.op = o /\ k.count = n /\ k.src = payload /\ k.copied = 0 /\ k.phase = "none"
  BY FreshCall
<1>3. CallOK(l, k)
  <2> HIDE DEF k
  <2>1. PlaceOK(l, k)
    BY <1>1, <1>2
  <2>2. CountOK(l, k)
    BY <1>1, <1>2 DEF CountOK, CallRecord, Entries, Waits
  <2> QED
    BY <2>1, <2>2 DEF CallOK
<1>4. /\ pc' = [pc EXCEPT ![t] = l] /\ call' = [call EXCEPT ![t] = k]
      /\ lock' = lock /\ pc[t] = "idle"
      /\ UNCHANGED <<ringVars, controlVars, sleepVars, open_files, signal>>
  BY DEF Enter, Goto
<1>5. RingInv' /\ DeviceTypeOK'
  BY <1>4, RingOfSafeInv, RingUnchanged DEF DeviceTypeOK, controlVars, sleepVars
<1>6. lock # t /\ l \in Labels /\ l \notin Locked
  BY <1>4, TaskOfSafeInv DEF Entries, Labels, Locked
<1> HIDE DEF k
<1> QED
  BY <1>1, <1>3, <1>4, <1>5, <1>6, LocalStep

LEMMA CallSafe ==
  ASSUME SafeInv, NEW t \in Threads, Call(t)
  PROVE  SafeInv'
<1>0. /\ stats \in [Counter -> Nat] /\ << >> \in Seq(Byte)
      /\ {"read_calls", "write_calls", "ioctl_calls"} \subseteq Counter
  BY DEF SafeInv, TypeOK, Counter, ResetOrder
<1>1. CASE \E n \in Counts : ReadCall(t, n)
  <2>1. PICK n \in Counts : ReadCall(t, n)
    BY <1>1
  <2>2. stats' \in [Counter -> Nat]
    BY <1>0, <2>1, AddType DEF ReadCall
  <2>3. PICK l \in {"return", "lock"} : Enter(t, "read", n, << >>, 0, l)
    BY <2>1 DEF ReadCall
  <2>4. \A k \in CallRecord : k.op = "read" => PlaceOK(l, k)
    BY <2>3 DEF PlaceOK, Waits, ReadWrite, Polls, Controls, Queries
  <2>5. "read" \in OpKinds /\ n \in Nat /\ l \in Entries /\ 0 \in Int
    BY <2>1, <2>3, InputAssumption DEF OpKinds, Entries
  <2> QED
    BY <1>0, <2>2, <2>3, <2>4, <2>5, EnterSafe
<1>2. CASE \E payload \in Payloads : WriteCall(t, payload)
  <2>1. PICK payload \in Payloads : WriteCall(t, payload)
    BY <1>2
  <2>2. stats' \in [Counter -> Nat]
    BY <1>0, <2>1, AddType DEF WriteCall
  <2>3. PICK l \in {"return", "lock"} : Enter(t, "write", Len(payload), payload, 0, l)
    BY <2>1 DEF WriteCall
  <2>4. \A k \in CallRecord : k.op = "write" => PlaceOK(l, k)
    BY <2>3 DEF PlaceOK, Waits, ReadWrite, Polls, Controls, Queries
  <2>5. payload \in Seq(Byte) /\ Len(payload) \in Nat /\ Len(payload) <= Len(payload)
    BY <2>1, InputAssumption
  <2>6. "write" \in OpKinds /\ l \in Entries /\ 0 \in Int
    BY <2>3 DEF OpKinds, Entries
  <2> QED
    BY <1>0, <2>2, <2>3, <2>4, <2>5, <2>6, EnterSafe
<1>3. CASE \E o \in OpKinds : PlainIoctl(t, o)
  <2>1. PICK o \in OpKinds : PlainIoctl(t, o)
    BY <1>3
  <2>2. stats' \in [Counter -> Nat]
    BY <1>0, <2>1, AddType DEF PlainIoctl
  <2>3. PICK l \in {"reset", "mutex"} :
          /\ Enter(t, o, 0, << >>, 0, l)
          /\ o \in Queries \cup {"clear", "reset_stats"}
          /\ l = "mutex" <=> o # "reset_stats"
    BY <2>1 DEF PlainIoctl
  <2>4. \A k \in CallRecord : k.op = o => PlaceOK(l, k)
    BY <2>3 DEF PlaceOK, Waits, ReadWrite, Polls, Controls, Queries
  <2>5. o # "write" /\ o # "set_mode" /\ l \in Entries /\ 0 \in Nat /\ 0 \in Int
    BY <2>3 DEF Queries, Entries
  <2> QED
    BY <1>0, <2>2, <2>3, <2>4, <2>5, EnterSafe
<1>4. CASE BadIoctl(t)
  <2>1. stats' \in [Counter -> Nat]
    BY <1>0, <1>4, AddType DEF BadIoctl
  <2>2. Enter(t, "bad_ioctl", 0, << >>, ENOTTY, "failing") /\ ENOTTY \in Int
    BY <1>4 DEF BadIoctl, ENOTTY
  <2>3. \A k \in CallRecord : k.op = "bad_ioctl" => PlaceOK("failing", k)
    BY DEF PlaceOK, Waits
  <2>4. "bad_ioctl" \in OpKinds /\ "failing" \in Entries /\ 0 \in Nat
    BY DEF OpKinds, Entries
  <2> QED
    BY <1>0, <2>1, <2>2, <2>3, <2>4, EnterSafe
<1>5. CASE \E o \in {"set_capacity", "set_mode"}, n \in Nat : ArgIoctl(t, o, n)
  <2>1. PICK o \in {"set_capacity", "set_mode"}, n \in Nat : ArgIoctl(t, o, n)
    BY <1>5
  <2>2. stats' \in [Counter -> Nat]
    BY <1>0, <2>1, AddType DEF ArgIoctl
  <2>3. PICK l \in {"failing", "mutex"}, result \in {EFAULT, EINVAL, 0} :
          /\ Enter(t, o, n, << >>, result, l)
          /\ l = "mutex" => ArgumentValid(o, n)
    BY <2>1 DEF ArgIoctl
  <2>4. \A k \in CallRecord : k.op = o => PlaceOK(l, k)
    BY <2>3 DEF PlaceOK, Waits, ReadWrite, Polls, Controls, Queries
  <2>5. result \in Int /\ o \in OpKinds /\ l \in Entries /\ o # "write"
    BY <2>1, <2>3 DEF EFAULT, EINVAL, OpKinds, Entries
  <2>6. o = "set_mode" /\ l \in {"mutex", "control"} => n \in {0, MODE_F_NONBLOCK}
    BY <2>3 DEF ArgumentValid
  <2> QED
    BY <1>0, <2>2, <2>3, <2>4, <2>5, <2>6, EnterSafe
<1>6. CASE \E o \in Polls : PollCall(t, o)
  <2>1. PICK o \in Polls : Enter(t, o, 0, << >>, 0, "poll_reg") /\ UNCHANGED stats
    BY <1>6 DEF PollCall
  <2>2. \A k \in CallRecord : k.op = o => PlaceOK("poll_reg", k)
    BY <2>1 DEF PlaceOK, Waits, ReadWrite, Polls, Controls, Queries
  <2>3. o \in OpKinds /\ "poll_reg" \in Entries /\ 0 \in Nat /\ 0 \in Int
        /\ o # "write" /\ o # "set_mode" /\ stats' \in [Counter -> Nat]
    BY <1>0, <2>1 DEF OpKinds, Entries, Polls
  <2> QED
    BY <1>0, <2>1, <2>2, <2>3, EnterSafe
<1> QED
  BY <1>1, <1>2, <1>3, <1>4, <1>5, <1>6, InputAssumption DEF Call

-----------------------------------------------------------------------------
(***************************************************************************)
(* The steps that leave the buffer alone.                                  *)
(***************************************************************************)
LEMMA QuietStep ==
  ASSUME SafeInv, NEW t \in Threads, NEW l \in Labels, NEW k \in CallRecord,
         pc' = [pc EXCEPT ![t] = l],
         call' = [call EXCEPT ![t] = k],
         CallOK(l, k),
         l \in Locked <=> pc[t] \in Locked,
         lock' = lock, UNCHANGED ringVars, DeviceTypeOK'
  PROVE  SafeInv'
<1>1. RingInv'
  BY RingOfSafeInv, RingUnchanged
<1>2. l \in Locked <=> lock' = t
  BY TaskOfSafeInv
<1> QED
  BY <1>1, <1>2, LocalStep

LEMMA MutexSafe ==
  ASSUME SafeInv, NEW t \in Threads, Acquire(t) \/ LockInterrupted(t) \/ Unlock(t)
  PROVE  SafeInv'
<1>0. /\ call[t] \in CallRecord /\ CallOK(pc[t], call[t]) /\ t # NoThread
      /\ pc[t] \in Locked <=> lock = t
      /\ [call EXCEPT ![t] = call[t]] = call
  BY TaskOfSafeInv
<1>1. RingInv' /\ DeviceTypeOK'
  BY RingOfSafeInv, RingUnchanged
  DEF Acquire, LockInterrupted, Unlock, DeviceTypeOK, controlVars, sleepVars
<1>2. CASE Acquire(t)
  <2> DEFINE l == AfterLock(call[t].op)
  <2>1. /\ pc' = [pc EXCEPT ![t] = l] /\ call' = [call EXCEPT ![t] = call[t]]
        /\ lock = NoThread /\ lock' = t /\ pc[t] \in {"lock", "mutex"}
    BY <1>0, <1>2 DEF Acquire, Goto
  <2>2. l \in Labels /\ l \in Locked
    BY DEF AfterLock, Labels, Locked
  <2>3. CallOK(l, call[t])
    BY <1>0, <2>1 DEF CallOK, PlaceOK, CountOK, AfterLock, Waits, ReadWrite, Polls, Controls,
                      Queries
  <2> HIDE DEF l
  <2> QED
    BY <1>0, <1>1, <2>1, <2>2, <2>3, LocalStep
<1>3. CASE LockInterrupted(t)
  <2> DEFINE k == [call[t] EXCEPT !.ret = ERESTARTSYS]
  <2>1. /\ pc' = [pc EXCEPT ![t] = "failing"] /\ call' = [call EXCEPT ![t] = k]
        /\ lock' = lock /\ UNCHANGED ringVars /\ pc[t] = "lock"
    BY <1>3 DEF LockInterrupted, Goto
  <2>2. k \in CallRecord /\ SameTransfer(k, call[t])
    BY <1>0, RetUpdate DEF ERESTARTSYS
  <2> HIDE DEF k
  <2>3. CallOK("failing", k)
    BY <1>0, <2>1, <2>2 DEF CallOK, PlaceOK, CountOK, Waits, SameTransfer
  <2>4. "failing" \in Labels /\ "failing" \notin Locked /\ pc[t] \notin Locked
    BY <2>1 DEF Labels, Locked
  <2> QED
    BY <1>1, <2>1, <2>2, <2>3, <2>4, QuietStep
<1>4. CASE Unlock(t)
  <2> DEFINE l == AfterUnlock(call[t])
  <2>1. /\ pc' = [pc EXCEPT ![t] = l] /\ call' = [call EXCEPT ![t] = call[t]]
        /\ lock = t /\ lock' = NoThread /\ pc[t] = "unlock"
    BY <1>0, <1>4 DEF Unlock, Goto, Locked
  <2>2. CallOK(l, call[t]) /\ l \in Labels /\ l \notin Locked
    <3>1. CASE call[t].op \in ReadWrite
      <4>1. l = AfterTransfer(call[t])
        BY <3>1 DEF AfterUnlock, ReadWrite, Controls, Polls
      <4>2. \/ call[t].phase = "first" /\ l = TestStart(call[t].op)
            \/ call[t].phase # "first" /\ l \in {"wake", "failing", "return"}
        BY <1>0, <4>1 DEF AfterTransfer, CallRecord
      <4> HIDE DEF l
      <4> QED
        BY <1>0, <2>1, <3>1, <4>2 DEF TestStart, CallOK, PlaceOK, CountOK, Waits, Labels,
                                      Locked, ReadWrite
    <3>2. CASE call[t].op \in Controls
      <4>1. l \in {"wake_r", "failing"}
        BY <3>2 DEF AfterUnlock, AfterControl, ReadWrite, Controls, Polls
      <4> HIDE DEF l
      <4> QED
        BY <1>0, <3>2, <4>1 DEF CallOK, PlaceOK, CountOK, Waits, Labels, Locked
    <3>3. CASE call[t].op \in Polls
      <4>1. l \in {"poll_wait", "return"}
        BY <3>3 DEF AfterUnlock, ReadWrite, Controls, Polls
      <4> HIDE DEF l
      <4> QED
        BY <1>0, <3>3, <4>1 DEF CallOK, PlaceOK, CountOK, Waits, Labels, Locked
    <3>4. CASE call[t].op \in Queries
      <4>1. l = "copy_out"
        BY <3>4 DEF AfterUnlock, ReadWrite, Controls, Polls, Queries
      <4> HIDE DEF l
      <4> QED
        BY <1>0, <3>4, <4>1 DEF CallOK, PlaceOK, CountOK, Waits, Labels, Locked
    <3> QED
      BY <1>0, <2>1, <3>1, <3>2, <3>3, <3>4 DEF CallOK, PlaceOK
  <2> HIDE DEF l
  <2> QED
    BY <1>0, <1>1, <2>1, <2>2, LocalStep
<1> QED
  BY <1>2, <1>3, <1>4

\* A task that holds the mutex goes to unlock with another result.
LEMMA GiveUpSafe ==
  ASSUME SafeInv, NEW t \in Threads, NEW code \in Int,
         pc[t] \in {"decide", "control", "mask"},
         pc' = [pc EXCEPT ![t] = "unlock"],
         call' = [call EXCEPT ![t].ret = code],
         lock' = lock, UNCHANGED ringVars, DeviceTypeOK'
  PROVE  SafeInv'
<1> DEFINE k == [call[t] EXCEPT !.ret = code]
<1>1. call[t] \in CallRecord /\ CallOK(pc[t], call[t])
  BY TaskOfSafeInv
<1>2. k \in CallRecord /\ SameTransfer(k, call[t]) /\ k.phase = call[t].phase
  BY <1>1, RetUpdate
<1>3. call' = [call EXCEPT ![t] = k]
  OBVIOUS
<1> HIDE DEF k
<1>4. CallOK("unlock", k)
  BY <1>1, <1>2 DEF CallOK, PlaceOK, CountOK, Waits, SameTransfer, ReadWrite, Polls, Controls,
                    Queries
<1>5. "unlock" \in Labels /\ "unlock" \in Locked /\ pc[t] \in Locked
  BY DEF Labels, Locked
<1> QED
  BY <1>2, <1>3, <1>4, <1>5, QuietStep

\* A task notes the generation and goes to wait.
LEMMA BlockSafe ==
  ASSUME SafeInv, NEW t \in Threads, NEW blocked \in {"blocked_reads", "blocked_writes"},
         pc[t] = "decide", Block(t, blocked),
         UNCHANGED <<ringVars, controlVars, lock, sleepVars, open_files, signal>>
  PROVE  SafeInv'
<1> DEFINE k == [call[t] EXCEPT !.seen = state_generation, !.phase = "first"]
<1>1. call[t] \in CallRecord /\ CallOK(pc[t], call[t]) /\ DeviceTypeOK
  BY TaskOfSafeInv, RingOfSafeInv
<1>2. k \in CallRecord /\ SameTransfer(k, call[t])
  BY <1>1, BlockUpdate DEF DeviceTypeOK
<1>3. call' = [call EXCEPT ![t] = k] /\ pc' = [pc EXCEPT ![t] = "unlock"]
  BY DEF Block, Goto
<1> HIDE DEF k
<1>4. CallOK("unlock", k)
  BY <1>1, <1>2 DEF CallOK, PlaceOK, CountOK, Waits, SameTransfer
<1>5. "unlock" \in Labels /\ "unlock" \in Locked /\ pc[t] \in Locked
  BY DEF Labels, Locked
<1>6. DeviceTypeOK'
  <2>1. blocked \in Counter /\ 1 \in Int
    BY DEF Counter, ResetOrder
  <2>2. stats' \in [Counter -> Nat]
    BY <1>1, <2>1, AddType DEF Block, DeviceTypeOK
  <2> QED
    BY <1>1, <2>2 DEF DeviceTypeOK, controlVars, sleepVars
<1> QED
  BY <1>2, <1>3, <1>4, <1>5, <1>6, QuietStep

LEMMA DecideSafe ==
  ASSUME SafeInv, NEW t \in Threads, ReadDecide(t) \/ WriteDecide(t)
  PROVE  SafeInv'
<1>0. /\ call[t] \in CallRecord /\ CallOK(pc[t], call[t]) /\ DeviceTypeOK /\ RingInv
      /\ [call EXCEPT ![t] = call[t]] = call
  BY TaskOfSafeInv, RingOfSafeInv
<1>1. /\ pc[t] = "decide" /\ call[t].op \in ReadWrite
      /\ UNCHANGED <<ringVars, controlVars, lock, sleepVars, open_files, signal>>
  BY DEF ReadDecide, WriteDecide, ReadWrite
<1>2. UNCHANGED stats => DeviceTypeOK'
  BY <1>0, <1>1 DEF DeviceTypeOK, controlVars, sleepVars
<1>3. CASE \E code \in {EAGAIN, ENODEV} : Refuse(t, code)
  <2>1. PICK code \in Int : Refuse(t, code)
    BY <1>3 DEF EAGAIN, ENODEV
  <2> QED
    BY <1>1, <1>2, <2>1, GiveUpSafe DEF Refuse, Goto
<1>4. CASE \E blocked \in {"blocked_reads", "blocked_writes"} : Block(t, blocked)
  BY <1>1, <1>4, BlockSafe
<1>5. CASE /\ pc' = [pc EXCEPT ![t] = "unlock"] \/ pc' = [pc EXCEPT ![t] = "copy"]
           /\ UNCHANGED <<call, stats>>
  <2>1. PICK l \in {"unlock", "copy"} : pc' = [pc EXCEPT ![t] = l]
    BY <1>5
  <2>2. CallOK(l, call[t])
    BY <1>0, <1>1, <2>1 DEF CallOK, PlaceOK, CountOK, Waits
  <2>3. l \in Labels /\ l \in Locked /\ pc[t] \in Locked /\ call' = [call EXCEPT ![t] = call[t]]
    BY <1>0, <1>1, <1>5, <2>1 DEF Labels, Locked
  <2> QED
    BY <1>0, <1>1, <1>2, <1>5, <2>1, <2>2, <2>3, QuietStep
<1>6. CASE /\ call' = [call EXCEPT ![t].count = Least(@, Available)]
           /\ Goto(t, "copy")
           /\ UNCHANGED stats
  <2> DEFINE n == Least(call[t].count, Available)
             k == [call[t] EXCEPT !.count = n]
  <2>1. n \in Nat /\ n <= call[t].count /\ call[t].copied = 0
    <3>1. Available \in Nat
      BY <1>0, CapacityAssumption DEF RingInv, RingTypeOK, Available
    <3>2. call[t].count \in Nat
      BY <1>0 DEF CallRecord
    <3>3. call[t].copied = 0
      BY <1>0, <1>1 DEF CallOK, CountOK
    <3> QED
      BY <3>1, <3>2, <3>3 DEF Least
  <2>2. call' = [call EXCEPT ![t] = k] /\ pc' = [pc EXCEPT ![t] = "copy"]
    BY <1>6 DEF Goto
  <2> HIDE DEF n
  <2>3. /\ k \in CallRecord /\ k.op = call[t].op /\ k.count = n /\ k.src = call[t].src
        /\ k.copied = call[t].copied /\ k.phase = call[t].phase
    BY <1>0, <2>1, CountUpdate
  <2> HIDE DEF k
  <2>4. CallOK("copy", k)
    <3>1. call[t].count \in Nat /\ Len(call[t].src) \in Nat
      BY <1>0, SMTT(40) DEF CallRecord
    <3>2. k.op = "write" => k.count <= Len(k.src)
      BY <1>0, <2>1, <2>3, <3>1 DEF CallOK, CountOK
    <3> QED
      BY <1>0, <1>1, <2>1, <2>3, <3>2 DEF CallOK, PlaceOK, CountOK, Waits, ReadWrite
  <2>5. "copy" \in Labels /\ "copy" \in Locked /\ pc[t] \in Locked
    BY <1>1 DEF Labels, Locked
  <2> QED
    BY <1>1, <1>2, <1>6, <2>2, <2>3, <2>4, <2>5, QuietStep
<1>7. CASE ReadDecide(t)
  BY <1>3, <1>4, <1>5, <1>7 DEF ReadDecide, Goto
<1>8. CASE WriteDecide(t)
  BY <1>3, <1>4, <1>6, <1>8 DEF WriteDecide
<1> QED
  BY <1>7, <1>8

\* wait_event's tests: locals of the wait change, those of the transfer do not.
LEMMA WaitMoveSafe ==
  ASSUME SafeInv, NEW t \in Threads, pc[t] \in Waits,
         NEW l \in Waits \cup {"lock", "failing"}, NEW k \in CallRecord,
         SameTransfer(k, call[t]),
         l = "lock" => k.phase = "none",
         pc' = [pc EXCEPT ![t] = l],
         call' = [call EXCEPT ![t] = k],
         read_queue' \subseteq Threads, write_queue' \subseteq Threads, awake' \subseteq Threads,
         UNCHANGED <<ringVars, controlVars, lock, stats, open_files, signal>>
  PROVE  SafeInv'
<1>1. CallOK(pc[t], call[t]) /\ DeviceTypeOK
  BY TaskOfSafeInv, RingOfSafeInv
<1>2. CallOK(l, k)
  BY <1>1 DEF CallOK, PlaceOK, CountOK, SameTransfer, Waits, ReadWrite
<1>3. DeviceTypeOK'
  BY <1>1 DEF DeviceTypeOK, controlVars
<1>4. l \in Labels /\ l \notin Locked /\ pc[t] \notin Locked
  BY DEF Waits, Labels, Locked
<1> QED
  BY <1>2, <1>3, <1>4, QuietStep

LEMMA StopWaitingSafe ==
  ASSUME SafeInv, NEW t \in Threads, pc[t] \in Waits, StopWaiting(t),
         UNCHANGED <<ringVars, controlVars, lock, stats, open_files, signal>>
  PROVE  SafeInv'
<1> DEFINE k == [call[t] EXCEPT !.phase = "none"]
<1>1. call[t] \in CallRecord /\ DeviceTypeOK
  BY TaskOfSafeInv, RingOfSafeInv
<1>2. k \in CallRecord /\ SameTransfer(k, call[t]) /\ k.phase = "none"
  BY <1>1, PhaseUpdate
<1>3. call' = [call EXCEPT ![t] = k] /\ pc' = [pc EXCEPT ![t] = "lock"]
  BY DEF StopWaiting, Goto
<1>4. read_queue' \subseteq Threads /\ write_queue' \subseteq Threads /\ awake' \subseteq Threads
  BY <1>1 DEF StopWaiting, DeviceTypeOK
<1> HIDE DEF k
<1> QED
  BY <1>2, <1>3, <1>4, WaitMoveSafe

LEMMA WaitSafe ==
  ASSUME SafeInv, NEW t \in Threads,
         TestCapacity(t) \/ TestLen(t) \/ TestGeneration(t) \/ PrepareToWait(t) \/ Schedule(t)
  PROVE  SafeInv'
<1>0. /\ call[t] \in CallRecord /\ CallOK(pc[t], call[t]) /\ DeviceTypeOK /\ RingInv
      /\ [call EXCEPT ![t] = call[t]] = call
  BY TaskOfSafeInv, RingOfSafeInv
<1>1. /\ pc[t] \in Waits
      /\ UNCHANGED <<ringVars, controlVars, lock, stats, open_files, signal>>
  BY DEF TestCapacity, TestLen, TestGeneration, PrepareToWait, Schedule, Waits
<1>2. read_queue \subseteq Threads /\ write_queue \subseteq Threads /\ awake \subseteq Threads
  BY <1>0 DEF DeviceTypeOK
<1>3. ASSUME NEW l \in Waits, pc' = [pc EXCEPT ![t] = l], call' = call,
             read_queue' \subseteq Threads, write_queue' \subseteq Threads, awake' \subseteq Threads
      PROVE  SafeInv'
  <2>1. SameTransfer(call[t], call[t]) /\ call' = [call EXCEPT ![t] = call[t]] /\ l # "lock"
    BY <1>0, <1>3 DEF SameTransfer, Waits
  <2> QED
    BY <1>0, <1>1, <1>3, <2>1, WaitMoveSafe
<1>4. CASE TestCapacity(t)
  <2> DEFINE k == [call[t] EXCEPT !.cap_seen = capacity]
  <2>1. capacity \in Nat
    BY <1>0, CapacityAssumption DEF RingInv, RingTypeOK
  <2>2. k \in CallRecord /\ SameTransfer(k, call[t])
    BY <1>0, <2>1, CapSeenUpdate
  <2>3. /\ call' = [call EXCEPT ![t] = k] /\ pc' = [pc EXCEPT ![t] = "c_len"]
        /\ UNCHANGED sleepVars
    BY <1>4 DEF TestCapacity, Goto
  <2>4. "c_len" \in Waits /\ "c_len" # "lock"
        /\ read_queue' \subseteq Threads /\ write_queue' \subseteq Threads /\ awake' \subseteq Threads
    BY <1>2, <2>3 DEF Waits, sleepVars
  <2> HIDE DEF k
  <2> QED
    BY <1>1, <2>2, <2>3, <2>4, WaitMoveSafe
<1>5. CASE TestLen(t)
  <2>1. CASE StopWaiting(t)
    BY <1>1, <2>1, StopWaitingSafe
  <2>2. CASE Goto(t, "c_gen") /\ UNCHANGED <<sleepVars, call>>
    BY <1>2, <1>3, <2>2 DEF Goto, sleepVars, Waits
  <2> QED
    BY <1>5, <2>1, <2>2 DEF TestLen
<1>6. CASE TestGeneration(t)
  <2>1. CASE StopWaiting(t)
    BY <1>1, <2>1, StopWaitingSafe
  <2>2. CASE /\ Goto(t, "prepare") \/ Goto(t, "schedule")
             /\ UNCHANGED <<sleepVars, call>>
    BY <1>2, <1>3, <2>2 DEF Goto, sleepVars, Waits
  <2>3. CASE /\ Goto(t, "failing") /\ UNCHANGED sleepVars
             /\ call' = [call EXCEPT ![t].phase = "none", ![t].ret = ERESTARTSYS]
    <3> DEFINE k == [call[t] EXCEPT !.phase = "none", !.ret = ERESTARTSYS]
    <3>0. ERESTARTSYS \in Int
      BY DEF ERESTARTSYS
    <3>1. k \in CallRecord /\ SameTransfer(k, call[t])
      BY <1>0, <3>0, InterruptUpdate
    <3>2. /\ call' = [call EXCEPT ![t] = k] /\ pc' = [pc EXCEPT ![t] = "failing"]
          /\ read_queue' \subseteq Threads /\ write_queue' \subseteq Threads
          /\ awake' \subseteq Threads
      BY <1>2, <2>3 DEF Goto, sleepVars
    <3> HIDE DEF k
    <3> QED
      BY <1>1, <3>1, <3>2, WaitMoveSafe
  <2> QED
    BY <1>6, <2>1, <2>2, <2>3 DEF TestGeneration, KeepWaiting
<1>7. CASE PrepareToWait(t)
  <2>1. PICK x \in {"interrupted", "queued"} : call' = [call EXCEPT ![t].phase = x]
    BY <1>7 DEF PrepareToWait
  <2> DEFINE k == [call[t] EXCEPT !.phase = x]
  <2>2. k \in CallRecord /\ SameTransfer(k, call[t])
    BY <1>0, PhaseUpdate
  <2>3. PICK l \in {"c_len", "c_cap"} : pc' = [pc EXCEPT ![t] = l]
    BY <1>7 DEF PrepareToWait, Goto, TestStart
  <2>4. call' = [call EXCEPT ![t] = k] /\ l \in Waits /\ l # "lock"
    BY <2>1, <2>3 DEF Waits
  <2>5. /\ read_queue' \subseteq read_queue \cup {t}
        /\ write_queue' \subseteq write_queue \cup {t}
        /\ awake' \subseteq awake \cup {t}
    <3>1. CASE call[t].op = "read"
      BY <1>7, <3>1 DEF PrepareToWait
    <3>2. CASE call[t].op # "read"
      BY <1>7, <3>2 DEF PrepareToWait
    <3> QED
      BY <3>1, <3>2
  <2>6. read_queue' \subseteq Threads /\ write_queue' \subseteq Threads /\ awake' \subseteq Threads
    BY <1>2, <2>5
  <2> HIDE DEF k
  <2> QED
    BY <1>1, <2>2, <2>3, <2>4, <2>6, WaitMoveSafe
<1>8. CASE Schedule(t)
  BY <1>2, <1>3, <1>8 DEF Schedule, Goto, Waits
<1> QED
  BY <1>4, <1>5, <1>6, <1>7, <1>8

\* A task outside the mutex goes on, its locals as they are.
LEMMA PlainMoveSafe ==
  ASSUME SafeInv, NEW t \in Threads, NEW l \in {"return", "wake_w", "mutex"},
         pc[t] \in {"wake", "wake_r", "wake_w", "failing", "copy_out", "poll_reg", "poll_wait"},
         l = "wake_w" => pc[t] = "wake_r",
         l = "mutex" => pc[t] \in {"poll_reg", "poll_wait"},
         pc' = [pc EXCEPT ![t] = l], call' = call,
         lock' = lock, UNCHANGED ringVars, DeviceTypeOK'
  PROVE  SafeInv'
<1>1. /\ call[t] \in CallRecord /\ CallOK(pc[t], call[t])
      /\ call' = [call EXCEPT ![t] = call[t]]
  BY TaskOfSafeInv
<1>2. CallOK(l, call[t])
  BY <1>1 DEF CallOK, PlaceOK, CountOK, Waits, ReadWrite, Polls
<1>3. l \in Labels /\ l \notin Locked /\ pc[t] \notin Locked
  BY DEF Labels, Locked
<1> QED
  BY <1>1, <1>2, <1>3, QuietStep

LEMMA WakeSafe ==
  ASSUME SafeInv, NEW t \in Threads,
         Wake(t) \/ WakeReaders(t) \/ WakeWriters(t) \/ Fail(t) \/ PollRegister(t) \/ PollWait(t)
  PROVE  SafeInv'
<1>0. DeviceTypeOK /\ call[t] \in CallRecord
  BY RingOfSafeInv, TaskOfSafeInv
<1>1. ASSUME awake' = awake \cup read_queue \/ awake' = awake \cup write_queue
                 \/ awake' = awake \ {t} \/ awake' = awake,
             read_queue' \subseteq read_queue \cup {t},
             write_queue' \subseteq write_queue \cup {t},
             stats' \in [Counter -> Nat],
             UNCHANGED <<controlVars, open_files, signal>>
      PROVE  DeviceTypeOK'
  BY <1>0, <1>1 DEF DeviceTypeOK, controlVars
<1>2. {"total_bytes_read", "total_bytes_written", "failed_operations"} \subseteq Counter /\ 1 \in Int
  BY DEF Counter, ResetOrder
<1>3. CASE Wake(t)
  <2>1. stats' \in [Counter -> Nat]
    <3>1. BytesMoved(call[t]) \in Int
      BY <1>0 DEF BytesMoved, CallRecord
    <3>2. stats \in [Counter -> Nat]
      BY <1>0 DEF DeviceTypeOK
    <3>3. PICK c \in Counter : Add(c, BytesMoved(call[t]))
      BY <1>2, <1>3 DEF Wake
    <3> QED
      BY <3>1, <3>2, <3>3, AddType
  <2>2. WakeReadQueue \/ WakeWriteQueue
    BY <1>3 DEF Wake, WakeOther
  <2>3. DeviceTypeOK'
    BY <1>1, <1>3, <2>1, <2>2 DEF Wake, WakeReadQueue, WakeWriteQueue, Remaining
  <2> QED
    BY <1>3, <2>3, PlainMoveSafe DEF Wake, Goto
<1>4. CASE WakeReaders(t) \/ WakeWriters(t)
  <2>1. stats' \in [Counter -> Nat]
    BY <1>0, <1>4 DEF DeviceTypeOK, WakeReaders, WakeWriters
  <2>2. DeviceTypeOK'
    BY <1>1, <1>4, <2>1
    DEF WakeReaders, WakeWriters, WakeReadQueue, WakeWriteQueue, Remaining
  <2> QED
    BY <1>4, <2>2, PlainMoveSafe DEF WakeReaders, WakeWriters, Goto
<1>5. CASE Fail(t)
  <2>1. stats' \in [Counter -> Nat]
    BY <1>0, <1>2, <1>5, AddType DEF DeviceTypeOK, Fail, NoteFailure
  <2>2. DeviceTypeOK'
    BY <1>1, <1>5, <2>1 DEF Fail, sleepVars
  <2> QED
    BY <1>5, <2>2, PlainMoveSafe DEF Fail, Goto
<1>6. CASE PollRegister(t) \/ PollWait(t)
  <2>1. stats' \in [Counter -> Nat]
    BY <1>0, <1>6 DEF DeviceTypeOK, PollRegister, PollWait
  <2>2. DeviceTypeOK'
    BY <1>1, <1>6, <2>1 DEF PollRegister, PollWait, PollQueues
  <2> QED
    BY <1>6, <2>2, PlainMoveSafe DEF PollRegister, PollWait, Goto
<1> QED
  BY <1>3, <1>4, <1>5, <1>6

LEMMA EndSafe ==
  ASSUME SafeInv, NEW t \in Threads,
         CopyOut(t) \/ ResetStats(t) \/ PollMask(t) \/ BumpGeneration(t) \/ Return(t)
  PROVE  SafeInv'
<1>0. /\ call[t] \in CallRecord /\ CallOK(pc[t], call[t]) /\ DeviceTypeOK
      /\ [call EXCEPT ![t] = call[t]] = call
  BY TaskOfSafeInv, RingOfSafeInv
<1>1. CASE CopyOut(t)
  <2>1. DeviceTypeOK'
    BY <1>0, <1>1 DEF CopyOut, DeviceTypeOK, controlVars, sleepVars
  <2>2. CASE Goto(t, "return") /\ UNCHANGED call
    BY <1>1, <2>1, <2>2, PlainMoveSafe DEF CopyOut, Goto
  <2>3. CASE Goto(t, "failing") /\ call' = [call EXCEPT ![t].ret = EFAULT]
    <3> DEFINE k == [call[t] EXCEPT !.ret = EFAULT]
    <3>0. EFAULT \in Int
      BY DEF EFAULT
    <3>1. k \in CallRecord /\ SameTransfer(k, call[t])
      BY <1>0, <3>0, RetUpdate
    <3>2. /\ call' = [call EXCEPT ![t] = k] /\ pc' = [pc EXCEPT ![t] = "failing"]
          /\ lock' = lock /\ UNCHANGED ringVars /\ pc[t] = "copy_out"
      BY <1>1, <2>3 DEF CopyOut, Goto
    <3> HIDE DEF k
    <3>3. CallOK("failing", k)
      BY <1>0, <3>1 DEF CallOK, PlaceOK, CountOK, SameTransfer, Waits
    <3>4. "failing" \in Labels /\ "failing" \notin Locked /\ pc[t] \notin Locked
      BY <3>2 DEF Labels, Locked
    <3> QED
      BY <2>1, <3>1, <3>2, <3>3, <3>4, QuietStep
  <2> QED
    BY <1>1, <2>2, <2>3 DEF CopyOut
<1>2. CASE ResetStats(t)
  <2> DEFINE n == call[t].copied + 1
             k == [call[t] EXCEPT !.copied = n]
  <2>1. n \in Nat
    BY <1>0 DEF CallRecord
  <2>2. call' = [call EXCEPT ![t] = k] /\ lock' = lock /\ UNCHANGED ringVars /\ pc[t] = "reset"
    BY <1>2 DEF ResetStats
  <2>3. PICK l \in {"return", "reset"} : pc' = [pc EXCEPT ![t] = l]
    BY <1>2 DEF ResetStats, Goto
  <2>4. DeviceTypeOK'
    <3>1. stats' \in [Counter -> Nat]
      BY <1>0, <1>2 DEF ResetStats, DeviceTypeOK
    <3> QED
      BY <1>0, <1>2, <3>1 DEF ResetStats, DeviceTypeOK, controlVars, sleepVars
  <2> HIDE DEF n
  <2>5. k \in CallRecord /\ k.op = call[t].op
    BY <1>0, <2>1, CopiedUpdate
  <2> HIDE DEF k
  <2>6. call[t].op \notin ReadWrite
    BY <1>0, <2>2 DEF CallOK, PlaceOK, ReadWrite
  <2>7. CallOK(l, k)
    BY <1>0, <2>2, <2>3, <2>5, <2>6 DEF CallOK, PlaceOK, CountOK, Waits, ReadWrite
  <2>8. l \in Labels /\ l \notin Locked /\ pc[t] \notin Locked
    BY <2>2, <2>3 DEF Labels, Locked
  <2> QED
    BY <2>2, <2>3, <2>4, <2>5, <2>7, <2>8, QuietStep
<1>3. CASE PollMask(t)
  <2> DEFINE event == PollEvent(call[t].op)
             code == IF event = 0 /\ t \in signal THEN EINTR ELSE event
  <2>0. event \in {0, POLLIN, POLLOUT}
    BY DEF PollEvent
  <2> HIDE DEF event
  <2>1. code \in Int
    BY <2>0 DEF EINTR, POLLIN, POLLOUT
  <2>3. call' = [call EXCEPT ![t].ret = code]
    BY <1>3 DEF PollMask, event
  <2> HIDE DEF code
  <2>2. DeviceTypeOK'
    BY <1>0, <1>3 DEF PollMask, DeviceTypeOK, controlVars, sleepVars
  <2> QED
    BY <1>3, <2>1, <2>2, <2>3, GiveUpSafe DEF PollMask, Goto
<1>4. CASE BumpGeneration(t)
  <2>1. DeviceTypeOK'
    BY <1>0, <1>4 DEF BumpGeneration, DeviceTypeOK, sleepVars
  <2>2. CallOK("unlock", call[t])
    BY <1>0, <1>4 DEF BumpGeneration, CallOK, PlaceOK, CountOK, Waits, ReadWrite, Controls
  <2>3. "unlock" \in Labels /\ "unlock" \in Locked /\ pc[t] \in Locked
    BY <1>4 DEF BumpGeneration, Labels, Locked
  <2> QED
    BY <1>0, <1>4, <2>1, <2>2, <2>3, QuietStep DEF BumpGeneration, Goto
<1>5. CASE Return(t)
  <2>1. DeviceTypeOK'
    BY <1>0, <1>5 DEF Return, DeviceTypeOK, controlVars
  <2>2. "idle" \in Labels /\ "idle" \notin Locked /\ pc[t] \notin Locked
    BY <1>5 DEF Return, Labels, Locked
  <2> QED
    BY <1>5, <2>1, <2>2, NoCallOK, QuietStep DEF Return, Goto
<1> QED
  BY <1>1, <1>2, <1>3, <1>4, <1>5

-----------------------------------------------------------------------------
(***************************************************************************)
(* The steps that change the buffer, mutex held.                           *)
(***************************************************************************)
LEMMA ControlSafe ==
  ASSUME SafeInv, NEW t \in Threads, Control(t)
  PROVE  SafeInv'
<1>0. /\ call[t] \in CallRecord /\ CallOK(pc[t], call[t]) /\ DeviceTypeOK /\ RingInv
      /\ [call EXCEPT ![t] = call[t]] = call
      /\ pc[t] \in Locked <=> lock = t
  BY TaskOfSafeInv, RingOfSafeInv
<1>1. /\ pc[t] = "control"
      /\ UNCHANGED <<state_generation, shutting_down, lock, sleepVars, open_files, signal>>
      /\ stats \in [Counter -> Nat] /\ mode \in {0, MODE_F_NONBLOCK} /\ call[t].count \in Nat
  BY <1>0 DEF Control, DeviceTypeOK, CallRecord
<1>2. ASSUME stats' \in [Counter -> Nat], mode' \in {0, MODE_F_NONBLOCK}
      PROVE  DeviceTypeOK'
  BY <1>0, <1>1, <1>2 DEF DeviceTypeOK, sleepVars
<1>3. {"clears", "resizes"} \subseteq Counter /\ 1 \in Int
  BY DEF Counter, ResetOrder
<1>4. ASSUME call[t].op \in Controls, pc' = [pc EXCEPT ![t] = "bump"], UNCHANGED call,
             RingInv', DeviceTypeOK'
      PROVE  SafeInv'
  <2>1. CallOK("bump", call[t])
    BY <1>0, <1>4 DEF CallOK, PlaceOK, CountOK, Waits
  <2>2. "bump" \in Labels /\ "bump" \in Locked /\ lock' = t
    BY <1>0, <1>1 DEF Labels, Locked
  <2>3. call' = [call EXCEPT ![t] = call[t]] /\ lock' = lock
    BY <1>0, <1>1, <1>4
  <2> QED
    BY <1>0, <1>4, <2>1, <2>2, <2>3, LocalStep
<1>5. CASE DoClear(t)
  <2>1. stats' \in [Counter -> Nat]
    BY <1>1, <1>3, <1>5, AddType DEF DoClear
  <2>2. RingInv'
    BY <1>0, <1>5, ClearInv DEF DoClear
  <2>3. DeviceTypeOK'
    BY <1>1, <1>2, <1>5, <2>1 DEF DoClear
  <2> QED
    BY <1>4, <1>5, <2>2, <2>3 DEF DoClear, Goto, Controls
<1>6. CASE DoSetMode(t)
  <2>1. mode' \in {0, MODE_F_NONBLOCK}
    BY <1>0, <1>1, <1>6 DEF DoSetMode, CallOK, CountOK
  <2>2. RingInv'
    BY <1>0, <1>6, RingUnchanged DEF DoSetMode
  <2>3. DeviceTypeOK'
    BY <1>1, <1>2, <1>6, <2>1 DEF DoSetMode
  <2> QED
    BY <1>4, <1>6, <2>2, <2>3 DEF DoSetMode, AfterSetMode, Goto, Controls
<1>7. CASE DoSetCapacity(t)
  <2>1. mode' \in {0, MODE_F_NONBLOCK}
    BY <1>1, <1>7 DEF DoSetCapacity
  <2>2. CASE \E code \in {EMSGSIZE, ENOMEM} : ResizeFails(t, code)
    <3>1. PICK code \in Int : ResizeFails(t, code)
      BY <2>2 DEF EMSGSIZE, ENOMEM
    <3>2. DeviceTypeOK'
      BY <1>1, <1>2, <2>1, <3>1 DEF ResizeFails
    <3> QED
      BY <1>1, <3>1, <3>2, GiveUpSafe DEF ResizeFails, Goto
  <2>3. CASE /\ Resize(call[t].count) /\ Add("resizes", 1) /\ Goto(t, "bump")
             /\ UNCHANGED call
    <3>1. RingInv'
      BY <1>0, <1>1, <2>3, ResizeInv
    <3>2. stats' \in [Counter -> Nat]
      BY <1>1, <1>3, <2>3, AddType
    <3>3. DeviceTypeOK'
      BY <1>2, <2>1, <3>2
    <3>4. call[t].op \in Controls
      BY <1>7 DEF DoSetCapacity, Controls
    <3> QED
      BY <1>4, <2>3, <3>1, <3>3, <3>4 DEF Goto
  <2> QED
    BY <1>7, <2>2, <2>3 DEF DoSetCapacity
<1>8. CASE DoQuery(t)
  <2> DEFINE answer == IF call[t].op = "get_capacity" THEN <<capacity>>
                                                      ELSE <<capacity, Stored, Available>>
             k == [call[t] EXCEPT !.answer = answer]
  <2>1. answer \in Seq(Nat)
    <3>1. capacity \in Nat /\ Stored \in Nat /\ Available \in Nat
      BY <1>0, CapacityAssumption DEF RingInv, RingTypeOK, Available, Stored
    <3> QED
      BY <3>1
  <2>2. /\ call' = [call EXCEPT ![t] = k] /\ pc' = [pc EXCEPT ![t] = "unlock"]
        /\ UNCHANGED <<ringVars, mode, stats>> /\ call[t].op \in Queries
    BY <1>8 DEF DoQuery, Goto
  <2> HIDE DEF answer
  <2>3. k \in CallRecord /\ SameTransfer(k, call[t]) /\ k.phase = call[t].phase
    BY <1>0, <2>1, AnswerUpdate
  <2> HIDE DEF k
  <2>4. CallOK("unlock", k)
    BY <1>0, <2>2, <2>3 DEF CallOK, PlaceOK, CountOK, Waits, SameTransfer, ReadWrite, Queries
  <2>5. DeviceTypeOK'
    BY <1>1, <1>2, <2>2
  <2>6. "unlock" \in Labels /\ "unlock" \in Locked /\ pc[t] \in Locked
    BY <1>1 DEF Labels, Locked
  <2> QED
    BY <1>1, <2>2, <2>3, <2>4, <2>5, <2>6, QuietStep
<1> QED
  BY <1>5, <1>6, <1>7, <1>8 DEF Control

\* A chunk of n bytes was moved and `missing' were left behind.
LEMMA AfterCopySafe ==
  ASSUME SafeInv, NEW t \in Threads, pc[t] = "copy",
         NEW memory \in Seq(Slot), NEW n \in Nat, NEW missing \in Nat, NEW more,
         call[t].copied + n <= call[t].count,
         AfterCopy(t, memory, n, missing, more), RingInv'
  PROVE  SafeInv'
<1> DEFINE total == call[t].copied + n
           ret == IF more /\ missing = 0 THEN 0 ELSE CopyResult(total, missing)
           k == [call[t] EXCEPT !.dst = memory, !.copied = total, !.missing = missing, !.ret = ret]
<1>0. /\ call[t] \in CallRecord /\ CallOK(pc[t], call[t]) /\ DeviceTypeOK
      /\ pc[t] \in Locked <=> lock = t
  BY TaskOfSafeInv, RingOfSafeInv
<1>1. total \in Nat /\ total <= call[t].count
  BY <1>0, SMTT(30) DEF CallRecord
<1>2. ret \in Int
  BY <1>1 DEF CopyResult, EFAULT
<1>3. /\ call' = [call EXCEPT ![t] = k]
      /\ UNCHANGED <<controlVars, lock, sleepVars, open_files, signal>>
  BY DEF AfterCopy
<1>4. PICK l \in {"copy", "unlock"} : pc' = [pc EXCEPT ![t] = l]
  BY DEF AfterCopy, Goto
<1>5. DeviceTypeOK'
  <2>1. "failed_operations" \in Counter /\ 1 \in Int /\ stats \in [Counter -> Nat]
    BY <1>0 DEF Counter, ResetOrder, DeviceTypeOK
  <2>2. stats' \in [Counter -> Nat]
    <3>1. CASE NoteFailure
      BY <2>1, <3>1, AddType DEF NoteFailure
    <3>2. CASE UNCHANGED stats
      BY <2>1, <3>2
    <3> QED
      BY <3>1, <3>2 DEF AfterCopy
  <2> QED
    BY <1>0, <1>3, <2>2 DEF DeviceTypeOK, controlVars, sleepVars
<1>k. k = [call[t] EXCEPT !.dst = memory, !.copied = total, !.missing = missing, !.ret = ret]
  OBVIOUS
<1> HIDE DEF total, ret, k
<1>6. /\ k \in CallRecord /\ k.op = call[t].op /\ k.count = call[t].count
      /\ k.src = call[t].src /\ k.copied = total /\ k.phase = call[t].phase
  <2>1. memory \in Seq(Slot) /\ missing \in Nat /\ total \in Nat /\ ret \in Int
        /\ call[t] \in CallRecord
    BY <1>0, <1>1, <1>2
  <2> QED
    BY <1>k, <2>1 DEF CallRecord
<1>7. CallOK(l, k)
  BY <1>0, <1>1, <1>4, <1>6 DEF CallOK, PlaceOK, CountOK, Waits, ReadWrite
<1>8. l \in Labels /\ l \in Locked /\ lock' = t /\ lock' = lock
  BY <1>0, <1>3, <1>4 DEF Labels, Locked
<1> QED
  BY <1>3, <1>4, <1>5, <1>6, <1>7, <1>8, LocalStep

LEMMA ReadChunkSafe ==
  ASSUME SafeInv, NEW t \in Threads, ReadChunk(t)
  PROVE  SafeInv'
<1> DEFINE left == call[t].count - call[t].copied
           chunk == Least(left, ReadSpan)
<1>0. call[t] \in CallRecord /\ CallOK(pc[t], call[t]) /\ RingInv
  BY TaskOfSafeInv, RingOfSafeInv
<1>1. pc[t] = "copy" /\ call[t].op = "read"
  BY DEF ReadChunk
<1>2. /\ capacity \in Nat /\ len \in Nat /\ read_pos \in Nat /\ read_pos < capacity
      /\ data \in [0..capacity-1 -> Slot]
  BY <1>0, CapacityAssumption DEF RingInv, RingTypeOK, RingShape
<1>3. /\ call[t].count \in Nat /\ call[t].copied \in Nat /\ call[t].copied <= call[t].count
      /\ call[t].dst \in Seq(Slot)
  BY <1>0, <1>1 DEF CallRecord, CallOK, CountOK, ReadWrite
<1>4. chunk \in Nat /\ chunk <= capacity - read_pos /\ chunk <= left
  BY <1>2, <1>3, SMTT(30) DEF Least, ReadSpan
<1>5. PICK missing \in Missing(t, chunk) :
        /\ Consume(chunk - missing)
        /\ AfterCopy(t, call[t].dst \o SpanBytes(chunk - missing), chunk - missing, missing,
                     chunk - missing < left /\ chunk - missing < len)
  BY DEF ReadChunk, Transferred
<1> DEFINE n == chunk - missing
<1> HIDE DEF chunk
<1>6. missing \in Nat /\ n \in Nat /\ n <= chunk
  BY <1>4, <1>5 DEF Missing
<1>7. SpanBytes(n) \in Seq(Slot)
  <2> HIDE DEF n
  <2>1. ASSUME NEW i \in 1..n
        PROVE  data[read_pos + i - 1] \in Slot
    <3>1. read_pos + i - 1 \in 0..capacity-1
      BY <1>2, <1>4, <1>6
    <3> QED
      BY <1>2, <3>1
  <2> QED
    BY <1>6, <2>1 DEF SpanBytes
<1>8. RingInv'
  BY <1>0, <1>5, <1>6, ConsumeInv
<1>9. call[t].copied + n <= call[t].count
  BY <1>3, <1>4, <1>6
<1>10. call[t].dst \o SpanBytes(n) \in Seq(Slot)
  BY <1>3, <1>7
<1> QED
  BY <1>1, <1>5, <1>6, <1>8, <1>9, <1>10, AfterCopySafe

LEMMA WriteChunkSafe ==
  ASSUME SafeInv, NEW t \in Threads, WriteChunk(t)
  PROVE  SafeInv'
<1> DEFINE left == call[t].count - call[t].copied
           chunk == Least(left, WriteSpan)
<1>0. call[t] \in CallRecord /\ CallOK(pc[t], call[t]) /\ RingInv
  BY TaskOfSafeInv, RingOfSafeInv
<1>1. pc[t] = "copy" /\ call[t].op = "write"
  BY DEF WriteChunk
<1>2. /\ call[t].count \in Nat /\ call[t].copied \in Nat /\ call[t].copied <= call[t].count
      /\ call[t].src \in Seq(Byte) /\ call[t].count <= Len(call[t].src)
  BY <1>0, <1>1 DEF CallRecord, CallOK, CountOK, ReadWrite
<1>3. WriteSpan \in Nat
  <2>1. /\ capacity \in Nat /\ len \in Nat /\ write_pos \in Nat
        /\ write_pos < capacity /\ len <= capacity
    BY <1>0, CapacityAssumption DEF RingInv, RingTypeOK, RingShape
  <2> QED
    BY <2>1 DEF WriteSpan, Available, Least
<1>4. chunk \in Nat /\ chunk <= WriteSpan /\ chunk <= left
  BY <1>2, <1>3 DEF Least
<1>5. PICK missing \in Missing(t, chunk) :
        /\ CopyIn(call[t].src, call[t].copied, chunk, chunk - missing)
        /\ Commit(chunk - missing)
        /\ AfterCopy(t, << >>, chunk - missing, missing,
                     chunk - missing < left /\ chunk - missing < Available)
  BY DEF WriteChunk, Transferred
<1> DEFINE n == chunk - missing
<1> HIDE DEF chunk
<1>6. missing \in Nat /\ n \in Nat /\ n <= chunk
  BY <1>4, <1>5 DEF Missing
<1>7. call[t].copied + n <= call[t].count /\ call[t].copied + n <= Len(call[t].src)
  BY <1>2, <1>4, <1>6, SMTT(30)
<1>8. RingInv'
  BY <1>0, <1>2, <1>4, <1>5, <1>6, <1>7, CopyCommitInv
<1>9. << >> \in Seq(Slot)
  OBVIOUS
<1> QED
  BY <1>1, <1>5, <1>6, <1>7, <1>8, <1>9, AfterCopySafe

-----------------------------------------------------------------------------

LEMMA StepSafe ==
  ASSUME SafeInv, NEW t \in Threads, Step(t)
  PROVE  SafeInv'
BY MutexSafe, DecideSafe, ReadChunkSafe, WriteChunkSafe, WaitSafe, WakeSafe, EndSafe,
   ControlSafe DEF Step

LEMMA NextSafe == SafeInv /\ [Next]_vars => SafeInv'
BY FilesSafe, CallSafe, StepSafe, UnloadSafe DEF Next, Unloaded

(***************************************************************************)
(* Every interleaving of the handlers keeps the buffer in its              *)
(* representation invariant, stores only bytes a writer supplied, and      *)
(* takes and frees the mutex on every path: for any number of tasks, any   *)
(* capacities, any calls, faults, signals and control changes.             *)
(***************************************************************************)
THEOREM DriverSafe == Spec => [](TypeOK /\ MutexDiscipline /\ RingShape /\ NoJunkStored)
<1>1. SafeInv => TypeOK /\ MutexDiscipline /\ RingShape /\ NoJunkStored
  BY DEF SafeInv
<1> QED
  BY <1>1, InitSafe, NextSafe, PTL DEF Spec

-----------------------------------------------------------------------------
(***************************************************************************)
(* No task of the driver sleeps through what it waits for, no read ends in *)
(* a false end of file and no call is in the driver when the module goes,  *)
(* for every set of tasks and every mix of calls.                          *)
(*                                                                         *)
(* NoLostWakeup is about tasks asleep; the argument starts where a task    *)
(* has queued itself.  From then on, every READ_ONCE of the condition      *)
(* either sees what happened or is followed by the wake_up of the task     *)
(* that made it happen: TaskOK says so test by test.                       *)
(***************************************************************************)
\* WakesReaders and WakesWriters, of a task at l with locals k.
WR(l, k) ==
  \/ k.op = "write" /\ k.copied > 0 /\ l \in {"copy", "unlock", "wake"}
  \/ k.op \in Controls /\ k.ret = 0 /\ l \in {"bump", "unlock", "wake_r"}
WW(l, k) ==
  \/ k.op = "read" /\ k.copied > 0 /\ l \in {"copy", "unlock", "wake"}
  \/ k.op \in Controls /\ k.ret = 0 /\ l \in {"bump", "unlock", "wake_r", "wake_w"}

ReadersComing == \E u \in Threads : WR(pc[u], call[u])
WritersComing == \E u \in Threads : WW(pc[u], call[u])

(***************************************************************************)
(* A queued task at l with locals k has tested part of its condition and   *)
(* what it tested is no longer so, or is not what it tested.               *)
(***************************************************************************)
ReaderDue(l, k, n, g) ==
  \/ k.op = "read" /\ l = "c_gen" /\ n > 0
  \/ k.op = "read" /\ l = "schedule" /\ (n > 0 \/ g # k.seen)
  \/ k.op = "pollin" /\ (l = "poll_wait" \/ (l = "unlock" /\ k.ret = 0)) /\ n > 0
WriterDue(l, k, c, n, g) ==
  \/ k.op = "write" /\ l = "c_len" /\ c # k.cap_seen
  \/ k.op = "write" /\ l = "c_gen" /\ c > n
  \/ k.op = "write" /\ l = "schedule" /\ (c > n \/ g # k.seen)
  \/ k.op = "pollout" /\ (l = "poll_wait" \/ (l = "unlock" /\ k.ret = 0)) /\ c > n

\* Who may be set to sleep, and on which queues such a task then is.
QueuedOK(t, l, k, readers, writers) ==
  /\ k.op \in Polls \/ (k.op \in ReadWrite /\ l \in Waits /\ k.phase = "queued")
  /\ k.op \in Polls \cup {"read"} => t \in readers
  /\ k.op \in Polls \cup {"write"} => t \in writers

\* A task that polls stays on both queues from its first poll on.
PollOK(t, l, k, readers, writers) ==
  k.op \in Polls /\ l \in {"mutex", "mask", "unlock", "poll_wait"} =>
    t \in readers /\ t \in writers

TaskOK(t) ==
  t \notin awake =>
    /\ QueuedOK(t, pc[t], call[t], read_queue, write_queue)
    /\ ReaderDue(pc[t], call[t], len, state_generation) => ReadersComing
    /\ WriterDue(pc[t], call[t], capacity, len, state_generation) => WritersComing

\* A control call that has taken the mutex has not failed; a read has not ended at 0.
ResultOK(l, k) ==
  /\ k.op \in Controls /\ l \in {"mutex", "control", "bump"} => k.ret = 0
  /\ k.op = "read" /\ k.count > 0 /\ k.ret = 0 =>
       l \notin {"wake", "failing", "return"} /\ (l = "unlock" => k.phase = "first")

\* Every task in the driver has its file open, and then the module stays.
FileInv ==
  /\ \A t \in Threads : pc[t] = "idle" \/ t \in open_files
  /\ \A t \in read_queue \cup write_queue : pc[t] # "idle"
  /\ shutting_down => open_files = {}

WakeInv ==
  /\ SafeInv
  /\ FileInv
  /\ \A t \in Threads : ResultOK(pc[t], call[t])
  /\ \A t \in Threads : PollOK(t, pc[t], call[t], read_queue, write_queue)
  /\ \A t \in Threads : TaskOK(t)

-----------------------------------------------------------------------------

\* What task u, now at l with locals k, owes to those it has to wake.
LEMMA WakeStep ==
  ASSUME WakeInv, SafeInv', NEW u \in Threads, NEW l, NEW k,
         pc' = [pc EXCEPT ![u] = l], call' = [call EXCEPT ![u] = k],
         ResultOK(l, k),
         u \in open_files, open_files' = open_files, shutting_down' = shutting_down,
         \* Only u joins a queue, and it leaves both before it leaves the driver.
         read_queue' \cup write_queue' \subseteq read_queue \cup write_queue \cup {u},
         l = "idle" => u \notin read_queue' \cup write_queue',
         \* The other tasks are woken, or stay as they are; those that poll stay anyway.
         \A t \in Threads \ {u} :
           /\ t \notin awake' => t \notin awake
           /\ t \in read_queue => t \in read_queue' \/ (t \in awake' /\ call[t].op \notin Polls)
           /\ t \in write_queue => t \in write_queue' \/ (t \in awake' /\ call[t].op \notin Polls),
         PollOK(u, l, k, read_queue', write_queue'),
         \* A wake-up that was coming is still coming or has come.
         WR(pc[u], call[u]) => WR(l, k) \/ read_queue \ {u} \subseteq awake',
         WW(pc[u], call[u]) => WW(l, k) \/ write_queue \ {u} \subseteq awake',
         \* What others wait for happens only with a wake-up to follow.
         WR(l, k) \/ ((len' > 0 => len > 0) /\ state_generation' = state_generation),
         WW(l, k) \/ (/\ capacity' > len' => capacity > len
                      /\ capacity' = capacity /\ state_generation' = state_generation),
         u \notin awake' =>
           /\ QueuedOK(u, l, k, read_queue', write_queue')
           /\ ReaderDue(l, k, len', state_generation') => ReadersComing'
           /\ WriterDue(l, k, capacity', len', state_generation') => WritersComing'
  PROVE  WakeInv'
<1>0. pc \in [Threads -> Labels] /\ call \in [Threads -> CallRecord]
  BY DEF WakeInv, SafeInv, TypeOK
<1>1. pc'[u] = l /\ call'[u] = k
  BY <1>0
<1>2. \A t \in Threads \ {u} : pc'[t] = pc[t] /\ call'[t] = call[t]
  BY <1>0
<1>3. FileInv'
  <2>1. /\ \A t \in Threads : pc[t] = "idle" \/ t \in open_files
        /\ \A t \in read_queue \cup write_queue : pc[t] # "idle"
        /\ shutting_down => open_files = {}
        /\ read_queue \subseteq Threads /\ write_queue \subseteq Threads
    BY DEF WakeInv, FileInv, SafeInv, TypeOK
  <2>2. \A t \in Threads : pc'[t] = "idle" \/ t \in open_files'
    BY <1>2, <2>1
  <2>3. \A t \in read_queue' \cup write_queue' : pc'[t] # "idle"
    BY <1>1, <1>2, <2>1
  <2>4. shutting_down' => open_files' = {}
    BY <2>1
  <2> QED
    BY <2>2, <2>3, <2>4 DEF FileInv
<1>4. (\A t \in Threads : ResultOK(pc[t], call[t]))'
  <2>1. \A t \in Threads : ResultOK(pc'[t], call'[t])
    BY <1>1, <1>2 DEF WakeInv
  <2> QED
    BY <2>1 DEF ResultOK
<1>p. (\A t \in Threads : PollOK(t, pc[t], call[t], read_queue, write_queue))'
  <2>1. \A t \in Threads : PollOK(t, pc'[t], call'[t], read_queue', write_queue')
    BY <1>1, <1>2 DEF WakeInv, PollOK
  <2> QED
    BY <2>1 DEF PollOK
<1>5. ASSUME NEW t \in Threads PROVE TaskOK(t)'
  <2> SUFFICES ASSUME t \notin awake'
               PROVE  /\ QueuedOK(t, pc'[t], call'[t], read_queue', write_queue')
                      /\ ReaderDue(pc'[t], call'[t], len', state_generation') => ReadersComing'
                      /\ WriterDue(pc'[t], call'[t], capacity', len', state_generation')
                           => WritersComing'
    BY DEF TaskOK, QueuedOK, ReaderDue, WriterDue
  <2>1. CASE t = u
    BY <1>1, <2>1
  <2>2. CASE t # u
    <3>1. /\ t \notin awake /\ pc'[t] = pc[t] /\ call'[t] = call[t]
          /\ t \in read_queue => t \in read_queue'
          /\ t \in write_queue => t \in write_queue'
      BY <1>2, <2>2
    <3>2. /\ QueuedOK(t, pc[t], call[t], read_queue, write_queue)
          /\ ReaderDue(pc[t], call[t], len, state_generation) => ReadersComing
          /\ WriterDue(pc[t], call[t], capacity, len, state_generation) => WritersComing
      BY <3>1 DEF WakeInv, TaskOK
    <3>3. QueuedOK(t, pc'[t], call'[t], read_queue', write_queue')
      BY <3>1, <3>2 DEF QueuedOK
    <3>4. ASSUME ReaderDue(pc'[t], call'[t], len', state_generation') PROVE ReadersComing'
      <4>1. CASE WR(l, k)
        BY <1>1, <4>1 DEF ReadersComing, WR
      <4>2. CASE ~WR(l, k)
        <5>1. ReaderDue(pc[t], call[t], len, state_generation) /\ t \in read_queue
          BY <3>1, <3>2, <3>4, <4>2 DEF ReaderDue, QueuedOK, Polls
        <5>2. PICK v \in Threads : WR(pc[v], call[v])
          BY <3>2, <5>1 DEF ReadersComing
        <5>3. v # u
          BY <2>2, <4>2, <5>1, <5>2
        <5>4. WR(pc'[v], call'[v])
          BY <1>2, <5>2, <5>3
        <5> QED
          BY <5>4 DEF ReadersComing, WR
      <4> QED
        BY <4>1, <4>2
    <3>5. ASSUME WriterDue(pc'[t], call'[t], capacity', len', state_generation')
          PROVE  WritersComing'
      <4>1. CASE WW(l, k)
        BY <1>1, <4>1 DEF WritersComing, WW
      <4>2. CASE ~WW(l, k)
        <5>1. WriterDue(pc[t], call[t], capacity, len, state_generation) /\ t \in write_queue
          BY <3>1, <3>2, <3>5, <4>2 DEF WriterDue, QueuedOK, Polls
        <5>2. PICK v \in Threads : WW(pc[v], call[v])
          BY <3>2, <5>1 DEF WritersComing
        <5>3. v # u
          BY <2>2, <4>2, <5>1, <5>2
        <5>4. WW(pc'[v], call'[v])
          BY <1>2, <5>2, <5>3
        <5> QED
          BY <5>4 DEF WritersComing, WW
      <4> QED
        BY <4>1, <4>2
    <3> QED
      BY <3>3, <3>4, <3>5
  <2> QED
    BY <2>1, <2>2
<1> QED
  BY <1>3, <1>4, <1>p, <1>5 DEF WakeInv

\* The actor and the facts about it that every case starts from.
LEMMA Actor ==
  ASSUME WakeInv, NEW u \in Threads
  PROVE  /\ call[u] \in CallRecord /\ pc[u] \in Labels
         /\ CallOK(pc[u], call[u]) /\ ResultOK(pc[u], call[u])
         /\ PollOK(u, pc[u], call[u], read_queue, write_queue)
         /\ [call EXCEPT ![u] = call[u]] = call
         /\ pc[u] # "idle" => u \in open_files /\ ~shutting_down
         /\ u \notin awake => /\ QueuedOK(u, pc[u], call[u], read_queue, write_queue)
                              /\ ReaderDue(pc[u], call[u], len, state_generation) => ReadersComing
                              /\ WriterDue(pc[u], call[u], capacity, len, state_generation)
                                   => WritersComing
<1>1. /\ call[u] \in CallRecord /\ pc[u] \in Labels /\ CallOK(pc[u], call[u])
      /\ [call EXCEPT ![u] = call[u]] = call
  BY TaskOfSafeInv DEF WakeInv
<1>2. pc[u] # "idle" => u \in open_files /\ ~shutting_down
  BY DEF WakeInv, FileInv
<1>3. ResultOK(pc[u], call[u]) /\ PollOK(u, pc[u], call[u], read_queue, write_queue) /\ TaskOK(u)
  BY DEF WakeInv
<1> QED
  BY <1>1, <1>2, <1>3 DEF TaskOK

\* A step that leaves the buffer, the generation and the queues alone.
LEMMA QuietWake ==
  ASSUME WakeInv, SafeInv', NEW u \in Threads, NEW l, NEW k,
         pc' = [pc EXCEPT ![u] = l], call' = [call EXCEPT ![u] = k],
         ResultOK(l, k), l # "idle", u \in open_files,
         PollOK(u, l, k, read_queue, write_queue),
         UNCHANGED <<ringVars, state_generation, shutting_down, sleepVars, open_files>>,
         WR(pc[u], call[u]) => WR(l, k),
         WW(pc[u], call[u]) => WW(l, k),
         u \notin awake =>
           /\ QueuedOK(u, l, k, read_queue, write_queue)
           /\ ReaderDue(l, k, len, state_generation) => ReadersComing
           /\ WriterDue(l, k, capacity, len, state_generation) => WritersComing
  PROVE  WakeInv'
<1>1. /\ len' = len /\ capacity' = capacity /\ state_generation' = state_generation
      /\ read_queue' = read_queue /\ write_queue' = write_queue /\ awake' = awake
      /\ open_files' = open_files /\ shutting_down' = shutting_down
  BY DEF ringVars, sleepVars
<1>2. /\ pc'[u] = l /\ call'[u] = k
      /\ \A t \in Threads \ {u} : pc'[t] = pc[t] /\ call'[t] = call[t]
  BY DEF WakeInv, SafeInv, TypeOK
<1>3. ReadersComing => ReadersComing'
  <2> SUFFICES ASSUME NEW v \in Threads, WR(pc[v], call[v])
               PROVE  \E t \in Threads : WR(pc'[t], call'[t])
    BY DEF ReadersComing, WR
  <2> QED
    BY <1>2
<1>4. WritersComing => WritersComing'
  <2> SUFFICES ASSUME NEW v \in Threads, WW(pc[v], call[v])
               PROVE  \E t \in Threads : WW(pc'[t], call'[t])
    BY DEF WritersComing, WW
  <2> QED
    BY <1>2
<1>5. PollOK(u, l, k, read_queue', write_queue')
  BY <1>1
<1>6. u \notin awake' =>
        /\ QueuedOK(u, l, k, read_queue', write_queue')
        /\ ReaderDue(l, k, len', state_generation') => ReadersComing'
        /\ WriterDue(l, k, capacity', len', state_generation') => WritersComing'
  BY <1>1, <1>3, <1>4
<1>7. \A t \in Threads \ {u} :
        /\ t \notin awake' => t \notin awake
        /\ t \in read_queue => t \in read_queue' \/ (t \in awake' /\ call[t].op \notin Polls)
        /\ t \in write_queue => t \in write_queue' \/ (t \in awake' /\ call[t].op \notin Polls)
  BY <1>1
<1>8. read_queue' \cup write_queue' \subseteq read_queue \cup write_queue \cup {u}
  BY <1>1
<1>9. WR(l, k) \/ ((len' > 0 => len > 0) /\ state_generation' = state_generation)
  BY <1>1
<1>10. WW(l, k) \/ (/\ capacity' > len' => capacity > len
                    /\ capacity' = capacity /\ state_generation' = state_generation)
  BY <1>1
<1> QED
  BY <1>1, <1>5, <1>6, <1>7, <1>8, <1>9, <1>10, WakeStep

\* A step that changes the buffer or the generation and owes the wake-ups.
LEMMA RingWake ==
  ASSUME WakeInv, SafeInv', NEW u \in Threads, NEW l, NEW k,
         pc' = [pc EXCEPT ![u] = l], call' = [call EXCEPT ![u] = k],
         ResultOK(l, k), l # "idle", u \in open_files, u \in awake,
         k.op \notin Polls,
         UNCHANGED <<shutting_down, sleepVars, open_files>>,
         WR(pc[u], call[u]) => WR(l, k),
         WW(pc[u], call[u]) => WW(l, k),
         WR(l, k) \/ ((len' > 0 => len > 0) /\ state_generation' = state_generation),
         WW(l, k) \/ (/\ capacity' > len' => capacity > len
                      /\ capacity' = capacity /\ state_generation' = state_generation)
  PROVE  WakeInv'
<1>1. /\ read_queue' = read_queue /\ write_queue' = write_queue /\ awake' = awake
      /\ open_files' = open_files /\ shutting_down' = shutting_down
  BY DEF sleepVars
<1>2. PollOK(u, l, k, read_queue', write_queue')
  BY DEF PollOK
<1>3. \A t \in Threads \ {u} :
        /\ t \notin awake' => t \notin awake
        /\ t \in read_queue => t \in read_queue' \/ (t \in awake' /\ call[t].op \notin Polls)
        /\ t \in write_queue => t \in write_queue' \/ (t \in awake' /\ call[t].op \notin Polls)
  BY <1>1
<1>4. read_queue' \cup write_queue' \subseteq read_queue \cup write_queue \cup {u}
  BY <1>1
<1>5. u \in awake'
  BY <1>1
<1> QED
  BY <1>1, <1>2, <1>3, <1>4, <1>5, WakeStep

\* A step in which a task that owes no wake-up queues itself or stops waiting.
LEMMA SleepWake ==
  ASSUME WakeInv, SafeInv', NEW u \in Threads, NEW l, NEW k,
         pc' = [pc EXCEPT ![u] = l], call' = [call EXCEPT ![u] = k],
         ResultOK(l, k), pc[u] \in Waits \cup {"poll_reg", "poll_wait", "return"},
         l = "idle" => u \notin read_queue' \cup write_queue',
         PollOK(u, l, k, read_queue', write_queue'),
         UNCHANGED <<ringVars, controlVars, open_files>>,
         read_queue' \cup {u} = read_queue \cup {u},
         write_queue' \cup {u} = write_queue \cup {u},
         awake' \cup {u} = awake \cup {u},
         u \notin awake' =>
           /\ QueuedOK(u, l, k, read_queue', write_queue')
           /\ ~ReaderDue(l, k, len, state_generation)
           /\ ~WriterDue(l, k, capacity, len, state_generation)
  PROVE  WakeInv'
<1>1. /\ len' = len /\ capacity' = capacity /\ state_generation' = state_generation
      /\ open_files' = open_files /\ shutting_down' = shutting_down
  BY DEF ringVars, controlVars
<1>2. ~WR(pc[u], call[u]) /\ ~WW(pc[u], call[u]) /\ pc[u] # "idle"
  BY DEF WR, WW, Waits
<1>3. u \in open_files
  BY <1>2, Actor
<1>4. \A t \in Threads \ {u} :
        /\ t \notin awake' => t \notin awake
        /\ t \in read_queue => t \in read_queue' \/ (t \in awake' /\ call[t].op \notin Polls)
        /\ t \in write_queue => t \in write_queue' \/ (t \in awake' /\ call[t].op \notin Polls)
  OBVIOUS
<1>5. read_queue' \cup write_queue' \subseteq read_queue \cup write_queue \cup {u}
  OBVIOUS
<1>6. WR(l, k) \/ ((len' > 0 => len > 0) /\ state_generation' = state_generation)
  BY <1>1
<1>7. WW(l, k) \/ (/\ capacity' > len' => capacity > len
                   /\ capacity' = capacity /\ state_generation' = state_generation)
  BY <1>1
<1>8. u \notin awake' =>
        /\ QueuedOK(u, l, k, read_queue', write_queue')
        /\ ReaderDue(l, k, len', state_generation') => ReadersComing'
        /\ WriterDue(l, k, capacity', len', state_generation') => WritersComing'
  BY <1>1
<1> QED
  BY <1>1, <1>2, <1>3, <1>4, <1>5, <1>6, <1>7, <1>8, WakeStep

\* A wake_up, after which the actor only has its return, or the other queue, ahead.
LEMMA WakeQueues ==
  ASSUME WakeInv, SafeInv', NEW u \in Threads, NEW l \in {"return", "wake_w"},
         pc' = [pc EXCEPT ![u] = l], call' = call,
         pc[u] \in {"wake", "wake_r", "wake_w"},
         ResultOK(l, call[u]),
         UNCHANGED <<ringVars, controlVars, open_files>>,
         WakeReadQueue \/ WakeWriteQueue,
         WR(pc[u], call[u]) => WR(l, call[u]) \/ WakeReadQueue,
         WW(pc[u], call[u]) => WW(l, call[u]) \/ WakeWriteQueue
  PROVE  WakeInv'
<1>1. /\ len' = len /\ capacity' = capacity /\ state_generation' = state_generation
      /\ open_files' = open_files /\ shutting_down' = shutting_down
  BY DEF ringVars, controlVars
<1>2. pc[u] # "idle" /\ pc[u] \notin Waits /\ l # "idle"
  BY DEF Waits
<1>3. /\ u \in open_files /\ call' = [call EXCEPT ![u] = call[u]] /\ call[u].op \notin Polls
  BY <1>2, Actor DEF CallOK, PlaceOK, ReadWrite, Controls, Polls
<1>4. u \in awake
  BY <1>2, <1>3, Actor DEF QueuedOK
<1>5. /\ u \in awake' /\ awake \subseteq awake'
      /\ read_queue' \subseteq read_queue /\ write_queue' \subseteq write_queue
      /\ \A t \in Threads : t \in read_queue =>
           t \in read_queue' \/ (t \in awake' /\ call[t].op \notin Polls)
      /\ \A t \in Threads : t \in write_queue =>
           t \in write_queue' \/ (t \in awake' /\ call[t].op \notin Polls)
      /\ WakeReadQueue => read_queue \subseteq awake'
      /\ WakeWriteQueue => write_queue \subseteq awake'
  BY <1>4 DEF WakeReadQueue, WakeWriteQueue, Remaining
<1>6. PollOK(u, l, call[u], read_queue', write_queue')
  BY <1>3 DEF PollOK
<1>7. \A t \in Threads \ {u} :
        /\ t \notin awake' => t \notin awake
        /\ t \in read_queue => t \in read_queue' \/ (t \in awake' /\ call[t].op \notin Polls)
        /\ t \in write_queue => t \in write_queue' \/ (t \in awake' /\ call[t].op \notin Polls)
  BY <1>5
<1>8. read_queue' \cup write_queue' \subseteq read_queue \cup write_queue \cup {u}
  BY <1>5
<1>9. /\ WR(pc[u], call[u]) => WR(l, call[u]) \/ read_queue \ {u} \subseteq awake'
      /\ WW(pc[u], call[u]) => WW(l, call[u]) \/ write_queue \ {u} \subseteq awake'
  BY <1>5
<1>10. WR(l, call[u]) \/ ((len' > 0 => len > 0) /\ state_generation' = state_generation)
  BY <1>1
<1>11. WW(l, call[u]) \/ (/\ capacity' > len' => capacity > len
                          /\ capacity' = capacity /\ state_generation' = state_generation)
  BY <1>1
<1> QED
  BY <1>1, <1>2, <1>3, <1>5, <1>6, <1>7, <1>8, <1>9, <1>10, <1>11, WakeStep

-----------------------------------------------------------------------------
(***************************************************************************)
(* The steps, one by one.                                                  *)
(***************************************************************************)
LEMMA InitWake == Init => WakeInv
<1> SUFFICES ASSUME Init PROVE WakeInv
  OBVIOUS
<1>1. SafeInv
  BY InitSafe
<1>2. FileInv
  BY DEF Init, FileInv
<1>3. ASSUME NEW t \in Threads
      PROVE  /\ ResultOK(pc[t], call[t]) /\ TaskOK(t)
             /\ PollOK(t, pc[t], call[t], read_queue, write_queue)
  <2>1. pc[t] = "idle" /\ call[t].op = "none" /\ t \in awake
    BY DEF Init, NoCall, NewCall
  <2> QED
    BY <2>1 DEF ResultOK, TaskOK, PollOK, Controls, Polls
<1> QED
  BY <1>1, <1>2, <1>3 DEF WakeInv

LEMMA FilesWake ==
  ASSUME WakeInv, SafeInv', NEW t \in Threads, Open(t) \/ Release(t) \/ Signal(t)
  PROVE  WakeInv'
<1>1. UNCHANGED <<ringVars, controlVars, lock, sleepVars, pc, call>>
  BY DEF Open, Release, Signal
<1>2. /\ pc' = pc /\ call' = call /\ len' = len /\ capacity' = capacity
      /\ state_generation' = state_generation /\ shutting_down' = shutting_down
      /\ read_queue' = read_queue /\ write_queue' = write_queue /\ awake' = awake
  BY <1>1 DEF ringVars, controlVars, sleepVars
<1>3. FileInv'
  <2>1. /\ \A u \in Threads : pc[u] = "idle" \/ u \in open_files
        /\ \A u \in read_queue \cup write_queue : pc[u] # "idle"
        /\ shutting_down => open_files = {}
    BY DEF WakeInv, FileInv
  <2>2. \/ ~shutting_down /\ open_files' = open_files \cup {t}
        \/ pc[t] = "idle" /\ open_files' = open_files \ {t}
        \/ open_files' = open_files
    BY DEF Open, Release, Signal
  <2> QED
    BY <1>2, <2>1, <2>2 DEF FileInv
<1>4. (\A u \in Threads : ResultOK(pc[u], call[u]))'
  BY <1>2 DEF WakeInv, ResultOK
<1>5. (\A u \in Threads : PollOK(u, pc[u], call[u], read_queue, write_queue))'
  BY <1>2 DEF WakeInv, PollOK
<1>6. (\A u \in Threads : TaskOK(u))'
  BY <1>2 DEF WakeInv, TaskOK, QueuedOK, ReaderDue, WriterDue, ReadersComing, WritersComing, WR, WW
<1> QED
  BY <1>3, <1>4, <1>5, <1>6 DEF WakeInv

\* No task is in the driver when the module goes, so there is no one to wake.
LEMMA UnloadWake ==
  ASSUME WakeInv, SafeInv', Unload
  PROVE  WakeInv'
<1>1. /\ pc' = pc /\ call' = call /\ open_files' = open_files /\ open_files = {}
      /\ read_queue' = read_queue /\ write_queue' = write_queue /\ awake' = awake
  BY DEF Unload, Unreferenced, sleepVars
<1>2. \A u \in Threads : pc[u] = "idle"
  BY <1>1 DEF WakeInv, FileInv
<1>3. FileInv'
  BY <1>1 DEF WakeInv, FileInv
<1>4. (\A u \in Threads : ResultOK(pc[u], call[u]))'
  BY <1>1 DEF WakeInv, ResultOK
<1>5. (\A u \in Threads : PollOK(u, pc[u], call[u], read_queue, write_queue))'
  BY <1>1 DEF WakeInv, PollOK
<1>6. ASSUME NEW u \in Threads PROVE TaskOK(u)'
  <2> SUFFICES ASSUME u \notin awake PROVE FALSE
    BY <1>1 DEF TaskOK
  <2>1. QueuedOK(u, pc[u], call[u], read_queue, write_queue)
    BY Actor
  <2>2. u \in read_queue \cup write_queue
    BY <2>1 DEF QueuedOK, ReadWrite
  <2> QED
    BY <1>2, <2>2 DEF WakeInv, FileInv
<1> QED
  BY <1>3, <1>4, <1>5, <1>6 DEF WakeInv

LEMMA EnterWake ==
  ASSUME WakeInv, SafeInv', NEW t \in Threads,
         NEW o \in OpKinds, NEW n \in Nat, NEW payload \in Seq(Byte), NEW result \in Int,
         NEW l \in Entries, Enter(t, o, n, payload, result, l),
         o \in Controls /\ l = "mutex" => result = 0,
         o = "read" => l = "lock" \/ (l = "return" /\ n = 0),
         o \in Polls => l = "poll_reg"
  PROVE  WakeInv'
<1> DEFINE k == NewCall(o, n, payload, result)
<1>1. k.op = o /\ k.count = n /\ k.ret = result
  BY FreshCall
<1>2. /\ pc' = [pc EXCEPT ![t] = l] /\ call' = [call EXCEPT ![t] = k]
      /\ pc[t] = "idle" /\ t \in open_files
      /\ UNCHANGED <<ringVars, controlVars, lock, sleepVars, open_files, signal>>
  BY DEF Enter, Goto
<1> HIDE DEF k
<1>3. ResultOK(l, k)
  BY <1>1 DEF ResultOK, Entries
<1>4. t \in awake
  <2> SUFFICES ASSUME t \notin awake PROVE FALSE
    OBVIOUS
  <2>1. t \in read_queue \cup write_queue
    BY Actor DEF QueuedOK, ReadWrite
  <2> QED
    BY <1>2, <2>1 DEF WakeInv, FileInv
<1>5. ~WR(pc[t], call[t]) /\ ~WW(pc[t], call[t]) /\ l # "idle"
  BY <1>2 DEF WR, WW, Entries
<1>6. PollOK(t, l, k, read_queue, write_queue)
  BY <1>1 DEF PollOK
<1>7. UNCHANGED <<ringVars, state_generation, shutting_down, sleepVars, open_files>>
  BY <1>2 DEF controlVars
<1> QED
  BY <1>2, <1>3, <1>4, <1>5, <1>6, <1>7, QuietWake

LEMMA CallWake ==
  ASSUME WakeInv, SafeInv', NEW t \in Threads, Call(t)
  PROVE  WakeInv'
<1>0. << >> \in Seq(Byte) /\ 0 \in Nat /\ 0 \in Int
  OBVIOUS
<1>1. CASE \E n \in Counts : ReadCall(t, n)
  <2>1. PICK n \in Nat :
          Enter(t, "read", n, << >>, 0, IF n = 0 THEN "return" ELSE "lock")
    BY <1>1, InputAssumption DEF ReadCall
  <2>2. PICK l \in Entries : /\ Enter(t, "read", n, << >>, 0, l)
                             /\ l = "lock" \/ (l = "return" /\ n = 0)
    BY <2>1 DEF Entries
  <2>3. "read" \in OpKinds /\ "read" \notin Controls /\ "read" \notin Polls
    BY DEF OpKinds, Controls, Polls
  <2> QED
    BY <1>0, <2>2, <2>3, EnterWake
<1>2. CASE \E payload \in Payloads : WriteCall(t, payload)
  <2>1. PICK payload \in Seq(Byte), l \in Entries :
          Enter(t, "write", Len(payload), payload, 0, l)
    BY <1>2, InputAssumption DEF WriteCall, Entries
  <2>2. "write" \in OpKinds /\ "write" \notin Controls /\ "write" \notin Polls
    BY DEF OpKinds, Controls, Polls
  <2>3. Len(payload) \in Nat
    BY <2>1
  <2> QED
    BY <1>0, <2>1, <2>2, <2>3, EnterWake
<1>3. CASE \E o \in OpKinds : PlainIoctl(t, o)
  <2>1. PICK o \in OpKinds, l \in Entries :
          o \in Queries \cup {"clear", "reset_stats"} /\ Enter(t, o, 0, << >>, 0, l)
    BY <1>3 DEF PlainIoctl, Entries
  <2>2. o # "read" /\ o \notin Polls
    BY <2>1 DEF Queries, Polls
  <2> QED
    BY <1>0, <2>1, <2>2, EnterWake
<1>4. CASE BadIoctl(t)
  <2>1. /\ "bad_ioctl" \in OpKinds /\ "bad_ioctl" \notin Controls /\ "bad_ioctl" \notin Polls
        /\ "failing" \in Entries /\ ENOTTY \in Int
    BY DEF OpKinds, Controls, Polls, Entries, ENOTTY
  <2> QED
    BY <1>0, <1>4, <2>1, EnterWake DEF BadIoctl
<1>5. CASE \E o \in {"set_capacity", "set_mode"}, n \in Nat : ArgIoctl(t, o, n)
  <2>1. PICK o \in {"set_capacity", "set_mode"}, n \in Nat : ArgIoctl(t, o, n)
    BY <1>5
  <2>2. PICK l \in {"failing", "mutex"}, result \in {EFAULT, EINVAL, 0} :
          /\ Enter(t, o, n, << >>, result, l)
          /\ l = "mutex" => result = 0
    BY <2>1 DEF ArgIoctl
  <2>3. result \in Int /\ o \in OpKinds /\ l \in Entries /\ o # "read" /\ o \notin Polls
    BY <2>1, <2>2 DEF EFAULT, EINVAL, OpKinds, Entries, Polls
  <2> QED
    BY <1>0, <2>2, <2>3, EnterWake
<1>6. CASE \E o \in Polls : PollCall(t, o)
  <2>1. PICK o \in Polls : Enter(t, o, 0, << >>, 0, "poll_reg")
    BY <1>6 DEF PollCall
  <2>2. o \in OpKinds /\ o \notin Controls /\ o # "read" /\ "poll_reg" \in Entries
    BY <2>1 DEF OpKinds, Polls, Controls, Entries
  <2> QED
    BY <1>0, <2>1, <2>2, EnterWake
<1> QED
  BY <1>1, <1>2, <1>3, <1>4, <1>5, <1>6, InputAssumption DEF Call

LEMMA MutexWake ==
  ASSUME WakeInv, SafeInv', NEW t \in Threads, Acquire(t) \/ LockInterrupted(t) \/ Unlock(t)
  PROVE  WakeInv'
<1>0. /\ call[t] \in CallRecord /\ CallOK(pc[t], call[t]) /\ ResultOK(pc[t], call[t])
      /\ PollOK(t, pc[t], call[t], read_queue, write_queue)
      /\ [call EXCEPT ![t] = call[t]] = call
  BY Actor
<1>1. /\ pc[t] \in {"lock", "mutex", "unlock"}
      /\ UNCHANGED <<ringVars, state_generation, shutting_down, sleepVars, open_files>>
  BY DEF Acquire, LockInterrupted, Unlock, controlVars
<1>2. t \in open_files /\ pc[t] \notin Waits
  BY <1>1, Actor DEF Waits
<1>3. t \notin awake => /\ call[t].op \in Polls /\ t \in read_queue /\ t \in write_queue
  BY <1>2, Actor DEF QueuedOK
<1>4. CASE Acquire(t)
  <2>1. PICK l \in {"decide", "mask", "control"} : l = AfterLock(call[t].op)
    BY DEF AfterLock
  <2>2. /\ pc' = [pc EXCEPT ![t] = l] /\ call' = [call EXCEPT ![t] = call[t]]
        /\ pc[t] \in {"lock", "mutex"}
    BY <1>0, <1>4, <2>1 DEF Acquire, Goto
  <2>3. ResultOK(l, call[t])
    BY <1>0, <2>1, <2>2 DEF ResultOK, CallOK, PlaceOK, ReadWrite, Controls
  <2>4. PollOK(t, l, call[t], read_queue, write_queue)
    BY <1>0, <2>1, <2>2 DEF PollOK, CallOK, PlaceOK, ReadWrite, Polls
  <2>5. ~WR(pc[t], call[t]) /\ ~WW(pc[t], call[t]) /\ l # "idle"
    BY <2>1, <2>2 DEF WR, WW
  <2>6. ~ReaderDue(l, call[t], len, state_generation)
        /\ ~WriterDue(l, call[t], capacity, len, state_generation)
    BY <2>1 DEF ReaderDue, WriterDue
  <2>7. t \notin awake => QueuedOK(t, l, call[t], read_queue, write_queue)
    BY <1>3 DEF QueuedOK
  <2> QED
    BY <1>1, <1>2, <2>2, <2>3, <2>4, <2>5, <2>6, <2>7, QuietWake
<1>5. CASE LockInterrupted(t)
  <2> DEFINE k == [call[t] EXCEPT !.ret = ERESTARTSYS]
  <2>1. ERESTARTSYS \in Int /\ ERESTARTSYS # 0
    BY DEF ERESTARTSYS
  <2>2. k.op = call[t].op /\ k.ret = ERESTARTSYS
    BY <1>0, <2>1, RetUpdate DEF SameTransfer
  <2>3. /\ pc' = [pc EXCEPT ![t] = "failing"] /\ call' = [call EXCEPT ![t] = k] /\ pc[t] = "lock"
    BY <1>5 DEF LockInterrupted, Goto
  <2> HIDE DEF k
  <2>4. ResultOK("failing", k) /\ PollOK(t, "failing", k, read_queue, write_queue)
    BY <2>1, <2>2 DEF ResultOK, PollOK
  <2>5. t \in awake
    BY <1>0, <1>3, <2>3 DEF CallOK, PlaceOK, ReadWrite, Polls
  <2>6. ~WR(pc[t], call[t]) /\ ~WW(pc[t], call[t]) /\ "failing" # "idle"
    BY <2>3 DEF WR, WW
  <2> QED
    BY <1>1, <1>2, <2>3, <2>4, <2>5, <2>6, QuietWake
<1>6. CASE Unlock(t)
  <2> DEFINE l == AfterUnlock(call[t])
  <2>1. /\ pc' = [pc EXCEPT ![t] = l] /\ call' = [call EXCEPT ![t] = call[t]]
        /\ pc[t] = "unlock"
    BY <1>0, <1>6 DEF Unlock, Goto
  <2>2. call[t].op \in ReadWrite \cup Polls \cup Controls \cup Queries
    BY <1>0, <2>1 DEF CallOK, PlaceOK
  <2>3. call[t].op \in ReadWrite =>
          \/ call[t].phase = "first" /\ call[t].copied = 0 /\ l \in {"c_len", "c_cap"}
          \/ call[t].phase # "first" /\ call[t].copied > 0 /\ l = "wake"
          \/ call[t].phase # "first" /\ call[t].copied = 0 /\ l \in {"failing", "return"}
    BY <1>0, <2>1 DEF AfterUnlock, AfterTransfer, TestStart, ReadWrite, Controls, Polls,
                      CallOK, CountOK, CallRecord
  <2>4. call[t].op \in Controls =>
          \/ call[t].ret = 0 /\ l = "wake_r"
          \/ call[t].ret # 0 /\ l = "failing"
    BY DEF AfterUnlock, AfterControl, ReadWrite, Controls, Polls
  <2>5. call[t].op \in Polls =>
          \/ call[t].ret = 0 /\ l = "poll_wait"
          \/ call[t].ret # 0 /\ l = "return"
    BY DEF AfterUnlock, ReadWrite, Controls, Polls
  <2>6. call[t].op \in Queries => l = "copy_out"
    BY DEF AfterUnlock, ReadWrite, Controls, Polls, Queries
  <2> HIDE DEF l
  <2>7. ResultOK(l, call[t]) /\ l # "idle"
    BY <1>0, <2>1, <2>2, <2>3, <2>4, <2>5, <2>6
    DEF ResultOK, ReadWrite, Controls, Polls, Queries
  <2>8. PollOK(t, l, call[t], read_queue, write_queue)
    BY <1>0, <2>1 DEF PollOK
  <2>9. /\ WR(pc[t], call[t]) => WR(l, call[t])
        /\ WW(pc[t], call[t]) => WW(l, call[t])
    BY <1>0, <2>1, <2>3, <2>4 DEF WR, WW, ReadWrite, Controls, CallRecord
  <2>10. t \notin awake =>
           /\ QueuedOK(t, l, call[t], read_queue, write_queue)
           /\ ReaderDue(l, call[t], len, state_generation) => ReadersComing
           /\ WriterDue(l, call[t], capacity, len, state_generation) => WritersComing
    <3> SUFFICES ASSUME t \notin awake
                 PROVE  /\ QueuedOK(t, l, call[t], read_queue, write_queue)
                        /\ ReaderDue(l, call[t], len, state_generation) => ReadersComing
                        /\ WriterDue(l, call[t], capacity, len, state_generation)
                             => WritersComing
      OBVIOUS
    <3>1. QueuedOK(t, l, call[t], read_queue, write_queue)
      BY <1>3 DEF QueuedOK
    <3>2. ReaderDue(l, call[t], len, state_generation) =>
            ReaderDue(pc[t], call[t], len, state_generation)
      BY <1>3, <2>1, <2>5 DEF ReaderDue, Polls
    <3>3. WriterDue(l, call[t], capacity, len, state_generation) =>
            WriterDue(pc[t], call[t], capacity, len, state_generation)
      BY <1>3, <2>1, <2>5 DEF WriterDue, Polls
    <3> QED
      BY <3>1, <3>2, <3>3, Actor
  <2> QED
    BY <1>1, <1>2, <2>1, <2>7, <2>8, <2>9, <2>10, QuietWake
<1> QED
  BY <1>4, <1>5, <1>6

\* A task with the mutex that neither waits nor polls, and goes on to l.
LEMMA OwnerMoves ==
  ASSUME WakeInv, SafeInv', NEW t \in Threads, NEW l, NEW k,
         l # "idle", pc[t] \in {"decide", "control"}, call[t].op \notin Polls, k.op \notin Polls,
         pc' = [pc EXCEPT ![t] = l], call' = [call EXCEPT ![t] = k],
         ResultOK(l, k),
         UNCHANGED <<ringVars, state_generation, shutting_down, sleepVars, open_files>>
  PROVE  WakeInv'
<1>1. pc[t] \notin Waits /\ t \in open_files
  BY Actor DEF Waits
<1>2. t \in awake
  BY <1>1, Actor DEF QueuedOK
<1>3. ~WR(pc[t], call[t]) /\ ~WW(pc[t], call[t])
  BY DEF WR, WW
<1>4. PollOK(t, l, k, read_queue, write_queue)
  BY DEF PollOK
<1> QED
  BY <1>1, <1>2, <1>3, <1>4, QuietWake

LEMMA DecideWake ==
  ASSUME WakeInv, SafeInv', NEW t \in Threads, ReadDecide(t) \/ WriteDecide(t)
  PROVE  WakeInv'
<1>0. /\ call[t] \in CallRecord /\ CallOK(pc[t], call[t]) /\ ResultOK(pc[t], call[t])
      /\ [call EXCEPT ![t] = call[t]] = call
  BY Actor
<1>1. /\ pc[t] = "decide" /\ pc[t] \in {"decide", "control"}
      /\ call[t].op \in ReadWrite /\ call[t].op \notin Polls
      /\ call[t].op \notin Controls
      /\ UNCHANGED <<ringVars, state_generation, shutting_down, sleepVars, open_files>>
  BY DEF ReadDecide, WriteDecide, ReadWrite, Polls, Controls, controlVars
<1>2. ~shutting_down /\ state_generation \in Nat
  BY <1>1, Actor DEF WakeInv, SafeInv, TypeOK
<1>3. CASE \E code \in {EAGAIN, ENODEV} : Refuse(t, code)
  <2>1. PICK code \in Int : code # 0 /\ Refuse(t, code)
    BY <1>3 DEF EAGAIN, ENODEV
  <2> DEFINE k == [call[t] EXCEPT !.ret = code]
  <2>2. k.op = call[t].op /\ k.op \notin Polls /\ k.ret = code
    BY <1>0, <1>1, RetUpdate DEF SameTransfer
  <2>3. call' = [call EXCEPT ![t] = k] /\ pc' = [pc EXCEPT ![t] = "unlock"]
    BY <2>1 DEF Refuse, Goto
  <2> HIDE DEF k
  <2>4. ResultOK("unlock", k)
    BY <1>1, <2>1, <2>2 DEF ResultOK
  <2> QED
    BY <1>1, <2>2, <2>3, <2>4, OwnerMoves
<1>4. CASE \E blocked \in {"blocked_reads", "blocked_writes"} : Block(t, blocked)
  <2> DEFINE k == [call[t] EXCEPT !.seen = state_generation, !.phase = "first"]
  <2>1. k.op = call[t].op /\ k.op \notin Polls /\ k.phase = "first"
    BY <1>0, <1>1, <1>2, BlockUpdate DEF SameTransfer
  <2>2. call' = [call EXCEPT ![t] = k] /\ pc' = [pc EXCEPT ![t] = "unlock"]
    BY <1>4 DEF Block, Goto
  <2> HIDE DEF k
  <2>3. ResultOK("unlock", k)
    BY <1>1, <2>1 DEF ResultOK
  <2> QED
    BY <1>1, <2>1, <2>2, <2>3, OwnerMoves
<1>5. CASE pc' = [pc EXCEPT ![t] = "copy"] /\ UNCHANGED call
  <2>1. ResultOK("copy", call[t])
    BY <1>1 DEF ResultOK
  <2> QED
    BY <1>0, <1>1, <1>5, <2>1, OwnerMoves
<1>6. CASE /\ call' = [call EXCEPT ![t].count = Least(@, Available)]
           /\ pc' = [pc EXCEPT ![t] = "copy"]
  <2> DEFINE n == Least(call[t].count, Available)
             k == [call[t] EXCEPT !.count = n]
  <2>1. k.op = call[t].op /\ k.op \notin Polls
    BY <1>0, <1>1 DEF CallRecord
  <2>2. call' = [call EXCEPT ![t] = k]
    BY <1>6
  <2> HIDE DEF n, k
  <2>3. ResultOK("copy", k)
    BY <1>1, <2>1 DEF ResultOK
  <2> QED
    BY <1>1, <1>6, <2>1, <2>2, <2>3, OwnerMoves
<1>7. CASE ReadDecide(t)
  <2>1. ReadBreaks(t) => Stored # 0
    BY <1>2 DEF ReadBreaks
  <2> QED
    BY <1>3, <1>4, <1>5, <1>7, <2>1 DEF ReadDecide, Goto
<1>8. CASE WriteDecide(t)
  BY <1>2, <1>3, <1>4, <1>6, <1>8 DEF WriteDecide, Goto
<1> QED
  BY <1>7, <1>8

\* The locals after a chunk.
LEMMA AfterCopyFacts ==
  ASSUME WakeInv, NEW t \in Threads, call[t].op \in ReadWrite,
         NEW memory \in Seq(Slot), NEW n \in Nat, NEW missing \in Nat, NEW more,
         AfterCopy(t, memory, n, missing, more)
  PROVE  /\ pc'[t] \in {"copy", "unlock"} /\ call'[t] \in CallRecord
         /\ call' = [call EXCEPT ![t] = call'[t]] /\ pc' = [pc EXCEPT ![t] = pc'[t]]
         /\ call'[t].op = call[t].op /\ call'[t].copied = call[t].copied + n
         /\ pc'[t] = "unlock" => call'[t].ret # 0
<1> DEFINE total == call[t].copied + n
           goesOn == more /\ missing = 0
           ret == IF goesOn THEN 0 ELSE CopyResult(total, missing)
           l == IF goesOn THEN "copy" ELSE "unlock"
           k == [call[t] EXCEPT !.dst = memory, !.copied = total, !.missing = missing, !.ret = ret]
<1>1. call[t] \in CallRecord
  BY Actor
<1>2. total \in Nat
  BY <1>1, SMTT(30) DEF CallRecord
<1>3. l = "unlock" => ret # 0
  BY <1>2 DEF CopyResult, EFAULT
<1>r. ret \in Int
  BY <1>2 DEF CopyResult, EFAULT
<1>4. call' = [call EXCEPT ![t] = k] /\ pc' = [pc EXCEPT ![t] = l]
  BY DEF AfterCopy, Goto
<1>5. l \in {"copy", "unlock"}
  OBVIOUS
<1>k. k = [call[t] EXCEPT !.dst = memory, !.copied = total, !.missing = missing, !.ret = ret]
  OBVIOUS
<1>t. total = call[t].copied + n
  OBVIOUS
<1> HIDE DEF total, goesOn, ret, l, k
<1>6. /\ k \in CallRecord /\ k.op = call[t].op /\ k.copied = total /\ k.ret = ret
  BY <1>1, <1>2, <1>r, <1>k DEF CallRecord
<1>7. pc'[t] = l /\ call'[t] = k
  BY <1>4 DEF WakeInv, SafeInv, TypeOK
<1> QED
  BY <1>3, <1>4, <1>5, <1>6, <1>7, <1>t

LEMMA ChunkWake ==
  ASSUME WakeInv, SafeInv', NEW t \in Threads, ReadChunk(t) \/ WriteChunk(t)
  PROVE  WakeInv'
<1>0. call[t] \in CallRecord /\ CallOK(pc[t], call[t])
  BY Actor
<1>1. /\ pc[t] = "copy" /\ call[t].op \in ReadWrite
      /\ call[t].op \notin Polls /\ call[t].op \notin Controls
      /\ call[t].copied \in Nat
  BY <1>0 DEF ReadChunk, WriteChunk, ReadWrite, Polls, Controls, CallRecord
<1>2. t \in open_files /\ t \in awake
  BY <1>1, Actor DEF QueuedOK, Waits
<1>3. /\ capacity \in Nat /\ len \in Nat /\ len <= capacity
      /\ read_pos \in Nat /\ write_pos \in Nat /\ read_pos < capacity /\ write_pos < capacity
      /\ call[t].copied \in Nat /\ call[t].count \in Nat /\ call[t].copied <= call[t].count
  BY <1>0, <1>1, CapacityAssumption
  DEF WakeInv, SafeInv, TypeOK, RingTypeOK, RingShape, CallOK, CountOK, CallRecord
<1>d. data \in [0..capacity-1 -> Slot] /\ call[t].dst \in Seq(Slot)
  BY <1>0 DEF WakeInv, SafeInv, TypeOK, RingTypeOK, CallRecord
<1>4. CASE ReadChunk(t)
  <2> DEFINE left == call[t].count - call[t].copied
             chunk == Least(left, ReadSpan)
  <2>1. chunk \in Nat /\ chunk <= capacity - read_pos
    BY <1>3 DEF Least, ReadSpan
  <2>2. PICK missing \in Missing(t, chunk) :
          /\ Consume(chunk - missing)
          /\ AfterCopy(t, call[t].dst \o SpanBytes(chunk - missing), chunk - missing, missing,
                       chunk - missing < left /\ chunk - missing < len)
    BY <1>4 DEF ReadChunk, Transferred
  <2> DEFINE n == chunk - missing
  <2> HIDE DEF chunk
  <2>3. n \in Nat /\ missing \in Nat /\ n <= capacity - read_pos
    BY <1>3, <2>1, <2>2 DEF Missing
  <2>4. call[t].dst \o SpanBytes(n) \in Seq(Slot)
    <3> HIDE DEF n
    <3>1. ASSUME NEW i \in 1..n PROVE data[read_pos + i - 1] \in Slot
      <4>1. read_pos + i - 1 \in 0..capacity-1
        BY <1>3, <2>3
      <4> QED
        BY <1>d, <4>1
    <3>2. SpanBytes(n) \in Seq(Slot)
      BY <2>3, <3>1 DEF SpanBytes
    <3> QED
      BY <1>d, <3>2
  <2>f. /\ pc'[t] \in {"copy", "unlock"} /\ call'[t] \in CallRecord
        /\ call' = [call EXCEPT ![t] = call'[t]] /\ pc' = [pc EXCEPT ![t] = pc'[t]]
        /\ call'[t].op = call[t].op /\ call'[t].copied = call[t].copied + n
        /\ pc'[t] = "unlock" => call'[t].ret # 0
    BY <1>1, <2>2, <2>3, <2>4, AfterCopyFacts
  <2>5. PICK k \in CallRecord, l \in {"copy", "unlock"} :
          /\ call' = [call EXCEPT ![t] = k] /\ pc' = [pc EXCEPT ![t] = l]
          /\ k.op = call[t].op /\ k.copied = call[t].copied + n
          /\ l = "unlock" => k.ret # 0
    <3> HIDE DEF n
    <3> QED
      BY <2>f
  <2>6. /\ UNCHANGED <<shutting_down, sleepVars, open_files>>
        /\ state_generation' = state_generation
    BY <2>2 DEF AfterCopy, controlVars
  <2>7. capacity' = capacity /\ (n = 0 => len' = len) /\ len' <= len /\ len' \in Nat
    <3> HIDE DEF n
    <3>1. Consume(n)
      BY <2>2 DEF n
    <3> QED
      BY <1>3, <2>3, <3>1 DEF Consume, ringVars, Least
  <2>8. call[t].op = "read"
    BY <1>4 DEF ReadChunk
  <2> HIDE DEF n
  <2>9. ResultOK(l, k)
    BY <1>1, <2>5 DEF ResultOK
  <2>10. /\ WR(pc[t], call[t]) => WR(l, k)
         /\ WW(pc[t], call[t]) => WW(l, k)
         /\ n > 0 => WW(l, k)
    BY <1>1, <2>3, <2>5, <2>8 DEF WR, WW, ReadWrite
  <2>11. /\ WR(l, k) \/ ((len' > 0 => len > 0) /\ state_generation' = state_generation)
         /\ WW(l, k) \/ (/\ capacity' > len' => capacity > len
                         /\ capacity' = capacity /\ state_generation' = state_generation)
    BY <1>3, <2>3, <2>6, <2>7, <2>10
  <2>12. l # "idle" /\ k.op \notin Polls
    BY <1>1, <2>5
  <2> QED
    BY <1>2, <2>5, <2>6, <2>9, <2>10, <2>11, <2>12, RingWake
<1>5. CASE WriteChunk(t)
  <2> DEFINE left == call[t].count - call[t].copied
             chunk == Least(left, WriteSpan)
  <2>1. chunk \in Nat
    BY <1>3 DEF Least, WriteSpan, Available
  <2>2. PICK missing \in Missing(t, chunk) :
          /\ Commit(chunk - missing)
          /\ AfterCopy(t, << >>, chunk - missing, missing,
                       chunk - missing < left /\ chunk - missing < Available)
    BY <1>5 DEF WriteChunk, Transferred
  <2> DEFINE n == chunk - missing
  <2> HIDE DEF chunk
  <2>3. n \in Nat /\ missing \in Nat /\ << >> \in Seq(Slot)
    BY <2>1, <2>2 DEF Missing
  <2>f. /\ pc'[t] \in {"copy", "unlock"} /\ call'[t] \in CallRecord
        /\ call' = [call EXCEPT ![t] = call'[t]] /\ pc' = [pc EXCEPT ![t] = pc'[t]]
        /\ call'[t].op = call[t].op /\ call'[t].copied = call[t].copied + n
        /\ pc'[t] = "unlock" => call'[t].ret # 0
    BY <1>1, <2>2, <2>3, AfterCopyFacts
  <2>5. PICK k \in CallRecord, l \in {"copy", "unlock"} :
          /\ call' = [call EXCEPT ![t] = k] /\ pc' = [pc EXCEPT ![t] = l]
          /\ k.op = call[t].op /\ k.copied = call[t].copied + n
          /\ l = "unlock" => k.ret # 0
    <3> HIDE DEF n
    <3> QED
      BY <2>f
  <2>6. /\ UNCHANGED <<shutting_down, sleepVars, open_files>>
        /\ state_generation' = state_generation
    BY <2>2 DEF AfterCopy, controlVars
  <2>7. capacity' = capacity /\ (n = 0 => len' = len) /\ len <= len' /\ len' \in Nat
    <3> HIDE DEF n
    <3>1. Commit(n)
      BY <2>2 DEF n
    <3> QED
      BY <1>3, <2>3, <3>1 DEF Commit, Least, Available
  <2>8. call[t].op = "write"
    BY <1>5 DEF WriteChunk
  <2> HIDE DEF n
  <2>9. ResultOK(l, k)
    BY <1>1, <2>5 DEF ResultOK
  <2>10. /\ WR(pc[t], call[t]) => WR(l, k)
         /\ WW(pc[t], call[t]) => WW(l, k)
         /\ n > 0 => WR(l, k)
    BY <1>1, <2>3, <2>5, <2>8 DEF WR, WW, ReadWrite
  <2>11. /\ WR(l, k) \/ ((len' > 0 => len > 0) /\ state_generation' = state_generation)
         /\ WW(l, k) \/ (/\ capacity' > len' => capacity > len
                         /\ capacity' = capacity /\ state_generation' = state_generation)
    BY <1>3, <2>3, <2>6, <2>7, <2>10
  <2>12. l # "idle" /\ k.op \notin Polls
    BY <1>1, <2>5
  <2> QED
    BY <1>2, <2>5, <2>6, <2>9, <2>10, <2>11, <2>12, RingWake
<1> QED
  BY <1>4, <1>5

LEMMA StopWaitingWake ==
  ASSUME WakeInv, SafeInv', NEW t \in Threads, pc[t] \in Waits, StopWaiting(t),
         UNCHANGED <<ringVars, controlVars, open_files>>
  PROVE  WakeInv'
<1> DEFINE k == [call[t] EXCEPT !.phase = "none"]
<1>0. call[t] \in CallRecord /\ CallOK(pc[t], call[t])
  BY Actor
<1>1. k.op = call[t].op
  BY <1>0, PhaseUpdate DEF SameTransfer
<1>2. call' = [call EXCEPT ![t] = k] /\ pc' = [pc EXCEPT ![t] = "lock"]
  BY DEF StopWaiting, Goto
<1> HIDE DEF k
<1>3. ResultOK("lock", k) /\ PollOK(t, "lock", k, read_queue', write_queue') /\ "lock" # "idle"
  BY DEF ResultOK, PollOK
<1>4. /\ read_queue' \cup {t} = read_queue \cup {t}
      /\ write_queue' \cup {t} = write_queue \cup {t}
      /\ awake' \cup {t} = awake \cup {t} /\ t \in awake'
  BY DEF StopWaiting
<1>5. pc[t] \in Waits \cup {"poll_reg", "poll_wait", "return"}
  OBVIOUS
<1> QED
  BY <1>2, <1>3, <1>4, <1>5, SleepWake

LEMMA WaitWake ==
  ASSUME WakeInv, SafeInv', NEW t \in Threads,
         TestCapacity(t) \/ TestLen(t) \/ TestGeneration(t) \/ PrepareToWait(t) \/ Schedule(t)
  PROVE  WakeInv'
<1>0. /\ call[t] \in CallRecord /\ CallOK(pc[t], call[t]) /\ ResultOK(pc[t], call[t])
      /\ [call EXCEPT ![t] = call[t]] = call
  BY Actor
<1>1. /\ pc[t] \in Waits /\ pc[t] # "idle"
      /\ UNCHANGED <<ringVars, controlVars, open_files>>
  BY DEF TestCapacity, TestLen, TestGeneration, PrepareToWait, Schedule, Waits
<1>2. /\ t \in open_files /\ ~shutting_down
      /\ call[t].op \in ReadWrite /\ call[t].op \notin Polls /\ call[t].op \notin Controls
      /\ UNCHANGED <<state_generation, shutting_down>>
  BY <1>0, <1>1, Actor DEF CallOK, PlaceOK, ReadWrite, Polls, Controls, controlVars
<1>3. capacity \in Nat /\ len \in Nat /\ call[t].cap_seen \in Nat
  BY <1>0, CapacityAssumption DEF WakeInv, SafeInv, TypeOK, RingTypeOK, CallRecord
<1>4. ~WR(pc[t], call[t]) /\ ~WW(pc[t], call[t])
  BY <1>1 DEF WR, WW, Waits
<1>5. ASSUME NEW l, NEW k, l \in Waits \cup {"failing"}, k.op = call[t].op,
             l = "failing" => k.ret # 0,
             pc' = [pc EXCEPT ![t] = l], call' = [call EXCEPT ![t] = k], UNCHANGED sleepVars,
             t \notin awake =>
               /\ QueuedOK(t, l, k, read_queue, write_queue)
               /\ ReaderDue(l, k, len, state_generation) => ReadersComing
               /\ WriterDue(l, k, capacity, len, state_generation) => WritersComing
      PROVE  WakeInv'
  <2>1. ResultOK(l, k) /\ l # "idle"
    BY <1>2, <1>5 DEF ResultOK, Waits
  <2>2. PollOK(t, l, k, read_queue, write_queue)
    BY <1>2, <1>5 DEF PollOK
  <2>3. UNCHANGED <<ringVars, state_generation, shutting_down, sleepVars, open_files>>
    BY <1>1, <1>2, <1>5
  <2> QED
    BY <1>2, <1>4, <1>5, <2>1, <2>2, <2>3, QuietWake
<1>6. CASE TestCapacity(t)
  <2> DEFINE k == [call[t] EXCEPT !.cap_seen = capacity]
  <2>1. k.op = call[t].op /\ k.phase = call[t].phase /\ k.cap_seen = capacity
    BY <1>0, <1>3, CapSeenUpdate DEF SameTransfer
  <2>2. /\ call' = [call EXCEPT ![t] = k] /\ pc' = [pc EXCEPT ![t] = "c_len"]
        /\ UNCHANGED sleepVars
    BY <1>6 DEF TestCapacity, Goto
  <2> HIDE DEF k
  <2>3. t \notin awake => QueuedOK(t, "c_len", k, read_queue, write_queue)
    BY <1>1, <2>1, Actor DEF QueuedOK, Waits
  <2>4. /\ ~ReaderDue("c_len", k, len, state_generation)
        /\ ~WriterDue("c_len", k, capacity, len, state_generation)
        /\ "c_len" \in Waits \cup {"failing"} /\ "c_len" # "failing"
    BY <1>2, <2>1 DEF ReaderDue, WriterDue, Polls, Waits
  <2> QED
    BY <1>5, <2>1, <2>2, <2>3, <2>4
<1>7. CASE TestLen(t)
  <2>1. CASE StopWaiting(t)
    BY <1>1, <2>1, StopWaitingWake
  <2>2. CASE /\ ~(IF call[t].op = "read" THEN len > 0 ELSE call[t].cap_seen > len)
             /\ Goto(t, "c_gen") /\ UNCHANGED <<sleepVars, call>>
    <3>0. pc[t] = "c_len"
      BY <1>7 DEF TestLen
    <3>1. /\ call' = [call EXCEPT ![t] = call[t]] /\ pc' = [pc EXCEPT ![t] = "c_gen"]
          /\ UNCHANGED sleepVars /\ "c_gen" \in Waits \cup {"failing"} /\ "c_gen" # "failing"
      BY <1>0, <2>2 DEF Goto, Waits
    <3>2. t \notin awake => QueuedOK(t, "c_gen", call[t], read_queue, write_queue)
      BY <1>1, Actor DEF QueuedOK, Waits
    <3>3. ~ReaderDue("c_gen", call[t], len, state_generation)
      BY <1>2, <1>3, <2>2 DEF ReaderDue, ReadWrite
    <3>4. WriterDue("c_gen", call[t], capacity, len, state_generation) =>
            WriterDue(pc[t], call[t], capacity, len, state_generation)
      BY <1>2, <1>3, <2>2, <3>0 DEF WriterDue, ReadWrite, Polls
    <3>5. t \notin awake =>
            (WriterDue("c_gen", call[t], capacity, len, state_generation) => WritersComing)
      BY <3>4, Actor
    <3> QED
      BY <1>5, <3>1, <3>2, <3>3, <3>5
  <2> QED
    BY <1>2, <1>7, <2>1, <2>2 DEF TestLen
<1>8. CASE TestGeneration(t)
  <2>0. pc[t] = "c_gen"
    BY <1>8 DEF TestGeneration
  <2>1. CASE StopWaiting(t)
    BY <1>1, <2>1, StopWaitingWake
  <2>2. CASE /\ call[t].phase = "first" /\ Goto(t, "prepare") /\ UNCHANGED <<sleepVars, call>>
    <3>1. /\ call' = [call EXCEPT ![t] = call[t]] /\ pc' = [pc EXCEPT ![t] = "prepare"]
          /\ UNCHANGED sleepVars /\ "prepare" \in Waits \cup {"failing"} /\ "prepare" # "failing"
      BY <1>0, <2>2 DEF Goto, Waits
    <3>2. t \in awake
      BY <1>2, <2>2, Actor DEF QueuedOK
    <3> QED
      BY <1>5, <3>1, <3>2
  <2>3. CASE /\ state_generation = call[t].seen
             /\ call[t].phase = "queued" /\ Goto(t, "schedule") /\ UNCHANGED <<sleepVars, call>>
    <3>1. /\ call' = [call EXCEPT ![t] = call[t]] /\ pc' = [pc EXCEPT ![t] = "schedule"]
          /\ UNCHANGED sleepVars /\ "schedule" \in Waits \cup {"failing"}
          /\ "schedule" # "failing"
      BY <1>0, <2>3 DEF Goto, Waits
    <3>2. t \notin awake => QueuedOK(t, "schedule", call[t], read_queue, write_queue)
      BY <1>1, Actor DEF QueuedOK, Waits
    <3>3. /\ ReaderDue("schedule", call[t], len, state_generation) =>
               ReaderDue(pc[t], call[t], len, state_generation)
          /\ WriterDue("schedule", call[t], capacity, len, state_generation) =>
               WriterDue(pc[t], call[t], capacity, len, state_generation)
      BY <2>0, <2>3 DEF ReaderDue, WriterDue
    <3>4. t \notin awake =>
            /\ ReaderDue("schedule", call[t], len, state_generation) => ReadersComing
            /\ WriterDue("schedule", call[t], capacity, len, state_generation) => WritersComing
      BY <3>3, Actor
    <3> QED
      BY <1>5, <3>1, <3>2, <3>4
  <2>4. CASE /\ call[t].phase = "interrupted" /\ Goto(t, "failing") /\ UNCHANGED sleepVars
             /\ call' = [call EXCEPT ![t].phase = "none", ![t].ret = ERESTARTSYS]
    <3> DEFINE k == [call[t] EXCEPT !.phase = "none", !.ret = ERESTARTSYS]
    <3>0. ERESTARTSYS \in Int /\ ERESTARTSYS # 0
      BY DEF ERESTARTSYS
    <3>1. k.op = call[t].op /\ k.ret # 0
      BY <1>0, <3>0, InterruptUpdate DEF SameTransfer
    <3>2. /\ call' = [call EXCEPT ![t] = k] /\ pc' = [pc EXCEPT ![t] = "failing"]
          /\ UNCHANGED sleepVars /\ "failing" \in Waits \cup {"failing"}
      BY <2>4 DEF Goto
    <3>3. t \in awake
      BY <1>2, <2>4, Actor DEF QueuedOK
    <3> HIDE DEF k
    <3> QED
      BY <1>5, <3>1, <3>2, <3>3
  <2> QED
    BY <1>8, <2>1, <2>2, <2>3, <2>4 DEF TestGeneration, KeepWaiting
<1>9. CASE PrepareToWait(t)
  <2>1. PICK x \in {"interrupted", "queued"} :
          /\ call' = [call EXCEPT ![t].phase = x]
          /\ x = "queued" <=> t \notin signal
    BY <1>9 DEF PrepareToWait
  <2> DEFINE k == [call[t] EXCEPT !.phase = x]
  <2>2. k.op = call[t].op /\ k.phase = x
    BY <1>0, PhaseUpdate DEF SameTransfer
  <2>3. PICK l \in {"c_len", "c_cap"} : pc' = [pc EXCEPT ![t] = l] /\ (l = "c_len" <=> k.op = "read")
    BY <1>9, <2>2 DEF PrepareToWait, Goto, TestStart
  <2>4. call' = [call EXCEPT ![t] = k]
    BY <2>1
  <2>5. /\ read_queue' \cup {t} = read_queue \cup {t}
        /\ write_queue' \cup {t} = write_queue \cup {t}
        /\ awake' \cup {t} = awake \cup {t}
        /\ t \notin awake' => /\ t \notin signal
                              /\ call[t].op = "read" => t \in read_queue'
                              /\ call[t].op # "read" => t \in write_queue'
    <3>1. CASE call[t].op = "read"
      BY <1>9, <3>1 DEF PrepareToWait
    <3>2. CASE call[t].op # "read"
      BY <1>9, <3>2 DEF PrepareToWait
    <3> QED
      BY <3>1, <3>2
  <2> HIDE DEF k
  <2>6. /\ ResultOK(l, k) /\ PollOK(t, l, k, read_queue', write_queue')
        /\ l # "idle"
    BY <1>2, <2>2, <2>3 DEF ResultOK, PollOK
  <2>7. t \notin awake' => QueuedOK(t, l, k, read_queue', write_queue')
    BY <1>2, <2>1, <2>2, <2>3, <2>5 DEF QueuedOK, Waits, ReadWrite
  <2>8. /\ ~ReaderDue(l, k, len, state_generation)
        /\ ~WriterDue(l, k, capacity, len, state_generation)
    BY <1>2, <2>2, <2>3 DEF ReaderDue, WriterDue, Polls
  <2>9. pc[t] \in Waits \cup {"poll_reg", "poll_wait", "return"}
    BY <1>1
  <2> QED
    BY <1>1, <2>3, <2>4, <2>5, <2>6, <2>7, <2>8, <2>9, SleepWake
<1>10. CASE Schedule(t)
  <2>1. /\ pc' = [pc EXCEPT ![t] = "prepare"] /\ call' = [call EXCEPT ![t] = call[t]]
        /\ read_queue' \cup {t} = read_queue \cup {t}
        /\ write_queue' \cup {t} = write_queue \cup {t}
        /\ awake' \cup {t} = awake \cup {t} /\ t \in awake'
    BY <1>0, <1>10 DEF Schedule, Goto
  <2>2. /\ ResultOK("prepare", call[t]) /\ "prepare" # "idle"
        /\ PollOK(t, "prepare", call[t], read_queue', write_queue')
    BY <1>2 DEF ResultOK, PollOK
  <2>3. pc[t] \in Waits \cup {"poll_reg", "poll_wait", "return"}
    BY <1>1
  <2> QED
    BY <1>1, <2>1, <2>2, <2>3, SleepWake
<1> QED
  BY <1>6, <1>7, <1>8, <1>9, <1>10

LEMMA NotifyWake ==
  ASSUME WakeInv, SafeInv', NEW t \in Threads, Wake(t) \/ WakeReaders(t) \/ WakeWriters(t)
  PROVE  WakeInv'
<1>0. /\ call[t] \in CallRecord /\ CallOK(pc[t], call[t]) /\ ResultOK(pc[t], call[t])
  BY Actor
<1>1. /\ pc[t] \in {"wake", "wake_r", "wake_w"} /\ call' = call
      /\ UNCHANGED <<ringVars, controlVars, open_files>>
  BY DEF Wake, WakeReaders, WakeWriters
<1>2. CASE Wake(t)
  <2>1. /\ pc[t] = "wake" /\ pc' = [pc EXCEPT ![t] = "return"] /\ "return" \in {"return", "wake_w"}
        /\ IF call[t].op = "read" THEN WakeWriteQueue ELSE WakeReadQueue
    BY <1>2 DEF Wake, Goto, WakeOther
  <2>2. call[t].op \in ReadWrite
    BY <1>0, <2>1 DEF CallOK, PlaceOK
  <2>3. ResultOK("return", call[t])
    BY <1>0, <2>1, <2>2 DEF ResultOK
  <2>4. /\ WakeReadQueue \/ WakeWriteQueue
        /\ WR(pc[t], call[t]) => WR("return", call[t]) \/ WakeReadQueue
        /\ WW(pc[t], call[t]) => WW("return", call[t]) \/ WakeWriteQueue
    BY <2>1, <2>2 DEF WR, WW, ReadWrite, Controls
  <2> QED
    BY <1>1, <2>1, <2>3, <2>4, WakeQueues
<1>3. CASE WakeReaders(t)
  <2>1. /\ pc[t] = "wake_r" /\ pc' = [pc EXCEPT ![t] = "wake_w"] /\ "wake_w" \in {"return", "wake_w"}
        /\ WakeReadQueue
    BY <1>3 DEF WakeReaders, Goto
  <2>2. call[t].op \in Controls
    BY <1>0, <2>1 DEF CallOK, PlaceOK
  <2>3. ResultOK("wake_w", call[t])
    BY <2>2 DEF ResultOK, Controls
  <2>4. /\ WR(pc[t], call[t]) => WR("wake_w", call[t]) \/ WakeReadQueue
        /\ WW(pc[t], call[t]) => WW("wake_w", call[t]) \/ WakeWriteQueue
    BY <2>1, <2>2 DEF WR, WW, Controls
  <2> QED
    BY <1>1, <2>1, <2>3, <2>4, WakeQueues
<1>4. CASE WakeWriters(t)
  <2>1. /\ pc[t] = "wake_w" /\ pc' = [pc EXCEPT ![t] = "return"] /\ "return" \in {"return", "wake_w"}
        /\ WakeWriteQueue
    BY <1>4 DEF WakeWriters, Goto
  <2>2. call[t].op \in Controls
    BY <1>0, <2>1 DEF CallOK, PlaceOK
  <2>3. ResultOK("return", call[t])
    BY <2>2 DEF ResultOK, Controls
  <2>4. /\ WR(pc[t], call[t]) => WR("return", call[t]) \/ WakeReadQueue
        /\ WW(pc[t], call[t]) => WW("return", call[t]) \/ WakeWriteQueue
    BY <2>1, <2>2 DEF WR, WW, Controls
  <2> QED
    BY <1>1, <2>1, <2>3, <2>4, WakeQueues
<1> QED
  BY <1>2, <1>3, <1>4

LEMMA ControlWake ==
  ASSUME WakeInv, SafeInv', NEW t \in Threads, Control(t)
  PROVE  WakeInv'
<1>0. /\ call[t] \in CallRecord /\ CallOK(pc[t], call[t]) /\ ResultOK(pc[t], call[t])
      /\ [call EXCEPT ![t] = call[t]] = call
  BY Actor
<1>1. /\ pc[t] = "control" /\ pc[t] \in {"decide", "control"}
      /\ call[t].op \in Controls \cup Queries
      /\ call[t].op \notin Polls /\ call[t].op \notin ReadWrite
      /\ UNCHANGED <<state_generation, shutting_down, sleepVars, open_files>>
  BY <1>0 DEF Control, CallOK, PlaceOK, Controls, Queries, Polls, ReadWrite
<1>2. t \in open_files /\ t \in awake
  BY <1>1, Actor DEF QueuedOK, Waits
<1>3. ASSUME call[t].op \in Controls, pc' = [pc EXCEPT ![t] = "bump"], UNCHANGED call
      PROVE  WakeInv'
  <2>1. ResultOK("bump", call[t]) /\ call[t].ret = 0 /\ "bump" # "idle"
    BY <1>0, <1>1, <1>3 DEF ResultOK
  <2>2. WR("bump", call[t]) /\ WW("bump", call[t])
    BY <1>3, <2>1 DEF WR, WW
  <2>3. call' = [call EXCEPT ![t] = call[t]]
    BY <1>0, <1>3
  <2> QED
    BY <1>1, <1>2, <1>3, <2>1, <2>2, <2>3, RingWake
<1>4. ASSUME NEW k, k.op = call[t].op, pc' = [pc EXCEPT ![t] = "unlock"],
             call' = [call EXCEPT ![t] = k], UNCHANGED ringVars
      PROVE  WakeInv'
  <2>1. ResultOK("unlock", k) /\ "unlock" # "idle" /\ k.op \notin Polls
    BY <1>1, <1>4 DEF ResultOK, ReadWrite
  <2> QED
    BY <1>1, <1>4, <2>1, OwnerMoves
<1>5. CASE \E code \in {EMSGSIZE, ENOMEM} : ResizeFails(t, code)
  <2>1. PICK code \in Int : ResizeFails(t, code)
    BY <1>5 DEF EMSGSIZE, ENOMEM
  <2> DEFINE k == [call[t] EXCEPT !.ret = code]
  <2>2. k.op = call[t].op
    BY <1>0, RetUpdate DEF SameTransfer
  <2>3. /\ call' = [call EXCEPT ![t] = k] /\ pc' = [pc EXCEPT ![t] = "unlock"]
        /\ UNCHANGED ringVars
    BY <2>1 DEF ResizeFails, Goto
  <2> HIDE DEF k
  <2> QED
    BY <1>4, <2>2, <2>3
<1>6. CASE DoQuery(t)
  <2> DEFINE answer == IF call[t].op = "get_capacity" THEN <<capacity>>
                                                      ELSE <<capacity, Stored, Available>>
             k == [call[t] EXCEPT !.answer = answer]
  <2>1. k.op = call[t].op
    BY <1>0 DEF CallRecord
  <2>2. /\ call' = [call EXCEPT ![t] = k] /\ pc' = [pc EXCEPT ![t] = "unlock"]
        /\ UNCHANGED ringVars
    BY <1>6 DEF DoQuery, Goto
  <2> HIDE DEF k
  <2> QED
    BY <1>4, <2>1, <2>2
<1>7. CASE DoClear(t)
  BY <1>3, <1>7 DEF DoClear, Goto, Controls
<1>8. CASE DoSetMode(t)
  BY <1>3, <1>8 DEF DoSetMode, AfterSetMode, Goto, Controls
<1>9. CASE DoSetCapacity(t)
  BY <1>3, <1>5, <1>9 DEF DoSetCapacity, Goto, Controls
<1> QED
  BY <1>6, <1>7, <1>8, <1>9 DEF Control

\* The ends of the handlers, and the poll calls.
LEMMA EndWake ==
  ASSUME WakeInv, SafeInv', NEW t \in Threads,
         BumpGeneration(t) \/ CopyOut(t) \/ ResetStats(t) \/ Fail(t) \/ Return(t)
  PROVE  WakeInv'
<1>0. /\ call[t] \in CallRecord /\ CallOK(pc[t], call[t]) /\ ResultOK(pc[t], call[t])
      /\ [call EXCEPT ![t] = call[t]] = call
      /\ pc[t] # "idle" => t \in open_files
  BY Actor
\* A step to `reset', `failing' or `return' that no one waits for.
<1>1. ASSUME NEW l \in {"reset", "failing", "return"}, NEW k, k.op = call[t].op,
             pc[t] \in {"copy_out", "reset", "failing"},
             pc' = [pc EXCEPT ![t] = l], call' = [call EXCEPT ![t] = k],
             k.op = "read" => ResultOK(l, k),
             UNCHANGED <<ringVars, controlVars, sleepVars, open_files>>
      PROVE  WakeInv'
  <2>1. ResultOK(l, k) /\ l # "idle" /\ t \in open_files /\ pc[t] \notin Waits
    BY <1>0, <1>1 DEF ResultOK, Waits
  <2>2. PollOK(t, l, k, read_queue, write_queue)
    BY <1>1 DEF PollOK
  <2>3. ~WR(pc[t], call[t]) /\ ~WW(pc[t], call[t])
    BY <1>1 DEF WR, WW
  <2>4. t \notin awake => QueuedOK(t, l, k, read_queue, write_queue)
    BY <1>1, <2>1, Actor DEF QueuedOK
  <2>5. /\ ~ReaderDue(l, k, len, state_generation)
        /\ ~WriterDue(l, k, capacity, len, state_generation)
    BY <1>1 DEF ReaderDue, WriterDue
  <2>6. UNCHANGED <<ringVars, state_generation, shutting_down, sleepVars, open_files>>
    BY <1>1 DEF controlVars
  <2> QED
    BY <1>1, <2>1, <2>2, <2>3, <2>4, <2>5, <2>6, QuietWake
<1>2. CASE CopyOut(t)
  <2>1. /\ pc[t] = "copy_out" /\ pc[t] \in {"copy_out", "reset", "failing"}
        /\ UNCHANGED <<ringVars, controlVars, sleepVars, open_files>>
    BY <1>2 DEF CopyOut
  <2>2. call[t].op # "read"
    BY <1>0, <2>1 DEF CallOK, PlaceOK, Queries
  <2>3. CASE pc' = [pc EXCEPT ![t] = "return"] /\ UNCHANGED call
    <3>1. call' = [call EXCEPT ![t] = call[t]] /\ "return" \in {"reset", "failing", "return"}
      BY <1>0, <2>3
    <3> QED
      BY <1>1, <2>1, <2>2, <2>3, <3>1
  <2>4. CASE pc' = [pc EXCEPT ![t] = "failing"] /\ call' = [call EXCEPT ![t].ret = EFAULT]
    <3> DEFINE k == [call[t] EXCEPT !.ret = EFAULT]
    <3>1. EFAULT \in Int
      BY DEF EFAULT
    <3>2. k.op = call[t].op
      BY <1>0, <3>1, RetUpdate DEF SameTransfer
    <3>3. call' = [call EXCEPT ![t] = k] /\ "failing" \in {"reset", "failing", "return"}
      BY <2>4
    <3> HIDE DEF k
    <3> QED
      BY <1>1, <2>1, <2>2, <2>4, <3>2, <3>3
  <2> QED
    BY <1>2, <2>3, <2>4 DEF CopyOut, Goto
<1>3. CASE ResetStats(t)
  <2> DEFINE k == [call[t] EXCEPT !.copied = call[t].copied + 1]
  <2>1. /\ pc[t] = "reset" /\ pc[t] \in {"copy_out", "reset", "failing"}
        /\ UNCHANGED <<ringVars, controlVars, sleepVars, open_files>>
    BY <1>3 DEF ResetStats
  <2>2. k.op = call[t].op /\ call[t].op # "read"
    BY <1>0, <2>1 DEF CallOK, PlaceOK, CallRecord
  <2>3. /\ call' = [call EXCEPT ![t] = k]
        /\ \E l \in {"reset", "failing", "return"} : pc' = [pc EXCEPT ![t] = l]
    BY <1>3 DEF ResetStats, Goto
  <2> HIDE DEF k
  <2> QED
    BY <1>1, <2>1, <2>2, <2>3
<1>4. CASE Fail(t)
  <2>1. /\ pc[t] = "failing" /\ pc[t] \in {"copy_out", "reset", "failing"}
        /\ pc' = [pc EXCEPT ![t] = "return"] /\ "return" \in {"reset", "failing", "return"}
        /\ UNCHANGED <<ringVars, controlVars, sleepVars, open_files>> /\ UNCHANGED call
    BY <1>4 DEF Fail, Goto
  <2>2. ResultOK("return", call[t]) /\ call' = [call EXCEPT ![t] = call[t]]
    BY <1>0, <2>1 DEF ResultOK
  <2> QED
    BY <1>1, <2>1, <2>2
<1>5. CASE BumpGeneration(t)
  <2>1. /\ pc[t] = "bump" /\ pc' = [pc EXCEPT ![t] = "unlock"] /\ "unlock" # "idle"
        /\ call' = [call EXCEPT ![t] = call[t]]
        /\ UNCHANGED <<shutting_down, sleepVars, open_files>>
    BY <1>0, <1>5 DEF BumpGeneration, Goto
  <2>2. call[t].op \in Controls /\ call[t].op \notin Polls /\ call[t].ret = 0
    BY <1>0, <2>1 DEF CallOK, PlaceOK, ResultOK, Controls, Polls
  <2>3. t \in open_files /\ t \in awake
    BY <2>1, <2>2, Actor DEF QueuedOK, Waits
  <2>4. WR("unlock", call[t]) /\ WW("unlock", call[t]) /\ ResultOK("unlock", call[t])
    BY <2>2 DEF WR, WW, ResultOK, Controls
  <2> QED
    BY <2>1, <2>2, <2>3, <2>4, RingWake
<1>6. CASE Return(t)
  <2>1. /\ pc[t] \in Waits \cup {"poll_reg", "poll_wait", "return"}
        /\ pc' = [pc EXCEPT ![t] = "idle"] /\ call' = [call EXCEPT ![t] = NoCall]
        /\ t \notin read_queue' \cup write_queue'
        /\ UNCHANGED <<ringVars, controlVars, open_files>>
        /\ read_queue' \cup {t} = read_queue \cup {t}
        /\ write_queue' \cup {t} = write_queue \cup {t}
        /\ awake' \cup {t} = awake \cup {t} /\ t \in awake'
    BY <1>6 DEF Return, Goto
  <2>2. NoCall.op = "none"
    BY DEF NoCall, NewCall
  <2>3. ResultOK("idle", NoCall) /\ PollOK(t, "idle", NoCall, read_queue', write_queue')
    BY <2>2 DEF ResultOK, PollOK, Controls, Polls
  <2> QED
    BY <2>1, <2>3, SleepWake
<1> QED
  BY <1>2, <1>3, <1>4, <1>5, <1>6

LEMMA PollWake ==
  ASSUME WakeInv, SafeInv', NEW t \in Threads, PollRegister(t) \/ PollMask(t) \/ PollWait(t)
  PROVE  WakeInv'
<1>0. /\ call[t] \in CallRecord /\ CallOK(pc[t], call[t])
      /\ PollOK(t, pc[t], call[t], read_queue, write_queue)
      /\ [call EXCEPT ![t] = call[t]] = call
  BY Actor
<1>1. /\ pc[t] \in {"poll_reg", "mask", "poll_wait"} /\ pc[t] # "idle"
      /\ UNCHANGED <<ringVars, controlVars, open_files>>
  BY DEF PollRegister, PollMask, PollWait
<1>2. /\ call[t].op \in Polls /\ call[t].op \notin Controls /\ call[t].op \notin ReadWrite
      /\ t \in open_files
  BY <1>0, <1>1, Actor DEF CallOK, PlaceOK, Polls, Controls, ReadWrite
<1>3. CASE PollMask(t)
  <2> DEFINE event == PollEvent(call[t].op)
             ret == IF event = 0 /\ t \in signal THEN EINTR ELSE event
             k == [call[t] EXCEPT !.ret = ret]
  <2>1. /\ call[t].op = "pollin" /\ len > 0 => event = 1
        /\ call[t].op = "pollout" /\ capacity > len => event = 4
        /\ event \in {0, 1, 4}
    BY CapacityAssumption, SMTT(40) DEF PollEvent, POLLIN, POLLOUT, Stored, Available, WakeInv, SafeInv,
                              TypeOK, RingTypeOK
  <2>2. ret \in Int /\ (ret = 0 => event = 0)
    BY <2>1 DEF EINTR
  <2>k. k = [call[t] EXCEPT !.ret = ret]
    OBVIOUS
  <2>3. /\ call' = [call EXCEPT ![t] = k] /\ pc' = [pc EXCEPT ![t] = "unlock"]
        /\ UNCHANGED <<ringVars, state_generation, shutting_down, sleepVars, open_files>>
    BY <1>3 DEF PollMask, Goto, controlVars
  <2> HIDE DEF event, ret, k
  <2>4. k.op = call[t].op /\ k.ret = ret
    BY <1>0, <2>2, <2>k DEF CallRecord
  <2>5. ResultOK("unlock", k) /\ "unlock" # "idle"
    BY <1>2, <2>4 DEF ResultOK, ReadWrite
  <2>6. pc[t] = "mask"
    BY <1>3 DEF PollMask
  <2>7. PollOK(t, "unlock", k, read_queue, write_queue)
    BY <1>0, <2>4, <2>6 DEF PollOK
  <2>8. ~WR(pc[t], call[t]) /\ ~WW(pc[t], call[t])
    BY <2>6 DEF WR, WW
  <2>9. QueuedOK(t, "unlock", k, read_queue, write_queue)
    BY <1>0, <1>2, <2>4, <2>6 DEF QueuedOK, PollOK
  <2>10. /\ ~ReaderDue("unlock", k, len, state_generation)
         /\ ~WriterDue("unlock", k, capacity, len, state_generation)
    BY <2>1, <2>2, <2>4 DEF ReaderDue, WriterDue
  <2> QED
    BY <1>2, <2>3, <2>5, <2>7, <2>8, <2>9, <2>10, QuietWake
<1>4. CASE PollRegister(t) \/ PollWait(t)
  <2>1. /\ pc' = [pc EXCEPT ![t] = "mutex"] /\ call' = [call EXCEPT ![t] = call[t]]
        /\ pc[t] \in Waits \cup {"poll_reg", "poll_wait", "return"}
        /\ awake' \cup {t} = awake \cup {t} /\ "mutex" # "idle"
    BY <1>0, <1>4 DEF PollRegister, PollWait, Goto
  <2>2. /\ read_queue' \cup {t} = read_queue \cup {t}
        /\ write_queue' \cup {t} = write_queue \cup {t}
        /\ t \in read_queue' /\ t \in write_queue'
    <3>1. CASE PollRegister(t)
      BY <3>1 DEF PollRegister, PollQueues
    <3>2. CASE PollWait(t)
      BY <1>0, <1>2, <3>2 DEF PollWait, PollOK
    <3> QED
      BY <1>4, <3>1, <3>2
  <2>3. /\ ResultOK("mutex", call[t]) /\ PollOK(t, "mutex", call[t], read_queue', write_queue')
        /\ QueuedOK(t, "mutex", call[t], read_queue', write_queue')
    BY <1>2, <2>2 DEF ResultOK, PollOK, QueuedOK, ReadWrite
  <2>4. /\ ~ReaderDue("mutex", call[t], len, state_generation)
        /\ ~WriterDue("mutex", call[t], capacity, len, state_generation)
    BY DEF ReaderDue, WriterDue
  <2> QED
    BY <1>1, <2>1, <2>2, <2>3, <2>4, SleepWake
<1> QED
  BY <1>3, <1>4

-----------------------------------------------------------------------------

LEMMA StepWake ==
  ASSUME WakeInv, SafeInv', NEW t \in Threads, Step(t)
  PROVE  WakeInv'
BY MutexWake, DecideWake, ChunkWake, NotifyWake, WaitWake, ControlWake, EndWake, PollWake
DEF Step

LEMMA NextWake == WakeInv /\ [Next]_vars => WakeInv'
<1> SUFFICES ASSUME WakeInv, [Next]_vars PROVE WakeInv'
  OBVIOUS
<1>1. SafeInv'
  BY NextSafe DEF WakeInv
<1>2. CASE UNCHANGED vars
  <2>1. /\ pc' = pc /\ call' = call /\ len' = len /\ capacity' = capacity
        /\ state_generation' = state_generation /\ shutting_down' = shutting_down
        /\ read_queue' = read_queue /\ write_queue' = write_queue /\ awake' = awake
        /\ open_files' = open_files
    BY <1>2 DEF vars, ringVars, controlVars, sleepVars
  <2>2. FileInv' /\ (\A t \in Threads : ResultOK(pc[t], call[t]))'
    BY <2>1 DEF WakeInv, FileInv, ResultOK
  <2>3. (\A t \in Threads : PollOK(t, pc[t], call[t], read_queue, write_queue))'
    BY <2>1 DEF WakeInv, PollOK
  <2>4. (\A t \in Threads : TaskOK(t))'
    BY <2>1 DEF WakeInv, TaskOK, QueuedOK, ReaderDue, WriterDue, ReadersComing, WritersComing,
                WR, WW
  <2> QED
    BY <1>1, <2>2, <2>3, <2>4 DEF WakeInv
<1> QED
  BY <1>1, <1>2, FilesWake, CallWake, StepWake, UnloadWake DEF Next, Unloaded

(***************************************************************************)
(* The lock-free tests of wait_event_interruptible and the wake-ups after  *)
(* the unlock cannot miss each other: no reader, writer or poller sleeps   *)
(* through the bytes, the space or the control change it waits for, with   *)
(* any number of tasks at any place of any handler.                        *)
(***************************************************************************)
THEOREM WakeupSafe == Spec => []NoLostWakeup
<1>1. ASSUME WakeInv, NEW t \in Threads, Asleep(t), Ready(t) PROVE WakeUpComing(t)
  <2>1. /\ pc[t] \in {"schedule", "poll_wait"} /\ CallOK(pc[t], call[t])
        /\ QueuedOK(t, pc[t], call[t], read_queue, write_queue)
        /\ ReaderDue(pc[t], call[t], len, state_generation) => ReadersComing
        /\ WriterDue(pc[t], call[t], capacity, len, state_generation) => WritersComing
    BY <1>1, Actor DEF Asleep
  <2>2. /\ pc[t] = "schedule" => call[t].op \in {"read", "write"}
        /\ pc[t] = "poll_wait" => call[t].op \in {"pollin", "pollout"}
    BY <2>1 DEF CallOK, PlaceOK, Waits, ReadWrite, Polls
  <2>3. CASE call[t].op \in {"read", "pollin"}
    <3>1. ReaderDue(pc[t], call[t], len, state_generation)
      BY <1>1, <2>1, <2>2, <2>3 DEF Ready, ReaderDue, ReadWrite
    <3> QED
      BY <2>1, <2>3, <3>1 DEF WakeUpComing, ReadersComing, WR, WakesReaders
  <2>4. CASE call[t].op \notin {"read", "pollin"}
    <3>1. WriterDue(pc[t], call[t], capacity, len, state_generation)
      BY <1>1, <2>1, <2>2, <2>4 DEF Ready, WriterDue, ReadWrite
    <3> QED
      BY <2>1, <2>4, <3>1 DEF WakeUpComing, WritersComing, WW, WakesWriters
  <2> QED
    BY <2>3, <2>4
<1>2. WakeInv => NoLostWakeup
  BY <1>1 DEF NoLostWakeup
<1> QED
  BY <1>2, InitWake, NextWake, PTL DEF Spec

(***************************************************************************)
(* A blocking read is not ended by a control change or by a competing      *)
(* reader: it returns 0 for a positive count only from a module that goes. *)
(***************************************************************************)
THEOREM ReadNeverFalseEof == Spec => []NoFalseEof
<1>1. WakeInv => NoFalseEof
  BY DEF WakeInv, ResultOK, NoFalseEof
<1> QED
  BY <1>1, InitWake, NextWake, PTL DEF Spec

(***************************************************************************)
(* ringbuf_char_exit runs with no task in the driver, on its queues or     *)
(* with its mutex: every task in a call has a file open, and open files    *)
(* hold the module.                                                        *)
(***************************************************************************)
THEOREM UnloadSafely == Spec => []UnloadFindsNoCall
<1>1. ASSUME WakeInv, shutting_down
      PROVE  /\ lock = NoThread
             /\ read_queue = {} /\ write_queue = {}
             /\ \A t \in Threads : pc[t] = "idle"
  <2>1. /\ \A t \in Threads : pc[t] = "idle"
        /\ \A t \in read_queue \cup write_queue : pc[t] # "idle"
        /\ read_queue \subseteq Threads /\ write_queue \subseteq Threads
        /\ lock \in Threads \cup {NoThread}
        /\ \A t \in Threads : pc[t] \in Locked <=> lock = t
    BY <1>1 DEF WakeInv, FileInv, SafeInv, TypeOK, MutexDiscipline
  <2>2. "idle" \notin Locked
    BY DEF Locked
  <2> QED
    BY <2>1, <2>2
<1>2. WakeInv => UnloadFindsNoCall
  BY <1>1 DEF UnloadFindsNoCall
<1> QED
  BY <1>2, InitWake, NextWake, PTL DEF Spec

-----------------------------------------------------------------------------
(***************************************************************************)
(* The driver implements the byte stream of lab/contract.py and gives its  *)
(* replies, for every set of tasks, every capacity range and every mix of  *)
(* calls, faults, signals and control changes.                             *)
(*                                                                         *)
(* The owner of the mutex is the only task that can be half way through a  *)
(* transfer.  Its locals and the buffer together hold the stream as it was *)
(* when the mutex was taken (ReadOwner, WriteOwner); the other tasks' do   *)
(* not enter it, so their steps leave the stream as it is.                 *)
(***************************************************************************)

\* A transfer that has not touched the buffer: not yet, or it will block.
Untouched(l, k) == l \in {"lock", "decide"} \cup Waits \/ (l = "unlock" /\ k.phase = "first")

\* What the locals of a call say at each place.
TransferOK(l, k) ==
  /\ k.op = "read" => k.dst \in Seq(Byte) /\ Len(k.dst) = k.copied
  /\ k.op \in ReadWrite /\ (Untouched(l, k) \/ l = "copy") => k.count > 0 /\ k.missing = 0
  /\ k.op = "write" /\ Untouched(l, k) => k.count = Len(k.src)
  /\ k.op \in ReadWrite /\ l = "copy" => k.phase = "none" /\ k.copied < k.count
  /\ k.op \in ReadWrite /\ l = "unlock" => k.phase \in {"none", "first"}
  /\ k.op = "set_capacity" /\ l \in {"mutex", "control"} => CapacityValid(k.count)

\* A read that owns the mutex, with n bytes left in a buffer of size c.
ReadOwner(l, k, n, c) ==
  /\ k.copied + n <= c
  /\ l = "copy" => n > 0
  /\ l = "unlock" /\ k.phase = "none" =>
       \/ k.ret = EAGAIN /\ k.copied = 0 /\ n = 0 /\ k.missing = 0 /\ k.count > 0
       \/ k.ret = EFAULT /\ k.copied = 0
       \/ k.ret = k.copied /\ k.copied > 0 /\ (k.missing > 0 \/ k.copied = k.count \/ n = 0)

\* A write that does, with n bytes, the stream s, in a buffer of size c.
WriteOwner(l, k, n, c, s) ==
  /\ k.copied <= n
  /\ s = SubSeq(s, 1, n - k.copied) \o SubSeq(k.src, 1, k.copied)
  /\ l = "copy" => k.count = Least(Len(k.src), c - (n - k.copied))
  /\ l = "unlock" /\ k.phase = "none" =>
       \/ k.ret = EAGAIN /\ k.copied = 0 /\ n = c /\ k.missing = 0 /\ Len(k.src) > 0
       \/ k.ret = EFAULT /\ k.copied = 0
       \/ /\ k.ret = k.copied /\ k.copied > 0
          /\ k.count = Least(Len(k.src), c - (n - k.copied))
          /\ k.missing > 0 \/ k.copied = k.count

OwnerOK(l, k, n, c, s) ==
  /\ k.op = "read" => ReadOwner(l, k, n, c)
  /\ k.op = "write" => WriteOwner(l, k, n, c, s)

StreamInv ==
  /\ WakeInv
  /\ \A t \in Threads : TransferOK(pc[t], call[t])
  /\ \A t \in Threads : lock = t => OwnerOK(pc[t], call[t], len, capacity, Contents)

-----------------------------------------------------------------------------

\* The facts about the buffer that every case starts from.
LEMMA StreamRing ==
  ASSUME StreamInv
  PROVE  /\ RingInv /\ Contents \in Seq(Byte) /\ Len(Contents) = len
         /\ len \in Nat /\ capacity \in Nat \ {0} /\ len <= capacity
         /\ capacity \in MinCapacity..MaxCapacity /\ MaxCapacity \in Nat
         /\ Available = capacity - len /\ read_pos \in Nat /\ read_pos < capacity
         /\ write_pos \in Nat /\ write_pos < capacity
<1>1. RingInv
  BY RingOfSafeInv DEF StreamInv, WakeInv
<1> QED
  BY <1>1, ContentsType, RingNumbers, CapacityAssumption

\* And those about a task.
LEMMA StreamTask ==
  ASSUME StreamInv, NEW t \in Threads
  PROVE  /\ call[t] \in CallRecord /\ pc[t] \in Labels
         /\ CallOK(pc[t], call[t]) /\ ResultOK(pc[t], call[t]) /\ TransferOK(pc[t], call[t])
         /\ pc[t] \in Locked <=> lock = t
         /\ t # NoThread /\ lock \in Threads \cup {NoThread}
         /\ lock = t => OwnerOK(pc[t], call[t], len, capacity, Contents)
         /\ [call EXCEPT ![t] = call[t]] = call
         /\ pc[t] # "idle" => ~shutting_down
<1>1. WakeInv /\ SafeInv
  BY DEF StreamInv, WakeInv
<1> QED
  BY <1>1, Actor, TaskOfSafeInv DEF StreamInv

\* What a step of another task does to the stream: nothing.
LEMMA StreamSame ==
  ASSUME StreamInv, UNCHANGED <<data, capacity, len, read_pos>>, lock' = lock,
         lock # NoThread => call'[lock] = call[lock]
  PROVE  Stream' = Stream
BY DEF Stream, Contents

\* Task u moves to place l with locals k; who owns the mutex then is in order.
LEMMA StreamStep ==
  ASSUME StreamInv, WakeInv', NEW u \in Threads, NEW l, NEW k,
         pc' = [pc EXCEPT ![u] = l], call' = [call EXCEPT ![u] = k], TransferOK(l, k),
         lock' = u => OwnerOK(l, k, len', capacity', Contents'),
         lock' \in {u, NoThread} \/ (lock' = lock /\ UNCHANGED ringVars)
  PROVE  StreamInv'
<1>1. pc \in [Threads -> Labels] /\ call \in [Threads -> CallRecord]
  BY DEF StreamInv, WakeInv, SafeInv, TypeOK
<1>2. /\ pc'[u] = l /\ call'[u] = k
      /\ \A t \in Threads \ {u} : pc'[t] = pc[t] /\ call'[t] = call[t]
  BY <1>1
<1>3. (\A t \in Threads : TransferOK(pc[t], call[t]))'
  <2>1. \A t \in Threads : TransferOK(pc'[t], call'[t])
    BY <1>2 DEF StreamInv
  <2> QED
    BY <2>1 DEF TransferOK, Untouched, CapacityValid
<1>4. ASSUME NEW t \in Threads, lock' = t
      PROVE  OwnerOK(pc'[t], call'[t], len', capacity', Contents')
  <2>1. CASE t = u
    BY <1>2, <1>4, <2>1
  <2>2. CASE t # u
    <3>1. lock = t /\ UNCHANGED ringVars
      BY <1>4, <2>2, ThreadAssumption
    <3>2. len' = len /\ capacity' = capacity /\ Contents' = Contents
      BY <3>1 DEF ringVars, Contents
    <3>3. OwnerOK(pc[t], call[t], len, capacity, Contents)
      BY <3>1 DEF StreamInv
    <3> QED
      BY <1>2, <2>2, <3>2, <3>3
  <2> QED
    BY <2>1, <2>2
<1>5. (\A t \in Threads : lock = t => OwnerOK(pc[t], call[t], len, capacity, Contents))'
  BY <1>4 DEF OwnerOK, ReadOwner, WriteOwner, Least
<1> QED
  BY <1>3, <1>5 DEF StreamInv

\* A task outside the mutex goes on outside it.
LEMMA OutsideStep ==
  ASSUME StreamInv, WakeInv', NEW u \in Threads, NEW l, NEW k,
         pc' = [pc EXCEPT ![u] = l], call' = [call EXCEPT ![u] = k], TransferOK(l, k),
         pc[u] \notin Locked, lock' = lock, UNCHANGED ringVars
  PROVE  StreamInv' /\ Stream' = Stream /\ capacity' = capacity
<1>1. lock # u
  BY StreamTask
<1>2. StreamInv'
  BY <1>1, StreamStep
<1>3. lock # NoThread => call'[lock] = call[lock]
  BY <1>1, StreamTask DEF StreamInv, WakeInv, SafeInv, TypeOK
<1>4. UNCHANGED <<data, capacity, len, read_pos>>
  BY DEF ringVars
<1> QED
  BY <1>2, <1>3, <1>4, StreamSame

\* No task moves and the buffer stays.
LEMMA NobodyStep ==
  ASSUME StreamInv, WakeInv', UNCHANGED <<ringVars, lock, pc, call>>
  PROVE  StreamInv' /\ Stream' = Stream /\ capacity' = capacity
<1>1. UNCHANGED <<data, capacity, len, read_pos>> /\ Contents' = Contents
  BY DEF ringVars, Contents
<1>2. Stream' = Stream
  BY <1>1, StreamSame
<1>3. (\A t \in Threads : TransferOK(pc[t], call[t]))'
  BY DEF StreamInv, TransferOK, Untouched, CapacityValid
<1>4. (\A t \in Threads : lock = t => OwnerOK(pc[t], call[t], len, capacity, Contents))'
  BY <1>1, ZenonT(60) DEF StreamInv, OwnerOK, ReadOwner, WriteOwner, Least
<1> QED
  BY <1>1, <1>2, <1>3, <1>4 DEF StreamInv

SameData(j, k) ==
  /\ j.count = k.count /\ j.src = k.src /\ j.dst = k.dst
  /\ j.copied = k.copied /\ j.missing = k.missing

\* A step outside the mutex leaves a transfer's locals as they are.
LEMMA OutsideMove ==
  ASSUME StreamInv, WakeInv', NEW u \in Threads, NEW l, NEW k,
         pc' = [pc EXCEPT ![u] = l], call' = [call EXCEPT ![u] = k],
         pc[u] \notin Locked, lock' = lock, UNCHANGED ringVars,
         k.op = call[u].op, k.op \in ReadWrite => SameData(k, call[u]),
         l \notin Locked,
         l \in Waits \cup {"lock"} => pc[u] \in Waits,
         l = "mutex" => k.op \in Polls
  PROVE  StreamInv' /\ Stream' = Stream /\ capacity' = capacity
<1>1. TransferOK(pc[u], call[u])
  BY StreamTask
<1>2. TransferOK(l, k)
  BY <1>1 DEF TransferOK, Untouched, SameData, Locked, ReadWrite, Polls, Waits
<1> QED
  BY <1>2, OutsideStep

\* The owner goes on, the buffer and what it has copied as they are.
LEMMA OwnerMove ==
  ASSUME StreamInv, WakeInv', NEW u \in Threads, NEW l, NEW k,
         pc' = [pc EXCEPT ![u] = l], call' = [call EXCEPT ![u] = k], TransferOK(l, k),
         pc[u] \in Locked, lock' = lock, UNCHANGED ringVars,
         OwnerOK(l, k, len, capacity, Contents),
         k.op = call[u].op,
         k.op \in ReadWrite => k.dst = call[u].dst /\ k.copied = call[u].copied
  PROVE  StreamInv' /\ Stream' = Stream /\ capacity' = capacity
<1>1. lock = u /\ lock # NoThread
  BY StreamTask
<1>2. len' = len /\ capacity' = capacity /\ Contents' = Contents
  BY DEF ringVars, Contents
<1>3. StreamInv'
  BY <1>1, <1>2, StreamStep
<1>4. call'[u] = k
  BY DEF StreamInv, WakeInv, SafeInv, TypeOK
<1>5. Stream' = Stream
  BY <1>1, <1>2, <1>4 DEF Stream, ReadWrite
<1> QED
  BY <1>2, <1>3, <1>5

-----------------------------------------------------------------------------
(***************************************************************************)
(* The steps outside the mutex.                                            *)
(***************************************************************************)
LEMMA EnterStream ==
  ASSUME StreamInv, WakeInv', NEW t \in Threads, NEW o, NEW n, NEW payload, NEW result, NEW l,
         Enter(t, o, n, payload, result, l),
         l \notin Locked \cup Waits,
         l = "lock" => n > 0,
         l = "lock" /\ o = "write" => n = Len(payload),
         l = "mutex" /\ o = "set_capacity" => CapacityValid(n)
  PROVE  StreamInv' /\ Stream' = Stream /\ capacity' = capacity
<1> DEFINE k == NewCall(o, n, payload, result)
<1>1. /\ pc' = [pc EXCEPT ![t] = l] /\ call' = [call EXCEPT ![t] = k]
      /\ pc[t] = "idle" /\ lock' = lock /\ UNCHANGED ringVars
  BY DEF Enter, Goto
<1>2. /\ k.op = o /\ k.count = n /\ k.src = payload /\ k.dst = << >> /\ k.copied = 0
      /\ k.missing = 0 /\ k.phase = "none"
  BY DEF NewCall
<1> HIDE DEF k
<1>3. k.dst \in Seq(Byte) /\ Len(k.dst) = k.copied
  BY <1>2
<1>4. TransferOK(l, k)
  BY <1>2, <1>3 DEF TransferOK, Untouched, Locked
<1>5. pc[t] \notin Locked
  BY <1>1 DEF Locked
<1> QED
  BY <1>1, <1>4, <1>5, OutsideStep

LEMMA CallStream ==
  ASSUME StreamInv, WakeInv', NEW t \in Threads, Call(t)
  PROVE  StreamInv' /\ Stream' = Stream /\ capacity' = capacity
<1>0. {"return", "lock", "mutex", "reset", "failing", "poll_reg"} \cap (Locked \cup Waits) = {}
  BY DEF Locked, Waits
<1>1. CASE \E n \in Counts : ReadCall(t, n)
  <2>1. PICK n \in Nat : Enter(t, "read", n, << >>, 0, IF n = 0 THEN "return" ELSE "lock")
    BY <1>1, InputAssumption DEF ReadCall
  <2> QED
    BY <1>0, <2>1, EnterStream
<1>2. CASE \E payload \in Payloads : WriteCall(t, payload)
  <2>1. PICK payload \in Seq(Byte) :
          Enter(t, "write", Len(payload), payload, 0, IF payload = << >> THEN "return" ELSE "lock")
    BY <1>2, InputAssumption DEF WriteCall
  <2>2. payload # << >> => Len(payload) > 0
    BY <2>1, EmptySeq
  <2> QED
    BY <1>0, <2>1, <2>2, EnterStream
<1>3. CASE \E o \in OpKinds : PlainIoctl(t, o)
  <2>1. PICK o \in Queries \cup {"clear", "reset_stats"}, l \in {"reset", "mutex"} :
          Enter(t, o, 0, << >>, 0, l)
    BY <1>3 DEF PlainIoctl
  <2>2. o # "set_capacity"
    BY <2>1 DEF Queries
  <2> QED
    BY <1>0, <2>1, <2>2, EnterStream
<1>4. CASE BadIoctl(t)
  <2>1. Enter(t, "bad_ioctl", 0, << >>, ENOTTY, "failing")
    BY <1>4 DEF BadIoctl
  <2> QED
    BY <1>0, <2>1, EnterStream
<1>5. CASE \E o \in {"set_capacity", "set_mode"}, n \in Nat : ArgIoctl(t, o, n)
  <2>1. PICK o \in {"set_capacity", "set_mode"}, n \in Nat : ArgIoctl(t, o, n)
    BY <1>5
  <2>2. PICK l \in {"failing", "mutex"}, result \in {EFAULT, EINVAL, 0} :
          /\ Enter(t, o, n, << >>, result, l)
          /\ l = "mutex" => ArgumentValid(o, n)
    BY <2>1 DEF ArgIoctl
  <2>3. l = "mutex" /\ o = "set_capacity" => CapacityValid(n)
    BY <2>2 DEF ArgumentValid
  <2> QED
    BY <1>0, <2>2, <2>3, EnterStream
<1>6. CASE \E o \in Polls : PollCall(t, o)
  <2>1. PICK o \in Polls : Enter(t, o, 0, << >>, 0, "poll_reg")
    BY <1>6 DEF PollCall
  <2> QED
    BY <1>0, <2>1, EnterStream
<1> QED
  BY <1>1, <1>2, <1>3, <1>4, <1>5, <1>6, InputAssumption DEF Call

LEMMA WaitStream ==
  ASSUME StreamInv, WakeInv', NEW t \in Threads,
         TestCapacity(t) \/ TestLen(t) \/ TestGeneration(t) \/ PrepareToWait(t) \/ Schedule(t)
  PROVE  StreamInv' /\ Stream' = Stream /\ capacity' = capacity
<1>0. call[t] \in CallRecord /\ [call EXCEPT ![t] = call[t]] = call
  BY StreamTask
<1>1. pc[t] \in Waits /\ pc[t] \notin Locked /\ lock' = lock /\ UNCHANGED ringVars
  BY DEF TestCapacity, TestLen, TestGeneration, PrepareToWait, Schedule, Waits, Locked
<1>2. ASSUME NEW l \in Waits \cup {"lock", "failing"}, NEW k, k.op = call[t].op,
             SameData(k, call[t]),
             pc' = [pc EXCEPT ![t] = l], call' = [call EXCEPT ![t] = k]
      PROVE  StreamInv' /\ Stream' = Stream /\ capacity' = capacity
  <2>1. l \notin Locked /\ l # "mutex"
    BY <1>2 DEF Waits, Locked
  <2> QED
    BY <1>1, <1>2, <2>1, OutsideMove
<1>3. ASSUME NEW l \in Waits \cup {"lock", "failing"}, NEW c, NEW x, NEW code,
             pc' = [pc EXCEPT ![t] = l],
             \/ call' = [call EXCEPT ![t].cap_seen = c]
             \/ call' = [call EXCEPT ![t].phase = x]
             \/ call' = [call EXCEPT ![t].phase = x, ![t].ret = code]
             \/ call' = call
      PROVE  \E k : k.op = call[t].op /\ SameData(k, call[t]) /\ call' = [call EXCEPT ![t] = k]
  <2>1. CASE call' = [call EXCEPT ![t].cap_seen = c]
    <3> WITNESS [call[t] EXCEPT !.cap_seen = c]
    <3> QED
      BY <1>0, <2>1 DEF CallRecord, SameData
  <2>2. CASE call' = [call EXCEPT ![t].phase = x]
    <3> WITNESS [call[t] EXCEPT !.phase = x]
    <3> QED
      BY <1>0, <2>2 DEF CallRecord, SameData
  <2>3. CASE call' = [call EXCEPT ![t].phase = x, ![t].ret = code]
    <3> WITNESS [call[t] EXCEPT !.phase = x, !.ret = code]
    <3> QED
      BY <1>0, <2>3 DEF CallRecord, SameData
  <2>4. CASE call' = call
    <3> WITNESS call[t]
    <3> QED
      BY <1>0, <2>4 DEF SameData
  <2> QED
    BY <1>3, <2>1, <2>2, <2>3, <2>4
<1>4. \E l \in Waits \cup {"lock", "failing"} : pc' = [pc EXCEPT ![t] = l]
  BY DEF TestCapacity, TestLen, TestGeneration, PrepareToWait, Schedule, StopWaiting, KeepWaiting,
         Goto, Waits, TestStart
<1>5. \E c, x, code :
        \/ call' = [call EXCEPT ![t].cap_seen = c]
        \/ call' = [call EXCEPT ![t].phase = x]
        \/ call' = [call EXCEPT ![t].phase = x, ![t].ret = code]
        \/ call' = call
  BY DEF TestCapacity, TestLen, TestGeneration, PrepareToWait, Schedule, StopWaiting, KeepWaiting
<1> QED
  BY <1>2, <1>3, <1>4, <1>5

LEMMA OutsideStream ==
  ASSUME StreamInv, WakeInv', NEW t \in Threads,
         \/ LockInterrupted(t) \/ Wake(t) \/ WakeReaders(t) \/ WakeWriters(t)
         \/ CopyOut(t) \/ ResetStats(t) \/ PollRegister(t) \/ PollWait(t)
         \/ Fail(t) \/ Return(t)
  PROVE  StreamInv' /\ Stream' = Stream /\ capacity' = capacity
<1>0. /\ call[t] \in CallRecord /\ [call EXCEPT ![t] = call[t]] = call
      /\ CallOK(pc[t], call[t])
  BY StreamTask
<1>1. pc[t] \notin Locked /\ lock' = lock /\ UNCHANGED ringVars
  BY DEF LockInterrupted, Wake, WakeReaders, WakeWriters, CopyOut, ResetStats, PollRegister,
         PollWait, Fail, Return, Locked
<1>2. CASE Return(t)
  <2>1. TransferOK("idle", NoCall)
    BY DEF TransferOK, Untouched, NoCall, NewCall, ReadWrite, Waits
  <2> QED
    BY <1>1, <1>2, <2>1, OutsideStep DEF Return, Goto
<1>3. CASE ~Return(t)
  <2>1. \E l \in {"failing", "return", "wake_w", "reset", "mutex"} :
          /\ pc' = [pc EXCEPT ![t] = l]
          /\ l = "mutex" => call[t].op \in Polls
    BY <1>0, <1>3 DEF LockInterrupted, Wake, WakeReaders, WakeWriters, CopyOut, ResetStats,
                      PollRegister, PollWait, Fail, Goto, CallOK, PlaceOK
  <2>2. \E k : /\ call' = [call EXCEPT ![t] = k] /\ k.op = call[t].op
               /\ k.op \in ReadWrite => SameData(k, call[t])
    <3>1. CASE \E code : call' = [call EXCEPT ![t].ret = code]
      <4>1. PICK code : call' = [call EXCEPT ![t].ret = code]
        BY <3>1
      <4> WITNESS [call[t] EXCEPT !.ret = code]
      <4> QED
        BY <1>0, <4>1 DEF CallRecord, SameData
    <3>2. CASE ResetStats(t)
      <4> WITNESS [call[t] EXCEPT !.copied = call[t].copied + 1]
      <4>1. call[t].op = "reset_stats"
        BY <1>0, <3>2 DEF ResetStats, CallOK, PlaceOK
      <4> QED
        BY <1>0, <3>2, <4>1 DEF ResetStats, CallRecord, SameData, ReadWrite
    <3>3. CASE call' = call
      <4> WITNESS call[t]
      <4> QED
        BY <1>0, <3>3 DEF SameData
    <3> QED
      BY <1>3, <3>1, <3>2, <3>3 DEF LockInterrupted, Wake, WakeReaders, WakeWriters, CopyOut,
                                    PollRegister, PollWait, Fail
  <2>3. \A l \in {"failing", "return", "wake_w", "reset", "mutex"} : l \notin Locked \cup Waits \cup {"lock"}
    BY DEF Locked, Waits
  <2> QED
    BY <1>1, <2>1, <2>2, <2>3, OutsideMove
<1> QED
  BY <1>2, <1>3

-----------------------------------------------------------------------------
(***************************************************************************)
(* The steps with the mutex that leave the stream alone.                   *)
(***************************************************************************)
\* What the stream is while t has the mutex, and while nobody has.
LEMMA OwnerStream ==
  ASSUME StreamInv, NEW t \in Threads, lock = t
  PROVE  /\ call[t].op = "read" =>
              /\ Stream = call[t].dst \o Contents /\ Stream \in Seq(Byte)
              /\ Len(Stream) = call[t].copied + len
              /\ SubSeq(Stream, 1, call[t].copied) = call[t].dst
              /\ SubSeq(Stream, call[t].copied + 1, Len(Stream)) = Contents
         /\ call[t].op = "write" =>
              /\ Stream = SubSeq(Contents, 1, len - call[t].copied) /\ Stream \in Seq(Byte)
              /\ Len(Stream) = len - call[t].copied
              /\ Contents = Stream \o SubSeq(call[t].src, 1, call[t].copied)
         /\ call[t].op \notin ReadWrite => Stream = Contents
         /\ Untouched(pc[t], call[t]) => Stream = Contents
<1>0. /\ t # NoThread /\ TransferOK(pc[t], call[t]) /\ call[t] \in CallRecord
      /\ OwnerOK(pc[t], call[t], len, capacity, Contents) /\ CallOK(pc[t], call[t])
  BY StreamTask
<1>1. Contents \in Seq(Byte) /\ Len(Contents) = len /\ len \in Nat
  BY StreamRing
<1>2. CASE call[t].op = "read"
  <2>1. Stream = call[t].dst \o Contents
    BY <1>0, <1>2 DEF Stream
  <2>2. call[t].dst \in Seq(Byte) /\ Len(call[t].dst) = call[t].copied
    BY <1>0, <1>2 DEF TransferOK
  <2>3. /\ SubSeq(call[t].dst \o Contents, 1, Len(call[t].dst)) = call[t].dst
        /\ SubSeq(call[t].dst \o Contents, Len(call[t].dst) + 1, Len(call[t].dst \o Contents))
             = Contents
        /\ call[t].dst \o Contents \in Seq(Byte)
        /\ Len(call[t].dst \o Contents) = Len(call[t].dst) + Len(Contents)
    BY <1>1, <2>2, PartsOfConcat
  <2>4. Untouched(pc[t], call[t]) => Stream = Contents
    <3>1. Untouched(pc[t], call[t]) => call[t].copied = 0
      BY <1>0, <1>2 DEF Untouched, CallOK, CountOK, ReadWrite
    <3>2. call[t].copied = 0 => call[t].dst = << >>
      BY <2>2, EmptySeq
    <3>3. << >> \o Contents = Contents
      BY <1>1, ConcatEmptySeq
    <3> QED
      BY <2>1, <3>1, <3>2, <3>3
  <2> QED
    BY <1>1, <1>2, <2>1, <2>2, <2>3, <2>4 DEF ReadWrite
<1>3. CASE call[t].op = "write"
  <2>1. Stream = SubSeq(Contents, 1, len - call[t].copied)
    BY <1>0, <1>3 DEF Stream
  <2>2. /\ call[t].copied \in Nat /\ call[t].copied <= len
        /\ Contents = SubSeq(Contents, 1, len - call[t].copied) \o SubSeq(call[t].src, 1, call[t].copied)
    BY <1>0, <1>3 DEF OwnerOK, WriteOwner, CallRecord
  <2>3. len - call[t].copied \in Nat /\ len - call[t].copied <= Len(Contents)
    BY <1>1, <2>2
  <2>4. /\ SubSeq(Contents, 1, len - call[t].copied) \in Seq(Byte)
        /\ Len(SubSeq(Contents, 1, len - call[t].copied)) = len - call[t].copied
    BY <1>1, <2>3, FrontAndRest
  <2>5. Untouched(pc[t], call[t]) => Stream = Contents
    <3>1. Untouched(pc[t], call[t]) => call[t].copied = 0
      BY <1>0, <1>3 DEF Untouched, CallOK, CountOK, ReadWrite
    <3>2. SubSeq(Contents, 1, len) = Contents /\ len - 0 = len
      BY <1>1, SubSeqFull
    <3> QED
      BY <2>1, <3>1, <3>2
  <2> QED
    BY <1>3, <2>1, <2>2, <2>4, <2>5 DEF ReadWrite
<1>4. CASE call[t].op \notin ReadWrite
  BY <1>0, <1>4 DEF Stream, ReadWrite
<1> QED
  BY <1>2, <1>3, <1>4 DEF ReadWrite

LEMMA FreeStream == lock = NoThread => Stream = Contents
BY DEF Stream

LEMMA AcquireStream ==
  ASSUME StreamInv, WakeInv', NEW t \in Threads, Acquire(t)
  PROVE  StreamInv' /\ Stream' = Stream /\ capacity' = capacity
<1> DEFINE l == AfterLock(call[t].op)
<1>0. /\ t # NoThread /\ TransferOK(pc[t], call[t]) /\ call[t] \in CallRecord
      /\ CallOK(pc[t], call[t]) /\ [call EXCEPT ![t] = call[t]] = call
  BY StreamTask
<1>1. /\ pc[t] \in {"lock", "mutex"} /\ lock = NoThread /\ lock' = t
      /\ pc' = [pc EXCEPT ![t] = l] /\ call' = [call EXCEPT ![t] = call[t]] /\ call' = call
      /\ UNCHANGED ringVars
  BY <1>0 DEF Acquire, Goto
<1>2. len' = len /\ capacity' = capacity /\ Contents' = Contents
  BY <1>1 DEF ringVars, Contents
<1>3. Contents \in Seq(Byte) /\ Len(Contents) = len /\ len \in Nat /\ len <= capacity
  BY StreamRing
<1>4. call[t].op \in ReadWrite => pc[t] = "lock" /\ l = "decide" /\ call[t].copied = 0
  BY <1>0, <1>1 DEF CallOK, PlaceOK, CountOK, AfterLock, ReadWrite, Polls, Controls, Queries
<1>5. call[t].op \notin ReadWrite => l \in {"mask", "control"}
  BY DEF AfterLock
<1>6. call[t].op = "set_capacity" => CapacityValid(call[t].count)
  BY <1>0, <1>1, <1>4 DEF TransferOK, CallOK, PlaceOK, ReadWrite
<1> HIDE DEF l
<1>7. TransferOK(l, call[t])
  BY <1>0, <1>4, <1>5, <1>6 DEF TransferOK, Untouched, ReadWrite, Waits
<1>8. SubSeq(Contents, 1, len) = Contents /\ SubSeq(call[t].src, 1, 0) = << >>
      /\ Contents \o << >> = Contents /\ << >> \o Contents = Contents /\ len - 0 = len
  BY <1>3, SubSeqFull, SubSeqEmpty, ConcatEmptySeq
<1>9. OwnerOK(l, call[t], len, capacity, Contents)
  <2>1. CASE call[t].op = "read"
    BY <1>3, <1>4, <2>1 DEF OwnerOK, ReadOwner, ReadWrite
  <2>2. CASE call[t].op = "write"
    BY <1>3, <1>4, <1>8, <2>2 DEF OwnerOK, WriteOwner, ReadWrite
  <2> QED
    BY <2>1, <2>2 DEF OwnerOK
<1>10. StreamInv'
  BY <1>1, <1>2, <1>7, <1>9, StreamStep
<1>11. Stream' = Stream
  <2>1. Stream = Contents
    BY <1>1, FreeStream
  <2>2. CASE call[t].op = "read"
    <3>1. call[t].dst = << >>
      BY <1>0, <1>4, <2>2, EmptySeq DEF TransferOK, ReadWrite
    <3> QED
      BY <1>0, <1>1, <1>2, <1>8, <2>1, <2>2, <3>1 DEF Stream
  <2>3. CASE call[t].op = "write"
    BY <1>0, <1>1, <1>2, <1>4, <1>8, <2>1, <2>3 DEF Stream, ReadWrite
  <2>4. CASE call[t].op \notin ReadWrite
    BY <1>0, <1>1, <1>2, <2>1, <2>4 DEF Stream, ReadWrite
  <2> QED
    BY <2>2, <2>3, <2>4 DEF ReadWrite
<1> QED
  BY <1>2, <1>10, <1>11

LEMMA DecideStream ==
  ASSUME StreamInv, WakeInv', NEW t \in Threads, ReadDecide(t) \/ WriteDecide(t)
  PROVE  StreamInv' /\ Stream' = Stream /\ capacity' = capacity
<1>0. /\ TransferOK(pc[t], call[t]) /\ call[t] \in CallRecord /\ CallOK(pc[t], call[t])
      /\ [call EXCEPT ![t] = call[t]] = call /\ pc[t] \in Locked <=> lock = t
      /\ lock = t => OwnerOK(pc[t], call[t], len, capacity, Contents)
      /\ pc[t] # "idle" => ~shutting_down
  BY StreamTask
<1>1. /\ pc[t] = "decide" /\ call[t].op \in ReadWrite /\ lock' = lock /\ UNCHANGED ringVars
      /\ ~shutting_down /\ pc[t] \in Locked /\ lock = t
  <2>1. pc[t] = "decide" /\ call[t].op \in ReadWrite /\ lock' = lock /\ UNCHANGED ringVars
    BY DEF ReadDecide, WriteDecide, ReadWrite
  <2>2. pc[t] \in Locked /\ pc[t] # "idle"
    BY <2>1 DEF Locked
  <2>3. ~shutting_down
    BY <2>2, StreamTask, Zenon
  <2>4. lock = t
    BY <2>2, StreamTask
  <2> QED
    BY <2>1, <2>2, <2>3, <2>4, Zenon
<1>2. len \in Nat /\ capacity \in Nat /\ len <= capacity /\ Available = capacity - len
  BY StreamRing
<1>3. /\ call[t].copied = 0 /\ call[t].count > 0 /\ call[t].missing = 0 /\ call[t].phase = "none"
      /\ call[t].count \in Nat
      /\ call[t].op = "write" => call[t].count = Len(call[t].src)
      /\ call[t].op = "read" => call[t].dst \in Seq(Byte) /\ Len(call[t].dst) = 0
      /\ call[t].op = "write" => Contents = SubSeq(Contents, 1, len - 0) \o SubSeq(call[t].src, 1, 0)
  BY <1>0, <1>1 DEF TransferOK, Untouched, CallOK, CountOK, OwnerOK, WriteOwner, CallRecord
<1>4. ASSUME NEW l, NEW k, pc' = [pc EXCEPT ![t] = l], call' = [call EXCEPT ![t] = k],
             TransferOK(l, k), OwnerOK(l, k, len, capacity, Contents),
             k.op = call[t].op, k.dst = call[t].dst, k.copied = call[t].copied
      PROVE  StreamInv' /\ Stream' = Stream /\ capacity' = capacity
  BY <1>1, <1>4, OwnerMove
<1>5. ASSUME Refuse(t, EAGAIN),
             call[t].op = "read" => len = 0, call[t].op = "write" => len = capacity
      PROVE  StreamInv' /\ Stream' = Stream /\ capacity' = capacity
  <2> DEFINE k == [call[t] EXCEPT !.ret = EAGAIN]
  <2>1. /\ call' = [call EXCEPT ![t] = k] /\ pc' = [pc EXCEPT ![t] = "unlock"]
    BY <1>5 DEF Refuse, Goto
  <2>2. /\ k.op = call[t].op /\ SameData(k, call[t]) /\ k.phase = "none" /\ k.ret = EAGAIN
    BY <1>0, <1>3 DEF CallRecord, SameData
  <2> HIDE DEF k
  <2>3. TransferOK("unlock", k)
    BY <1>1, <1>3, <2>2 DEF TransferOK, Untouched, SameData, Waits
  <2>4. OwnerOK("unlock", k, len, capacity, Contents)
    BY <1>1, <1>2, <1>3, <1>5, <2>2 DEF OwnerOK, ReadOwner, WriteOwner, SameData
  <2> QED
    BY <1>4, <2>1, <2>2, <2>3, <2>4 DEF SameData
<1>6. ASSUME NEW blocked, Block(t, blocked)
      PROVE  StreamInv' /\ Stream' = Stream /\ capacity' = capacity
  <2> DEFINE k == [call[t] EXCEPT !.seen = state_generation, !.phase = "first"]
  <2>1. /\ call' = [call EXCEPT ![t] = k] /\ pc' = [pc EXCEPT ![t] = "unlock"]
    BY <1>6 DEF Block, Goto
  <2>2. /\ k.op = call[t].op /\ SameData(k, call[t]) /\ k.phase = "first"
    BY <1>0 DEF CallRecord, SameData
  <2> HIDE DEF k
  <2>3. TransferOK("unlock", k)
    BY <1>1, <1>3, <2>2 DEF TransferOK, Untouched, SameData, Waits
  <2>4. OwnerOK("unlock", k, len, capacity, Contents)
    BY <1>1, <1>2, <1>3, <2>2 DEF OwnerOK, ReadOwner, WriteOwner, SameData
  <2> QED
    BY <1>4, <2>1, <2>2, <2>3, <2>4 DEF SameData
<1>7. CASE ReadDecide(t)
  <2>1. CASE ReadBreaks(t)
    <3>1. /\ call' = [call EXCEPT ![t] = call[t]] /\ pc' = [pc EXCEPT ![t] = "copy"]
          /\ len > 0 /\ call[t].op = "read"
      BY <1>0, <1>1, <1>2, <1>7, <2>1 DEF ReadDecide, ReadBreaks, Stored, Goto
    <3>2. TransferOK("copy", call[t])
      BY <1>0, <1>1, <1>3, <3>1 DEF TransferOK, Untouched, Waits
    <3>3. OwnerOK("copy", call[t], len, capacity, Contents)
      BY <1>2, <1>3, <3>1 DEF OwnerOK, ReadOwner
    <3> QED
      BY <1>4, <3>1, <3>2, <3>3
  <2>2. CASE ~ReadBreaks(t)
    <3>1. len = 0 /\ call[t].op = "read"
      BY <1>2, <1>7, <2>2 DEF ReadDecide, ReadBreaks, Stored
    <3> QED
      BY <1>5, <1>6, <1>7, <2>2, <3>1 DEF ReadDecide
  <2> QED
    BY <2>1, <2>2
<1>8. CASE WriteDecide(t)
  <2>1. CASE Available > 0 /\ call' = [call EXCEPT ![t].count = Least(@, Available)] /\ Goto(t, "copy")
    <3> DEFINE n == Least(call[t].count, Available)
               k == [call[t] EXCEPT !.count = n]
    <3>1. call' = [call EXCEPT ![t] = k] /\ pc' = [pc EXCEPT ![t] = "copy"]
      BY <2>1 DEF Goto
    <3>2. n > 0 /\ call[t].op = "write" /\ n = Least(Len(call[t].src), capacity - (len - 0))
      BY <1>2, <1>3, <1>8, <2>1 DEF Least, WriteDecide
    <3> HIDE DEF n
    <3>3. /\ k.op = "write" /\ k.count = n /\ k.src = call[t].src /\ k.dst = call[t].dst
          /\ k.copied = 0 /\ k.missing = 0 /\ k.phase = "none"
      BY <1>0, <1>3, <3>2 DEF CallRecord
    <3> HIDE DEF k
    <3>4. TransferOK("copy", k)
      BY <3>2, <3>3 DEF TransferOK, Untouched, ReadWrite, Waits
    <3>5. OwnerOK("copy", k, len, capacity, Contents)
      BY <1>2, <1>3, <3>2, <3>3 DEF OwnerOK, WriteOwner
    <3> QED
      BY <1>3, <1>4, <3>1, <3>2, <3>3, <3>4, <3>5
  <2>2. CASE Available = 0
    <3>1. len = capacity /\ call[t].op = "write"
      BY <1>2, <1>8, <2>2 DEF WriteDecide
    <3> QED
      BY <1>1, <1>5, <1>6, <1>8, <2>2, <3>1 DEF WriteDecide
  <2> QED
    BY <1>1, <1>2, <1>8, <2>1, <2>2 DEF WriteDecide
<1> QED
  BY <1>7, <1>8

LEMMA BumpStream ==
  ASSUME StreamInv, WakeInv', NEW t \in Threads, BumpGeneration(t) \/ PollMask(t)
  PROVE  StreamInv' /\ Stream' = Stream /\ capacity' = capacity
<1>0. /\ call[t] \in CallRecord /\ CallOK(pc[t], call[t]) /\ [call EXCEPT ![t] = call[t]] = call
  BY StreamTask
<1>1. /\ pc[t] \in Locked /\ lock' = lock /\ UNCHANGED ringVars
      /\ pc' = [pc EXCEPT ![t] = "unlock"] /\ call[t].op \in Controls \cup Polls
  BY <1>0 DEF BumpGeneration, PollMask, Locked, Goto, CallOK, PlaceOK
<1>2. \E k : call' = [call EXCEPT ![t] = k] /\ k.op = call[t].op
  <2>1. CASE BumpGeneration(t)
    <3> WITNESS call[t]
    <3> QED
      BY <1>0, <2>1 DEF BumpGeneration
  <2>2. CASE PollMask(t)
    <3>1. PICK code : call' = [call EXCEPT ![t].ret = code]
      BY <2>2 DEF PollMask
    <3> WITNESS [call[t] EXCEPT !.ret = code]
    <3> QED
      BY <1>0, <3>1 DEF CallRecord
  <2> QED
    BY <2>1, <2>2
<1>3. PICK k : call' = [call EXCEPT ![t] = k] /\ k.op = call[t].op
  BY <1>2
<1>4. k.op \notin ReadWrite
  BY <1>1, <1>3 DEF ReadWrite, Controls, Polls
<1>5. TransferOK("unlock", k)
  BY <1>4 DEF TransferOK, ReadWrite
<1>6. OwnerOK("unlock", k, len, capacity, Contents)
  BY <1>4 DEF OwnerOK, ReadWrite
<1> QED
  BY <1>1, <1>3, <1>4, <1>5, <1>6, OwnerMove

-----------------------------------------------------------------------------
(***************************************************************************)
(* The copy loops.                                                         *)
(***************************************************************************)
\* What AfterCopy makes of the locals.
LEMMA AfterCopyLocals ==
  ASSUME StreamInv, NEW t \in Threads, NEW memory \in Seq(Slot), NEW n \in Nat,
         NEW missing \in Nat, NEW more, AfterCopy(t, memory, n, missing, more)
  PROVE  /\ pc' = [pc EXCEPT ![t] = pc'[t]] /\ call' = [call EXCEPT ![t] = call'[t]]
         /\ call'[t].op = call[t].op /\ call'[t].count = call[t].count
         /\ call'[t].src = call[t].src /\ call'[t].phase = call[t].phase
         /\ call'[t].dst = memory /\ call'[t].copied = call[t].copied + n
         /\ call'[t].missing = missing
         /\ pc'[t] = "unlock" => call'[t].ret = CopyResult(call[t].copied + n, missing)
<1>0. /\ call[t] \in CallRecord /\ call \in [Threads -> CallRecord]
      /\ pc \in [Threads -> Labels]
  BY StreamTask DEF StreamInv, WakeInv, SafeInv, TypeOK
<1>1. CASE more /\ missing = 0
  <2> DEFINE k == [call[t] EXCEPT !.dst = memory, !.copied = call[t].copied + n,
                                  !.missing = missing, !.ret = 0]
  <2>1. pc' = [pc EXCEPT ![t] = "copy"] /\ call' = [call EXCEPT ![t] = k]
    BY <1>1 DEF AfterCopy, Goto
  <2>2. /\ k.op = call[t].op /\ k.count = call[t].count /\ k.src = call[t].src
        /\ k.phase = call[t].phase /\ k.dst = memory
        /\ k.copied = call[t].copied + n /\ k.missing = missing
    BY <1>0 DEF CallRecord
  <2> HIDE DEF k
  <2>3. call'[t] = k /\ pc'[t] = "copy"
    BY <1>0, <2>1
  <2> QED
    BY <1>1, <2>1, <2>2, <2>3
<1>2. CASE ~(more /\ missing = 0)
  <2> DEFINE result == CopyResult(call[t].copied + n, missing)
             k == [call[t] EXCEPT !.dst = memory, !.copied = call[t].copied + n,
                                  !.missing = missing, !.ret = result]
  <2>1. pc' = [pc EXCEPT ![t] = "unlock"] /\ call' = [call EXCEPT ![t] = k]
    BY <1>2 DEF AfterCopy, Goto
  <2>2. /\ k.op = call[t].op /\ k.count = call[t].count /\ k.src = call[t].src
        /\ k.phase = call[t].phase /\ k.dst = memory
        /\ k.copied = call[t].copied + n /\ k.missing = missing /\ k.ret = result
    BY <1>0 DEF CallRecord
  <2>4. more => missing > 0
    BY <1>2
  <2> HIDE DEF k
  <2>3. call'[t] = k /\ pc'[t] = "unlock"
    BY <1>0, <2>1
  <2> QED
    BY <2>1, <2>2, <2>3, <2>4
<1> QED
  BY <1>1, <1>2

LEMMA ReadChunkStream ==
  ASSUME StreamInv, WakeInv', NEW t \in Threads, ReadChunk(t)
  PROVE  StreamInv' /\ Stream' = Stream /\ capacity' = capacity
<1> DEFINE left == call[t].count - call[t].copied
           chunk == Least(left, ReadSpan)
<1>0. /\ t # NoThread /\ TransferOK(pc[t], call[t]) /\ call[t] \in CallRecord
      /\ pc[t] \in Locked <=> lock = t
      /\ lock = t => OwnerOK(pc[t], call[t], len, capacity, Contents)
  BY StreamTask
<1>1. pc[t] = "copy" /\ call[t].op = "read" /\ lock = t
  <2>1. pc[t] = "copy" /\ call[t].op = "read" /\ pc[t] \in Locked
    BY DEF ReadChunk, Locked
  <2> QED
    BY <1>0, <2>1
<1>2. /\ RingInv /\ len \in Nat /\ capacity \in Nat /\ ReadSpan \in Nat
      /\ read_pos \in Nat /\ read_pos < capacity
  BY StreamRing DEF ReadSpan, Least
<1>3. /\ call[t].dst \in Seq(Byte) /\ Len(call[t].dst) = call[t].copied
      /\ call[t].count > 0 /\ call[t].phase = "none" /\ call[t].copied < call[t].count
      /\ call[t].copied \in Nat /\ call[t].count \in Nat
      /\ call[t].copied + len <= capacity
  BY <1>0, <1>1 DEF TransferOK, OwnerOK, ReadOwner, ReadWrite, CallRecord
<1>4. chunk \in Nat /\ chunk <= left /\ chunk <= ReadSpan /\ left \in Nat
  BY <1>2, <1>3, SMTT(30) DEF Least
<1>5. PICK missing \in Missing(t, chunk) :
        /\ Consume(chunk - missing)
        /\ AfterCopy(t, call[t].dst \o SpanBytes(chunk - missing), chunk - missing, missing,
                     chunk - missing < left /\ chunk - missing < len)
  BY <1>1 DEF ReadChunk, Transferred
<1>6. PICK n \in Nat : n = chunk - missing /\ missing \in Nat /\ n <= chunk /\ (missing = 0 => n = chunk)
  BY <1>4, <1>5 DEF Missing
<1> DEFINE memory == call[t].dst \o SpanBytes(n)
           more == n < left /\ n < len
<1>7. Consume(n) /\ AfterCopy(t, memory, n, missing, more)
  BY <1>5, <1>6
<1>8. n <= ReadSpan /\ n <= left
  BY <1>2, <1>4, <1>6
<1>9. /\ memory \in Seq(Byte) /\ Len(memory) = call[t].copied + n
      /\ memory \o Contents' = call[t].dst \o Contents
      /\ n <= len /\ len' = len - n /\ capacity' = capacity
  BY <1>2, <1>3, <1>7, <1>8, ReadMoves
<1>10. memory \in Seq(Slot)
  BY <1>9 DEF Slot
<1>11. more <=> n < left /\ n < len
  OBVIOUS
<1>l. left = call[t].count - call[t].copied
  OBVIOUS
<1> HIDE DEF memory
<1>f. /\ pc' = [pc EXCEPT ![t] = pc'[t]] /\ call' = [call EXCEPT ![t] = call'[t]]
      /\ call'[t].op = call[t].op /\ call'[t].count = call[t].count
      /\ call'[t].src = call[t].src /\ call'[t].phase = call[t].phase
      /\ call'[t].dst = memory /\ call'[t].copied = call[t].copied + n
      /\ call'[t].missing = missing
      /\ pc'[t] = "unlock" => call'[t].ret = CopyResult(call[t].copied + n, missing)
  BY <1>6, <1>7, <1>10, AfterCopyLocals
<1>w. \/ pc'[t] = "copy" /\ more /\ missing = 0
      \/ pc'[t] = "unlock" /\ (more => missing > 0)
  <2>1. pc' = [pc EXCEPT ![t] = IF more /\ missing = 0 THEN "copy" ELSE "unlock"]
    BY <1>7 DEF AfterCopy, Goto
  <2>2. pc \in [Threads -> Labels]
    BY DEF StreamInv, WakeInv, SafeInv, TypeOK
  <2> QED
    BY <1>6, <2>1, <2>2
<1> HIDE DEF more, left, chunk
<1>12. PICK k, l :
           /\ pc' = [pc EXCEPT ![t] = l] /\ call' = [call EXCEPT ![t] = k]
           /\ call'[t] = k
           /\ k.op = call[t].op /\ k.count = call[t].count /\ k.src = call[t].src
           /\ k.phase = call[t].phase /\ k.dst = memory
           /\ k.copied = call[t].copied + n /\ k.missing = missing
           /\ \/ l = "copy" /\ more /\ missing = 0
              \/ /\ l = "unlock" /\ (more => missing > 0)
                 /\ k.ret = CopyResult(call[t].copied + n, missing)
  BY <1>f, <1>w
<1>13. TransferOK(l, k)
  <2>1. l = "copy" => k.copied < k.count
    BY <1>3, <1>6, <1>11, <1>12, <1>l
  <2>2. k.dst \in Seq(Byte) /\ Len(k.dst) = k.copied
    BY <1>9, <1>12
  <2>3. ~Untouched(l, k) /\ k.op = "read"
    BY <1>1, <1>3, <1>12 DEF Untouched, Waits
  <2> QED
    BY <1>3, <1>12, <2>1, <2>2, <2>3 DEF TransferOK
<1>14. ReadOwner(l, k, len', capacity')
  <2>1. k.copied + len' <= capacity'
    BY <1>2, <1>3, <1>9, <1>12
  <2>2. l = "copy" => len' > 0
    BY <1>2, <1>9, <1>11, <1>12
  <2>3. ASSUME l = "unlock"
        PROVE  \/ k.ret = EFAULT /\ k.copied = 0
               \/ k.ret = k.copied /\ k.copied > 0 /\ (k.missing > 0 \/ k.copied = k.count \/ len' = 0)
    <3>1. (more => missing > 0) /\ k.ret = CopyResult(call[t].copied + n, missing)
      BY <1>12, <2>3
    <3>2. CASE call[t].copied + n = 0
      BY <1>12, <3>1, <3>2 DEF CopyResult
    <3>3. CASE call[t].copied + n # 0
      <4>1. k.ret = k.copied /\ k.copied > 0
        BY <1>3, <1>12, <3>1, <3>3 DEF CopyResult
      <4>2. missing > 0 \/ ~(n < left /\ n < len)
        BY <1>11, <3>1
      <4>3. /\ call[t].copied \in Nat /\ call[t].count \in Nat /\ len \in Nat /\ n <= len
            /\ n <= left /\ len' = len - n /\ missing \in Nat /\ n \in Nat
        BY <1>2, <1>3, <1>6, <1>8, <1>9
      <4>4. missing > 0 \/ call[t].copied + n = call[t].count \/ len' = 0
        BY <4>2, <4>3, <1>l
      <4> QED
        BY <1>12, <4>1, <4>4
    <3> QED
      BY <3>2, <3>3
  <2> QED
    BY <2>1, <2>2, <2>3 DEF ReadOwner
<1>15. k.op = "read" /\ lock' = t
  BY <1>1, <1>7, <1>12 DEF AfterCopy
<1>16. OwnerOK(l, k, len', capacity', Contents')
  BY <1>14, <1>15 DEF OwnerOK
<1>17. StreamInv'
  BY <1>12, <1>13, <1>15, <1>16, StreamStep
<1>18. Stream' = memory \o Contents' /\ Stream = call[t].dst \o Contents
  BY <1>0, <1>1, <1>12, <1>15 DEF Stream
<1> QED
  BY <1>9, <1>17, <1>18

LEMMA WriteChunkStream ==
  ASSUME StreamInv, WakeInv', NEW t \in Threads, WriteChunk(t)
  PROVE  StreamInv' /\ Stream' = Stream /\ capacity' = capacity
<1> DEFINE left == call[t].count - call[t].copied
           chunk == Least(left, WriteSpan)
<1>0. /\ t # NoThread /\ TransferOK(pc[t], call[t]) /\ call[t] \in CallRecord
      /\ pc[t] \in Locked <=> lock = t
      /\ lock = t => OwnerOK(pc[t], call[t], len, capacity, Contents)
  BY StreamTask
<1>1. pc[t] = "copy" /\ call[t].op = "write" /\ lock = t
  <2>1. pc[t] = "copy" /\ call[t].op = "write" /\ pc[t] \in Locked
    BY DEF WriteChunk, Locked
  <2> QED
    BY <1>0, <2>1
<1>2. /\ RingInv /\ len \in Nat /\ capacity \in Nat /\ WriteSpan \in Nat
      /\ WriteSpan <= capacity - len /\ Available = capacity - len /\ len <= capacity
  BY StreamRing DEF WriteSpan, Least
<1>3. /\ call[t].count > 0 /\ call[t].phase = "none" /\ call[t].copied < call[t].count
      /\ call[t].copied \in Nat /\ call[t].count \in Nat /\ call[t].src \in Seq(Byte)
      /\ Len(call[t].src) \in Nat /\ call[t].copied <= len
      /\ Contents = SubSeq(Contents, 1, len - call[t].copied) \o SubSeq(call[t].src, 1, call[t].copied)
      /\ call[t].count = Least(Len(call[t].src), capacity - (len - call[t].copied))
  <2>1. /\ call[t].count > 0 /\ call[t].phase = "none" /\ call[t].copied < call[t].count
        /\ call[t].copied \in Nat /\ call[t].count \in Nat /\ call[t].src \in Seq(Byte)
    BY <1>0, <1>1 DEF TransferOK, ReadWrite, CallRecord
  <2>2. WriteOwner(pc[t], call[t], len, capacity, Contents)
    BY <1>0, <1>1 DEF OwnerOK
  <2>3. /\ call[t].copied <= len
        /\ Contents = SubSeq(Contents, 1, len - call[t].copied) \o SubSeq(call[t].src, 1, call[t].copied)
        /\ call[t].count = Least(Len(call[t].src), capacity - (len - call[t].copied))
    BY <1>1, <2>2 DEF WriteOwner
  <2>4. Len(call[t].src) \in Nat
    BY <2>1
  <2> QED
    BY <2>1, <2>3, <2>4
<1>4. /\ chunk \in Nat /\ chunk <= left /\ chunk <= WriteSpan /\ left \in Nat
      /\ call[t].copied + chunk <= Len(call[t].src)
  <2>1. /\ call[t].copied \in Nat /\ call[t].count \in Nat /\ call[t].copied < call[t].count
        /\ len \in Nat /\ capacity \in Nat /\ WriteSpan \in Nat /\ Len(call[t].src) \in Nat
    BY <1>2, <1>3
  <2>2. call[t].count <= Len(call[t].src)
    BY <1>3, <2>1 DEF Least
  <2> QED
    BY <2>1, <2>2 DEF Least
<1>5. PICK missing \in Missing(t, chunk) :
        /\ CopyIn(call[t].src, call[t].copied, chunk, chunk - missing)
        /\ Commit(chunk - missing)
        /\ AfterCopy(t, << >>, chunk - missing, missing,
                     chunk - missing < left /\ chunk - missing < Available)
  BY <1>1 DEF WriteChunk, Transferred
<1>6. PICK n \in Nat : n = chunk - missing /\ missing \in Nat /\ n <= chunk /\ (missing = 0 => n = chunk)
  BY <1>4, <1>5 DEF Missing
<1> DEFINE more == n < left /\ n < Available
           memory == << >>
<1>7. /\ CopyIn(call[t].src, call[t].copied, chunk, n) /\ Commit(n)
      /\ AfterCopy(t, memory, n, missing, more)
  BY <1>5, <1>6
<1>8. n <= left /\ call[t].copied + n <= Len(call[t].src)
  <2>1. call[t].copied \in Nat /\ Len(call[t].src) \in Nat
    BY <1>3
  <2> QED
    BY <2>1, <1>4, <1>6
<1>11. more <=> n < left /\ n < Available
  OBVIOUS
<1>l. left = call[t].count - call[t].copied
  OBVIOUS
<1>10. memory \in Seq(Slot)
  OBVIOUS
<1> HIDE DEF memory
<1>f. /\ pc' = [pc EXCEPT ![t] = pc'[t]] /\ call' = [call EXCEPT ![t] = call'[t]]
      /\ call'[t].op = call[t].op /\ call'[t].count = call[t].count
      /\ call'[t].src = call[t].src /\ call'[t].phase = call[t].phase
      /\ call'[t].dst = memory /\ call'[t].copied = call[t].copied + n
      /\ call'[t].missing = missing
      /\ pc'[t] = "unlock" => call'[t].ret = CopyResult(call[t].copied + n, missing)
  BY <1>6, <1>7, <1>10, AfterCopyLocals
<1>w. \/ pc'[t] = "copy" /\ more /\ missing = 0
      \/ pc'[t] = "unlock" /\ (more => missing > 0)
  <2>1. pc' = [pc EXCEPT ![t] = IF more /\ missing = 0 THEN "copy" ELSE "unlock"]
    BY <1>7 DEF AfterCopy, Goto
  <2>2. pc \in [Threads -> Labels]
    BY DEF StreamInv, WakeInv, SafeInv, TypeOK
  <2> QED
    BY <1>6, <2>1, <2>2
<1> HIDE DEF more, left, chunk
<1>9. /\ len' = len + n /\ capacity' = capacity /\ n <= capacity - len
      /\ call[t].copied + n <= len' /\ len' - (call[t].copied + n) = len - call[t].copied
      /\ SubSeq(Contents', 1, len' - (call[t].copied + n)) = SubSeq(Contents, 1, len - call[t].copied)
      /\ Contents' = SubSeq(Contents', 1, len' - (call[t].copied + n))
                       \o SubSeq(call[t].src, 1, call[t].copied + n)
  <2>1. /\ call[t].src \in Seq(Byte) /\ call[t].copied \in Nat /\ call[t].copied <= len
        /\ Contents = SubSeq(Contents, 1, len - call[t].copied) \o SubSeq(call[t].src, 1, call[t].copied)
    BY <1>3
  <2>2. chunk \in Nat /\ chunk <= WriteSpan /\ n <= chunk /\ RingInv
    BY <1>2, <1>4, <1>6
  <2>3. call[t].copied + n <= Len(call[t].src) /\ CopyIn(call[t].src, call[t].copied, chunk, n) /\ Commit(n)
    BY <1>7, <1>8
  <2> QED
    BY <2>1, <2>2, <2>3, WriteMoves
<1>12. PICK k, l :
           /\ pc' = [pc EXCEPT ![t] = l] /\ call' = [call EXCEPT ![t] = k]
           /\ call'[t] = k
           /\ k.op = call[t].op /\ k.count = call[t].count /\ k.src = call[t].src
           /\ k.phase = call[t].phase
           /\ k.copied = call[t].copied + n /\ k.missing = missing
           /\ \/ l = "copy" /\ more /\ missing = 0
              \/ /\ l = "unlock" /\ (more => missing > 0)
                 /\ k.ret = CopyResult(call[t].copied + n, missing)
  BY <1>f, <1>w
<1>13. TransferOK(l, k)
  <2>1. l = "copy" => k.copied < k.count
    BY <1>3, <1>6, <1>11, <1>12, <1>l
  <2>3. ~Untouched(l, k) /\ k.op = "write"
    BY <1>1, <1>3, <1>12 DEF Untouched, Waits
  <2> QED
    BY <1>3, <1>12, <2>1, <2>3 DEF TransferOK
<1>14. WriteOwner(l, k, len', capacity', Contents')
  <2>1. k.copied <= len' /\ Contents' = SubSeq(Contents', 1, len' - k.copied) \o SubSeq(k.src, 1, k.copied)
    BY <1>9, <1>12
  <2>2. k.count = Least(Len(k.src), capacity' - (len' - k.copied))
    BY <1>3, <1>9, <1>12
  <2>3. ASSUME l = "unlock"
        PROVE  \/ k.ret = EFAULT /\ k.copied = 0
               \/ k.ret = k.copied /\ k.copied > 0 /\ (k.missing > 0 \/ k.copied = k.count)
    <3>1. (more => missing > 0) /\ k.ret = CopyResult(call[t].copied + n, missing)
      BY <1>12, <2>3
    <3>2. CASE call[t].copied + n = 0
      BY <1>12, <3>1, <3>2 DEF CopyResult
    <3>3. CASE call[t].copied + n # 0
      <4>1. k.ret = k.copied /\ k.copied > 0
        BY <1>3, <1>12, <3>1, <3>3 DEF CopyResult
      <4>2. missing > 0 \/ ~(n < left /\ n < Available)
        BY <1>11, <3>1
      <4>3. /\ call[t].copied \in Nat /\ call[t].count \in Nat /\ n \in Nat /\ missing \in Nat
            /\ n <= left /\ len \in Nat /\ capacity \in Nat /\ Available = capacity - len
        BY <1>2, <1>3, <1>6, <1>8
      <4>4. call[t].count <= capacity - (len - call[t].copied)
        <5>1. call[t].count = Least(Len(call[t].src), capacity - (len - call[t].copied))
          BY <1>3
        <5>2. Len(call[t].src) \in Nat
          BY <1>3
        <5> QED
          BY <4>3, <5>1, <5>2 DEF Least
      <4>5. missing > 0 \/ call[t].copied + n = call[t].count
        BY <4>2, <4>3, <4>4, <1>l
      <4> QED
        BY <1>12, <4>1, <4>5
    <3> QED
      BY <3>2, <3>3
  <2> QED
    BY <2>1, <2>2, <2>3 DEF WriteOwner
<1>15. k.op = "write" /\ lock' = t
  BY <1>1, <1>7, <1>12 DEF AfterCopy
<1>16. OwnerOK(l, k, len', capacity', Contents')
  BY <1>14, <1>15 DEF OwnerOK
<1>17. StreamInv'
  BY <1>12, <1>13, <1>15, <1>16, StreamStep
<1>18. /\ Stream' = SubSeq(Contents', 1, len' - (call[t].copied + n))
       /\ Stream = SubSeq(Contents, 1, len - call[t].copied)
  BY <1>0, <1>1, <1>12, <1>15 DEF Stream
<1> QED
  BY <1>9, <1>17, <1>18

-----------------------------------------------------------------------------
(***************************************************************************)
(* The calls of the contract, as the driver makes them.                    *)
(***************************************************************************)
LEMMA FifoRead ==
  ASSUME NEW n \in Nat, NEW request \in Nat, Len(Stream) \in Nat,
         n = Fifo!Lesser(request, Len(Stream)), n > 0 \/ request = 0,
         Stream' = SubSeq(Stream, n + 1, Len(Stream)), capacity' = capacity
  PROVE  Fifo!Read(request, n, SubSeq(Stream, 1, n))
BY SMTT(30) DEF Fifo!Read, Fifo!Answer, Fifo!ApplyRead, Fifo!Model, Fifo!Success, Fifo!Failure,
       Fifo!Rest, Fifo!Front

LEMMA FifoReadNothing ==
  ASSUME NEW request \in Nat, Len(Stream) \in Nat, request > 0, Len(Stream) = 0,
         Stream' = Stream, capacity' = capacity
  PROVE  Fifo!Read(request, EAGAIN, << >>)
BY DEF Fifo!Read, Fifo!Answer, Fifo!ApplyRead, Fifo!Model, Fifo!Success, Fifo!Failure,
       Fifo!Rest, Fifo!Front, Fifo!Lesser, Fifo!EAGAIN, EAGAIN

LEMMA FifoWrite ==
  ASSUME NEW payload, NEW n \in Nat, Len(Stream) \in Nat, Len(payload) \in Nat,
         n = Fifo!Lesser(Len(payload), capacity - Len(Stream)), n > 0,
         Stream' = Stream \o SubSeq(payload, 1, n), capacity' = capacity
  PROVE  Fifo!Write(payload, n)
BY DEF Fifo!Write, Fifo!Answer, Fifo!ApplyWrite, Fifo!Model, Fifo!Success, Fifo!Failure, Fifo!Front

LEMMA FifoWriteNothing ==
  ASSUME NEW payload, Len(Stream) \in Nat, Len(payload) \in Nat,
         payload # << >>, Fifo!Lesser(Len(payload), capacity - Len(Stream)) = 0,
         Stream' = Stream, capacity' = capacity
  PROVE  Fifo!Write(payload, EAGAIN)
BY DEF Fifo!Write, Fifo!Answer, Fifo!ApplyWrite, Fifo!Model, Fifo!Success, Fifo!Failure,
       Fifo!Front, Fifo!EAGAIN, EAGAIN

LEMMA FifoResize ==
  ASSUME NEW c \in Int, MinCapacity <= c, c <= MaxCapacity, Len(Stream) <= c,
         Len(Stream) \in Nat, Stream' = Stream, capacity' = c
  PROVE  Fifo!Resize(c, 0)
BY CapacityAssumption DEF Fifo!Resize, Fifo!Answer, Fifo!ApplyResize, Fifo!ValidCapacity,
                          Fifo!Model, Fifo!Success, Fifo!Failure

LEMMA FifoResizeRefused ==
  ASSUME NEW c \in Int, MinCapacity <= c, c <= MaxCapacity, c < Len(Stream),
         Len(Stream) \in Nat, Stream' = Stream, capacity' = capacity
  PROVE  Fifo!Resize(c, EMSGSIZE)
BY CapacityAssumption DEF Fifo!Resize, Fifo!Answer, Fifo!ApplyResize, Fifo!ValidCapacity,
                          Fifo!Model, Fifo!Success, Fifo!Failure, Fifo!EMSGSIZE, EMSGSIZE

LEMMA FifoClear ==
  ASSUME Stream' = << >>, capacity' = capacity
  PROVE  Fifo!Clear(0)
BY DEF Fifo!Clear, Fifo!Answer, Fifo!ApplyClear, Fifo!Model, Fifo!Success

LEMMA FifoGetCapacity ==
  ASSUME Stream' = Stream, capacity' = capacity
  PROVE  Fifo!GetCapacity(capacity)
BY DEF Fifo!GetCapacity, Fifo!Answer, Fifo!ApplyCapacity, Fifo!Model, Fifo!Success

-----------------------------------------------------------------------------
(***************************************************************************)
(* The ioctl calls take effect in one step.                                *)
(***************************************************************************)
LEMMA ControlStream ==
  ASSUME StreamInv, WakeInv', NEW t \in Threads, Control(t)
  PROVE  /\ StreamInv' /\ [Fifo!Next]_<<capacity, Stream>>
         /\ ControlReplies(call[t], call'[t])
<1>0. /\ t # NoThread /\ TransferOK(pc[t], call[t]) /\ call[t] \in CallRecord
      /\ CallOK(pc[t], call[t]) /\ ResultOK(pc[t], call[t])
      /\ [call EXCEPT ![t] = call[t]] = call
      /\ call \in [Threads -> CallRecord] /\ pc \in [Threads -> Labels]
  BY StreamTask DEF StreamInv, WakeInv, SafeInv, TypeOK
<1>1. pc[t] = "control" /\ lock = t /\ lock' = t
  <2>1. pc[t] = "control" /\ lock' = lock
    BY DEF Control
  <2>2. pc[t] \in Locked
    BY <2>1 DEF Locked
  <2> QED
    BY <2>1, <2>2, StreamTask
<1>2. /\ RingInv /\ Contents \in Seq(Byte) /\ Len(Contents) = len /\ len \in Nat
      /\ capacity \in Nat /\ Available = capacity - len
      /\ MinCapacity \in Nat /\ MaxCapacity \in Nat
  BY StreamRing, CapacityAssumption
<1>3. /\ call[t].op \in Controls \cup Queries /\ call[t].op \notin ReadWrite
      /\ call[t].count \in Nat
  BY <1>0, <1>1 DEF CallOK, PlaceOK, Controls, Queries, ReadWrite, CallRecord
<1>4. Stream = Contents
  BY <1>1, <1>3, OwnerStream
<1>5. /\ call[t].op \in Controls => call[t].ret = 0
      /\ call[t].op = "set_capacity" => MinCapacity <= call[t].count /\ call[t].count <= MaxCapacity
  BY <1>0, <1>1 DEF ResultOK, TransferOK, CapacityValid
\* Whatever the call does to its locals, it goes on with the mutex.
<1>6. ASSUME NEW k, NEW l, k.op = call[t].op, l \in {"bump", "unlock"},
             pc' = [pc EXCEPT ![t] = l], call' = [call EXCEPT ![t] = k]
      PROVE  StreamInv' /\ Stream' = Contents' /\ call'[t] = k
  <2>1. TransferOK(l, k) /\ OwnerOK(l, k, len', capacity', Contents')
    BY <1>3, <1>6 DEF TransferOK, OwnerOK, ReadWrite
  <2>2. StreamInv'
    BY <1>1, <1>6, <2>1, StreamStep
  <2>3. call'[t] = k
    BY <1>0, <1>6
  <2>4. Stream' = Contents'
    BY <1>0, <1>1, <1>3, <1>6, <2>3 DEF Stream, ReadWrite
  <2> QED
    BY <2>2, <2>3, <2>4
<1>7. CASE DoClear(t)
  <2>1. /\ call[t].op = "clear" /\ Clear /\ pc' = [pc EXCEPT ![t] = "bump"]
        /\ call' = [call EXCEPT ![t] = call[t]]
    BY <1>0, <1>7 DEF DoClear, Goto
  <2>2. StreamInv' /\ Stream' = Contents' /\ call'[t] = call[t]
    BY <1>6, <2>1
  <2>3. Fifo!Clear(0)
    BY <2>1, <2>2, ClearContents, FifoClear
  <2>4. [Fifo!Next]_<<capacity, Stream>>
    BY <2>3 DEF Fifo!Next
  <2>5. ControlReplies(call[t], call'[t])
    BY <1>5, <2>1, <2>2, <2>3 DEF ControlReplies, Controls
  <2> QED
    BY <2>2, <2>4, <2>5
<1>8. CASE DoSetMode(t)
  <2>1. /\ call[t].op = "set_mode" /\ UNCHANGED ringVars /\ pc' = [pc EXCEPT ![t] = "bump"]
        /\ call' = [call EXCEPT ![t] = call[t]]
    BY <1>0, <1>8 DEF DoSetMode, AfterSetMode, Goto
  <2>2. StreamInv' /\ Stream' = Contents' /\ Contents' = Contents /\ capacity' = capacity
    BY <1>6, <2>1 DEF ringVars, Contents
  <2>3. ControlReplies(call[t], call'[t])
    BY <2>1 DEF ControlReplies
  <2> QED
    BY <1>4, <2>2, <2>3
<1>9. CASE DoSetCapacity(t)
  <2>0. call[t].op = "set_capacity"
    BY <1>9 DEF DoSetCapacity
  <2>1. ASSUME NEW code \in Int, ResizeFails(t, code),
               code = ENOMEM \/ (code = EMSGSIZE /\ ResizeRefused(call[t].count))
        PROVE  /\ StreamInv' /\ [Fifo!Next]_<<capacity, Stream>>
               /\ ControlReplies(call[t], call'[t])
    <3> DEFINE k == [call[t] EXCEPT !.ret = code]
    <3>1. /\ call' = [call EXCEPT ![t] = k] /\ pc' = [pc EXCEPT ![t] = "unlock"]
          /\ UNCHANGED ringVars
      BY <2>1 DEF ResizeFails, Goto
    <3>2. k.op = call[t].op /\ k.ret = code
      BY <1>0 DEF CallRecord
    <3> HIDE DEF k
    <3>3. StreamInv' /\ Stream' = Contents' /\ call'[t] = k
      BY <1>6, <3>1, <3>2
    <3>4. Contents' = Contents /\ capacity' = capacity
      BY <3>1 DEF ringVars, Contents
    <3>5. code # ENOMEM => Fifo!Resize(call[t].count, code)
      <4>1. SUFFICES ASSUME code # ENOMEM PROVE Fifo!Resize(call[t].count, EMSGSIZE)
        BY <2>1
      <4>2. call[t].count < len
        BY <1>5, <2>0, <2>1, <4>1 DEF ResizeRefused, CapacityValid
      <4>3. call[t].count \in Int /\ call[t].count < Len(Stream) /\ Len(Stream) \in Nat
        BY <1>2, <1>3, <1>4, <4>2
      <4> QED
        BY <1>4, <1>5, <2>0, <3>3, <3>4, <4>3, FifoResizeRefused
    <3>6. ControlReplies(call[t], call'[t])
      BY <2>0, <3>2, <3>3, <3>5 DEF ControlReplies
    <3> QED
      BY <1>4, <3>3, <3>4, <3>6
  <2>2. ASSUME Resize(call[t].count), Goto(t, "bump"), UNCHANGED call
        PROVE  /\ StreamInv' /\ [Fifo!Next]_<<capacity, Stream>>
               /\ ControlReplies(call[t], call'[t])
    <3>1. pc' = [pc EXCEPT ![t] = "bump"] /\ call' = [call EXCEPT ![t] = call[t]]
      BY <1>0, <2>2 DEF Goto
    <3>2. StreamInv' /\ Stream' = Contents' /\ call'[t] = call[t]
      BY <1>6, <3>1
    <3>3. /\ capacity' = call[t].count /\ call[t].count \in MinCapacity..MaxCapacity
          /\ len <= call[t].count /\ Contents' = Contents
      BY <1>2, <1>3, <2>2, ResizeContents
    <3>4. call[t].count \in Int /\ Len(Stream) <= call[t].count /\ Len(Stream) \in Nat
      BY <1>2, <1>3, <1>4, <3>3
    <3>5. Fifo!Resize(call[t].count, 0)
      BY <1>4, <1>5, <2>0, <3>2, <3>3, <3>4, FifoResize
    <3>6. [Fifo!Next]_<<capacity, Stream>>
      BY <3>3, <3>5 DEF Fifo!Next
    <3>7. ControlReplies(call[t], call'[t])
      BY <1>5, <2>0, <3>2, <3>5 DEF ControlReplies, Controls
    <3> QED
      BY <3>2, <3>6, <3>7
  <2>3. EMSGSIZE \in Int /\ ENOMEM \in Int
    BY DEF EMSGSIZE, ENOMEM
  <2> QED
    BY <1>9, <2>1, <2>2, <2>3 DEF DoSetCapacity
<1>10. CASE DoQuery(t)
  <2> DEFINE reply == IF call[t].op = "get_capacity" THEN <<capacity>>
                                                    ELSE <<capacity, Stored, Available>>
             k == [call[t] EXCEPT !.answer = reply]
  <2>1. /\ call[t].op \in Queries /\ UNCHANGED ringVars /\ pc' = [pc EXCEPT ![t] = "unlock"]
        /\ call' = [call EXCEPT ![t] = k]
    BY <1>10 DEF DoQuery, Goto
  <2>2. k.op = call[t].op /\ k.answer = reply
    BY <1>0 DEF CallRecord
  <2> HIDE DEF k
  <2>3. StreamInv' /\ Stream' = Contents' /\ call'[t] = k
    BY <1>6, <2>1, <2>2
  <2>4. Contents' = Contents /\ capacity' = capacity
    BY <2>1 DEF ringVars, Contents
  <2>5. ControlReplies(call[t], call'[t])
    <3>1. CASE call[t].op = "get_capacity"
      <4>1. call'[t].answer[1] = capacity
        BY <2>2, <2>3, <3>1
      <4>2. Fifo!GetCapacity(capacity)
        BY <1>4, <2>3, <2>4, FifoGetCapacity
      <4> QED
        BY <3>1, <4>1, <4>2 DEF ControlReplies
    <3>2. CASE call[t].op = "get_stats"
      <4>1. call'[t].answer = <<capacity, len, capacity - len>>
        BY <1>2, <2>2, <2>3, <3>2 DEF Stored
      <4>2. Len(Stream) = len
        BY <1>2, <1>4
      <4> QED
        BY <3>2, <4>1, <4>2 DEF ControlReplies
    <3> QED
      BY <2>1, <3>1, <3>2 DEF Queries
  <2> QED
    BY <1>4, <2>3, <2>4, <2>5
<1> QED
  BY <1>7, <1>8, <1>9, <1>10 DEF Control

-----------------------------------------------------------------------------
(***************************************************************************)
(* mutex_unlock is where a transfer takes effect.                          *)
(***************************************************************************)
LEMMA UnlockSame ==
  ASSUME StreamInv, WakeInv', NEW t \in Threads, Unlock(t)
  PROVE  /\ StreamInv' /\ Stream' = Contents /\ capacity' = capacity
         /\ lock = t /\ pc[t] = "unlock"
         /\ call[t].op \in ReadWrite => call[t].phase \in {"none", "first"}
         /\ call[t].op \notin ReadWrite \/ call[t].phase = "first" => Stream = Contents
<1> DEFINE l == AfterUnlock(call[t])
<1>0. /\ t # NoThread /\ TransferOK(pc[t], call[t]) /\ CallOK(pc[t], call[t])
      /\ [call EXCEPT ![t] = call[t]] = call
  BY StreamTask
<1>1. pc[t] = "unlock" /\ lock = t /\ lock' = NoThread
  <2>1. pc[t] = "unlock" /\ lock' = NoThread
    BY DEF Unlock
  <2>2. pc[t] \in Locked
    BY <2>1 DEF Locked
  <2> QED
    BY <2>1, <2>2, StreamTask
<1>2. /\ pc' = [pc EXCEPT ![t] = l] /\ call' = [call EXCEPT ![t] = call[t]]
      /\ Contents' = Contents /\ capacity' = capacity
  BY <1>0 DEF Unlock, Goto, ringVars, Contents
<1>3. Stream' = Contents
  BY <1>1, <1>2 DEF Stream
<1>4. call[t].op \in ReadWrite => call[t].phase \in {"none", "first"}
  BY <1>0, <1>1 DEF TransferOK
<1>5. /\ call[t].op \in ReadWrite /\ call[t].phase = "first" => l \in {"c_len", "c_cap"}
      /\ call[t].op \in ReadWrite /\ call[t].phase = "none" => l \in {"wake", "failing", "return"}
      /\ call[t].op \notin ReadWrite => l \notin {"mutex", "control"}
  <2>1. /\ call[t].op \in ReadWrite /\ call[t].phase = "first" => l \in {"c_len", "c_cap"}
        /\ call[t].op \in ReadWrite /\ call[t].phase = "none" => l \in {"wake", "failing", "return"}
    <3>1. call[t].copied \in Nat
      BY StreamTask DEF CallRecord
    <3> QED
      BY <3>1 DEF AfterUnlock, AfterTransfer, TestStart, ReadWrite, Controls, Polls
  <2>2. call[t].op \notin ReadWrite => l \notin {"mutex", "control"}
    BY DEF AfterUnlock, AfterControl
  <2> QED
    BY <2>1, <2>2
<1> HIDE DEF l
<1>6. TransferOK(l, call[t])
  <2>1. CASE call[t].op \notin ReadWrite
    BY <1>5, <2>1 DEF TransferOK, ReadWrite
  <2>2. CASE call[t].op \in ReadWrite /\ call[t].phase = "first"
    <3>1. Untouched(pc[t], call[t])
      BY <1>1, <2>2 DEF Untouched
    <3> QED
      BY <1>0, <1>5, <2>2, <3>1 DEF TransferOK, ReadWrite
  <2>3. CASE call[t].op \in ReadWrite /\ call[t].phase = "none"
    <3>1. ~Untouched(l, call[t]) /\ l # "copy" /\ l # "unlock"
      BY <1>5, <2>3 DEF Untouched, Waits
    <3> QED
      BY <1>0, <2>3, <3>1 DEF TransferOK, ReadWrite
  <2> QED
    BY <1>4, <2>1, <2>2, <2>3
<1>7. StreamInv'
  BY <1>0, <1>1, <1>2, <1>6, StreamStep
<1>8. call[t].op \notin ReadWrite \/ call[t].phase = "first" => Stream = Contents
  BY <1>1, OwnerStream DEF Untouched
<1> QED
  BY <1>1, <1>2, <1>3, <1>4, <1>7, <1>8

\* The unlock of a read that does not block.
LEMMA ReadEnds ==
  ASSUME StreamInv, WakeInv', NEW t \in Threads, Unlock(t),
         call[t].op = "read", call[t].phase = "none"
  PROVE  ReadReplies(call[t]) /\ [Fifo!Next]_<<capacity, Stream>>
<1>1. /\ Stream' = Contents /\ capacity' = capacity /\ lock = t /\ pc[t] = "unlock"
  BY UnlockSame
<1>2. /\ Contents \in Seq(Byte) /\ Len(Contents) = len /\ len \in Nat
      /\ capacity \in Nat /\ capacity <= MaxCapacity /\ MaxCapacity \in Nat
  BY StreamRing, CapacityAssumption
<1>3. /\ call[t].dst \in Seq(Byte) /\ Len(call[t].dst) = call[t].copied
      /\ call[t].copied \in Nat /\ call[t].count \in Nat /\ call[t].missing \in Nat
      /\ call[t].copied <= call[t].count
      /\ ReadOwner(pc[t], call[t], len, capacity)
  BY <1>1, StreamTask DEF TransferOK, CallOK, CountOK, OwnerOK, ReadWrite, CallRecord
<1>4. /\ Stream = call[t].dst \o Contents /\ Stream \in Seq(Byte)
      /\ Len(Stream) = call[t].copied + len
      /\ SubSeq(Stream, 1, call[t].copied) = call[t].dst
      /\ SubSeq(Stream, call[t].copied + 1, Len(Stream)) = Contents
  BY <1>1, OwnerStream
<1>5. call[t].copied = 0 => call[t].dst = << >> /\ Stream = Contents
  BY <1>2, <1>3, <1>4, EmptySeq, ConcatEmptySeq
<1>6. CASE call[t].ret = EAGAIN /\ call[t].copied = 0 /\ len = 0 /\ call[t].missing = 0 /\ call[t].count > 0
  <2>1. Len(Stream) = 0 /\ Stream' = Stream /\ call[t].dst = << >>
    BY <1>1, <1>3, <1>4, <1>5, <1>6
  <2>2. Fifo!Read(call[t].count, EAGAIN, << >>)
    BY <1>1, <1>3, <1>6, <2>1, FifoReadNothing
  <2>3. EAGAIN # EFAULT /\ ~(call[t].missing > 0)
    BY <1>6 DEF EAGAIN, EFAULT
  <2>4. ReadReplies(call[t])
    BY <1>6, <2>1, <2>2, <2>3 DEF ReadReplies
  <2> QED
    BY <1>1, <2>1, <2>4
<1>7. CASE call[t].ret = EFAULT /\ call[t].copied = 0
  BY <1>1, <1>5, <1>7 DEF ReadReplies
<1>8. CASE /\ call[t].ret = call[t].copied /\ call[t].copied > 0
           /\ call[t].missing > 0 \/ call[t].copied = call[t].count \/ len = 0
  <2> DEFINE request == IF call[t].missing > 0 THEN call[t].copied ELSE call[t].count
  <2>n. /\ call[t].copied \in Nat /\ call[t].count \in Nat /\ call[t].copied <= call[t].count
        /\ len \in Nat /\ Len(Stream) = call[t].copied + len
    BY <1>2, <1>3, <1>4
  <2>1. request \in Nat /\ Len(Stream) \in Nat /\ call[t].copied <= Len(Stream)
    BY <2>n
  <2>2. call[t].copied = Fifo!Lesser(request, Len(Stream))
    BY <1>8, <2>n DEF Fifo!Lesser
  <2>3. call[t].copied = Fifo!Lesser(call[t].copied, Len(Stream))
    BY <2>n DEF Fifo!Lesser
  <2>4. Stream' = SubSeq(Stream, call[t].copied + 1, Len(Stream))
    BY <1>1, <1>4
  <2> HIDE DEF request
  <2>5. Fifo!Read(request, call[t].copied, call[t].dst)
    <3>1. Fifo!Read(request, call[t].copied, SubSeq(Stream, 1, call[t].copied))
      BY <1>1, <1>3, <1>8, <2>1, <2>2, <2>4, FifoRead
    <3> QED
      BY <1>4, <3>1
  <2>6. ReadReplies(call[t])
    <3>1. call[t].ret # EFAULT
      BY <1>3, <1>8 DEF EFAULT
    <3> QED
      BY <1>8, <2>5, <3>1 DEF ReadReplies, request
  <2>7. Fifo!Read(call[t].copied, call[t].copied, Fifo!Front(Stream, call[t].copied))
    <3>1. Fifo!Read(call[t].copied, call[t].copied, SubSeq(Stream, 1, call[t].copied))
      BY <1>1, <1>3, <1>8, <2>1, <2>3, <2>4, FifoRead
    <3> QED
      BY <3>1 DEF Fifo!Front
  <2>8. call[t].copied \in 1..MaxCapacity
    <3>1. call[t].copied + len <= capacity
      BY <1>3 DEF ReadOwner
    <3> QED
      BY <1>2, <1>3, <1>8, <3>1
  <2> QED
    BY <2>1, <2>6, <2>7, <2>8 DEF Fifo!Next
<1> QED
  BY <1>1, <1>3, <1>6, <1>7, <1>8 DEF ReadOwner

\* The unlock of a write that does not block.
LEMMA WriteEnds ==
  ASSUME StreamInv, WakeInv', NEW t \in Threads, Unlock(t),
         call[t].op = "write", call[t].phase = "none"
  PROVE  WriteReplies(call[t]) /\ [Fifo!Next]_<<capacity, Stream>>
<1>1. /\ Stream' = Contents /\ capacity' = capacity /\ lock = t /\ pc[t] = "unlock"
  BY UnlockSame
<1>2. /\ Contents \in Seq(Byte) /\ Len(Contents) = len /\ len \in Nat /\ len <= capacity
      /\ capacity \in Nat /\ capacity <= MaxCapacity /\ MaxCapacity \in Nat
  BY StreamRing, CapacityAssumption
<1>3. /\ call[t].src \in Seq(Byte) /\ Len(call[t].src) \in Nat
      /\ call[t].copied \in Nat /\ call[t].count \in Nat /\ call[t].missing \in Nat
      /\ call[t].copied <= call[t].count /\ call[t].count <= Len(call[t].src)
  BY StreamTask DEF CallOK, CountOK, ReadWrite, CallRecord
<1>4. WriteOwner(pc[t], call[t], len, capacity, Contents)
  BY <1>1, StreamTask DEF OwnerOK
<1>5. /\ call[t].copied <= len
      /\ Stream = SubSeq(Contents, 1, len - call[t].copied) /\ Stream \in Seq(Byte)
      /\ Len(Stream) = len - call[t].copied
      /\ Contents = Stream \o SubSeq(call[t].src, 1, call[t].copied)
  BY <1>1, <1>4, OwnerStream DEF WriteOwner
<1>6. Len(Stream) \in Nat
  BY <1>5, LenProperties, Zenon
<1>7. call[t].copied = 0 => Stream = Contents
  <2>1. SubSeq(Contents, 1, len) = Contents /\ len - 0 = len
    BY <1>2, SubSeqFull
  <2> QED
    BY <1>5, <2>1
<1>8. CASE call[t].ret = EAGAIN /\ call[t].copied = 0 /\ len = capacity /\ call[t].missing = 0
           /\ Len(call[t].src) > 0
  <2>1. Stream' = Stream
    BY <1>1, <1>7, <1>8
  <2>2. Fifo!Lesser(Len(call[t].src), capacity - Len(Stream)) = 0
    <3>1. capacity \in Nat /\ Len(Stream) = capacity
      BY <1>2, <1>5, <1>8
    <3> QED
      BY <1>8, <3>1 DEF Fifo!Lesser
  <2>3. call[t].src # << >>
    BY <1>3, <1>8, EmptySeq
  <2>4. Fifo!Write(call[t].src, EAGAIN)
    BY <1>1, <1>3, <1>6, <2>1, <2>2, <2>3, FifoWriteNothing
  <2>5. EAGAIN # EFAULT /\ ~(call[t].missing > 0)
    BY <1>8 DEF EAGAIN, EFAULT
  <2>6. WriteReplies(call[t])
    BY <1>8, <2>4, <2>5 DEF WriteReplies
  <2> QED
    BY <1>1, <2>1, <2>6
<1>9. CASE call[t].ret = EFAULT /\ call[t].copied = 0
  BY <1>1, <1>7, <1>9 DEF WriteReplies
<1>10. CASE /\ call[t].ret = call[t].copied /\ call[t].copied > 0
            /\ call[t].count = Least(Len(call[t].src), capacity - (len - call[t].copied))
            /\ call[t].missing > 0 \/ call[t].copied = call[t].count
  <2> DEFINE stored == SubSeq(call[t].src, 1, call[t].copied)
  <2>1. stored \in Seq(Byte) /\ Len(stored) = call[t].copied
    <3>1. call[t].copied <= Len(call[t].src)
      BY <1>3
    <3> QED
      BY <1>3, <3>1, FrontAndRest
  <2>2. SubSeq(stored, 1, call[t].copied) = stored
    BY <2>1, SubSeqFull
  <2>3. Stream' = Stream \o stored
    BY <1>1, <1>5
  <2>l. Len(Stream) = len - call[t].copied /\ call[t].copied <= len
    BY <1>5, Zenon
  <2>4. call[t].copied = Fifo!Lesser(call[t].copied, capacity - Len(Stream))
    BY <1>2, <1>3, <1>10, <2>l, SMTT(30) DEF Fifo!Lesser
  <2>5. call[t].copied = call[t].count =>
          call[t].copied = Fifo!Lesser(Len(call[t].src), capacity - Len(Stream))
    BY <1>2, <1>3, <1>5, <1>10 DEF Fifo!Lesser, Least
  <2> HIDE DEF stored
  <2>6. Fifo!Write(stored, call[t].copied)
    BY <1>1, <1>3, <1>6, <1>10, <2>1, <2>2, <2>3, <2>4, FifoWrite
  <2>7. WriteReplies(call[t])
    <3>1. call[t].ret # EFAULT
      BY <1>3, <1>10 DEF EFAULT
    <3>2. CASE call[t].missing > 0
      BY <1>10, <2>6, <3>1, <3>2 DEF WriteReplies, stored
    <3>3. CASE ~(call[t].missing > 0)
      <4>1. Fifo!Write(call[t].src, call[t].copied)
        <5>1. Stream' = Stream \o SubSeq(call[t].src, 1, call[t].copied)
          BY <2>3 DEF stored
        <5>2. call[t].copied = Fifo!Lesser(Len(call[t].src), capacity - Len(Stream))
          BY <1>10, <2>5, <3>3
        <5> QED
          BY <1>1, <1>3, <1>6, <1>10, <5>1, <5>2, FifoWrite
      <4> QED
        BY <1>10, <3>1, <3>3, <4>1 DEF WriteReplies
    <3> QED
      BY <3>2, <3>3
  <2>8. call[t].copied \in 1..MaxCapacity /\ stored \in [1..call[t].copied -> Byte]
    <3>1. /\ call[t].copied \in Nat /\ call[t].copied > 0 /\ call[t].copied <= len
          /\ len \in Nat /\ len <= capacity /\ capacity \in Nat
          /\ capacity <= MaxCapacity /\ MaxCapacity \in Nat
      BY <1>2, <1>3, <1>5, <1>10
    <3>2. call[t].copied \in 1..MaxCapacity
      BY <3>1
    <3>3. stored \in [1..call[t].copied -> Byte]
      BY <2>1
    <3> QED
      BY <3>2, <3>3
  <2>9. Fifo!Write(stored, Fifo!Lesser(call[t].copied, capacity - Len(Stream)))
    BY <2>4, <2>6
  <2> QED
    BY <2>7, <2>8, <2>9 DEF Fifo!Next
<1> QED
  BY <1>1, <1>4, <1>8, <1>9, <1>10 DEF WriteOwner

LEMMA UnlockStream ==
  ASSUME StreamInv, WakeInv', NEW t \in Threads, Unlock(t)
  PROVE  /\ StreamInv' /\ [Fifo!Next]_<<capacity, Stream>>
         /\ call[t].op = "read" /\ call[t].phase = "none" => ReadReplies(call[t])
         /\ call[t].op = "write" /\ call[t].phase = "none" => WriteReplies(call[t])
<1>1. /\ StreamInv' /\ Stream' = Contents /\ capacity' = capacity
      /\ call[t].op \in ReadWrite => call[t].phase \in {"none", "first"}
      /\ call[t].op \notin ReadWrite \/ call[t].phase = "first" => Stream = Contents
  BY UnlockSame
<1>2. CASE call[t].op = "read" /\ call[t].phase = "none"
  BY <1>1, <1>2, ReadEnds
<1>3. CASE call[t].op = "write" /\ call[t].phase = "none"
  BY <1>1, <1>3, WriteEnds
<1>4. CASE call[t].op \notin ReadWrite \/ call[t].phase = "first"
  BY <1>1, <1>4 DEF ReadWrite
<1> QED
  BY <1>1, <1>2, <1>3, <1>4 DEF ReadWrite

-----------------------------------------------------------------------------

\* The device starts empty, with nobody in it.
LEMMA InitStream == Init => StreamInv /\ Fifo!Init
<1> SUFFICES ASSUME Init PROVE StreamInv /\ Fifo!Init
  OBVIOUS
<1>1. PICK c \in MinCapacity..MaxCapacity : BufferInit(c)
  BY DEF Init
<1>2. len = 0 /\ capacity \in MinCapacity..MaxCapacity /\ lock = NoThread
  BY <1>1 DEF BufferInit, Init
<1>3. \A t \in Threads : TransferOK(pc[t], call[t])
  <2>1. TransferOK("idle", NoCall)
    BY DEF TransferOK, Untouched, NoCall, NewCall, ReadWrite, Waits
  <2> QED
    BY <2>1 DEF Init
<1>4. StreamInv
  BY <1>2, <1>3, InitWake, ThreadAssumption DEF StreamInv
<1>5. Stream = << >>
  BY <1>2, FreeStream, EmptyContents
<1> QED
  BY <1>2, <1>4, <1>5 DEF Fifo!Init

\* A step of one task.
LEMMA TaskStream ==
  ASSUME StreamInv, WakeInv', NEW t \in Threads, Step(t)
  PROVE  StreamInv' /\ [Fifo!Next]_<<capacity, Stream>>
<1>1. CASE Unlock(t)
  BY <1>1, UnlockStream
<1>2. CASE Control(t)
  BY <1>2, ControlStream
<1>3. CASE ~Unlock(t) /\ ~Control(t)
  <2>1. StreamInv' /\ Stream' = Stream /\ capacity' = capacity
    BY <1>3, AcquireStream, DecideStream, BumpStream, ReadChunkStream, WriteChunkStream,
       WaitStream, OutsideStream DEF Step
  <2> QED
    BY <2>1
<1> QED
  BY <1>1, <1>2, <1>3

\* Every step is a step of the contract or none of its steps.
LEMMA NextStream ==
  ASSUME StreamInv, [Next]_vars
  PROVE  StreamInv' /\ [Fifo!Next]_<<capacity, Stream>>
<1>1. WakeInv'
  BY NextWake DEF StreamInv
<1>2. CASE UNCHANGED <<ringVars, lock, pc, call>>
  <2>1. StreamInv' /\ Stream' = Stream /\ capacity' = capacity
    BY <1>1, <1>2, NobodyStep
  <2> QED
    BY <2>1
<1>3. CASE \E t \in Threads : Call(t)
  <2>1. StreamInv' /\ Stream' = Stream /\ capacity' = capacity
    BY <1>1, <1>3, CallStream
  <2> QED
    BY <2>1
<1>4. CASE \E t \in Threads : Step(t)
  BY <1>1, <1>4, TaskStream
<1>5. (\E t \in Threads : Open(t) \/ Release(t) \/ Signal(t)) \/ Unload \/ UNCHANGED vars
        => UNCHANGED <<ringVars, lock, pc, call>>
  BY DEF Open, Release, Signal, Unload, vars
<1> QED
  BY <1>2, <1>3, <1>4, <1>5 DEF Next, Unloaded

\* Every reply is the contract's.
LEMMA StepReplies ==
  ASSUME StreamInv, WakeInv', NEW t \in Threads
  PROVE  /\ Unlock(t) /\ call[t].op = "read" /\ call[t].phase = "none" => ReadReplies(call[t])
         /\ Unlock(t) /\ call[t].op = "write" /\ call[t].phase = "none" => WriteReplies(call[t])
         /\ Control(t) => ControlReplies(call[t], call'[t])
BY UnlockStream, ControlStream

(***************************************************************************)
(* ImplementsFifo for every set of tasks: chunk by chunk copies, faults,   *)
(* blocking, signals, resizes and clears of any number of tasks amount to  *)
(* whole calls on one byte stream.                                         *)
(***************************************************************************)
THEOREM DriverImplementsFifo == Spec => ImplementsFifo
<1>1. StreamInv /\ [Next]_vars => StreamInv' /\ [Fifo!Next]_<<capacity, Stream>>
  BY NextStream
<1>2. [Fifo!Next]_<<capacity, Stream>> => [Fifo!Next]_(Fifo!fifoVars)
  BY DEF Fifo!fifoVars
<1>3. StreamInv /\ [Next]_vars => StreamInv' /\ [Fifo!Next]_(Fifo!fifoVars)
  BY <1>1, <1>2
<1> QED
  BY <1>3, InitStream, PTL DEF Spec, ImplementsFifo, Fifo!Spec

(***************************************************************************)
(* RepliesLinearize for every set of tasks: what read, write and the ioctl *)
(* calls return is what the contract answers at mutex_unlock, or, for the  *)
(* ioctl calls, at the change itself.                                      *)
(***************************************************************************)
THEOREM DriverRepliesLinearize == Spec => RepliesLinearize
<1>1. StreamInv /\ [Next]_vars => StreamInv' /\ WakeInv'
  BY NextStream DEF StreamInv
<1>2. ASSUME StreamInv, [Next]_vars
      PROVE  [\A t \in Threads :
                /\ Unlock(t) /\ call[t].op = "read" /\ call[t].phase = "none" => ReadReplies(call[t])
                /\ Unlock(t) /\ call[t].op = "write" /\ call[t].phase = "none" => WriteReplies(call[t])
                /\ Control(t) => ControlReplies(call[t], call'[t])]_vars
  BY <1>1, <1>2, StepReplies
<1>3. StreamInv /\ [Next]_vars =>
        [\A t \in Threads :
           /\ Unlock(t) /\ call[t].op = "read" /\ call[t].phase = "none" => ReadReplies(call[t])
           /\ Unlock(t) /\ call[t].op = "write" /\ call[t].phase = "none" => WriteReplies(call[t])
           /\ Control(t) => ControlReplies(call[t], call'[t])]_vars
  BY <1>2
<1> QED
  BY <1>1, <1>3, InitStream, PTL DEF Spec, RepliesLinearize

-----------------------------------------------------------------------------
(***************************************************************************)
(* The statistics.                                                         *)
(***************************************************************************)
Written == stats["total_bytes_written"]
Read    == stats["total_bytes_read"]
Modulus == CounterModulus["total_bytes_read"]

\* Nobody clears the buffer or resets the counters, which wrap at the same number.
Undisturbed ==
  /\ \A t \in Threads : Ops[t] \cap {"clear", "reset_stats"} = {}
  /\ CounterModulus["total_bytes_written"] = CounterModulus["total_bytes_read"]

\* What a task at place l with locals k has moved of o and not counted.
Moved(o, l, k) == IF k.op = o /\ l \in {"copy", "unlock", "wake"} THEN k.copied ELSE 0

\* The tasks at places p with locals c that have moved bytes of o, and the bytes;
\* also those of the tasks other than t.
Movers(p, c, o) == {u \in Threads : c[u].op = o /\ p[u] \in {"copy", "unlock", "wake"}}

Bytes(c, T) == UNION {{u} \X (1..c[u].copied) : u \in T}

Flight(p, c, o) == Bytes(c, Movers(p, c, o))

Others(p, c, o, t) == Bytes(c, Movers(p, c, o) \ {t})

\* The counters without their wrap: Modulus goes into the difference i times.
Balance(i) ==
  Written + Cardinality(InFlight("write")) = Read + Cardinality(InFlight("read")) + len + i * Modulus

CountInv ==
  /\ \A t \in Threads : call[t].op \in Ops[t] \cup {"none"}
  /\ \A o \in ReadWrite : IsFiniteSet(InFlight(o))
  /\ \E i \in Int : Balance(i)

\* What a step of t does to the bytes in flight.
OnlyMoves(t) == \A u \in Threads \ {t} : pc'[u] = pc[u] /\ call'[u] = call[u]

LEMMA FlightIs == \A o : InFlight(o) = Flight(pc, call, o)
BY DEF InFlight, InTransfer, Flight, Movers, Bytes

LEMMA FlightWillBe == \A o : InFlight(o)' = Flight(pc', call', o)
BY DEF InFlight, InTransfer, Flight, Movers, Bytes

\* One task's bytes, and the others'.
LEMMA FlightOf ==
  ASSUME NEW p, NEW c, NEW t \in Threads, c[t].copied \in Nat, NEW o,
         IsFiniteSet(Others(p, c, o, t))
  PROVE  /\ IsFiniteSet(Flight(p, c, o))
         /\ Cardinality(Flight(p, c, o)) = Cardinality(Others(p, c, o, t)) + Moved(o, p[t], c[t])
<1> DEFINE n == c[t].copied
           B == {t} \X (1..n)
           O == Others(p, c, o, t)
<1>1. IsFiniteSet(B) /\ Cardinality(B) = n
  <2> HIDE DEF n
  <2>1. IsFiniteSet({t}) /\ Cardinality({t}) = 1
    BY FS_Singleton
  <2>2. n \in Nat
    BY DEF n
  <2>3. IsFiniteSet(1..n) /\ Cardinality(1..n) = n
    BY <2>2, FS_Interval, SMTT(40)
  <2>4. IsFiniteSet(B) /\ Cardinality(B) = Cardinality({t}) * Cardinality(1..n)
    BY <2>1, <2>3, FS_Product
  <2> QED
    BY <2>1, <2>2, <2>3, <2>4
<1>2. CASE t \in Movers(p, c, o)
  <2>1. Flight(p, c, o) = O \cup B
    BY <1>2 DEF Flight, Others, Bytes
  <2>2. O \cap B = {}
    BY DEF Others, Bytes
  <2>3. Moved(o, p[t], c[t]) = n /\ n \in Nat
    BY <1>2 DEF Moved, Movers
  <2> HIDE DEF B, n, O
  <2>4. IsFiniteSet({}) /\ Cardinality({}) = 0
    BY FS_EmptySet
  <2>5. IsFiniteSet(O) /\ Cardinality(O) \in Nat
    BY FS_CardinalityType DEF O
  <2>6. /\ IsFiniteSet(O \cup B)
        /\ Cardinality(O \cup B) = Cardinality(O) + Cardinality(B) - Cardinality(O \cap B)
    BY <1>1, <2>5, FS_Union
  <2>7. Cardinality(O \cap B) = 0 /\ Cardinality(B) = n
    BY <1>1, <2>2, <2>4
  <2>8. IsFiniteSet(Flight(p, c, o)) /\ Cardinality(Flight(p, c, o)) = Cardinality(O) + n
    BY <2>1, <2>3, <2>5, <2>6, <2>7
  <2> QED
    BY <2>3, <2>8 DEF O
<1>3. CASE t \notin Movers(p, c, o)
  <2>1. Flight(p, c, o) = O
    BY <1>3 DEF Flight, Others, Bytes
  <2>2. Moved(o, p[t], c[t]) = 0
    BY <1>3 DEF Moved, Movers
  <2>3. Cardinality(O) \in Nat
    BY FS_CardinalityType
  <2> QED
    BY <2>1, <2>2, <2>3
<1> QED
  BY <1>2, <1>3

LEMMA OthersStay ==
  ASSUME NEW t \in Threads, OnlyMoves(t), NEW o
  PROVE  Others(pc', call', o, t) = Others(pc, call, o, t)
<1>1. Movers(pc', call', o) \ {t} = Movers(pc, call, o) \ {t}
  BY DEF Movers, OnlyMoves
<1>2. \A u \in Movers(pc, call, o) \ {t} : call'[u] = call[u]
  BY DEF Movers, OnlyMoves
<1> QED
  BY <1>1, <1>2 DEF Others, Bytes

LEMMA FlightStep ==
  ASSUME NEW t \in Threads, OnlyMoves(t), call[t].copied \in Nat, call'[t].copied \in Nat,
         NEW o, IsFiniteSet(InFlight(o))
  PROVE  /\ IsFiniteSet(InFlight(o)') /\ Cardinality(InFlight(o)) \in Nat
         /\ Cardinality(InFlight(o)') \in Nat
         /\ Cardinality(InFlight(o)')
              = Cardinality(InFlight(o)) - Moved(o, pc[t], call[t]) + Moved(o, pc'[t], call'[t])
<1> DEFINE O == Others(pc, call, o, t)
<1>1. O \subseteq InFlight(o)
  BY FlightIs DEF Others, Flight, Bytes
<1>2. IsFiniteSet(O) /\ Cardinality(O) \in Nat
  BY <1>1, FS_Subset, FS_CardinalityType
<1>3. Cardinality(InFlight(o)) = Cardinality(O) + Moved(o, pc[t], call[t])
  BY <1>2, FlightOf, FlightIs
<1>4. Others(pc', call', o, t) = O
  BY OthersStay
<1>5. /\ IsFiniteSet(InFlight(o)')
      /\ Cardinality(InFlight(o)') = Cardinality(O) + Moved(o, pc'[t], call'[t])
  <2>1. IsFiniteSet(Others(pc', call', o, t))
    BY <1>2, <1>4
  <2>2. /\ IsFiniteSet(Flight(pc', call', o))
        /\ Cardinality(Flight(pc', call', o))
             = Cardinality(Others(pc', call', o, t)) + Moved(o, pc'[t], call'[t])
    BY <2>1, FlightOf
  <2> QED
    BY <1>4, <2>2, FlightWillBe
<1>6. Moved(o, pc[t], call[t]) \in Nat /\ Moved(o, pc'[t], call'[t]) \in Nat
  BY DEF Moved
<1> HIDE DEF O
<1> QED
  BY <1>2, <1>3, <1>5, <1>6

LEMMA BytesCounters ==
  /\ "total_bytes_written" \in Counter /\ "total_bytes_read" \in Counter /\ Modulus \in Nat \ {0}
  /\ SafeInv => stats \in [Counter -> Nat] /\ Written \in Nat /\ Read \in Nat /\ len \in Nat
  /\ SafeInv' => stats' \in [Counter -> Nat] /\ Written' \in Nat /\ Read' \in Nat /\ len' \in Nat
<1>1. "total_bytes_written" \in Counter /\ "total_bytes_read" \in Counter
  BY DEF Counter, ResetOrder
<1>2. Modulus \in Nat \ {0}
  BY <1>1, InputAssumption DEF Modulus
<1>3. SafeInv => stats \in [Counter -> Nat] /\ len \in Nat
  BY DEF SafeInv, TypeOK, RingTypeOK
<1>4. SafeInv' => stats' \in [Counter -> Nat] /\ len' \in Nat
  BY DEF SafeInv, TypeOK, RingTypeOK
<1> QED
  BY <1>1, <1>2, <1>3, <1>4 DEF Written, Read

\* A step of t that keeps the balance, up to q wraps.
LEMMA CountStep ==
  ASSUME SafeInv, SafeInv', CountInv, NEW t \in Threads, OnlyMoves(t),
         call'[t].op \in Ops[t] \cup {"none"}, NEW q \in Int,
         Written' - Written + Moved("write", pc'[t], call'[t]) - Moved("write", pc[t], call[t]) =
           Read' - Read + Moved("read", pc'[t], call'[t]) - Moved("read", pc[t], call[t])
             + len' - len + q * Modulus
  PROVE  CountInv'
<1>1. call[t] \in CallRecord /\ call'[t] \in CallRecord
  BY DEF SafeInv, TypeOK
<1>2. call[t].copied \in Nat /\ call'[t].copied \in Nat
  BY <1>1 DEF CallRecord
<1>3. /\ Written \in Nat /\ Written' \in Nat /\ Read \in Nat /\ Read' \in Nat
      /\ len \in Nat /\ len' \in Nat /\ Modulus \in Nat
  BY BytesCounters
<1>4. \A o \in ReadWrite :
        /\ IsFiniteSet(InFlight(o)') /\ Cardinality(InFlight(o)) \in Nat
        /\ Cardinality(InFlight(o)') \in Nat
        /\ Cardinality(InFlight(o)')
             = Cardinality(InFlight(o)) - Moved(o, pc[t], call[t]) + Moved(o, pc'[t], call'[t])
  BY <1>2, FlightStep DEF CountInv
<1>5. \A o : Moved(o, pc[t], call[t]) \in Nat /\ Moved(o, pc'[t], call'[t]) \in Nat
  BY <1>2 DEF Moved
<1>6. PICK i \in Int : Balance(i)
  BY DEF CountInv
<1>7. (i + q) * Modulus = i * Modulus + q * Modulus /\ i * Modulus \in Int /\ q * Modulus \in Int
  BY <1>3
<1>8. Balance(i + q)'
  <2> DEFINE w  == Cardinality(InFlight("write"))
             v  == Cardinality(InFlight("write")')
             r  == Cardinality(InFlight("read"))
             s  == Cardinality(InFlight("read")')
             w0 == Moved("write", pc[t], call[t])
             w1 == Moved("write", pc'[t], call'[t])
             r0 == Moved("read", pc[t], call[t])
             r1 == Moved("read", pc'[t], call'[t])
             x  == i * Modulus
             y  == q * Modulus
             z  == (i + q) * Modulus
  <2>1. w \in Nat /\ v \in Nat /\ r \in Nat /\ s \in Nat
    BY <1>4 DEF ReadWrite
  <2>2. v = w - w0 + w1 /\ s = r - r0 + r1
    BY <1>4 DEF ReadWrite
  <2>3. Written + w = Read + r + len + x
    BY <1>6 DEF Balance
  <2>4. Written' - Written + w1 - w0 = Read' - Read + r1 - r0 + len' - len + y
    OBVIOUS
  <2>5. w0 \in Nat /\ w1 \in Nat /\ r0 \in Nat /\ r1 \in Nat /\ x \in Int /\ y \in Int /\ z = x + y
    BY <1>5, <1>7
  <2> HIDE DEF w, v, r, s, w0, w1, r0, r1, x, y, z
  <2>6. Written' + v = Read' + s + len' + z
    BY <1>3, <2>1, <2>2, <2>3, <2>4, <2>5
  <2> QED
    BY <2>6 DEF Balance, v, s, z
<1>9. \A u \in Threads : call'[u].op \in Ops[u] \cup {"none"}
  BY DEF CountInv, OnlyMoves
<1>10. \E j \in Int : Balance(j)'
  BY <1>8
<1> QED
  BY <1>4, <1>9, <1>10 DEF CountInv

\* A task that has moved nothing, or whose bytes are counted.
Nothing(l, k) ==
  k.op \notin ReadWrite \/ l \notin {"copy", "unlock", "wake"} \/ k.copied = 0

\* A step that moves no byte and counts none.
LEMMA CountQuiet ==
  ASSUME SafeInv, SafeInv', CountInv, NEW t \in Threads, OnlyMoves(t),
         call'[t].op \in Ops[t] \cup {"none"},
         Written' = Written, Read' = Read, len' = len,
         Nothing(pc[t], call[t]), Nothing(pc'[t], call'[t])
  PROVE  CountInv'
<1>1. \A o \in ReadWrite : Moved(o, pc[t], call[t]) = 0 /\ Moved(o, pc'[t], call'[t]) = 0
  BY DEF Moved, Nothing
<1>2. /\ Moved("write", pc[t], call[t]) = 0 /\ Moved("write", pc'[t], call'[t]) = 0
      /\ Moved("read", pc[t], call[t]) = 0 /\ Moved("read", pc'[t], call'[t]) = 0
  BY <1>1 DEF ReadWrite
<1>3. Written \in Nat /\ Read \in Nat /\ len \in Nat /\ Modulus \in Nat
  BY BytesCounters
<1>4. 0 * Modulus = 0
  BY <1>3
<1>5. Written' - Written + Moved("write", pc'[t], call'[t]) - Moved("write", pc[t], call[t]) =
        Read' - Read + Moved("read", pc'[t], call'[t]) - Moved("read", pc[t], call[t])
          + len' - len + 0 * Modulus
  BY <1>2, <1>3, <1>4
<1> QED
  BY <1>5, CountStep

\* No task moves, nothing is counted.
LEMMA CountIdle ==
  ASSUME CountInv, pc' = pc, call' = call, Written' = Written, Read' = Read, len' = len
  PROVE  CountInv'
BY DEF CountInv, Balance, InFlight, InTransfer

\* Another counter.
LEMMA OtherCounter ==
  ASSUME SafeInv, NEW k, k \notin {"total_bytes_written", "total_bytes_read"}, NEW n, Add(k, n)
  PROVE  Written' = Written /\ Read' = Read
BY BytesCounters DEF Add, Written, Read

\* The locals of one task, and of no other.
LEMMA MoveTask ==
  ASSUME SafeInv, NEW t \in Threads, NEW l, pc' = [pc EXCEPT ![t] = l],
         call' = call \/ \E k : call' = [call EXCEPT ![t] = k]
  PROVE  OnlyMoves(t) /\ pc'[t] = l
BY DEF SafeInv, TypeOK, OnlyMoves

LEMMA MoveLocals ==
  ASSUME SafeInv, NEW t \in Threads, NEW l, NEW k,
         pc' = [pc EXCEPT ![t] = l], call' = [call EXCEPT ![t] = k]
  PROVE  OnlyMoves(t) /\ pc'[t] = l /\ call'[t] = k
BY DEF SafeInv, TypeOK, OnlyMoves

\* The actions.
LEMMA FilesCount ==
  ASSUME SafeInv, CountInv, NEW t \in Threads, Open(t) \/ Release(t) \/ Signal(t)
  PROVE  CountInv'
<1>1. pc' = pc /\ call' = call /\ len' = len
  BY DEF Open, Release, Signal, ringVars
<1>2. Written' = Written /\ Read' = Read
  <2>1. CASE Open(t)
    BY <2>1, BytesCounters DEF Open, Written, Read
  <2>2. CASE Release(t)
    BY <2>2, OtherCounter DEF Release
  <2>3. CASE Signal(t)
    BY <2>3 DEF Signal, Written, Read
  <2> QED
    BY <2>1, <2>2, <2>3
<1> QED
  BY <1>1, <1>2, CountIdle

LEMMA EnterCount ==
  ASSUME SafeInv, SafeInv', CountInv, NEW t \in Threads, NEW o, NEW n, NEW payload, NEW result, NEW l,
         Enter(t, o, n, payload, result, l), Written' = Written, Read' = Read
  PROVE  CountInv'
<1>1. /\ pc' = [pc EXCEPT ![t] = l] /\ call' = [call EXCEPT ![t] = NewCall(o, n, payload, result)]
      /\ pc[t] = "idle" /\ o \in Ops[t] /\ len' = len
  BY DEF Enter, Goto, ringVars
<1>2. OnlyMoves(t)
  BY <1>1, MoveTask
<1>3. call'[t] = NewCall(o, n, payload, result)
  BY <1>1 DEF SafeInv, TypeOK
<1>4. call'[t].op = o /\ call'[t].copied = 0
  BY <1>3 DEF NewCall
<1>5. Nothing(pc[t], call[t]) /\ Nothing(pc'[t], call'[t])
  BY <1>1, <1>4 DEF Nothing
<1> QED
  BY <1>1, <1>2, <1>4, <1>5, CountQuiet

LEMMA CallCount ==
  ASSUME SafeInv, SafeInv', CountInv, NEW t \in Threads, Call(t)
  PROVE  CountInv'
<1>1. CASE \E n \in Counts : ReadCall(t, n)
  BY <1>1, EnterCount, OtherCounter DEF ReadCall
<1>2. CASE \E payload \in Payloads : WriteCall(t, payload)
  BY <1>2, EnterCount, OtherCounter DEF WriteCall
<1>3. CASE \E o \in OpKinds : PlainIoctl(t, o)
  BY <1>3, EnterCount, OtherCounter DEF PlainIoctl
<1>4. CASE BadIoctl(t)
  BY <1>4, EnterCount, OtherCounter DEF BadIoctl
<1>5. CASE \/ \E n \in Capacities : ArgIoctl(t, "set_capacity", n)
           \/ \E m \in Modes : ArgIoctl(t, "set_mode", m)
  BY <1>5, EnterCount, OtherCounter DEF ArgIoctl
<1>6. CASE \E o \in Polls : PollCall(t, o)
  BY <1>6, EnterCount DEF PollCall, Written, Read
<1> QED
  BY <1>1, <1>2, <1>3, <1>4, <1>5, <1>6 DEF Call

LEMMA MutexCount ==
  ASSUME SafeInv, SafeInv', CountInv, NEW t \in Threads,
         Acquire(t) \/ LockInterrupted(t) \/ Unlock(t)
  PROVE  CountInv'
<1>1. /\ pc[t] \in Labels /\ call[t] \in CallRecord /\ CallOK(pc[t], call[t])
      /\ call[t].op \in Ops[t] \cup {"none"}
  BY TaskOfSafeInv DEF CountInv
<1>2. Written' = Written /\ Read' = Read /\ len' = len
  BY DEF Acquire, LockInterrupted, Unlock, Written, Read, ringVars
<1>3. CASE Acquire(t)
  <2>1. /\ pc[t] \in {"lock", "mutex"} /\ call' = call
        /\ pc' = [pc EXCEPT ![t] = AfterLock(call[t].op)]
    BY <1>3 DEF Acquire, Goto
  <2>2. OnlyMoves(t) /\ pc'[t] = AfterLock(call[t].op)
    BY <2>1, MoveTask
  <2>3. Nothing(pc[t], call[t]) /\ Nothing(pc'[t], call'[t])
    BY <2>1, <2>2 DEF Nothing, AfterLock
  <2> QED
    BY <1>1, <1>2, <2>1, <2>2, <2>3, CountQuiet
<1>4. CASE LockInterrupted(t)
  <2>1. /\ pc[t] = "lock" /\ call' = [call EXCEPT ![t].ret = ERESTARTSYS]
        /\ pc' = [pc EXCEPT ![t] = "failing"]
    BY <1>4 DEF LockInterrupted, Goto
  <2>2. OnlyMoves(t) /\ pc'[t] = "failing" /\ call'[t].op = call[t].op
    BY <1>1, <2>1, MoveTask DEF SafeInv, TypeOK, CallRecord
  <2>3. Nothing(pc[t], call[t]) /\ Nothing(pc'[t], call'[t])
    BY <2>1, <2>2 DEF Nothing
  <2> QED
    BY <1>1, <1>2, <2>2, <2>3, CountQuiet
<1>5. CASE Unlock(t)
  <2>1. /\ pc[t] = "unlock" /\ call' = call /\ pc' = [pc EXCEPT ![t] = AfterUnlock(call[t])]
    BY <1>5 DEF Unlock, Goto
  <2>2. OnlyMoves(t) /\ pc'[t] = AfterUnlock(call[t])
    BY <2>1, MoveTask
  <2>3. CASE Nothing(pc[t], call[t])
    <3>1. Nothing(pc'[t], call'[t])
      BY <2>1, <2>3 DEF Nothing
    <3> QED
      BY <1>1, <1>2, <2>1, <2>2, <2>3, <3>1, CountQuiet
  <2>4. CASE ~Nothing(pc[t], call[t])
    <3>1. call[t].op \in ReadWrite /\ call[t].copied # 0 /\ call[t].copied \in Nat
      BY <1>1, <2>4 DEF Nothing, CallRecord
    <3>2. call[t].phase # "first"
      BY <1>1, <2>1, <3>1 DEF CallOK, CountOK
    <3>3. pc'[t] = "wake"
      <4>1. AfterUnlock(call[t]) = AfterTransfer(call[t])
        BY <3>1 DEF AfterUnlock, ReadWrite, Controls, Polls
      <4>2. call[t].copied > 0
        BY <3>1
      <4>3. AfterTransfer(call[t]) = "wake"
        BY <3>2, <4>2 DEF AfterTransfer
      <4> QED
        BY <2>2, <4>1, <4>3
    <3>4. \A o : Moved(o, pc'[t], call'[t]) = Moved(o, pc[t], call[t])
      BY <2>1, <3>3 DEF Moved
    <3>5. \A o : Moved(o, pc[t], call[t]) \in Nat
      BY <3>1 DEF Moved
    <3>6. 0 * Modulus = 0
      BY BytesCounters
    <3>7. Written' - Written + Moved("write", pc'[t], call'[t]) - Moved("write", pc[t], call[t]) =
            Read' - Read + Moved("read", pc'[t], call'[t]) - Moved("read", pc[t], call[t])
              + len' - len + 0 * Modulus
      <4> HIDE DEF Written, Read
      <4>1. /\ Moved("write", pc'[t], call'[t]) = Moved("write", pc[t], call[t])
            /\ Moved("read", pc'[t], call'[t]) = Moved("read", pc[t], call[t])
            /\ Moved("write", pc[t], call[t]) \in Nat /\ Moved("read", pc[t], call[t]) \in Nat
        BY <3>4, <3>5
      <4> QED
        BY <1>2, <3>6, <4>1, BytesCounters
    <3> QED
      BY <1>1, <2>1, <2>2, <3>7, CountStep
  <2> QED
    BY <2>3, <2>4
<1> QED
  BY <1>3, <1>4, <1>5

LEMMA DecideCount ==
  ASSUME SafeInv, SafeInv', CountInv, NEW t \in Threads, ReadDecide(t) \/ WriteDecide(t)
  PROVE  CountInv'
<1>1. /\ pc[t] = "decide" /\ call[t] \in CallRecord /\ CallOK(pc[t], call[t])
      /\ call[t].op \in Ops[t] \cup {"none"} /\ len' = len
  BY TaskOfSafeInv DEF CountInv, ReadDecide, WriteDecide, ringVars
<1>2. call[t].copied = 0
  BY <1>1 DEF CallOK, CountOK
<1>3. Written' = Written /\ Read' = Read
  BY OtherCounter DEF ReadDecide, WriteDecide, Refuse, Block, Written, Read
<1>4. /\ OnlyMoves(t)
      /\ call'[t].op = call[t].op /\ call'[t].copied = call[t].copied
  <2>0. /\ state_generation \in Nat /\ capacity \in Nat /\ len \in Nat
        /\ [call EXCEPT ![t] = call[t]] = call /\ call[t].count \in Nat
    BY <1>1, TaskOfSafeInv, CapacityAssumption DEF SafeInv, TypeOK, RingTypeOK, CallRecord
  <2>1. CASE \E code \in Int : Refuse(t, code)
    <3>1. PICK code \in Int : Refuse(t, code)
      BY <2>1
    <3> DEFINE k == [call[t] EXCEPT !.ret = code]
    <3>2. k.op = call[t].op /\ k.copied = call[t].copied
      BY <1>1, RetUpdate DEF SameTransfer
    <3>3. call' = [call EXCEPT ![t] = k] /\ pc' = [pc EXCEPT ![t] = "unlock"]
      BY <3>1 DEF Refuse, Goto
    <3> HIDE DEF k
    <3> QED
      BY <3>2, <3>3, MoveLocals
  <2>2. CASE \E blocked : Block(t, blocked)
    <3> DEFINE k == [call[t] EXCEPT !.seen = state_generation, !.phase = "first"]
    <3>1. k.op = call[t].op /\ k.copied = call[t].copied
      BY <1>1, <2>0, BlockUpdate DEF SameTransfer
    <3>2. call' = [call EXCEPT ![t] = k] /\ pc' = [pc EXCEPT ![t] = "unlock"]
      BY <2>2 DEF Block, Goto
    <3> HIDE DEF k
    <3> QED
      BY <3>1, <3>2, MoveLocals
  <2>3. CASE UNCHANGED call /\ \E l : pc' = [pc EXCEPT ![t] = l]
    <3>1. PICK l : pc' = [pc EXCEPT ![t] = l]
      BY <2>3
    <3>2. call' = [call EXCEPT ![t] = call[t]]
      BY <2>0, <2>3
    <3>3. OnlyMoves(t) /\ call'[t] = call[t]
      BY <3>1, <3>2, MoveLocals
    <3> QED
      BY <3>3
  <2>4. CASE /\ call' = [call EXCEPT ![t].count = Least(@, Available)]
             /\ pc' = [pc EXCEPT ![t] = "copy"]
    <3> DEFINE n == Least(call[t].count, Available)
               k == [call[t] EXCEPT !.count = n]
    <3>1. n \in Nat
      BY <2>0 DEF Least, Available
    <3>2. call' = [call EXCEPT ![t] = k]
      BY <2>4
    <3> HIDE DEF n
    <3>3. k.op = call[t].op /\ k.copied = call[t].copied
      BY <1>1, <3>1, CountUpdate
    <3> HIDE DEF k
    <3>4. OnlyMoves(t) /\ call'[t] = k
      BY <2>4, <3>2, MoveLocals
    <3> QED
      BY <3>3, <3>4
  <2>5. EAGAIN \in Int /\ ENODEV \in Int
    BY DEF EAGAIN, ENODEV
  <2>6. CASE ReadDecide(t)
    BY <2>1, <2>2, <2>3, <2>5, <2>6 DEF ReadDecide, Goto
  <2>7. CASE WriteDecide(t)
    BY <2>1, <2>2, <2>4, <2>5, <2>7 DEF WriteDecide, Goto
  <2> QED
    BY <2>6, <2>7
<1>5. Nothing(pc[t], call[t]) /\ Nothing(pc'[t], call'[t])
  BY <1>2, <1>4 DEF Nothing
<1> QED
  BY <1>1, <1>3, <1>4, <1>5, CountQuiet

\* The wait.
LEMMA WaitCount ==
  ASSUME SafeInv, SafeInv', CountInv, NEW t \in Threads,
         TestCapacity(t) \/ TestLen(t) \/ TestGeneration(t) \/ PrepareToWait(t) \/ Schedule(t)
  PROVE  CountInv'
<1>1. /\ pc[t] \in Waits /\ call[t] \in CallRecord
      /\ call[t].op \in Ops[t] \cup {"none"} /\ len' = len /\ Written' = Written /\ Read' = Read
  BY TaskOfSafeInv
     DEF CountInv, TestCapacity, TestLen, TestGeneration, PrepareToWait, Schedule, ringVars, Waits,
         Written, Read
<1>2. /\ OnlyMoves(t) /\ call'[t].op = call[t].op
      /\ pc'[t] \in Waits \cup {"lock", "failing"}
  <2>1. CASE TestCapacity(t)
    BY <1>1, <2>1 DEF TestCapacity, Goto, OnlyMoves, SafeInv, TypeOK, CallRecord, Waits
  <2>0. [call EXCEPT ![t] = call[t]] = call
    BY TaskOfSafeInv
  <2>s. CASE StopWaiting(t)
    <3> DEFINE k == [call[t] EXCEPT !.phase = "none"]
    <3>1. k.op = call[t].op
      BY <1>1, PhaseUpdate DEF SameTransfer
    <3>2. call' = [call EXCEPT ![t] = k] /\ pc' = [pc EXCEPT ![t] = "lock"]
      BY <2>s DEF StopWaiting, Goto
    <3> HIDE DEF k
    <3> QED
      BY <3>1, <3>2, MoveLocals
  <2>m. CASE UNCHANGED call /\ \E l \in Waits : pc' = [pc EXCEPT ![t] = l]
    BY <2>0, <2>m, MoveLocals
  <2>2. CASE TestLen(t)
    BY <2>2, <2>s, <2>m DEF TestLen, Goto, Waits
  <2>3. CASE TestGeneration(t)
    <3>1. CASE /\ call' = [call EXCEPT ![t].phase = "none", ![t].ret = ERESTARTSYS]
               /\ pc' = [pc EXCEPT ![t] = "failing"]
      <4> DEFINE k == [call[t] EXCEPT !.phase = "none", !.ret = ERESTARTSYS]
      <4>1. ERESTARTSYS \in Int
        BY DEF ERESTARTSYS
      <4>2. k.op = call[t].op
        BY <1>1, <4>1, InterruptUpdate DEF SameTransfer
      <4>3. call' = [call EXCEPT ![t] = k]
        BY <3>1
      <4> HIDE DEF k
      <4> QED
        BY <3>1, <4>2, <4>3, MoveLocals, ZenonT(60)
    <3> QED
      BY <2>3, <2>s, <2>m, <3>1 DEF TestGeneration, KeepWaiting, Goto, Waits
  <2>4. CASE PrepareToWait(t)
    BY <1>1, <2>4
       DEF PrepareToWait, TestStart, Goto, OnlyMoves, SafeInv, TypeOK, CallRecord, Waits
  <2>5. CASE Schedule(t)
    BY <1>1, <2>5 DEF Schedule, Goto, OnlyMoves, SafeInv, TypeOK, Waits
  <2> QED
    BY <2>1, <2>2, <2>3, <2>4, <2>5
<1>3. Nothing(pc[t], call[t]) /\ Nothing(pc'[t], call'[t])
  BY <1>1, <1>2 DEF Nothing, Waits
<1> QED
  BY <1>1, <1>2, <1>3, CountQuiet

\* The ioctl calls that do not clear, the queries and poll.
LEMMA ControlCount ==
  ASSUME SafeInv, SafeInv', CountInv, Undisturbed, NEW t \in Threads,
         \/ Control(t) \/ BumpGeneration(t) \/ WakeReaders(t) \/ WakeWriters(t) \/ CopyOut(t)
         \/ PollRegister(t) \/ PollMask(t) \/ PollWait(t)
  PROVE  CountInv'
<1>1. /\ call[t] \in CallRecord /\ CallOK(pc[t], call[t])
      /\ call[t].op \in Ops[t] \cup {"none"}
      /\ pc[t] \in {"control", "bump", "wake_r", "wake_w", "copy_out", "poll_reg", "mask", "poll_wait"}
  BY TaskOfSafeInv DEF CountInv, Control, BumpGeneration, WakeReaders, WakeWriters, CopyOut,
     PollRegister, PollMask, PollWait
<1>2. call[t].op \notin ReadWrite /\ call[t].op # "clear"
  <2>1. call[t].op \in Controls \cup Queries \cup Polls
    BY <1>1 DEF CallOK, PlaceOK
  <2>2. call[t].op # "clear"
    BY <1>1 DEF Undisturbed
  <2> QED
    BY <2>1, <2>2 DEF Controls, Queries, Polls, ReadWrite
<1>3. Written' = Written /\ Read' = Read /\ len' = len
  <2>1. CASE Control(t)
    <3>1. \/ UNCHANGED <<ringVars, stats>>
          \/ Resize(call[t].count) /\ Add("resizes", 1)
      BY <1>2, <2>1 DEF Control, DoClear, DoSetMode, DoSetCapacity, DoQuery, ResizeFails
    <3>2. CASE UNCHANGED <<ringVars, stats>>
      BY <3>2 DEF ringVars, Written, Read
    <3>3. CASE Resize(call[t].count) /\ Add("resizes", 1)
      BY <3>3, OtherCounter DEF Resize
    <3> QED
      BY <3>1, <3>2, <3>3
  <2>2. CASE ~Control(t)
    BY <2>2 DEF BumpGeneration, WakeReaders, WakeWriters, CopyOut, PollRegister, PollMask, PollWait,
       ringVars, Written, Read
  <2> QED
    BY <2>1, <2>2
<1>4. OnlyMoves(t) /\ call'[t].op = call[t].op
  <2>0. [call EXCEPT ![t] = call[t]] = call
    BY TaskOfSafeInv
  <2>k. CASE UNCHANGED call /\ \E l : pc' = [pc EXCEPT ![t] = l]
    BY <2>0, <2>k, MoveLocals
  <2>r. CASE /\ \E l : pc' = [pc EXCEPT ![t] = l]
             /\ \E code \in Int : call' = [call EXCEPT ![t].ret = code]
    <3>1. PICK code \in Int : call' = [call EXCEPT ![t].ret = code]
      BY <2>r
    <3>2. PICK l : pc' = [pc EXCEPT ![t] = l]
      BY <2>r
    <3> DEFINE k == [call[t] EXCEPT !.ret = code]
    <3>3. k.op = call[t].op
      BY <1>1, RetUpdate DEF SameTransfer
    <3>4. call' = [call EXCEPT ![t] = k]
      BY <3>1
    <3> HIDE DEF k
    <3> QED
      BY <3>2, <3>3, <3>4, MoveLocals
  <2>a. CASE DoQuery(t)
    <3> DEFINE answer == IF call[t].op = "get_capacity" THEN <<capacity>>
                                                      ELSE <<capacity, Stored, Available>>
               k == [call[t] EXCEPT !.answer = answer]
    <3>1. answer \in Seq(Nat)
      <4>1. capacity \in Nat /\ len \in Nat
        BY CapacityAssumption DEF SafeInv, TypeOK, RingTypeOK
      <4>2. Available \in Nat /\ Stored \in Nat
        BY <4>1 DEF Available, Stored
      <4> QED
        BY <4>1, <4>2
    <3>2. call' = [call EXCEPT ![t] = k] /\ pc' = [pc EXCEPT ![t] = "unlock"]
      BY <2>a DEF DoQuery, Goto
    <3> HIDE DEF answer
    <3>3. k.op = call[t].op
      BY <1>1, <3>1, AnswerUpdate DEF SameTransfer
    <3> HIDE DEF k
    <3> QED
      BY <3>2, <3>3, MoveLocals
  <2>1. CASE Control(t)
    <3>1. EMSGSIZE \in Int /\ ENOMEM \in Int
      BY DEF EMSGSIZE, ENOMEM
    <3> QED
      BY <2>1, <2>k, <2>r, <2>a, <3>1
      DEF Control, DoClear, DoSetMode, DoSetCapacity, ResizeFails, Goto
  <2>2. CASE BumpGeneration(t) \/ WakeReaders(t) \/ WakeWriters(t) \/ PollRegister(t) \/ PollWait(t)
    BY <2>2 DEF BumpGeneration, WakeReaders, WakeWriters, PollRegister, PollWait, Goto, OnlyMoves,
       SafeInv, TypeOK
  <2>3. CASE CopyOut(t) \/ PollMask(t)
    <3>1. EFAULT \in Int
      BY DEF EFAULT
    <3>2. CASE CopyOut(t)
      BY <2>k, <2>r, <3>1, <3>2 DEF CopyOut, Goto
    <3>3. CASE PollMask(t)
      <4>1. PollEvent(call[t].op) \in Int /\ EINTR \in Int
        BY DEF PollEvent, POLLIN, POLLOUT, EINTR
      <4> QED
        BY <2>r, <3>3, <4>1 DEF PollMask, Goto
    <3> QED
      BY <2>3, <3>2, <3>3
  <2> QED
    BY <2>1, <2>2, <2>3
<1>5. Nothing(pc[t], call[t]) /\ Nothing(pc'[t], call'[t])
  BY <1>2, <1>4 DEF Nothing
<1> QED
  BY <1>1, <1>3, <1>4, <1>5, CountQuiet

LEMMA EndCount ==
  ASSUME SafeInv, SafeInv', CountInv, Undisturbed, NEW t \in Threads,
         ResetStats(t) \/ Fail(t) \/ Return(t)
  PROVE  CountInv'
<1>1. /\ call[t] \in CallRecord /\ CallOK(pc[t], call[t])
      /\ call[t].op \in Ops[t] \cup {"none"}
  BY TaskOfSafeInv DEF CountInv
<1>2. ~ResetStats(t)
  <2>1. ASSUME ResetStats(t) PROVE FALSE
    <3>1. call[t].op = "reset_stats"
      BY <1>1, <2>1 DEF ResetStats, CallOK, PlaceOK
    <3> QED
      BY <1>1, <3>1 DEF Undisturbed
  <2> QED
    BY <2>1
<1>3. CASE Fail(t)
  <2>1. /\ pc[t] = "failing" /\ pc' = [pc EXCEPT ![t] = "return"] /\ call' = call /\ len' = len
        /\ Written' = Written /\ Read' = Read
    BY <1>3, OtherCounter DEF Fail, NoteFailure, Goto, ringVars
  <2>2. OnlyMoves(t) /\ pc'[t] = "return"
    BY <2>1, MoveTask
  <2>3. Nothing(pc[t], call[t]) /\ Nothing(pc'[t], call'[t])
    BY <2>1, <2>2 DEF Nothing
  <2> QED
    BY <1>1, <2>1, <2>2, <2>3, CountQuiet
<1>4. CASE Return(t)
  <2>1. /\ pc[t] = "return" /\ pc' = [pc EXCEPT ![t] = "idle"]
        /\ call' = [call EXCEPT ![t] = NoCall] /\ len' = len /\ Written' = Written /\ Read' = Read
    BY <1>4 DEF Return, Goto, ringVars, Written, Read
  <2>2. OnlyMoves(t) /\ pc'[t] = "idle" /\ call'[t] = NoCall
    BY <2>1, MoveTask DEF SafeInv, TypeOK
  <2>3. call'[t].op = "none"
    BY <2>2 DEF NoCall, NewCall
  <2>4. Nothing(pc[t], call[t]) /\ Nothing(pc'[t], call'[t])
    BY <2>1, <2>2 DEF Nothing
  <2> QED
    BY <2>1, <2>2, <2>3, <2>4, CountQuiet
<1> QED
  BY <1>2, <1>3, <1>4

\* The copies: what leaves or enters the buffer is in flight.
LEMMA ChunkMoves ==
  ASSUME WakeInv, NEW t \in Threads, ReadChunk(t) \/ WriteChunk(t)
  PROVE  /\ OnlyMoves(t) /\ pc[t] = "copy" /\ pc'[t] \in {"copy", "unlock"}
         /\ call'[t].op = call[t].op /\ call[t].copied \in Nat
         /\ Written' = Written /\ Read' = Read
         /\ \E n \in Nat :
              /\ call'[t].copied = call[t].copied + n
              /\ len' = IF ReadChunk(t) THEN len - n ELSE len + n
<1>0. call[t] \in CallRecord /\ CallOK(pc[t], call[t])
  BY Actor
<1>1. /\ pc[t] = "copy" /\ call[t].op \in ReadWrite /\ call[t].copied \in Nat
      /\ call[t].op = IF ReadChunk(t) THEN "read" ELSE "write"
  BY <1>0 DEF ReadChunk, WriteChunk, ReadWrite, CallRecord
<1>2. /\ capacity \in Nat /\ len \in Nat /\ len <= capacity
      /\ read_pos \in Nat /\ write_pos \in Nat /\ read_pos < capacity /\ write_pos < capacity
      /\ call[t].count \in Nat /\ call[t].copied <= call[t].count
  BY <1>0, <1>1, CapacityAssumption, SMTT(40) DEF WakeInv, SafeInv, TypeOK, RingTypeOK, RingShape, CallOK, CountOK, CallRecord
<1>d. data \in [0..capacity-1 -> Slot] /\ call[t].dst \in Seq(Slot)
  BY <1>0 DEF WakeInv, SafeInv, TypeOK, RingTypeOK, CallRecord
<1>3. ASSUME NEW memory \in Seq(Slot), NEW n \in Nat, NEW missing \in Nat, NEW more,
             AfterCopy(t, memory, n, missing, more)
      PROVE  /\ OnlyMoves(t) /\ pc'[t] \in {"copy", "unlock"}
             /\ call'[t].op = call[t].op /\ call'[t].copied = call[t].copied + n
             /\ Written' = Written /\ Read' = Read
  <2>1. /\ pc'[t] \in {"copy", "unlock"}
        /\ call' = [call EXCEPT ![t] = call'[t]] /\ pc' = [pc EXCEPT ![t] = pc'[t]]
        /\ call'[t].op = call[t].op /\ call'[t].copied = call[t].copied + n
    BY <1>1, <1>3, AfterCopyFacts, ZenonT(60)
  <2>2. SafeInv
    BY DEF WakeInv
  <2>3. OnlyMoves(t)
    BY <2>1, <2>2, MoveLocals
  <2>4. NoteFailure \/ UNCHANGED stats
    BY <1>3 DEF AfterCopy
  <2>5. Written' = Written /\ Read' = Read
    BY <2>2, <2>4, OtherCounter DEF NoteFailure, Written, Read
  <2> QED
    BY <2>1, <2>3, <2>5
<1>4. CASE ReadChunk(t)
  <2> DEFINE left == call[t].count - call[t].copied
             chunk == Least(left, ReadSpan)
  <2>1. chunk \in Nat /\ chunk <= capacity - read_pos /\ chunk <= len
    BY <1>1, <1>2 DEF Least, ReadSpan
  <2>2. PICK missing \in Missing(t, chunk) :
          /\ Consume(chunk - missing)
          /\ AfterCopy(t, call[t].dst \o SpanBytes(chunk - missing), chunk - missing, missing,
                       chunk - missing < left /\ chunk - missing < len)
    BY <1>4 DEF ReadChunk, Transferred
  <2> DEFINE n == chunk - missing
  <2> HIDE DEF chunk
  <2>3. n \in Nat /\ missing \in Nat /\ n <= capacity - read_pos /\ n <= len
    BY <1>2, <2>1, <2>2 DEF Missing
  <2>4. call[t].dst \o SpanBytes(n) \in Seq(Slot)
    <3> HIDE DEF n
    <3>1. ASSUME NEW i \in 1..n PROVE data[read_pos + i - 1] \in Slot
      <4>1. read_pos + i - 1 \in 0..capacity-1
        BY <1>2, <2>3
      <4> QED
        BY <1>d, <4>1
    <3>2. SpanBytes(n) \in Seq(Slot)
      BY <2>3, <3>1 DEF SpanBytes
    <3> QED
      BY <1>d, <3>2
  <2>5. Consume(n)
    BY <2>2
  <2>6. AfterCopy(t, call[t].dst \o SpanBytes(n), n, missing, n < left /\ n < len)
    BY <2>2
  <2> HIDE DEF n, left
  <2>7. len' = len - n
    BY <1>2, <2>3, <2>5 DEF Consume, Least, ringVars
  <2>8. /\ OnlyMoves(t) /\ pc'[t] \in {"copy", "unlock"}
        /\ call'[t].op = call[t].op /\ call'[t].copied = call[t].copied + n
        /\ Written' = Written /\ Read' = Read
    BY <1>3, <2>3, <2>4, <2>6
  <2> QED
    BY <1>1, <1>4, <2>3, <2>7, <2>8
<1>5. CASE ~ReadChunk(t)
  <2> DEFINE left == call[t].count - call[t].copied
             chunk == Least(left, WriteSpan)
  <2>1. chunk \in Nat /\ chunk <= Available
    BY <1>1, <1>2 DEF Least, WriteSpan, Available
  <2>2. PICK missing \in Missing(t, chunk) :
          /\ Commit(chunk - missing)
          /\ AfterCopy(t, << >>, chunk - missing, missing,
                       chunk - missing < left /\ chunk - missing < Available)
    BY <1>5 DEF WriteChunk, Transferred
  <2> DEFINE n == chunk - missing
  <2> HIDE DEF chunk
  <2>3. n \in Nat /\ missing \in Nat /\ n <= Available /\ Available \in Nat
    BY <1>2, <2>1, <2>2 DEF Missing, Available
  <2>4. << >> \in Seq(Slot)
    OBVIOUS
  <2>5. Commit(n)
    BY <2>2
  <2>6. AfterCopy(t, << >>, n, missing, n < left /\ n < Available)
    BY <2>2
  <2> HIDE DEF n, left
  <2>7. len' = len + n
    BY <1>2, <2>3, <2>5 DEF Commit, Least
  <2>8. /\ OnlyMoves(t) /\ pc'[t] \in {"copy", "unlock"}
        /\ call'[t].op = call[t].op /\ call'[t].copied = call[t].copied + n
        /\ Written' = Written /\ Read' = Read
    BY <1>3, <2>3, <2>4, <2>6
  <2> QED
    BY <1>1, <1>5, <2>3, <2>7, <2>8
<1> QED
  BY <1>4, <1>5

LEMMA ChunkCount ==
  ASSUME WakeInv, SafeInv', CountInv, NEW t \in Threads, ReadChunk(t) \/ WriteChunk(t)
  PROVE  CountInv'
<1>1. SafeInv /\ call[t].op \in Ops[t] \cup {"none"}
  BY DEF WakeInv, CountInv
<1>2. /\ OnlyMoves(t) /\ pc[t] = "copy" /\ pc'[t] \in {"copy", "unlock"}
      /\ call'[t].op = call[t].op /\ call[t].copied \in Nat
      /\ Written' = Written /\ Read' = Read
  BY ChunkMoves
<1>3. PICK n \in Nat :
        /\ call'[t].copied = call[t].copied + n
        /\ len' = IF ReadChunk(t) THEN len - n ELSE len + n
  BY ChunkMoves
<1>4. call[t].op = IF ReadChunk(t) THEN "read" ELSE "write"
  BY DEF ReadChunk, WriteChunk
<1>5. /\ Moved("write", pc'[t], call'[t]) - Moved("write", pc[t], call[t])
           = IF ReadChunk(t) THEN 0 ELSE n
      /\ Moved("read", pc'[t], call'[t]) - Moved("read", pc[t], call[t])
           = IF ReadChunk(t) THEN n ELSE 0
      /\ \A o : Moved(o, pc[t], call[t]) \in Nat /\ Moved(o, pc'[t], call'[t]) \in Nat
  BY <1>2, <1>3, <1>4 DEF Moved
<1>6. Written \in Nat /\ Read \in Nat /\ len \in Nat /\ 0 * Modulus = 0
  BY <1>1, BytesCounters
<1>7. Written' - Written + Moved("write", pc'[t], call'[t]) - Moved("write", pc[t], call[t]) =
        Read' - Read + Moved("read", pc'[t], call'[t]) - Moved("read", pc[t], call[t])
          + len' - len + 0 * Modulus
  <2> DEFINE w0 == Moved("write", pc[t], call[t])
             w1 == Moved("write", pc'[t], call'[t])
             r0 == Moved("read", pc[t], call[t])
             r1 == Moved("read", pc'[t], call'[t])
  <2>1. w0 \in Nat /\ w1 \in Nat /\ r0 \in Nat /\ r1 \in Nat
    BY <1>5
  <2>2. w1 - w0 = (IF ReadChunk(t) THEN 0 ELSE n) /\ r1 - r0 = (IF ReadChunk(t) THEN n ELSE 0)
    BY <1>5
  <2> HIDE DEF w0, w1, r0, r1
  <2>3. Written' - Written + w1 - w0 = Read' - Read + r1 - r0 + len' - len + 0 * Modulus
    BY ONLY ReadChunk(t) \/ ~ReadChunk(t), n \in Nat, <1>2, <1>3, <1>6, <2>1, <2>2, SMTT(40)
  <2> QED
    BY <2>3 DEF w0, w1, r0, r1
<1> QED
  BY <1>1, <1>2, <1>7, CountStep

\* The counters catch up, and may wrap.
LEMMA PositionWraps ==
  ASSUME NEW a \in Nat, NEW m \in Nat \ {0}
  PROVE  a \div m \in Int /\ a % m = a - (a \div m) * m
OBVIOUS

LEMMA WakeCount ==
  ASSUME SafeInv, SafeInv', CountInv, Undisturbed, NEW t \in Threads, Wake(t)
  PROVE  CountInv'
<1> DEFINE n == call[t].copied
<1>1. /\ call[t] \in CallRecord /\ CallOK(pc[t], call[t])
      /\ call[t].op \in Ops[t] \cup {"none"} /\ n \in Nat
  BY TaskOfSafeInv DEF CountInv, CallRecord
<1>2. /\ pc[t] = "wake" /\ pc' = [pc EXCEPT ![t] = "return"] /\ call' = call /\ len' = len
      /\ call[t].op \in ReadWrite
  BY <1>1 DEF Wake, Goto, ringVars, CallOK, PlaceOK
<1>3. OnlyMoves(t) /\ pc'[t] = "return"
  BY <1>2, MoveTask
<1>4. /\ \A o : Moved(o, pc'[t], call'[t]) = 0
      /\ \A o : Moved(o, pc[t], call[t]) = IF call[t].op = o THEN n ELSE 0
  BY <1>2, <1>3 DEF Moved
<1>5. /\ Written \in Nat /\ Read \in Nat /\ len \in Nat /\ Modulus \in Nat \ {0}
      /\ stats \in [Counter -> Nat]
      /\ "total_bytes_written" \in Counter /\ "total_bytes_read" \in Counter
  BY BytesCounters
<1>6. CounterModulus["total_bytes_written"] = Modulus
  BY DEF Undisturbed, Modulus
<1> HIDE DEF n
<1>7. CASE call[t].op = "read"
  <2>1. Read' = (Read + n) % Modulus /\ Written' = Written
    BY <1>5, <1>7 DEF Wake, Add, Written, Read, Modulus, BytesMoved, n
  <2> DEFINE q == (Read + n) \div Modulus
  <2>2. q \in Int /\ Read' = Read + n - q * Modulus
    <3> DEFINE x == Read + n
    <3>1. x \in Nat
      BY <1>1, <1>5
    <3>2. Read' = x % Modulus
      BY <2>1
    <3>3. q = x \div Modulus
      OBVIOUS
    <3> HIDE DEF x, q
    <3>4. q \in Int /\ Read' = x - q * Modulus
      BY <1>5, <3>1, <3>2, <3>3, PositionWraps
    <3>5. q * Modulus \in Int
      BY <1>5, <3>4
    <3> QED
      BY <1>1, <1>5, <3>4, <3>5 DEF x
  <2>3. /\ Moved("write", pc'[t], call'[t]) = 0 /\ Moved("read", pc'[t], call'[t]) = 0
        /\ Moved("write", pc[t], call[t]) = 0 /\ Moved("read", pc[t], call[t]) = n
    BY <1>4, <1>7
  <2> HIDE DEF q
  <2>4. Written' - Written + Moved("write", pc'[t], call'[t]) - Moved("write", pc[t], call[t]) =
          Read' - Read + Moved("read", pc'[t], call'[t]) - Moved("read", pc[t], call[t])
            + len' - len + q * Modulus
    BY <1>1, <1>2, <1>5, <2>1, <2>2, <2>3
  <2> QED
    BY <1>1, <1>2, <1>3, <2>2, <2>4, CountStep
<1>8. CASE call[t].op = "write"
  <2>1. Written' = (Written + n) % Modulus /\ Read' = Read
    BY <1>5, <1>6, <1>8 DEF Wake, Add, Written, Read, BytesMoved, n
  <2> DEFINE d == (Written + n) \div Modulus
             q == -d
  <2>2. d \in Int /\ Written' = Written + n - d * Modulus
    <3> DEFINE x == Written + n
    <3>1. x \in Nat
      BY <1>1, <1>5
    <3>2. Written' = x % Modulus
      BY <2>1
    <3>3. d = x \div Modulus
      OBVIOUS
    <3> HIDE DEF x, d
    <3>4. d \in Int /\ Written' = x - d * Modulus
      BY <1>5, <3>1, <3>2, <3>3, PositionWraps
    <3>5. d * Modulus \in Int
      BY <1>5, <3>4
    <3> QED
      BY <1>1, <1>5, <3>4, <3>5 DEF x
  <2> HIDE DEF d
  <2>3. q \in Int /\ q * Modulus = -(d * Modulus) /\ d * Modulus \in Int
    BY <1>5, <2>2
  <2>4. /\ Moved("write", pc'[t], call'[t]) = 0 /\ Moved("read", pc'[t], call'[t]) = 0
        /\ Moved("write", pc[t], call[t]) = n /\ Moved("read", pc[t], call[t]) = 0
    BY <1>4, <1>8
  <2> HIDE DEF q
  <2>5. Written' - Written + Moved("write", pc'[t], call'[t]) - Moved("write", pc[t], call[t]) =
          Read' - Read + Moved("read", pc'[t], call'[t]) - Moved("read", pc[t], call[t])
            + len' - len + q * Modulus
    BY <1>1, <1>2, <1>5, <2>1, <2>2, <2>3, <2>4
  <2> QED
    BY <1>1, <1>2, <1>3, <2>3, <2>5, CountStep
<1> QED
  BY <1>2, <1>7, <1>8 DEF ReadWrite

LEMMA NextCount ==
  ASSUME WakeInv, CountInv, Undisturbed, [Next]_vars
  PROVE  CountInv'
<1>1. SafeInv /\ SafeInv'
  BY NextSafe DEF WakeInv
<1>2. CASE Unload \/ Unloaded \/ UNCHANGED vars
  <2>1. pc' = pc /\ call' = call /\ len' = len /\ Written' = Written /\ Read' = Read
    BY <1>2 DEF Unload, Unloaded, vars, ringVars, Written, Read
  <2> QED
    BY <2>1, CountIdle
<1>3. ASSUME NEW t \in Threads, Step(t) PROVE CountInv'
  BY <1>1, <1>3, MutexCount, DecideCount, ChunkCount, WakeCount, WaitCount, ControlCount, EndCount
  DEF Step
<1> QED
  BY <1>1, <1>2, <1>3, FilesCount, CallCount DEF Next

LEMMA InitCount == Init => CountInv
<1> SUFFICES ASSUME Init PROVE CountInv
  OBVIOUS
<1>1. \A t \in Threads : pc[t] = "idle" /\ call[t] = NoCall
  BY DEF Init
<1>2. NoCall.op = "none"
  BY DEF NoCall, NewCall
<1>3. \A o : InFlight(o) = {}
  BY <1>1 DEF InFlight, InTransfer
<1>4. IsFiniteSet({}) /\ Cardinality({}) = 0
  BY FS_EmptySet
<1>5. Written = 0 /\ Read = 0 /\ len = 0 /\ Modulus \in Nat
  BY BytesCounters DEF Init, BufferInit, Written, Read
<1>6. Balance(0)
  BY <1>3, <1>4, <1>5 DEF Balance
<1>7. \A t \in Threads : call[t].op \in Ops[t] \cup {"none"}
  BY <1>1, <1>2
<1> QED
  BY <1>3, <1>4, <1>6, <1>7 DEF CountInv

LEMMA WrapEqual ==
  ASSUME NEW x \in Nat, NEW y \in Nat, NEW i \in Int, NEW m \in Nat \ {0}, x = y + i * m
  PROVE  x % m = y % m
<1> DEFINE a == x \div m
           b == y \div m
           r == x % m
           s == y % m
           k == b + i - a
<1>1. /\ a \in Int /\ b \in Int /\ r = x - a * m /\ s = y - b * m
  BY PositionWraps
<1>2. r \in 0..m-1 /\ s \in 0..m-1
  OBVIOUS
<1> HIDE DEF a, b, r, s
<1>3. k \in Int /\ k * m = b * m + i * m - a * m
  BY <1>1
<1> HIDE DEF k
<1>4. k * m = r - s
  <2>1. a * m \in Int /\ b * m \in Int /\ i * m \in Int
    BY <1>1
  <2> QED
    BY <1>1, <1>2, <1>3, <2>1
<1>5. k <= 0
  <2>1. ASSUME k >= 1 PROVE FALSE
    <3>1. k * m >= m
      BY <1>3, <2>1
    <3> QED
      BY <1>2, <1>4, <3>1
  <2> QED
    BY <1>3, <2>1
<1>6. k >= 0
  <2>1. ASSUME k <= -1 PROVE FALSE
    <3>1. k * m <= -m
      BY <1>3, <2>1
    <3> QED
      BY <1>2, <1>4, <3>1
  <2> QED
    BY <1>3, <2>1
<1>7. k = 0
  BY <1>3, <1>5, <1>6
<1>8. r = s
  BY <1>2, <1>4, <1>7
<1> QED
  BY <1>8 DEF r, s

(***************************************************************************)
(* GET_STATS never loses or invents a byte: whatever the interleaving of   *)
(* transfers, faults, resizes and late additions, and however often the    *)
(* counters wrap, the bytes written and those in flight from a writer are  *)
(* the bytes read, those in flight to a reader and those stored.           *)
(***************************************************************************)
THEOREM EveryByteAccountedFor ==
  ASSUME Undisturbed
  PROVE  Spec => []BytesAccountedFor
<1>1. ASSUME WakeInv, CountInv PROVE BytesAccountedFor
  <2>1. PICK i \in Int : Balance(i)
    BY <1>1 DEF CountInv
  <2> DEFINE w == Cardinality(InFlight("write"))
             r == Cardinality(InFlight("read"))
  <2>2. w \in Nat /\ r \in Nat
    BY <1>1, FS_CardinalityType DEF CountInv, ReadWrite
  <2>3. Written \in Nat /\ Read \in Nat /\ len \in Nat /\ Modulus \in Nat \ {0}
    BY <1>1, BytesCounters DEF WakeInv
  <2>4. Written + w = Read + r + len + i * Modulus
    BY <2>1 DEF Balance
  <2> HIDE DEF w, r
  <2>5. Written + w \in Nat /\ Read + r + len \in Nat
    BY <2>2, <2>3
  <2>6. (Written + w) % Modulus = (Read + r + len) % Modulus
    BY <2>3, <2>4, <2>5, WrapEqual
  <2> QED
    BY <2>6 DEF BytesAccountedFor, Written, Read, Modulus, w, r
<1>2. Init => WakeInv /\ CountInv
  BY InitWake, InitCount
<1>3. WakeInv /\ CountInv /\ [Next]_vars => (WakeInv /\ CountInv)'
  BY NextWake, NextCount
<1> QED
  BY <1>1, <1>2, <1>3, PTL DEF Spec

-----------------------------------------------------------------------------
(***************************************************************************)
(* Loading and unloading the module (ModuleLifecycle), for any number of   *)
(* tasks that open the device.  What is held is a function of where the    *)
(* loader is: ResourcesOK spells it out.                                   *)
(***************************************************************************)
LoaderPlaces == {"out", "init", "unwind", "loaded", "exit"}

ResourcesOK ==
  /\ loader \in LoaderPlaces /\ acquiring \in Life!Resource \cup {"none"}
  /\ loader = "out" => resources = {}
  /\ loader = "loaded" => resources = Life!Resource
  /\ loader = "init" =>
       resources = IF acquiring = "none" THEN Life!Resource ELSE Life!BuiltOn[acquiring]
  /\ loader = "unwind" =>
       acquiring \notin {"none", "device"} /\ resources = Life!BuiltOn[acquiring] \cup {acquiring}
  /\ loader = "exit" =>
       resources = IF acquiring = "none" THEN {} ELSE Life!BuiltOn[acquiring] \cup {acquiring}

OpenedOK ==
  /\ opened \in [Openers -> {"closed", "opening", "open", "released"}]
  /\ Life!FilesFindDevice

LifecycleInv ==
  /\ ResourcesOK /\ OpenedOK /\ Life!NothingLeaks
  /\ pointer = "dev" => loader \in {"loaded", "exit"}
  /\ pointer \in {"dev", "NULL"}

\* The three lists of calls, step by step.
LEMMA LoaderOrders ==
  /\ Life!Following(Life!InitOrder, "dev") = "buffer"
  /\ Life!Following(Life!InitOrder, "buffer") = "region"
  /\ Life!Following(Life!InitOrder, "region") = "cdev"
  /\ Life!Following(Life!InitOrder, "cdev") = "class"
  /\ Life!Following(Life!InitOrder, "class") = "device"
  /\ Life!Following(Life!InitOrder, "device") = "none"
  /\ Life!Following(Life!UnwindOrder, "class") = "cdev"
  /\ Life!Following(Life!UnwindOrder, "cdev") = "region"
  /\ Life!Following(Life!UnwindOrder, "region") = "buffer"
  /\ Life!Following(Life!UnwindOrder, "buffer") = "dev"
  /\ Life!Following(Life!UnwindOrder, "dev") = "none"
  /\ Life!Following(Life!ExitOrder, "device") = "class"
  /\ Life!Following(Life!ExitOrder, "class") = "cdev"
  /\ Life!Following(Life!ExitOrder, "cdev") = "region"
  /\ Life!Following(Life!ExitOrder, "region") = "buffer"
  /\ Life!Following(Life!ExitOrder, "buffer") = "dev"
  /\ Life!Following(Life!ExitOrder, "dev") = "none"
<1>1. ASSUME NEW order, NEW n \in Nat, Len(order) = n, NEW i \in 1..n,
             \A j, k \in 1..n : order[j] = order[k] => j = k
      PROVE  Life!Following(order, order[i]) = IF i = n THEN "none" ELSE order[i + 1]
  BY <1>1 DEF Life!Following
<1>2. /\ Len(Life!InitOrder) = 6
      /\ \A j, k \in 1..6 : Life!InitOrder[j] = Life!InitOrder[k] => j = k
      /\ Life!InitOrder[1] = "dev" /\ Life!InitOrder[2] = "buffer" /\ Life!InitOrder[3] = "region"
      /\ Life!InitOrder[4] = "cdev" /\ Life!InitOrder[5] = "class" /\ Life!InitOrder[6] = "device"
  BY DEF Life!InitOrder
<1>3. /\ Len(Life!UnwindOrder) = 5
      /\ \A j, k \in 1..5 : Life!UnwindOrder[j] = Life!UnwindOrder[k] => j = k
      /\ Life!UnwindOrder[1] = "class" /\ Life!UnwindOrder[2] = "cdev"
      /\ Life!UnwindOrder[3] = "region" /\ Life!UnwindOrder[4] = "buffer" /\ Life!UnwindOrder[5] = "dev"
  BY DEF Life!UnwindOrder
<1>4. /\ Len(Life!ExitOrder) = 6
      /\ \A j, k \in 1..6 : Life!ExitOrder[j] = Life!ExitOrder[k] => j = k
      /\ Life!ExitOrder[1] = "device" /\ Life!ExitOrder[2] = "class" /\ Life!ExitOrder[3] = "cdev"
      /\ Life!ExitOrder[4] = "region" /\ Life!ExitOrder[5] = "buffer" /\ Life!ExitOrder[6] = "dev"
  BY DEF Life!ExitOrder
<1>5.
      /\ Life!Following(Life!InitOrder, "dev") = "buffer"
      /\ Life!Following(Life!InitOrder, "buffer") = "region"
      /\ Life!Following(Life!InitOrder, "region") = "cdev"
      /\ Life!Following(Life!InitOrder, "cdev") = "class"
      /\ Life!Following(Life!InitOrder, "class") = "device"
      /\ Life!Following(Life!InitOrder, "device") = "none"
  <2>1. \A i \in 1..6 : Life!Following(Life!InitOrder, Life!InitOrder[i]) =
                          IF i = 6 THEN "none" ELSE Life!InitOrder[i + 1]
    <3>1. 6 \in Nat
      OBVIOUS
    <3> QED
      BY <1>1, <1>2, <3>1, Zenon
  <2> QED
    BY <1>2, <2>1
<1>6.
      /\ Life!Following(Life!UnwindOrder, "class") = "cdev"
      /\ Life!Following(Life!UnwindOrder, "cdev") = "region"
      /\ Life!Following(Life!UnwindOrder, "region") = "buffer"
      /\ Life!Following(Life!UnwindOrder, "buffer") = "dev"
      /\ Life!Following(Life!UnwindOrder, "dev") = "none"
  <2>1. \A i \in 1..5 : Life!Following(Life!UnwindOrder, Life!UnwindOrder[i]) =
                          IF i = 5 THEN "none" ELSE Life!UnwindOrder[i + 1]
    <3>1. 5 \in Nat
      OBVIOUS
    <3> QED
      BY <1>1, <1>3, <3>1, Zenon
  <2> QED
    BY <1>3, <2>1
<1>7.
      /\ Life!Following(Life!ExitOrder, "device") = "class"
      /\ Life!Following(Life!ExitOrder, "class") = "cdev"
      /\ Life!Following(Life!ExitOrder, "cdev") = "region"
      /\ Life!Following(Life!ExitOrder, "region") = "buffer"
      /\ Life!Following(Life!ExitOrder, "buffer") = "dev"
      /\ Life!Following(Life!ExitOrder, "dev") = "none"
  <2>1. \A i \in 1..6 : Life!Following(Life!ExitOrder, Life!ExitOrder[i]) =
                          IF i = 6 THEN "none" ELSE Life!ExitOrder[i + 1]
    <3>1. 6 \in Nat
      OBVIOUS
    <3> QED
      BY <1>1, <1>4, <3>1, Zenon
  <2> QED
    BY <1>4, <2>1
<1> QED
  BY <1>5, <1>6, <1>7

LEMMA ResourcesStep ==
  ASSUME LifecycleInv, Life!Next
  PROVE  ResourcesOK' /\ Life!NothingLeaks' /\ (pointer' = "dev" => loader' \in {"loaded", "exit"})
         /\ pointer' \in {"dev", "NULL"}
<1> USE DEF LifecycleInv, ResourcesOK, Life!NothingLeaks, LoaderPlaces, Life!Resource
<1>1. CASE Life!Load \/ Life!LoadRefused \/ Life!InitEnd \/ Life!ExitStart \/ Life!ExitEnd
  BY <1>1 DEF Life!Load, Life!LoadRefused, Life!InitEnd, Life!ExitStart, Life!ExitEnd, Life!BuiltOn
<1>2. CASE Life!InitStep
  BY <1>2, LoaderOrders DEF Life!InitStep, Life!BuiltOn
<1>3. CASE Life!InitFails
  BY <1>3 DEF Life!InitFails, Life!UnwindFrom, Life!BuiltOn
<1>4. CASE Life!UnwindStep
  BY <1>4, LoaderOrders DEF Life!UnwindStep, Life!BuiltOn
<1>5. CASE Life!ExitStep
  BY <1>5, LoaderOrders DEF Life!ExitStep, Life!BuiltOn
<1>6. CASE \E f \in Openers : Life!OpenStart(f) \/ Life!Open(f) \/ Life!Release(f) \/ Life!Put(f)
  BY <1>6 DEF Life!OpenStart, Life!Open, Life!Release, Life!Put
<1> QED
  BY <1>1, <1>2, <1>3, <1>4, <1>5, <1>6 DEF Life!Next

LEMMA OpenedStep ==
  ASSUME LifecycleInv, Life!Next
  PROVE  OpenedOK'
<1> USE DEF LifecycleInv, OpenedOK, Life!FilesFindDevice
<1>1. CASE Life!Load \/ Life!LoadRefused \/ Life!InitFails \/ Life!UnwindStep
           \/ Life!ExitStep \/ Life!ExitEnd
  BY <1>1 DEF ResourcesOK, Life!Load, Life!LoadRefused, Life!InitFails, Life!UnwindStep,
     Life!ExitStep, Life!ExitEnd, Life!BuiltOn, Life!Resource
<1>2. CASE Life!InitStep
  BY <1>2 DEF ResourcesOK, Life!InitStep, Life!BuiltOn, Life!Resource
<1>3. CASE Life!InitEnd
  BY <1>3 DEF Life!InitEnd
<1>4. CASE Life!ExitStart
  BY <1>4 DEF Life!ExitStart, Life!Referenced
<1>5. CASE \E f \in Openers : Life!OpenStart(f)
  <2>1. PICK f \in Openers : Life!OpenStart(f)
    BY <1>5
  <2>2. resources = Life!Resource
    BY <2>1 DEF Life!OpenStart, ResourcesOK, Life!BuiltOn, Life!Resource
  <2> QED
    BY <2>1, <2>2 DEF Life!OpenStart
<1>6. CASE \E f \in Openers : Life!Open(f) \/ Life!Release(f) \/ Life!Put(f)
  BY <1>6 DEF Life!Open, Life!Release, Life!Put
<1> QED
  BY <1>1, <1>2, <1>3, <1>4, <1>5, <1>6 DEF Life!Next

LEMMA LifecycleNext == LifecycleInv /\ [Life!Next]_(Life!vars) => LifecycleInv'
<1>1. LifecycleInv /\ UNCHANGED Life!vars => LifecycleInv'
  BY DEF LifecycleInv, ResourcesOK, OpenedOK, Life!FilesFindDevice, Life!NothingLeaks, Life!vars
<1> QED
  BY <1>1, ResourcesStep, OpenedStep DEF LifecycleInv

\* What the invariant says of the resources and of the files.
LEMMA LifecycleInit == Life!Init => LifecycleInv
BY DEF Life!Init, LifecycleInv, ResourcesOK, OpenedOK, Life!FilesFindDevice, Life!NothingLeaks,
   LoaderPlaces

LEMMA LifecycleDangles == LifecycleInv => NothingDangles
BY DEF LifecycleInv, ResourcesOK, OpenedOK, NothingDangles, Life!NothingDangles, Life!BuiltOn, Life!Resource,
   LoaderPlaces

(***************************************************************************)
(* Wherever init fails and whenever exit runs, no resource outlives what   *)
(* it is built on and nothing is given back that is not there: the error   *)
(* labels of ringbuf_char_init and ringbuf_char_exit undo in the opposite  *)
(* order of creation, and only what was created.                           *)
(***************************************************************************)
THEOREM NothingEverDangles == LifeSpec => []NothingDangles
BY LifecycleInit, LifecycleDangles, LifecycleNext, PTL DEF LifeSpec, Life!Spec

(***************************************************************************)
(* A load that failed and an unload that is over leave nothing behind.     *)
(***************************************************************************)
THEOREM NothingEverLeaks == LifeSpec => []NothingLeaks
<1>1. LifecycleInv => NothingLeaks
  BY DEF LifecycleInv, NothingLeaks
<1> QED
  BY <1>1, LifecycleInit, LifecycleNext, PTL DEF LifeSpec, Life!Spec

(***************************************************************************)
(* However many tasks open and close the device, none finds it half set up *)
(* or half torn down.                                                      *)
(***************************************************************************)
THEOREM LifecycleSafe == LifeSpec => []FilesFindDevice
<1>1. LifecycleInv => FilesFindDevice
  BY DEF LifecycleInv, OpenedOK, FilesFindDevice
<1> QED
  BY <1>1, LifecycleInit, LifecycleNext, PTL DEF LifeSpec, Life!Spec

=============================================================================
