---------------------------- MODULE BufferCalls ----------------------------
(***************************************************************************)
(* The circular buffer as a sequential object: the calls                   *)
(* ringbuf_char_buffer_read, _write, _clear and _resize of                 *)
(* kernel/ringbuf_char_buffer.c, made one after the other by one caller.   *)
(* _read and _write move at most one contiguous span per iteration of      *)
(* their loop, so a call that crosses the end of the storage takes two; an *)
(* iteration is one step here.                                             *)
(***************************************************************************)
EXTENDS RingBuffer

CONSTANT MaxTransfer      \* bound: the longest transfer a caller asks for

ASSUME TransferAssumption == MaxTransfer \in Nat \ {0}

VARIABLES op,       \* the call in progress: "none", "read" or "write"
          count,    \* bytes asked for
          copied,   \* bytes moved so far
          src,      \* the bytes to write
          dst,      \* the bytes read so far
          ret       \* what the last call returned

callVars == <<op, count, copied, src, dst, ret>>
vars == <<data, capacity, len, read_pos, write_pos,
          op, count, copied, src, dst, ret>>

EINVAL == -22
ENOMEM == -12
EMSGSIZE == -90

Payloads == UNION {[1..n -> Byte] : n \in 0..MaxTransfer}

Init ==
  /\ \E c \in MinCapacity..MaxCapacity : BufferInit(c)
  /\ op = "none"
  /\ count = 0
  /\ copied = 0
  /\ src = << >>
  /\ dst = << >>
  /\ ret = 0

CallRead(n) ==
  /\ op = "none"
  /\ op' = "read"
  /\ count' = n
  /\ copied' = 0
  /\ src' = << >>
  /\ dst' = << >>
  /\ UNCHANGED <<data, capacity, len, read_pos, write_pos, ret>>

CallWrite(payload) ==
  /\ op = "none"
  /\ op' = "write"
  /\ count' = Len(payload)
  /\ copied' = 0
  /\ src' = payload
  /\ dst' = << >>
  /\ UNCHANGED <<data, capacity, len, read_pos, write_pos, ret>>

\* One iteration of the loop of ringbuf_char_buffer_read.
ReadChunk ==
  LET chunk == Least(count - copied, ReadSpan)
  IN  /\ op = "read"
      /\ copied < count
      /\ len > 0
      /\ dst' = dst \o SpanBytes(chunk)
      /\ Consume(chunk)
      /\ copied' = copied + chunk
      /\ UNCHANGED <<op, count, src, ret>>

\* Mutant: the call answers what was asked for.
Answer_Asked == count

Answer == copied

ReadReturn ==
  /\ op = "read"
  /\ copied >= count \/ len = 0
  /\ ret' = Answer
  /\ op' = "none"
  /\ UNCHANGED <<data, capacity, len, read_pos, write_pos, count, copied, src, dst>>

\* One iteration of the loop of ringbuf_char_buffer_write.
WriteChunk ==
  LET chunk == Least(count - copied, WriteSpan)
  IN  /\ op = "write"
      /\ copied < count
      /\ Available > 0
      /\ CopyIn(src, copied, chunk, chunk)
      /\ Commit(chunk)
      /\ copied' = copied + chunk
      /\ UNCHANGED <<op, count, src, dst, ret>>

WriteReturn ==
  /\ op = "write"
  /\ copied >= count \/ Available = 0
  /\ ret' = Answer
  /\ op' = "none"
  /\ UNCHANGED <<data, capacity, len, read_pos, write_pos, count, copied, src, dst>>

CallClear ==
  /\ op = "none"
  /\ Clear
  /\ UNCHANGED callVars

(***************************************************************************)
(* ringbuf_char_buffer_resize: three ways to be refused, none of which     *)
(* touches the buffer; the allocation may fail at any time.                *)
(***************************************************************************)
ResizeError(c) == IF CapacityValid(c) THEN EMSGSIZE ELSE EINVAL

CallResize(c) ==
  /\ op = "none"
  /\ \/ /\ ResizeRefused(c)
        /\ ret' = ResizeError(c)
        /\ UNCHANGED ringVars
     \/ /\ ~ResizeRefused(c)
        /\ ret' = ENOMEM
        /\ UNCHANGED ringVars
     \/ /\ Resize(c)
        /\ ret' = 0
  /\ UNCHANGED <<op, count, copied, src, dst>>

Next ==
  \/ \E n \in 0..MaxTransfer : CallRead(n)
  \/ \E payload \in Payloads : CallWrite(payload)
  \/ ReadChunk
  \/ ReadReturn
  \/ WriteChunk
  \/ WriteReturn
  \/ CallClear
  \/ \E c \in 0..MaxCapacity+1 : CallResize(c)

(***************************************************************************)
(* The caller makes calls when it likes; a call it has made runs on.       *)
(***************************************************************************)
Fairness == WF_vars(ReadChunk \/ ReadReturn \/ WriteChunk \/ WriteReturn)

Spec == Init /\ [][Next]_vars

FairSpec == Spec /\ Fairness

-----------------------------------------------------------------------------

\* The fields of the buffer and the caller's locals have their types.
TypeOK ==
  /\ RingTypeOK
  /\ op \in {"none", "read", "write"}
  /\ count \in Nat
  /\ copied \in Nat
  /\ src \in Seq(Byte)
  /\ dst \in Seq(Slot)
  /\ ret \in Int

(***************************************************************************)
(* The stream the buffer stands for.  A call takes effect when it returns: *)
(* the bytes a read in progress has taken still count as stored, those a   *)
(* write in progress has stored do not count yet.                          *)
(***************************************************************************)
Stream ==
  CASE op = "read"  -> dst \o Contents
    [] op = "write" -> SubSeq(Contents, 1, len - copied)
    [] OTHER        -> Contents

Fifo == INSTANCE ByteFifo WITH data <- Stream, capacity <- capacity

(***************************************************************************)
(* The buffer implements the contract of ReferenceModel (lab/contract.py): *)
(* whatever the wrap-around, the positions and the number of chunks, the   *)
(* stream only changes by whole reads, writes, clears and resizes.         *)
(***************************************************************************)
ImplementsFifo == Fifo!Spec

(***************************************************************************)
(* The replies are the contract's: a read that returns hands out exactly   *)
(* the bytes ReferenceModel.apply would, a write stores as many as it      *)
(* would.  Where the contract reports EAGAIN the buffer returns 0, and its *)
(* caller in ringbuf_char.c makes the EAGAIN of it.                        *)
(***************************************************************************)
ContractReply == IF ret' = 0 /\ count > 0 THEN -Fifo!EAGAIN ELSE ret'

RepliesMatchContract ==
  [][/\ ReadReturn  => Fifo!Read(count, ContractReply, dst)
     /\ WriteReturn => Fifo!Write(src, ContractReply)]_vars

\* Every loop of the buffer code ends: a call that was made returns.
CallsReturn == [](op # "none" => <>(op = "none"))

=============================================================================
