----------------------------- MODULE RingBuffer -----------------------------
(***************************************************************************)
(* The circular buffer of kernel/ringbuf_char_buffer.c: its five fields as *)
(* variables and its operations as state functions and as actions on them. *)
(* The callers (BufferCalls, RingbufChar) compose the actions; nothing     *)
(* here decides when an operation runs.                                    *)
(*                                                                         *)
(* The callers never pass a NULL buffer and never use one that has not     *)
(* been initialised, so the NULL tests of the C code are not modelled.     *)
(***************************************************************************)
EXTENDS Integers, Sequences

CONSTANTS Byte,           \* the byte values writers supply
          Junk,           \* what a slot holds that no writer filled
          MinCapacity,    \* RINGBUF_CHAR_MIN_CAPACITY
          MaxCapacity     \* RINGBUF_CHAR_MAX_CAPACITY

ASSUME CapacityAssumption ==
  /\ MinCapacity \in Nat \ {0}
  /\ MaxCapacity \in Nat
  /\ MinCapacity <= MaxCapacity

ASSUME JunkAssumption == Junk \notin Byte

VARIABLES data,       \* the storage, a function on 0..capacity-1
          capacity,
          len,        \* bytes stored
          read_pos,
          write_pos

ringVars == <<data, capacity, len, read_pos, write_pos>>

Slot == Byte \cup {Junk}

Least(a, b) == IF a <= b THEN a ELSE b

CapacityValid(c) == MinCapacity <= c /\ c <= MaxCapacity

(***************************************************************************)
(* ringbuf_char_buffer_init: kvmalloc leaves the storage uninitialised.    *)
(***************************************************************************)
BufferInit(c) ==
  /\ CapacityValid(c)
  /\ capacity = c
  /\ data = [i \in 0..c-1 |-> Junk]
  /\ len = 0
  /\ read_pos = 0
  /\ write_pos = 0

Stored == len

Available == IF len > capacity THEN 0 ELSE capacity - len

ReadSpan == IF len = 0 THEN 0 ELSE Least(len, capacity - read_pos)

\* Mutant: the span stops one slot short of the end of the storage.
WriteSpan_OffByOne == IF Available = 0 THEN 0 ELSE Least(Available, capacity - write_pos - 1)

WriteSpan == IF Available = 0 THEN 0 ELSE Least(Available, capacity - write_pos)

\* The n bytes a copy from the start of the read span moves.
SpanBytes(n) == [i \in 1..n |-> data[read_pos + i - 1]]

\* Mutant: a drained buffer resets the read position only.
WriteStart_Kept(drained) == write_pos

WriteStart(drained) == IF drained THEN 0 ELSE write_pos

(***************************************************************************)
(* ringbuf_char_buffer_consume: drop n bytes at the front.                 *)
(***************************************************************************)
Consume(count) ==
  LET n == Least(count, len)
      drained == len = n
  IN  IF count = 0
      THEN UNCHANGED ringVars
      ELSE /\ len' = len - n
           /\ read_pos' = IF drained THEN 0 ELSE (read_pos + n) % capacity
           /\ write_pos' = WriteStart(drained)
           /\ UNCHANGED <<data, capacity>>

(***************************************************************************)
(* A copy into the write span: the first `arrived' of `chunk' bytes come   *)
(* from src, after position `from'; a copy that stops short leaves the     *)
(* rest of the chunk with bytes no writer supplied (copy_from_user zeroes  *)
(* them).                                                                  *)
(***************************************************************************)
CopyIn(src, from, chunk, arrived) ==
  data' = [i \in 0..capacity-1 |->
             IF i \in write_pos .. write_pos + arrived - 1
             THEN src[from + i - write_pos + 1]
             ELSE IF i \in write_pos + arrived .. write_pos + chunk - 1
                  THEN Junk
                  ELSE data[i]]

(***************************************************************************)
(* ringbuf_char_buffer_commit: count bytes of the write span are stored.   *)
(***************************************************************************)
Commit(count) ==
  LET n == Least(count, Available)
  IN  /\ len' = len + n
      /\ write_pos' = IF count = 0 THEN write_pos
                                   ELSE (write_pos + n) % capacity
      /\ UNCHANGED <<capacity, read_pos>>

Clear ==
  /\ len' = 0
  /\ read_pos' = 0
  /\ write_pos' = 0
  /\ UNCHANGED <<data, capacity>>

(***************************************************************************)
(* ringbuf_char_buffer_resize past its early returns: the stored bytes are *)
(* moved to the start of a new allocation of c bytes.                      *)
(***************************************************************************)
ResizeRefused(c) == ~CapacityValid(c) \/ c < len

\* Mutant: the bytes are copied by slot and not by age.
Reallocated_CopiesBySlot(c) == [i \in 0..c-1 |-> IF i < len THEN data[i] ELSE Junk]

Reallocated(c) ==
  [i \in 0..c-1 |-> IF i < len THEN data[(read_pos + i) % capacity] ELSE Junk]

Resize(c) ==
  /\ ~ResizeRefused(c)
  /\ data' = Reallocated(c)
  /\ capacity' = c
  /\ read_pos' = 0
  /\ write_pos' = IF len = c THEN 0 ELSE len
  /\ len' = len

-----------------------------------------------------------------------------

\* The bytes in the buffer, oldest first: what the representation means.
Contents == [i \in 1..len |-> data[(read_pos + i - 1) % capacity]]

\* Every field has its type and the storage has the size the buffer claims.
RingTypeOK ==
  /\ capacity \in MinCapacity..MaxCapacity
  /\ data \in [0..capacity-1 -> Slot]
  /\ len \in Nat
  /\ read_pos \in Nat
  /\ write_pos \in Nat

(***************************************************************************)
(* The representation invariant: no more is stored than fits, both         *)
(* positions index the storage (database-design.md: "positions within      *)
(* capacity"), the write position is where the stored bytes end, and an    *)
(* empty buffer starts over at slot zero (LLD.md: "When `len == 0`, both   *)
(* indexes reset to zero").                                                *)
(***************************************************************************)
RingShape ==
  /\ len <= capacity
  /\ read_pos < capacity
  /\ write_pos < capacity
  /\ write_pos = (read_pos + len) % capacity
  /\ len = 0 => read_pos = 0

(***************************************************************************)
(* Every stored byte is one a writer supplied: neither an uninitialised    *)
(* slot of kvmalloc nor the zeroed tail of a faulting copy is ever inside  *)
(* the stored range.                                                       *)
(***************************************************************************)
NoJunkStored == \A i \in 0..len-1 : data[(read_pos + i) % capacity] \in Byte

=============================================================================
