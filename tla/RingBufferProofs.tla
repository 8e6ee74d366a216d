-------------------------- MODULE RingBufferProofs --------------------------
(***************************************************************************)
(* Every operation of the circular buffer preserves its representation     *)
(* invariant, for every capacity, every byte alphabet and every fault.     *)
(* The callers' proofs cite these lemmas and never open the operations.    *)
(***************************************************************************)
EXTENDS RingBuffer, SequenceTheorems, TLAPS

\* The three parts that hold together between any two operations.
RingInv == RingTypeOK /\ RingShape /\ NoJunkStored

\* Position x of a storage of c slots, taken back by at most one turn.
Turn(x, c) == IF x < c THEN x ELSE x - c

\* A position less than two turns round the storage wraps at most once.
LEMMA WrapOnce ==
  ASSUME NEW c \in Nat \ {0}, NEW x \in Nat, x < 2 * c
  PROVE  x % c = Turn(x, c)
<1>1. CASE x < c
  BY <1>1, SMT DEF Turn
<1>2. CASE c <= x
  BY <1>2, SMT DEF Turn
<1> QED BY <1>1, <1>2

\* A fresh buffer is empty, whatever kvmalloc left in its storage.
LEMMA BufferInitInv ==
  ASSUME NEW c \in Nat, BufferInit(c)
  PROVE  RingInv
<1>1. c \in MinCapacity..MaxCapacity /\ c \in Nat \ {0}
  BY CapacityAssumption DEF BufferInit, CapacityValid
<1>2. 0 % c = 0
  BY <1>1, WrapOnce DEF Turn
<1> QED
  BY <1>1, <1>2 DEF BufferInit, RingInv, RingTypeOK, RingShape, NoJunkStored, Slot

\* Consuming any number of bytes, more than are stored included.
LEMMA ConsumeInv ==
  ASSUME RingInv, NEW n \in Nat, Consume(n)
  PROVE  RingInv'
<1> DEFINE m == Least(n, len)
<1>0. /\ capacity \in Nat \ {0} /\ len \in Nat /\ read_pos \in Nat /\ write_pos \in Nat
      /\ len <= capacity /\ read_pos < capacity /\ write_pos < capacity
  BY CapacityAssumption DEF RingInv, RingTypeOK, RingShape
<1>1. CASE n = 0
  BY <1>1 DEF Consume, ringVars, RingInv, RingTypeOK, RingShape, NoJunkStored
<1>2. CASE n # 0 /\ len = m
  <2>1. /\ len' = 0 /\ read_pos' = 0 /\ write_pos' = 0 /\ UNCHANGED <<data, capacity>>
    BY <1>0, <1>2 DEF Consume, WriteStart, Least
  <2>2. 0 % capacity = 0
    BY <1>0, WrapOnce DEF Turn
  <2> QED
    BY <1>0, <2>1, <2>2 DEF RingInv, RingTypeOK, RingShape, NoJunkStored
<1>3. CASE n # 0 /\ len # m
  <2>1. /\ m \in Nat /\ m < len
        /\ len' = len - m /\ read_pos' = (read_pos + m) % capacity
        /\ write_pos' = write_pos /\ UNCHANGED <<data, capacity>>
    BY <1>0, <1>3 DEF Consume, WriteStart, Least
  <2>2. read_pos' = Turn(read_pos + m, capacity)
    <3> HIDE DEF m
    <3>1. read_pos + m \in Nat /\ read_pos + m < 2 * capacity
      BY <1>0, <2>1
    <3> QED
      BY <1>0, <2>1, <3>1, WrapOnce
  <2>3. ASSUME NEW i \in Nat, i <= len - m
        PROVE  (read_pos' + i) % capacity = (read_pos + (m + i)) % capacity
    <3> HIDE DEF m
    <3>1. /\ read_pos + (m + i) \in Nat /\ read_pos + (m + i) < 2 * capacity
          /\ read_pos' + i \in Nat /\ read_pos' + i < 2 * capacity
      BY <1>0, <2>1, <2>2, <2>3 DEF Turn
    <3>2. (read_pos + (m + i)) % capacity =
            Turn(read_pos + (m + i), capacity)
      BY <1>0, <3>1, WrapOnce
    <3>3. (read_pos' + i) % capacity =
            Turn(read_pos' + i, capacity)
      BY <1>0, <3>1, WrapOnce
    <3> QED
      BY <1>0, <2>1, <2>2, <2>3, <3>2, <3>3 DEF Turn
  <2>4. RingTypeOK'
    <3>1. read_pos' \in Nat /\ len' \in Nat
      <4> HIDE DEF m
      <4> QED
        BY <1>0, <2>1, <2>2 DEF Turn
    <3> QED
      BY <2>1, <3>1 DEF RingInv, RingTypeOK
  <2>5. RingShape'
    <3>1. (read_pos' + len') % capacity = (read_pos + len) % capacity
      BY <1>0, <2>1, <2>3
    <3> QED
      BY <1>0, <2>1, <2>2, <3>1 DEF RingInv, RingShape, Turn
  <2>6. NoJunkStored'
    <3> SUFFICES ASSUME NEW i \in 0..len'-1
                 PROVE  data[(read_pos' + i) % capacity] \in Byte
      BY <2>1 DEF NoJunkStored
    <3> HIDE DEF m
    <3>1. m + i \in 0..len-1 /\ i \in Nat /\ i <= len - m
      BY <1>0, <2>1
    <3> QED
      BY <2>3, <3>1 DEF RingInv, NoJunkStored
  <2> QED
    BY <2>4, <2>5, <2>6 DEF RingInv
<1> QED
  BY <1>1, <1>2, <1>3

(***************************************************************************)
(* A copy into the write span of which only the bytes that arrived are     *)
(* committed: the overwritten slots were free, so no stored byte is lost   *)
(* and the tail of a copy that stopped short stays outside.                *)
(***************************************************************************)
LEMMA CopyCommitInv ==
  ASSUME RingInv,
         NEW src \in Seq(Byte), NEW from \in Nat, NEW chunk \in Nat, NEW n \in Nat,
         chunk <= WriteSpan, n <= chunk, from + n <= Len(src),
         CopyIn(src, from, chunk, n), Commit(n)
  PROVE  RingInv'
<1>0. /\ capacity \in Nat \ {0} /\ len \in Nat /\ read_pos \in Nat /\ write_pos \in Nat
      /\ len <= capacity /\ read_pos < capacity /\ write_pos < capacity
  BY CapacityAssumption DEF RingInv, RingTypeOK, RingShape
<1>1. Available = capacity - len
  BY <1>0 DEF Available
<1>2. chunk <= capacity - len /\ chunk <= capacity - write_pos
  BY <1>0, <1>1 DEF WriteSpan, Least
<1>3. write_pos = Turn(read_pos + len, capacity)
  <2>1. read_pos + len \in Nat /\ read_pos + len < 2 * capacity
    BY <1>0
  <2>2. write_pos = (read_pos + len) % capacity
    BY DEF RingInv, RingShape
  <2> QED
    BY <1>0, <2>1, <2>2, WrapOnce
<1>4. /\ len' = len + n /\ UNCHANGED <<capacity, read_pos>>
      /\ write_pos' = (write_pos + n) % capacity
  <2>1. Least(n, Available) = n
    BY <1>0, <1>1, <1>2 DEF Least
  <2>2. write_pos < 2 * capacity
    BY <1>0
  <2>3. write_pos % capacity = Turn(write_pos, capacity)
    BY <1>0, <2>2, WrapOnce
  <2> QED
    BY <1>0, <2>1, <2>3 DEF Commit, Turn
<1>5. write_pos' = Turn(write_pos + n, capacity)
  <2>1. write_pos + n \in Nat /\ write_pos + n < 2 * capacity
    BY <1>0, <1>2
  <2> QED
    BY <1>0, <1>4, <2>1, WrapOnce
<1>6. ASSUME NEW j \in 0..n-1
      PROVE  src[from + j + 1] \in Byte
  BY <1>6
<1>7. data' \in [0..capacity-1 -> Slot]
  <2>1. ASSUME NEW i \in 0..capacity-1, i \in write_pos .. write_pos + n - 1
        PROVE  src[from + i - write_pos + 1] \in Byte
    <3>1. i - write_pos \in 0..n-1 /\ from + i - write_pos + 1 = from + (i - write_pos) + 1
      BY <1>0, <2>1
    <3> QED
      BY <1>6, <3>1
  <2>2. data \in [0..capacity-1 -> Slot]
    BY DEF RingInv, RingTypeOK
  <2> QED
    BY <2>1, <2>2 DEF CopyIn, Slot
<1>8. RingTypeOK'
  BY <1>0, <1>2, <1>4, <1>5, <1>7 DEF RingInv, RingTypeOK, Turn
<1>9. RingShape'
  <2>1. (read_pos + len + n) % capacity =
          Turn(read_pos + len + n, capacity)
    <3>1. read_pos + len + n \in Nat /\ read_pos + len + n < 2 * capacity
      BY <1>0, <1>2
    <3> QED
      BY <1>0, <3>1, WrapOnce
  <2> QED
    BY <1>0, <1>2, <1>3, <1>4, <1>5, <2>1 DEF RingInv, RingShape, Turn
<1>10. NoJunkStored'
  <2> SUFFICES ASSUME NEW i \in 0..len'-1
               PROVE  data'[(read_pos + i) % capacity] \in Byte
    BY <1>4 DEF NoJunkStored
  <2>i. i \in 0..len+n-1
    BY <1>0, <1>4
  <2> DEFINE p == (read_pos + i) % capacity
  <2>0. read_pos + i \in Nat /\ read_pos + i < 2 * capacity
    BY <1>0, <1>2, <2>i
  <2>1. p = Turn(read_pos + i, capacity)
    BY <1>0, <2>0, WrapOnce
  <2>2. p \in 0..capacity-1
    BY <1>0, <1>2, <2>i, <2>1 DEF Turn
  <2>3. CASE i < len
    <3>1. p \notin write_pos .. write_pos + chunk - 1
      BY <1>0, <1>2, <1>3, <2>i, <2>1, <2>3 DEF Turn
    <3>2. data'[p] = data[p]
      <4> HIDE DEF p
      <4> QED
        BY <1>0, <1>2, <2>2, <3>1 DEF CopyIn
    <3>3. data[p] \in Byte
      <4>1. i \in 0..len-1
        BY <1>0, <2>i, <2>3
      <4> QED
        BY <4>1 DEF RingInv, NoJunkStored
    <3> QED
      BY <3>2, <3>3
  <2>4. CASE len <= i
    <3>1. p = write_pos + (i - len) /\ i - len \in 0..n-1
      BY <1>0, <1>2, <1>3, <2>i, <2>1, <2>4 DEF Turn
    <3>2. data'[p] = src[from + (i - len) + 1]
      <4>1. from + p - write_pos + 1 = from + (i - len) + 1
        BY <1>0, <2>2, <3>1
      <4>2. p \in write_pos .. write_pos + n - 1
        BY <1>0, <3>1
      <4> HIDE DEF p
      <4> QED
        BY <2>2, <4>1, <4>2 DEF CopyIn
    <3> QED
      BY <1>6, <3>1, <3>2
  <2> QED
    BY <1>0, <2>i, <2>3, <2>4
<1> QED
  BY <1>8, <1>9, <1>10 DEF RingInv

LEMMA ClearInv ==
  ASSUME RingInv, Clear
  PROVE  RingInv'
<1>1. capacity \in Nat \ {0} /\ 0 % capacity = 0
  BY CapacityAssumption, WrapOnce DEF RingInv, RingTypeOK, Turn
<1> QED
  BY <1>1 DEF Clear, RingInv, RingTypeOK, RingShape, NoJunkStored

\* A resize keeps what is stored and puts it at the start of the new storage.
LEMMA ResizeInv ==
  ASSUME RingInv, NEW c \in Nat, Resize(c)
  PROVE  RingInv'
<1>0. /\ capacity \in Nat \ {0} /\ len \in Nat /\ read_pos \in Nat
      /\ len <= capacity /\ read_pos < capacity
  BY CapacityAssumption DEF RingInv, RingTypeOK, RingShape
<1>1. /\ c \in MinCapacity..MaxCapacity /\ c \in Nat \ {0} /\ len <= c
      /\ capacity' = c /\ read_pos' = 0 /\ len' = len
      /\ write_pos' = IF len = c THEN 0 ELSE len
  BY <1>0, CapacityAssumption DEF Resize, ResizeRefused, CapacityValid
<1>2. data' = [i \in 0..c-1 |-> IF i < len THEN data[(read_pos + i) % capacity] ELSE Junk]
  BY DEF Resize, Reallocated
<1>3. ASSUME NEW i \in 0..len-1
      PROVE  data[(read_pos + i) % capacity] \in Byte
  BY DEF RingInv, NoJunkStored
<1>4. RingTypeOK'
  <2>1. ASSUME NEW i \in 0..c-1
        PROVE  (IF i < len THEN data[(read_pos + i) % capacity] ELSE Junk) \in Slot
    <3>1. i < len => i \in 0..len-1
      BY <1>0, <1>1
    <3> QED
      BY <1>3, <3>1 DEF Slot
  <2>2. data' \in [0..c-1 -> Slot]
    BY <1>2, <2>1
  <2> QED
    BY <1>0, <1>1, <2>2 DEF RingTypeOK
<1>5. RingShape'
  <2>1. len \in Nat /\ c \in Nat \ {0} /\ len < 2 * c
    BY <1>0, <1>1
  <2>2. len % c = Turn(len, c)
    BY <2>1, WrapOnce
  <2> QED
    BY <1>0, <1>1, <2>1, <2>2 DEF RingShape, Turn
<1>6. NoJunkStored'
  <2> SUFFICES ASSUME NEW i \in 0..len-1
               PROVE  data'[(0 + i) % c] \in Byte
    BY <1>1 DEF NoJunkStored
  <2>1. (0 + i) % c = i
    BY <1>0, <1>1, WrapOnce DEF Turn
  <2> QED
    BY <1>0, <1>1, <1>2, <1>3, <2>1
<1> QED
  BY <1>4, <1>5, <1>6 DEF RingInv

-----------------------------------------------------------------------------
(***************************************************************************)
(* What the operations do to the stored bytes, as a sequence.              *)
(***************************************************************************)

\* The front and the rest of a stream, and what they make together.
LEMMA FrontAndRest ==
  ASSUME NEW S, NEW s \in Seq(S), NEW n \in Nat, n <= Len(s)
  PROVE  /\ SubSeq(s, 1, n) \in Seq(S) /\ Len(SubSeq(s, 1, n)) = n
         /\ SubSeq(s, n + 1, Len(s)) \in Seq(S) /\ Len(SubSeq(s, n + 1, Len(s))) = Len(s) - n
         /\ SubSeq(s, 1, n) \o SubSeq(s, n + 1, Len(s)) = s
<1>1. Len(s) \in Nat
  BY LenProperties
<1>2. \A i \in 1..n : s[i] \in S
  BY <1>1, ElementOfSeq
<1>3. \A i \in n + 1..Len(s) : s[i] \in S
  BY <1>1, ElementOfSeq
<1>4. SubSeq(s, 1, n) \in Seq(S) /\ Len(SubSeq(s, 1, n)) = IF 1 <= n THEN n - 1 + 1 ELSE 0
  BY <1>2, SubSeqProperties
<1>5. /\ SubSeq(s, n + 1, Len(s)) \in Seq(S)
      /\ Len(SubSeq(s, n + 1, Len(s))) = IF n + 1 <= Len(s) THEN Len(s) - (n + 1) + 1 ELSE 0
  <2>1. n + 1 \in Int /\ Len(s) \in Int
    BY <1>1
  <2> QED
    BY <1>3, <2>1, SubSeqProperties
<1>6. SubSeq(s, 1, n) \o SubSeq(s, n + 1, Len(s)) = SubSeq(s, 1, Len(s))
  <2>1. 1 \in 1..Len(s) + 1 /\ n \in 1-1..Len(s) /\ Len(s) \in n..Len(s)
    BY <1>1
  <2> QED
    BY <2>1, ConcatAdjacentSubSeq
<1>7. SubSeq(s, 1, Len(s)) = s
  BY SubSeqFull
<1>8. Len(SubSeq(s, 1, n)) = n
  BY <1>4
<1>9. Len(SubSeq(s, n + 1, Len(s))) = Len(s) - n
  BY <1>1, <1>5
<1> QED
  BY <1>4, <1>5, <1>6, <1>7, <1>8, <1>9, Zenon

\* A front that is lengthened.
LEMMA LongerFront ==
  ASSUME NEW S, NEW s \in Seq(S), NEW m \in Nat, NEW n \in Nat, m + n <= Len(s)
  PROVE  /\ SubSeq(s, m + 1, m + n) \in Seq(S) /\ Len(SubSeq(s, m + 1, m + n)) = n
         /\ SubSeq(s, 1, m) \o SubSeq(s, m + 1, m + n) = SubSeq(s, 1, m + n)
<1>1. Len(s) \in Nat
  BY LenProperties
<1>2. \A i \in m + 1..m + n : s[i] \in S
  BY <1>1, ElementOfSeq
<1>3. /\ SubSeq(s, m + 1, m + n) \in Seq(S)
      /\ Len(SubSeq(s, m + 1, m + n)) = IF m + 1 <= m + n THEN (m + n) - (m + 1) + 1 ELSE 0
  <2>1. m + 1 \in Int /\ m + n \in Int
    OBVIOUS
  <2> QED
    BY <1>2, <2>1, SubSeqProperties
<1>4. 1 \in 1..Len(s) + 1 /\ m \in 1-1..Len(s) /\ m + n \in m..Len(s)
  BY <1>1
<1>5. SubSeq(s, 1, m) \o SubSeq(s, m + 1, m + n) = SubSeq(s, 1, m + n)
  BY <1>4, ConcatAdjacentSubSeq
<1> QED
  BY <1>3, <1>5

\* What is appended to a stream leaves its front alone.
LEMMA FrontOfConcat ==
  ASSUME NEW S, NEW s \in Seq(S), NEW t \in Seq(S), NEW n \in Nat, n <= Len(s)
  PROVE  SubSeq(s \o t, 1, n) = SubSeq(s, 1, n)
<1>1. Len(s) \in Nat
  BY LenProperties
<1>2. CASE n = 0
  BY <1>2, SubSeqEmpty
<1>3. CASE n # 0
  <2>1. 1 \in 1..Len(s) /\ n \in 1..Len(s)
    BY <1>1, <1>3
  <2> QED
    BY <2>1, SubSeqOfConcat1
<1> QED
  BY <1>2, <1>3

\* The two parts of a stream that was put together.
LEMMA PartsOfConcat ==
  ASSUME NEW S, NEW s \in Seq(S), NEW t \in Seq(S)
  PROVE  /\ SubSeq(s \o t, 1, Len(s)) = s
         /\ SubSeq(s \o t, Len(s) + 1, Len(s \o t)) = t
         /\ s \o t \in Seq(S) /\ Len(s \o t) = Len(s) + Len(t)
<1>1. Len(s) \in Nat /\ Len(t) \in Nat
  BY LenProperties
<1>2. s \o t \in Seq(S) /\ Len(s \o t) = Len(s) + Len(t)
  BY ConcatProperties
<1>3. SubSeq(s \o t, 1, Len(s)) = s
  BY <1>1, FrontOfConcat, SubSeqFull
<1>4. CASE Len(t) = 0
  <2>1. t = << >> /\ Len(s) + 1 \in Int /\ Len(s \o t) \in Int /\ Len(s \o t) < Len(s) + 1
    BY <1>1, <1>2, <1>4, EmptySeq
  <2> QED
    BY <1>2, <1>3, <2>1, SubSeqEmpty
<1>5. CASE Len(t) # 0
  <2>1. /\ Len(s) + 1 \in Len(s) + 1..Len(s) + Len(t)
        /\ Len(s) + Len(t) \in Len(s) + 1..Len(s) + Len(t)
        /\ Len(s) + 1 - Len(s) = 1 /\ Len(s) + Len(t) - Len(s) = Len(t)
    BY <1>1, <1>5
  <2>2. SubSeq(s \o t, Len(s) + 1, Len(s) + Len(t))
          = SubSeq(t, Len(s) + 1 - Len(s), Len(s) + Len(t) - Len(s))
    BY <2>1, SubSeqOfConcat2
  <2>3. SubSeq(s \o t, Len(s) + 1, Len(s \o t)) = SubSeq(t, 1, Len(t))
    BY <1>2, <2>1, <2>2
  <2> QED
    BY <1>2, <1>3, <2>3, SubSeqFull
<1> QED
  BY <1>4, <1>5

\* The fields as numbers.
LEMMA RingNumbers ==
  ASSUME RingInv
  PROVE  /\ capacity \in Nat \ {0} /\ len \in Nat /\ read_pos \in Nat /\ write_pos \in Nat
         /\ len <= capacity /\ read_pos < capacity /\ write_pos < capacity
         /\ capacity \in MinCapacity..MaxCapacity
         /\ Available = capacity - len
BY CapacityAssumption DEF RingInv, RingTypeOK, RingShape, Available

\* The contents are len bytes that writers supplied.
LEMMA ContentsType ==
  ASSUME RingInv
  PROVE  /\ Contents \in Seq(Byte) /\ Len(Contents) = len
         /\ \A i \in 1..len : Contents[i] = data[(read_pos + i - 1) % capacity]
<1>1. ASSUME NEW i \in 1..len
      PROVE  data[(read_pos + i - 1) % capacity] \in Byte
  <2>1. i - 1 \in 0..len-1 /\ read_pos + i - 1 = read_pos + (i - 1)
    BY RingNumbers
  <2> QED
    BY <2>1 DEF RingInv, NoJunkStored
<1> QED
  BY <1>1, RingNumbers DEF Contents

\* A span that does not wrap is the front of the contents.
LEMMA SpanIsFront ==
  ASSUME RingInv, NEW n \in Nat, n <= ReadSpan
  PROVE  SpanBytes(n) = SubSeq(Contents, 1, n) /\ SpanBytes(n) \in Seq(Byte)
         /\ Len(SpanBytes(n)) = n /\ n <= len
<1>1. n <= len /\ n <= capacity - read_pos
  BY RingNumbers DEF ReadSpan, Least
<1>2. \A i \in 1..n : (read_pos + i - 1) % capacity = read_pos + i - 1
  <2> SUFFICES ASSUME NEW i \in 1..n
               PROVE  (read_pos + i - 1) % capacity = read_pos + i - 1
    OBVIOUS
  <2>1. read_pos + i - 1 \in Nat /\ read_pos + i - 1 < capacity
    BY <1>1, RingNumbers
  <2> QED
    BY <2>1, RingNumbers, WrapOnce DEF Turn
<1>3. /\ SubSeq(Contents, 1, n) \in Seq(Byte) /\ Len(SubSeq(Contents, 1, n)) = n
      /\ \A i \in 1..n : SubSeq(Contents, 1, n)[i] = Contents[i]
  <2>1. \A i \in 1..n : Contents[i] \in Byte
    BY <1>1, ContentsType, RingNumbers, ElementOfSeq
  <2> QED
    BY <2>1, SubSeqProperties
<1>4. /\ SpanBytes(n) \in Seq(Byte) /\ Len(SpanBytes(n)) = n
      /\ \A i \in 1..n : SpanBytes(n)[i] = Contents[i]
  <2>1. \A i \in 1..n : SpanBytes(n)[i] = Contents[i] /\ Contents[i] \in Byte
    <3> SUFFICES ASSUME NEW i \in 1..n
                 PROVE  SpanBytes(n)[i] = Contents[i] /\ Contents[i] \in Byte
      OBVIOUS
    <3>1. i \in 1..len
      BY <1>1, RingNumbers
    <3>2. SpanBytes(n)[i] = Contents[i]
      BY <1>2, <3>1, ContentsType DEF SpanBytes
    <3> QED
      BY <3>1, <3>2, ContentsType, ElementOfSeq
  <2> QED
    BY <2>1 DEF SpanBytes
<1>5. SpanBytes(n) = SubSeq(Contents, 1, n)
  BY <1>3, <1>4, SeqEqual
<1> QED
  BY <1>1, <1>4, <1>5

\* Positions reached by going on from a position that was reduced already.
LEMMA WrapAgain ==
  ASSUME NEW c \in Nat \ {0}, NEW x \in Nat, NEW m \in Nat, NEW i \in Nat,
         x < c, m + i <= c
  PROVE  (((x + m) % c) + i) % c = (x + (m + i)) % c
<1>1. (x + m \in Nat /\ x + m < 2 * c) \/ m = c
  OBVIOUS
<1>2. CASE x + m < 2 * c
  <2>1. (x + m) % c = Turn(x + m, c)
    BY <1>2, WrapOnce
  <2>2. /\ Turn(x + m, c) + i \in Nat /\ Turn(x + m, c) + i < 2 * c
        /\ x + (m + i) \in Nat /\ x + (m + i) < 2 * c
    BY <1>2 DEF Turn
  <2>3. (x + (m + i)) % c = Turn(x + (m + i), c)
    BY <2>2, WrapOnce
  <2>4. (Turn(x + m, c) + i) % c = Turn(Turn(x + m, c) + i, c)
    BY <2>2, WrapOnce
  <2> QED
    BY <1>2, <2>1, <2>3, <2>4 DEF Turn
<1> QED
  BY <1>1, <1>2

\* What is consumed is the front of the stream.
LEMMA ConsumeContents ==
  ASSUME RingInv, NEW n \in Nat, n <= len, Consume(n)
  PROVE  /\ len' = len - n /\ capacity' = capacity
         /\ Contents' = SubSeq(Contents, n + 1, len)
<1>1. RingInv'
  BY ConsumeInv
<1>2. len' = len - n /\ capacity' = capacity /\ data' = data
  BY RingNumbers DEF Consume, Least, ringVars
<1>3. ASSUME NEW i \in 1..len-n
      PROVE  Contents'[i] = Contents[n + i] /\ Contents[n + i] \in Byte
  <2>1. Contents'[i] = data[(read_pos' + i - 1) % capacity]
    BY <1>1, <1>2, ContentsType DEF RingInv, RingTypeOK, RingShape, NoJunkStored, Contents
  <2>2. n + i \in 1..len /\ Contents[n + i] = data[(read_pos + (n + i) - 1) % capacity]
    BY ContentsType, RingNumbers
  <2>3. read_pos' = (read_pos + n) % capacity
    <3>1. n = 0 => read_pos' = read_pos /\ read_pos % capacity = read_pos
      BY RingNumbers, WrapOnce DEF Consume, ringVars, Turn
    <3>2. n # 0 => read_pos' = (read_pos + n) % capacity
      BY <1>3, RingNumbers DEF Consume, Least
    <3> QED
      BY <3>1, <3>2, RingNumbers
  <2>4. PICK j \in Nat : j = i - 1 /\ n + j <= capacity
    BY <1>3, RingNumbers
  <2>5. (((read_pos + n) % capacity) + j) % capacity = (read_pos + (n + j)) % capacity
    <3>1. /\ capacity \in Nat \ {0} /\ read_pos \in Nat /\ read_pos < capacity
          /\ j \in Nat /\ n + j <= capacity
      BY <2>4, RingNumbers
    <3> QED
      BY <3>1, WrapAgain, ZenonT(30)
  <2>6. read_pos' \in Nat
    BY <1>1 DEF RingInv, RingTypeOK
  <2>7. read_pos' + i - 1 = read_pos' + j /\ read_pos + (n + i) - 1 = read_pos + (n + j)
    BY <2>4, <2>6, RingNumbers
  <2>8. Contents[n + i] \in Byte
    BY <2>2, ContentsType, ElementOfSeq
  <2> QED
    BY <2>1, <2>2, <2>3, <2>5, <2>7, <2>8
<1>4. Contents' \in Seq(Byte) /\ Len(Contents') = len - n
  <2>1. len - n \in Nat
    BY RingNumbers
  <2>2. \A i \in 1..len-n : data'[(read_pos' + i - 1) % capacity'] \in Byte
    <3>1. \A i \in 1..len-n : Contents'[i] = data'[(read_pos' + i - 1) % capacity']
      BY <1>2 DEF Contents
    <3> QED
      BY <1>3, <3>1
  <2> QED
    BY <1>2, <2>1, <2>2 DEF Contents
<1>5. /\ SubSeq(Contents, n + 1, len) \in Seq(Byte)
      /\ Len(SubSeq(Contents, n + 1, len)) = len - n
      /\ \A i \in 1..len-n : SubSeq(Contents, n + 1, len)[i] = Contents[n + i]
  <2>1. \A i \in (n + 1)..len : Contents[i] \in Byte
    BY ContentsType, RingNumbers, ElementOfSeq
  <2>2. n + 1 \in Int /\ len \in Int /\ len - (n + 1) + 1 = len - n /\ n + 1 <= len + 1
    BY RingNumbers
  <2>3. /\ SubSeq(Contents, n + 1, len) \in Seq(Byte)
        /\ Len(SubSeq(Contents, n + 1, len)) = IF n + 1 <= len THEN len - (n + 1) + 1 ELSE 0
        /\ \A i \in 1..(len - (n + 1) + 1) : SubSeq(Contents, n + 1, len)[i] = Contents[n + 1 + i - 1]
    BY <2>1, <2>2, SubSeqProperties
  <2> QED
    BY <2>2, <2>3, RingNumbers
<1> QED
  BY <1>2, <1>3, <1>4, <1>5, SeqEqual

\* The bytes that are committed follow the stream.
LEMMA CopyCommitContents ==
  ASSUME RingInv,
         NEW src \in Seq(Byte), NEW from \in Nat, NEW chunk \in Nat, NEW n \in Nat,
         chunk <= WriteSpan, n <= chunk, from + n <= Len(src),
         CopyIn(src, from, chunk, n), Commit(n)
  PROVE  /\ len' = len + n /\ capacity' = capacity /\ n <= capacity - len
         /\ Contents' = Contents \o SubSeq(src, from + 1, from + n)
<1>1. RingInv'
  BY CopyCommitInv
<1>2. chunk <= capacity - len /\ chunk <= capacity - write_pos
  BY RingNumbers DEF WriteSpan, Least
<1>3. len' = len + n /\ capacity' = capacity /\ read_pos' = read_pos
  BY <1>2, RingNumbers DEF Commit, Least
<1>4. write_pos = Turn(read_pos + len, capacity)
  <2>1. read_pos + len \in Nat /\ read_pos + len < 2 * capacity
    BY RingNumbers
  <2>2. write_pos = (read_pos + len) % capacity
    BY DEF RingInv, RingShape
  <2> QED
    BY <2>1, <2>2, RingNumbers, WrapOnce
<1>5. /\ SubSeq(src, from + 1, from + n) \in Seq(Byte)
      /\ Len(SubSeq(src, from + 1, from + n)) = n
      /\ \A i \in 1..n : SubSeq(src, from + 1, from + n)[i] = src[from + i]
  <2>1. \A i \in (from + 1)..(from + n) : src[i] \in Byte
    BY ElementOfSeq
  <2>2. /\ SubSeq(src, from + 1, from + n) \in Seq(Byte)
        /\ Len(SubSeq(src, from + 1, from + n)) =
             IF from + 1 <= from + n THEN (from + n) - (from + 1) + 1 ELSE 0
        /\ \A i \in 1..((from + n) - (from + 1) + 1) :
             SubSeq(src, from + 1, from + n)[i] = src[(from + 1) + i - 1]
    <3>1. from + 1 \in Int /\ from + n \in Int
      OBVIOUS
    <3> QED
      BY <2>1, <3>1, SubSeqProperties
  <2> QED
    BY <2>2
<1>6. ASSUME NEW i \in 1..len + n
      PROVE  Contents'[i] = IF i <= len THEN Contents[i] ELSE src[from + (i - len)]
  <2> DEFINE p == (read_pos + i - 1) % capacity
  <2>1. Contents'[i] = data'[p]
    BY <1>3, <1>6 DEF Contents
  <2>2. i \in Nat \ {0} /\ i <= len + n /\ n <= capacity - len /\ i <= len + chunk
    <3>1. i \in Nat \ {0} /\ i <= len + n
      BY <1>6, RingNumbers
    <3> QED
      BY <1>2, <3>1, RingNumbers
  <2>3. p = Turn(read_pos + i - 1, capacity)
    <3>1. read_pos + i - 1 \in Nat /\ read_pos + i - 1 < 2 * capacity
      BY <2>2, RingNumbers, SMTT(30)
    <3> QED
      BY <3>1, RingNumbers, WrapOnce
  <2> HIDE DEF p
  <2>4. /\ p \in Int /\ 0 <= p /\ p < capacity
        /\ write_pos \in Nat /\ capacity \in Nat /\ len \in Nat
        /\ i <= len => p < write_pos \/ write_pos + chunk <= p
        /\ len < i => p = write_pos + (i - len) - 1
    <3>1. /\ capacity \in Nat \ {0} /\ read_pos \in Nat /\ len \in Nat
          /\ read_pos < capacity /\ len <= capacity
      BY RingNumbers
    <3> QED
      BY <1>2, <1>4, <2>2, <2>3, <3>1, RingNumbers DEF Turn
  <2>5. CASE i <= len
    <3>1. data'[p] = data[p]
      <4>1. /\ p \in 0..capacity-1
            /\ p \notin write_pos .. write_pos + n - 1
            /\ p \notin write_pos + n .. write_pos + chunk - 1
        BY <2>4, <2>5
      <4> QED
        BY <4>1 DEF CopyIn
    <3>2. i \in 1..len /\ Contents[i] = data[p]
      BY <2>2, <2>5, RingNumbers DEF Contents, p
    <3> QED
      BY <2>1, <2>5, <3>1, <3>2
  <2>6. CASE len < i
    <3>1. p \in 0..capacity-1 /\ p \in write_pos .. write_pos + n - 1 /\ from + p - write_pos + 1 = from + (i - len)
      BY <2>2, <2>4, <2>6
    <3>2. data'[p] = src[from + (i - len)]
      BY <3>1 DEF CopyIn
    <3> QED
      BY <2>1, <2>2, <2>6, <3>2, RingNumbers
  <2> QED
    BY <2>2, <2>5, <2>6, RingNumbers
<1>7. /\ Contents \o SubSeq(src, from + 1, from + n) \in Seq(Byte)
      /\ Len(Contents \o SubSeq(src, from + 1, from + n)) = len + n
      /\ \A i \in 1..len + n :
           (Contents \o SubSeq(src, from + 1, from + n))[i] =
             IF i <= len THEN Contents[i] ELSE SubSeq(src, from + 1, from + n)[i - len]
  <2>1. Contents \in Seq(Byte) /\ Len(Contents) = len
    BY ContentsType
  <2> DEFINE more == SubSeq(src, from + 1, from + n)
  <2>2. more \in Seq(Byte) /\ Len(more) = n
    BY <1>5
  <2> HIDE DEF more
  <2>3. /\ Contents \o more \in Seq(Byte) /\ Len(Contents \o more) = Len(Contents) + Len(more)
        /\ \A i \in 1..Len(Contents) + Len(more) :
             (Contents \o more)[i] = IF i <= Len(Contents) THEN Contents[i] ELSE more[i - Len(Contents)]
    BY <2>1, <2>2, ConcatProperties, Zenon
  <2> QED
    BY <2>1, <2>2, <2>3 DEF more
<1>8. Contents' \in Seq(Byte) /\ Len(Contents') = len + n
  <2>1. \A i \in 1..len + n : Contents'[i] \in Byte
    <3> SUFFICES ASSUME NEW i \in 1..len + n
                 PROVE  Contents'[i] \in Byte
      OBVIOUS
    <3>1. CASE i <= len
      <4>1. i \in 1..len
        BY <3>1, RingNumbers
      <4> QED
        BY <1>6, <3>1, <4>1, ContentsType, ElementOfSeq
    <3>2. CASE len < i
      <4>1. from + (i - len) \in 1..Len(src)
        BY <3>2, RingNumbers, SMTT(30)
      <4>2. Contents'[i] = src[from + (i - len)]
        BY <1>6, <3>2, RingNumbers
      <4> QED
        BY <4>1, <4>2, ElementOfSeq
    <3> QED
      BY <3>1, <3>2, RingNumbers
  <2>2. len + n \in Nat
    BY RingNumbers
  <2> QED
    BY <1>3, <2>1, <2>2 DEF Contents
<1>9. \A i \in 1..len + n :
        Contents'[i] = (Contents \o SubSeq(src, from + 1, from + n))[i]
  <2> SUFFICES ASSUME NEW i \in 1..len + n
               PROVE  Contents'[i] = (Contents \o SubSeq(src, from + 1, from + n))[i]
    OBVIOUS
  <2>1. CASE i <= len
    BY <1>6, <1>7, <2>1
  <2>2. CASE ~(i <= len)
    <3>1. i - len \in 1..n
      BY <2>2, RingNumbers
    <3>2. SubSeq(src, from + 1, from + n)[i - len] = src[from + (i - len)]
      BY <1>5, <3>1
    <3>3. Contents'[i] = src[from + (i - len)]
      BY <1>6, <2>2
    <3>4. (Contents \o SubSeq(src, from + 1, from + n))[i]
            = SubSeq(src, from + 1, from + n)[i - len]
      BY <1>7, <2>2
    <3> QED
      BY <3>2, <3>3, <3>4, Zenon
  <2> QED
    BY <2>1, <2>2
<1>10. Contents' = Contents \o SubSeq(src, from + 1, from + n)
  BY <1>7, <1>8, <1>9, SeqEqual
<1> QED
  BY <1>2, <1>3, <1>10, RingNumbers

LEMMA Regroup == \A x, y, z \in Seq(Byte) : (x \o y) \o z = x \o (y \o z)
BY ConcatAssociative

\* The bytes a caller has taken and those that are left still make the stream.
LEMMA ReadMoves ==
  ASSUME RingInv, NEW taken \in Seq(Byte), NEW n \in Nat, n <= ReadSpan, Consume(n)
  PROVE  /\ taken \o SpanBytes(n) \in Seq(Byte) /\ Len(taken \o SpanBytes(n)) = Len(taken) + n
         /\ (taken \o SpanBytes(n)) \o Contents' = taken \o Contents
         /\ n <= len /\ len' = len - n /\ capacity' = capacity
<1> DEFINE front == SubSeq(Contents, 1, n)
           rest == SubSeq(Contents, n + 1, len)
<1>1. Contents \in Seq(Byte) /\ Len(Contents) = len
  BY ContentsType
<1>2. SpanBytes(n) = front /\ n <= len
  BY SpanIsFront
<1>3. len' = len - n /\ capacity' = capacity /\ Contents' = rest
  BY <1>2, ConsumeContents
<1>4. front \in Seq(Byte) /\ Len(front) = n /\ rest \in Seq(Byte) /\ front \o rest = Contents
  BY <1>1, <1>2, FrontAndRest
<1> HIDE DEF front, rest
<1>t. taken \in Seq(Byte) /\ front \in Seq(Byte) /\ rest \in Seq(Byte)
  BY <1>4
<1>5. taken \o front \in Seq(Byte) /\ Len(taken \o front) = Len(taken) + n
  <2>1. taken \o front \in Seq(Byte) /\ Len(taken \o front) = Len(taken) + Len(front)
    BY <1>t, PartsOfConcat
  <2> QED
    BY <1>4, <2>1
<1>6. (taken \o front) \o rest = taken \o (front \o rest)
  BY <1>t, Regroup, Zenon
<1> QED
  BY <1>2, <1>3, <1>4, <1>5, <1>6

\* What a caller has stored stays the end of the stream as it stores more.
LEMMA WriteMoves ==
  ASSUME RingInv,
         NEW src \in Seq(Byte), NEW copied \in Nat, NEW chunk \in Nat, NEW n \in Nat,
         chunk <= WriteSpan, n <= chunk, copied + n <= Len(src),
         copied <= len, Contents = SubSeq(Contents, 1, len - copied) \o SubSeq(src, 1, copied),
         CopyIn(src, copied, chunk, n), Commit(n)
  PROVE  /\ len' = len + n /\ capacity' = capacity /\ n <= capacity - len
         /\ copied + n <= len' /\ len' - (copied + n) = len - copied
         /\ SubSeq(Contents', 1, len' - (copied + n)) = SubSeq(Contents, 1, len - copied)
         /\ Contents' = SubSeq(Contents', 1, len' - (copied + n)) \o SubSeq(src, 1, copied + n)
<1> DEFINE kept == len - copied
           front == SubSeq(Contents, 1, kept)
           stored == SubSeq(src, 1, copied)
           more == SubSeq(src, copied + 1, copied + n)
<1>1. Contents \in Seq(Byte) /\ Len(Contents) = len /\ len \in Nat
  BY ContentsType, RingNumbers
<1>2. len' = len + n /\ capacity' = capacity /\ n <= capacity - len /\ Contents' = Contents \o more
  BY CopyCommitContents
<1>3. kept \in Nat /\ kept <= Len(Contents) /\ copied + n <= len' /\ len' - (copied + n) = kept
  BY <1>1, <1>2
<1>4. Contents = front \o stored
  OBVIOUS
<1>5. more \in Seq(Byte) /\ stored \o more = SubSeq(src, 1, copied + n)
  BY LongerFront
<1>6. stored \in Seq(Byte)
  <2>1. copied <= Len(src)
    BY LenProperties
  <2> QED
    BY <2>1, FrontAndRest
<1> HIDE DEF kept
<1>7. front \in Seq(Byte)
  BY <1>1, <1>3, FrontAndRest
<1>8. SubSeq(Contents \o more, 1, kept) = front
  BY <1>1, <1>3, <1>5, FrontOfConcat
<1> HIDE DEF front, stored, more
<1>t. front \in Seq(Byte) /\ stored \in Seq(Byte) /\ more \in Seq(Byte)
  BY <1>5, <1>6, <1>7
<1>9. (front \o stored) \o more = front \o (stored \o more)
  BY <1>t, Regroup, Zenon
<1>10. SubSeq(Contents', 1, kept) = front /\ Contents' = front \o SubSeq(src, 1, copied + n)
  BY <1>2, <1>4, <1>5, <1>8, <1>9
<1> QED
  BY <1>2, <1>3, <1>10 DEF kept, front

\* Nothing stored is the empty stream.
LEMMA EmptyContents == len = 0 => Contents = << >>
BY DEF Contents

LEMMA ClearContents ==
  ASSUME Clear
  PROVE  Contents' = << >> /\ len' = 0 /\ capacity' = capacity
BY DEF Clear, Contents

\* A resize does not change the stream.
LEMMA ResizeContents ==
  ASSUME RingInv, NEW c \in Nat, Resize(c)
  PROVE  /\ len' = len /\ capacity' = c /\ c \in MinCapacity..MaxCapacity /\ len <= c
         /\ Contents' = Contents
<1>1. /\ c \in MinCapacity..MaxCapacity /\ c \in Nat \ {0} /\ len <= c
      /\ capacity' = c /\ read_pos' = 0 /\ len' = len
  BY RingNumbers, CapacityAssumption DEF Resize, ResizeRefused, CapacityValid
<1>2. ASSUME NEW i \in 1..len
      PROVE  data'[(read_pos' + i - 1) % capacity'] = data[(read_pos + i - 1) % capacity]
  <2>1. PICK j \in Nat : j = i - 1 /\ j < len /\ j < c
    BY <1>1, RingNumbers
  <2>2. j % c = j
    BY <1>1, <2>1, WrapOnce DEF Turn
  <2>3. 0 + i - 1 = j /\ read_pos + i - 1 = read_pos + j
    BY <2>1, RingNumbers
  <2>4. data'[j] = data[(read_pos + j) % capacity]
    BY <1>1, <2>1 DEF Resize, Reallocated
  <2> QED
    BY <1>1, <2>2, <2>3, <2>4
<1>3. Contents' = Contents
  BY <1>1, <1>2 DEF Contents
<1> QED
  BY <1>1, <1>3

=============================================================================
