-------------------------- MODULE BufferCallsProofs --------------------------
(***************************************************************************)
(* The buffer's calls keep its representation invariant, for every         *)
(* capacity range and every transfer length.  The operations are dealt     *)
(* with by the lemmas of RingBufferProofs; what is left is that the loops  *)
(* ask for no more than the caller's memory holds.                         *)
(***************************************************************************)
EXTENDS BufferCalls, RingBufferProofs

\* The loops stop at the count, and the count of a write is its memory.
CallInv ==
  /\ op # "none" => copied <= count
  /\ op = "write" => count = Len(src)

IndInv == TypeOK /\ RingShape /\ NoJunkStored /\ CallInv

LEMMA RingOfIndInv == IndInv => RingInv
BY DEF IndInv, TypeOK, RingInv

LEMMA RingUnchanged == RingInv /\ UNCHANGED ringVars => RingInv'
BY DEF RingInv, RingTypeOK, RingShape, NoJunkStored, ringVars

\* What one iteration of the read loop asks for.
LEMMA ReadChunkBounds ==
  ASSUME IndInv, op = "read"
  PROVE  LET n == Least(count - copied, ReadSpan)
         IN  /\ n \in Nat
             /\ copied + n <= count
             /\ SpanBytes(n) \in Seq(Slot)
<1> DEFINE n == Least(count - copied, ReadSpan)
<1>1. /\ capacity \in Nat /\ len \in Nat /\ read_pos \in Nat /\ count \in Nat /\ copied \in Nat
      /\ read_pos < capacity /\ copied <= count /\ data \in [0..capacity-1 -> Slot]
  BY CapacityAssumption DEF IndInv, TypeOK, RingTypeOK, RingShape, CallInv
<1>2. n \in Nat /\ copied + n <= count /\ n <= capacity - read_pos
  BY <1>1 DEF Least, ReadSpan
<1>3. SpanBytes(n) \in Seq(Slot)
  <2> HIDE DEF n
  <2>1. ASSUME NEW i \in 1..n
        PROVE  data[read_pos + i - 1] \in Slot
    <3>1. read_pos + i - 1 \in 0..capacity-1
      BY <1>1, <1>2
    <3> QED
      BY <1>1, <3>1
  <2> QED
    BY <1>2, <2>1 DEF SpanBytes
<1> QED
  BY <1>2, <1>3

\* What one iteration of the write loop asks for.
LEMMA WriteChunkBounds ==
  ASSUME IndInv, op = "write"
  PROVE  LET n == Least(count - copied, WriteSpan)
         IN  n \in Nat /\ copied + n <= Len(src) /\ n <= WriteSpan
<1>1. /\ capacity \in Nat /\ len \in Nat /\ write_pos \in Nat /\ count \in Nat /\ copied \in Nat
      /\ write_pos < capacity /\ len <= capacity /\ copied <= count /\ count = Len(src)
  BY CapacityAssumption DEF IndInv, TypeOK, RingTypeOK, RingShape, CallInv
<1>2. WriteSpan \in Nat
  BY <1>1 DEF WriteSpan, Available, Least
<1> QED
  BY <1>1, <1>2 DEF Least

\* The first state.
LEMMA InitIndInv == Init => IndInv
<1> SUFFICES ASSUME Init PROVE IndInv
  OBVIOUS
<1>1. PICK c \in MinCapacity..MaxCapacity : BufferInit(c)
  BY DEF Init
<1>2. c \in Nat
  BY <1>1, CapacityAssumption
<1>3. RingInv
  BY <1>1, <1>2, BufferInitInv
<1> QED
  BY <1>3 DEF Init, IndInv, TypeOK, CallInv, RingInv

\* Every step of a call, and every call that starts.
LEMMA NextIndInv == IndInv /\ [Next]_vars => IndInv'
<1> SUFFICES ASSUME IndInv, [Next]_vars PROVE IndInv'
  OBVIOUS
<1>0. RingInv
  BY RingOfIndInv
<1>t. /\ op \in {"none", "read", "write"} /\ count \in Nat /\ copied \in Nat
      /\ src \in Seq(Byte) /\ dst \in Seq(Slot) /\ ret \in Int
      /\ op # "none" => copied <= count
      /\ op = "write" => count = Len(src)
  BY DEF IndInv, TypeOK, CallInv
<1>1. CASE \E n \in 0..MaxTransfer : CallRead(n)
  <2>1. RingInv'
    BY <1>0, <1>1, RingUnchanged DEF CallRead, ringVars
  <2> QED
    BY <1>1, <1>t, <2>1, TransferAssumption DEF CallRead, IndInv, TypeOK, CallInv, RingInv
<1>2. CASE \E payload \in Payloads : CallWrite(payload)
  <2>1. PICK payload \in Payloads : CallWrite(payload)
    BY <1>2
  <2>2. payload \in Seq(Byte) /\ Len(payload) \in Nat
    BY TransferAssumption DEF Payloads
  <2>3. RingInv'
    BY <1>0, <2>1, RingUnchanged DEF CallWrite, ringVars
  <2> QED
    BY <1>t, <2>1, <2>2, <2>3 DEF CallWrite, IndInv, TypeOK, CallInv, RingInv
<1>3. CASE ReadChunk
  <2> DEFINE n == Least(count - copied, ReadSpan)
  <2>1. n \in Nat /\ copied + n <= count /\ SpanBytes(n) \in Seq(Slot)
    BY <1>3, ReadChunkBounds DEF ReadChunk
  <2>2. /\ Consume(n) /\ copied' = copied + n /\ dst' = dst \o SpanBytes(n) /\ op = "read"
        /\ UNCHANGED <<op, count, src, ret>>
    BY <1>3 DEF ReadChunk
  <2> HIDE DEF n
  <2>3. RingInv'
    BY <1>0, <2>1, <2>2, ConsumeInv
  <2>4. dst' \in Seq(Slot)
    BY <1>t, <2>1, <2>2
  <2> QED
    BY <1>t, <2>1, <2>2, <2>3, <2>4 DEF IndInv, TypeOK, CallInv, RingInv
<1>4. CASE WriteChunk
  <2> DEFINE n == Least(count - copied, WriteSpan)
  <2>1. n \in Nat /\ copied + n <= Len(src) /\ n <= WriteSpan /\ n <= n
    BY <1>4, WriteChunkBounds DEF WriteChunk
  <2>2. /\ CopyIn(src, copied, n, n) /\ Commit(n) /\ copied' = copied + n /\ op = "write"
        /\ UNCHANGED <<op, count, src, dst, ret>>
    BY <1>4 DEF WriteChunk
  <2> HIDE DEF n
  <2>3. RingInv'
    BY <1>0, <1>t, <2>1, <2>2, CopyCommitInv
  <2> QED
    BY <1>t, <2>1, <2>2, <2>3 DEF IndInv, TypeOK, CallInv, RingInv
<1>5. CASE ReadReturn \/ WriteReturn
  <2>1. RingInv'
    BY <1>0, <1>5, RingUnchanged DEF ReadReturn, WriteReturn, ringVars
  <2> QED
    BY <1>5, <1>t, <2>1 DEF ReadReturn, WriteReturn, Answer, IndInv, TypeOK, CallInv, RingInv
<1>6. CASE CallClear
  <2>1. RingInv'
    BY <1>0, <1>6, ClearInv DEF CallClear
  <2> QED
    BY <1>6, <1>t, <2>1 DEF CallClear, callVars, IndInv, TypeOK, CallInv, RingInv
<1>7. CASE \E c \in 0..MaxCapacity+1 : CallResize(c)
  <2>1. PICK c \in 0..MaxCapacity+1 : CallResize(c)
    BY <1>7
  <2>2. c \in Nat
    BY CapacityAssumption
  <2>3. RingInv'
    BY <1>0, <2>1, <2>2, ResizeInv, RingUnchanged DEF CallResize
  <2>4. ret' \in Int
    BY <2>1 DEF CallResize, ResizeError, EINVAL, ENOMEM, EMSGSIZE
  <2> QED
    BY <1>t, <2>1, <2>3, <2>4 DEF CallResize, IndInv, TypeOK, CallInv, RingInv
<1>8. CASE UNCHANGED vars
  <2>1. RingInv'
    BY <1>0, <1>8, RingUnchanged DEF vars, ringVars
  <2> QED
    BY <1>8, <1>t, <2>1 DEF vars, IndInv, TypeOK, CallInv, RingInv
<1> QED
  BY <1>1, <1>2, <1>3, <1>4, <1>5, <1>6, <1>7, <1>8 DEF Next

(***************************************************************************)
(* The circular buffer never leaves its representation invariant and never *)
(* stores a byte no caller wrote, whatever calls are made of it.           *)
(***************************************************************************)
THEOREM BufferSafe == Spec => [](TypeOK /\ RingShape /\ NoJunkStored)
<1>1. IndInv => TypeOK /\ RingShape /\ NoJunkStored
  BY DEF IndInv
<1> QED
  BY <1>1, InitIndInv, NextIndInv, PTL DEF Spec

-----------------------------------------------------------------------------
(***************************************************************************)
(* The refinement.  While a call runs its locals and the buffer together   *)
(* hold the stream: a read's bytes are the front that has left the buffer, *)
(* a write's are the end of what is in it.                                 *)
(***************************************************************************)
CallStream ==
  /\ op # "none" => count <= MaxTransfer
  /\ op = "read" => dst \in Seq(Byte) /\ Len(dst) = copied
  /\ op = "write" =>
       /\ copied <= len
       /\ Contents = SubSeq(Contents, 1, len - copied) \o SubSeq(src, 1, copied)

StreamInv == IndInv /\ CallStream

\* The stream is made of bytes that were written.
LEMMA StreamType ==
  ASSUME StreamInv
  PROVE  /\ Stream \in Seq(Byte)
         /\ op = "none" => Stream = Contents
         /\ op = "read" => Stream = dst \o Contents
         /\ op = "write" => /\ Stream = SubSeq(Contents, 1, len - copied)
                            /\ Len(Stream) = len - copied
<1>1. RingInv
  BY RingOfIndInv DEF StreamInv
<1>2. Contents \in Seq(Byte) /\ Len(Contents) = len /\ len \in Nat
  BY <1>1, ContentsType, RingNumbers
<1>3. op \in {"none", "read", "write"} /\ copied \in Nat
  BY DEF StreamInv, IndInv, TypeOK
<1>4. CASE op = "none"
  BY <1>2, <1>4 DEF Stream
<1>5. CASE op = "read"
  <2>1. dst \o Contents \in Seq(Byte)
    BY <1>2, <1>5, PartsOfConcat DEF StreamInv, CallStream
  <2> QED
    BY <1>5, <2>1 DEF Stream
<1>6. CASE op = "write"
  <2>1. len - copied \in Nat /\ len - copied <= Len(Contents)
    BY <1>2, <1>3, <1>6 DEF StreamInv, CallStream
  <2>2. SubSeq(Contents, 1, len - copied) \in Seq(Byte) /\ Len(SubSeq(Contents, 1, len - copied)) = len - copied
    BY <1>2, <2>1, FrontAndRest
  <2> QED
    BY <1>6, <2>2 DEF Stream
<1> QED
  BY <1>3, <1>4, <1>5, <1>6

\* The calls of the contract, as the buffer makes them.
LEMMA FifoRead ==
  ASSUME NEW n \in Nat, NEW request \in Nat, Len(Stream) \in Nat,
         n = Fifo!Lesser(request, Len(Stream)), n > 0 \/ request = 0,
         Stream' = SubSeq(Stream, n + 1, Len(Stream)), capacity' = capacity
  PROVE  Fifo!Read(request, n, SubSeq(Stream, 1, n))
BY SMTT(30) DEF Fifo!Read, Fifo!Answer, Fifo!ApplyRead, Fifo!Model, Fifo!Success, Fifo!Failure,
       Fifo!Rest, Fifo!Front

LEMMA FifoReadNothing ==
  ASSUME NEW request \in Nat, Len(Stream) \in Nat, request > 0, Len(Stream) = 0,
         Stream' = Stream, capacity' = capacity
  PROVE  Fifo!Read(request, -Fifo!EAGAIN, << >>)
BY DEF Fifo!Read, Fifo!Answer, Fifo!ApplyRead, Fifo!Model, Fifo!Success, Fifo!Failure,
       Fifo!Rest, Fifo!Front, Fifo!Lesser, Fifo!EAGAIN

LEMMA FifoWrite ==
  ASSUME NEW payload, NEW n \in Nat, Len(Stream) \in Nat, Len(payload) \in Nat,
         n = Fifo!Lesser(Len(payload), capacity - Len(Stream)), n > 0 \/ payload = << >>,
         Stream' = Stream \o SubSeq(payload, 1, n), capacity' = capacity
  PROVE  Fifo!Write(payload, n)
BY DEF Fifo!Write, Fifo!Answer, Fifo!ApplyWrite, Fifo!Model, Fifo!Success, Fifo!Failure, Fifo!Front

LEMMA FifoWriteNothing ==
  ASSUME NEW payload, Len(Stream) \in Nat, Len(payload) \in Nat,
         payload # << >>, Fifo!Lesser(Len(payload), capacity - Len(Stream)) = 0,
         Stream' = Stream, capacity' = capacity
  PROVE  Fifo!Write(payload, -Fifo!EAGAIN)
BY DEF Fifo!Write, Fifo!Answer, Fifo!ApplyWrite, Fifo!Model, Fifo!Success, Fifo!Failure,
       Fifo!Front, Fifo!EAGAIN

LEMMA FifoResize ==
  ASSUME NEW c \in Int, MinCapacity <= c, c <= MaxCapacity, Len(Stream) <= c,
         Len(Stream) \in Nat, Stream' = Stream, capacity' = c
  PROVE  Fifo!Resize(c, 0)
BY CapacityAssumption DEF Fifo!Resize, Fifo!Answer, Fifo!ApplyResize, Fifo!ValidCapacity, Fifo!Model, Fifo!Success, Fifo!Failure

LEMMA FifoClear ==
  ASSUME Stream' = << >>, capacity' = capacity
  PROVE  Fifo!Clear(0)
BY DEF Fifo!Clear, Fifo!Answer, Fifo!ApplyClear, Fifo!Model, Fifo!Success

\* The first stream is empty.
LEMMA InitStream == Init => StreamInv /\ Fifo!Init
<1> SUFFICES ASSUME Init PROVE StreamInv /\ Fifo!Init
  OBVIOUS
<1>1. PICK c \in MinCapacity..MaxCapacity : BufferInit(c)
  BY DEF Init
<1>2. len = 0 /\ capacity \in MinCapacity..MaxCapacity /\ op = "none"
  BY <1>1 DEF BufferInit, Init
<1>3. StreamInv
  BY <1>2, InitIndInv DEF StreamInv, CallStream
<1>4. Stream = << >>
  BY <1>2, <1>3, StreamType, EmptyContents
<1> QED
  BY <1>2, <1>3, <1>4 DEF Fifo!Init

\* Starting a call changes no stream.
LEMMA CallStarts ==
  ASSUME StreamInv,
         (\E n \in 0..MaxTransfer : CallRead(n)) \/ (\E payload \in Payloads : CallWrite(payload))
  PROVE  CallStream' /\ Stream' = Stream /\ capacity' = capacity
<1>1. RingInv
  BY RingOfIndInv DEF StreamInv
<1>2. Contents \in Seq(Byte) /\ Len(Contents) = len /\ len \in Nat
  BY <1>1, ContentsType, RingNumbers
<1>3. op = "none" /\ Stream = Contents
  BY StreamType DEF CallRead, CallWrite
<1>4. Contents' = Contents /\ len' = len /\ capacity' = capacity
  BY DEF CallRead, CallWrite, Contents
<1>5. CASE \E n \in 0..MaxTransfer : CallRead(n)
  <2>1. PICK n \in 0..MaxTransfer : CallRead(n)
    BY <1>5
  <2>2. op' = "read" /\ dst' = << >> /\ copied' = 0 /\ count' <= MaxTransfer
    BY <2>1 DEF CallRead
  <2>3. Stream' = << >> \o Contents
    BY <1>4, <2>2 DEF Stream
  <2>4. Stream' = Contents
    BY <1>2, <2>3, ConcatEmptySeq
  <2>5. CallStream'
    BY <2>2, EmptySeq DEF CallStream
  <2> QED
    BY <1>3, <1>4, <2>4, <2>5
<1>6. CASE \E payload \in Payloads : CallWrite(payload)
  <2>1. PICK payload \in Payloads : CallWrite(payload)
    BY <1>6
  <2>2. payload \in Seq(Byte) /\ Len(payload) <= MaxTransfer
    BY TransferAssumption DEF Payloads
  <2>3. op' = "write" /\ src' = payload /\ copied' = 0 /\ count' <= MaxTransfer
    BY <2>1, <2>2 DEF CallWrite
  <2>4. SubSeq(Contents, 1, len - 0) = Contents /\ len - 0 = len
    BY <1>2, SubSeqFull
  <2>5. SubSeq(payload, 1, 0) = << >> /\ Contents \o << >> = Contents
    BY <1>2, SubSeqEmpty, ConcatEmptySeq
  <2>6. Stream' = Contents
    BY <1>4, <2>3, <2>4 DEF Stream
  <2>7. CallStream'
    BY <1>2, <1>4, <2>3, <2>4, <2>5 DEF CallStream
  <2> QED
    BY <1>3, <1>4, <2>6, <2>7
<1> QED
  BY <1>5, <1>6

\* A chunk of a read moves bytes from the buffer to the caller.
LEMMA ReadChunkStream ==
  ASSUME StreamInv, ReadChunk
  PROVE  CallStream' /\ Stream' = Stream /\ capacity' = capacity
<1> DEFINE n == Least(count - copied, ReadSpan)
<1>1. RingInv /\ IndInv
  BY RingOfIndInv DEF StreamInv
<1>2. Contents \in Seq(Byte) /\ Len(Contents) = len /\ len \in Nat
  BY <1>1, ContentsType, RingNumbers
<1>3. /\ Consume(n) /\ copied' = copied + n /\ dst' = dst \o SpanBytes(n) /\ op = "read"
      /\ UNCHANGED <<op, count, src, ret>>
  BY DEF ReadChunk
<1>4. n \in Nat /\ n <= ReadSpan
  <2>1. /\ count \in Nat /\ copied \in Nat /\ ReadSpan \in Nat
    BY <1>1, RingNumbers DEF IndInv, TypeOK, ReadSpan, Least
  <2> QED
    BY <1>1, <1>3, <2>1, ReadChunkBounds DEF Least
<1> HIDE DEF n
<1>5. dst \in Seq(Byte) /\ Len(dst) = copied
  BY <1>3 DEF StreamInv, CallStream
<1>6. /\ dst' \in Seq(Byte) /\ Len(dst') = copied' /\ capacity' = capacity
      /\ dst' \o Contents' = dst \o Contents
  BY <1>1, <1>3, <1>4, <1>5, ReadMoves
<1>7. CallStream'
  BY <1>3, <1>6 DEF StreamInv, CallStream
<1>8. Stream' = Stream
  BY <1>3, <1>6 DEF Stream
<1> QED
  BY <1>6, <1>7, <1>8

\* A chunk of a write is stored at the end of what the write stored before.
LEMMA WriteChunkStream ==
  ASSUME StreamInv, WriteChunk
  PROVE  CallStream' /\ Stream' = Stream /\ capacity' = capacity
<1> DEFINE n == Least(count - copied, WriteSpan)
<1>1. RingInv /\ IndInv
  BY RingOfIndInv DEF StreamInv
<1>2. Contents \in Seq(Byte) /\ Len(Contents) = len /\ len \in Nat
  BY <1>1, ContentsType, RingNumbers
<1>3. /\ CopyIn(src, copied, n, n) /\ Commit(n) /\ copied' = copied + n /\ op = "write"
      /\ UNCHANGED <<op, count, src, dst, ret>>
  BY DEF WriteChunk
<1>4. n \in Nat /\ n <= WriteSpan /\ n <= n /\ copied + n <= Len(src)
  BY <1>1, <1>3, WriteChunkBounds
<1>5. copied \in Nat /\ src \in Seq(Byte)
  BY <1>1 DEF IndInv, TypeOK
<1> HIDE DEF n
<1>6. copied <= len /\ Contents = SubSeq(Contents, 1, len - copied) \o SubSeq(src, 1, copied)
  BY <1>3 DEF StreamInv, CallStream
<1>7. /\ capacity' = capacity /\ copied + n <= len'
      /\ SubSeq(Contents', 1, len' - (copied + n)) = SubSeq(Contents, 1, len - copied)
      /\ Contents' = SubSeq(Contents', 1, len' - (copied + n)) \o SubSeq(src, 1, copied + n)
  BY <1>1, <1>3, <1>4, <1>5, <1>6, WriteMoves, ZenonT(60)
<1>8. CallStream'
  BY <1>3, <1>7 DEF StreamInv, CallStream
<1>9. Stream' = Stream
  BY <1>3, <1>7 DEF Stream
<1> QED
  BY <1>7, <1>8, <1>9

\* A read that returns is the contract's read.
LEMMA ReadReturnStream ==
  ASSUME StreamInv, ReadReturn
  PROVE  /\ CallStream'
         /\ Fifo!Read(count, ContractReply, dst)
         /\ [Fifo!Next]_<<capacity, Stream>>
<1>1. RingInv /\ IndInv
  BY RingOfIndInv DEF StreamInv
<1>2. Contents \in Seq(Byte) /\ Len(Contents) = len /\ len \in Nat
  BY <1>1, ContentsType, RingNumbers
<1>3. /\ op = "read" /\ op' = "none" /\ ret' = copied /\ capacity' = capacity
      /\ copied >= count \/ len = 0
      /\ dst' = dst
      /\ count \in Nat /\ copied \in Nat /\ copied <= count /\ count <= MaxTransfer
      /\ dst \in Seq(Byte) /\ Len(dst) = copied
  BY <1>1 DEF ReadReturn, Answer, StreamInv, CallStream, IndInv, TypeOK, CallInv
<1>4. CallStream'
  BY <1>3 DEF CallStream
<1>5. Stream = dst \o Contents /\ Stream' = Contents
  <2>1. Contents' = Contents
    BY DEF ReadReturn, Contents
  <2> QED
    BY <1>3, <2>1 DEF Stream
<1>6. /\ Len(Stream) = copied + len /\ Len(Stream) \in Nat
      /\ SubSeq(Stream, 1, copied) = dst
      /\ SubSeq(Stream, copied + 1, Len(Stream)) = Contents
  <2>1. dst \in Seq(Byte) /\ Contents \in Seq(Byte)
    BY <1>2, <1>3
  <2>2. /\ Len(dst \o Contents) = Len(dst) + Len(Contents)
        /\ SubSeq(dst \o Contents, 1, Len(dst)) = dst
        /\ SubSeq(dst \o Contents, Len(dst) + 1, Len(dst \o Contents)) = Contents
    BY <2>1, PartsOfConcat
  <2>3. copied + len \in Nat
    BY <1>2, <1>3
  <2> QED
    BY <1>2, <1>3, <1>5, <2>2, <2>3
<1>7. copied = Fifo!Lesser(count, Len(Stream))
  BY <1>2, <1>3, <1>6 DEF Fifo!Lesser
<1>8. CASE copied > 0 \/ count = 0
  <2>1. ContractReply = copied
    BY <1>3, <1>8 DEF ContractReply
  <2>2. Fifo!Read(count, copied, dst)
    BY <1>3, <1>5, <1>6, <1>7, <1>8, FifoRead
  <2>3. CASE copied > 0
    <3>1. copied = Fifo!Lesser(copied, Len(Stream)) /\ copied \in 1..MaxTransfer /\ copied <= Len(Stream)
      BY <1>2, <1>3, <1>6, <2>3, TransferAssumption DEF Fifo!Lesser
    <3>2. Fifo!Read(copied, copied, dst)
      BY <1>3, <1>5, <1>6, <2>3, <3>1, FifoRead
    <3>3. dst = Fifo!Front(Stream, copied)
      BY <1>6 DEF Fifo!Front
    <3> QED
      BY <1>4, <2>1, <2>2, <3>1, <3>2, <3>3 DEF Fifo!Next
  <2>4. CASE copied = 0
    <3>1. dst = << >> /\ Stream = Contents
      BY <1>2, <1>3, <1>5, <2>4, EmptySeq, ConcatEmptySeq
    <3> QED
      BY <1>3, <1>4, <1>5, <2>1, <2>2, <3>1
  <2> QED
    BY <1>3, <2>3, <2>4
<1>9. CASE copied = 0 /\ count > 0
  <2>1. dst = << >> /\ Stream = Contents /\ Len(Stream) = 0
    BY <1>2, <1>3, <1>5, <1>6, <1>9, EmptySeq, ConcatEmptySeq
  <2>2. ContractReply = -Fifo!EAGAIN
    BY <1>3, <1>9 DEF ContractReply
  <2>3. Fifo!Read(count, -Fifo!EAGAIN, << >>)
    BY <1>3, <1>5, <1>9, <2>1, FifoReadNothing
  <2> QED
    BY <1>3, <1>4, <1>5, <2>1, <2>2, <2>3
<1> QED
  BY <1>3, <1>8, <1>9

\* A write that returns is the contract's write.
LEMMA WriteReturnStream ==
  ASSUME StreamInv, WriteReturn
  PROVE  /\ CallStream'
         /\ Fifo!Write(src, ContractReply)
         /\ [Fifo!Next]_<<capacity, Stream>>
<1>1. RingInv /\ IndInv
  BY RingOfIndInv DEF StreamInv
<1>2. Contents \in Seq(Byte) /\ Len(Contents) = len /\ len \in Nat
  BY <1>1, ContentsType, RingNumbers
<1>3. /\ op = "write" /\ op' = "none" /\ ret' = copied /\ capacity' = capacity
      /\ copied >= count \/ Available = 0
      /\ count \in Nat /\ copied \in Nat /\ copied <= count /\ count <= MaxTransfer
      /\ src \in Seq(Byte) /\ Len(src) = count /\ copied <= len
      /\ Contents = SubSeq(Contents, 1, len - copied) \o SubSeq(src, 1, copied)
  BY <1>1 DEF WriteReturn, Answer, StreamInv, CallStream, IndInv, TypeOK, CallInv
<1>4. CallStream'
  BY <1>3 DEF CallStream
<1>5. Stream = SubSeq(Contents, 1, len - copied) /\ Stream' = Contents
  <2>1. Contents' = Contents
    BY DEF WriteReturn, Contents
  <2> QED
    BY <1>3, <2>1 DEF Stream
<1>6. Stream' = Stream \o SubSeq(src, 1, copied)
  BY <1>3, <1>5
<1>7. Len(Stream) = len - copied /\ Len(Stream) \in Nat
  BY <1>2, <1>3, StreamType
<1>8. copied = Fifo!Lesser(Len(src), capacity - Len(Stream))
  <2>1. capacity \in Nat /\ len <= capacity /\ Available = capacity - len
    BY <1>1, RingNumbers
  <2> QED
    BY <1>2, <1>3, <1>7, <2>1 DEF Fifo!Lesser
<1>9. CASE copied > 0 \/ src = << >>
  <2>1. ContractReply = copied
    BY <1>3, <1>9 DEF ContractReply
  <2>2. Fifo!Write(src, copied)
    BY <1>3, <1>6, <1>7, <1>8, <1>9, FifoWrite
  <2>3. CASE copied > 0
    <3>1. count \in 1..MaxTransfer
      BY <1>3, <2>3, TransferAssumption
    <3>2. src \in [1..count -> Byte]
      BY <1>3
    <3>3. Fifo!Write(src, Fifo!Lesser(count, capacity - Len(Stream)))
      BY <1>3, <1>8, <2>2
    <3> QED
      BY <1>4, <2>1, <2>2, <3>1, <3>2, <3>3 DEF Fifo!Next
  <2>4. CASE copied = 0
    <3>1. Stream = Contents
      BY <1>2, <1>5, <2>4, SubSeqFull
    <3> QED
      BY <1>3, <1>4, <1>5, <2>1, <2>2, <3>1
  <2> QED
    BY <1>3, <2>3, <2>4
<1>10. CASE copied = 0 /\ src # << >>
  <2>1. count > 0
    BY <1>3, <1>10, EmptySeq
  <2>2. Stream = Contents
    BY <1>2, <1>5, <1>10, SubSeqFull
  <2>3. ContractReply = -Fifo!EAGAIN
    BY <1>3, <1>10, <2>1 DEF ContractReply
  <2>4. Fifo!Write(src, -Fifo!EAGAIN)
    BY <1>3, <1>5, <1>7, <1>8, <1>10, <2>2, FifoWriteNothing
  <2> QED
    BY <1>3, <1>4, <1>5, <2>2, <2>3, <2>4
<1> QED
  BY <1>3, <1>9, <1>10

\* A clear is the contract's, and so is a resize that succeeds.
LEMMA ControlStream ==
  ASSUME StreamInv, CallClear \/ \E c \in 0..MaxCapacity+1 : CallResize(c)
  PROVE  CallStream' /\ [Fifo!Next]_<<capacity, Stream>>
<1>1. RingInv
  BY RingOfIndInv DEF StreamInv
<1>2. Contents \in Seq(Byte) /\ Len(Contents) = len /\ len \in Nat
  BY <1>1, ContentsType, RingNumbers
<1>3. op = "none" /\ op' = "none" /\ Stream = Contents /\ Stream' = Contents'
  BY StreamType DEF CallClear, CallResize, callVars, Stream
<1>4. CallStream'
  BY <1>3 DEF CallStream
<1>5. CASE CallClear
  <2>1. Stream' = << >> /\ capacity' = capacity
    BY <1>3, <1>5, ClearContents DEF CallClear
  <2> QED
    BY <1>4, <2>1, FifoClear DEF Fifo!Next
<1>6. ASSUME NEW c \in 0..MaxCapacity+1, CallResize(c)
      PROVE  [Fifo!Next]_<<capacity, Stream>>
  <2>1. CASE UNCHANGED ringVars
    BY <1>3, <2>1 DEF ringVars, Contents
  <2>2. CASE Resize(c)
    <3>1. c \in Nat
      BY <1>6, CapacityAssumption
    <3>2. /\ capacity' = c /\ c \in MinCapacity..MaxCapacity /\ len <= c
          /\ Contents' = Contents
      BY <1>1, <2>2, <3>1, ResizeContents
    <3>3. MinCapacity <= c /\ c <= MaxCapacity /\ c \in Int
      BY <3>1, <3>2, CapacityAssumption
    <3>4. Fifo!Resize(c, 0)
      BY <1>2, <1>3, <3>2, <3>3, FifoResize
    <3> QED
      BY <3>2, <3>4 DEF Fifo!Next
  <2> QED
    BY <1>6, <2>1, <2>2 DEF CallResize
<1> QED
  BY <1>4, <1>5, <1>6

\* Every step is a step of the contract or none of its steps, and every call
\* that returns is answered as the contract answers it.
LEMMA NextStream ==
  ASSUME StreamInv, [Next]_vars
  PROVE  /\ StreamInv'
         /\ [Fifo!Next]_<<capacity, Stream>>
         /\ [/\ ReadReturn  => Fifo!Read(count, ContractReply, dst)
             /\ WriteReturn => Fifo!Write(src, ContractReply)]_vars
<1>1. IndInv'
  BY NextIndInv DEF StreamInv
<1>2. CASE ReadReturn
  BY <1>1, <1>2, ReadReturnStream DEF StreamInv, WriteReturn, ReadReturn
<1>3. CASE WriteReturn
  BY <1>1, <1>3, WriteReturnStream DEF StreamInv, WriteReturn, ReadReturn
<1>4. CASE ~ReadReturn /\ ~WriteReturn
  <2>1. CallStream' /\ [Fifo!Next]_<<capacity, Stream>>
    <3>1. CASE (\E n \in 0..MaxTransfer : CallRead(n)) \/ (\E payload \in Payloads : CallWrite(payload))
      BY <3>1, CallStarts
    <3>2. CASE ReadChunk
      BY <3>2, ReadChunkStream
    <3>3. CASE WriteChunk
      BY <3>3, WriteChunkStream
    <3>4. CASE CallClear \/ \E c \in 0..MaxCapacity+1 : CallResize(c)
      BY <3>4, ControlStream
    <3>5. CASE UNCHANGED vars
      BY <3>5 DEF vars, StreamInv, CallStream, Stream, Contents
    <3> QED
      BY <1>4, <3>1, <3>2, <3>3, <3>4, <3>5 DEF Next
  <2> QED
    BY <1>1, <1>4, <2>1 DEF StreamInv
<1> QED
  BY <1>2, <1>3, <1>4

(***************************************************************************)
(* ImplementsFifo for every capacity range, every transfer bound and every *)
(* set of bytes: positions, wrap-around and chunks are invisible, the      *)
(* buffer is the byte stream of lab/contract.py.                           *)
(***************************************************************************)
THEOREM BufferImplementsFifo == Spec => ImplementsFifo
<1>1. StreamInv /\ [Next]_vars => StreamInv' /\ [Fifo!Next]_<<capacity, Stream>>
  BY NextStream
<1>2. [Fifo!Next]_<<capacity, Stream>> => [Fifo!Next]_(Fifo!fifoVars)
  BY DEF Fifo!fifoVars
<1>3. StreamInv /\ [Next]_vars => StreamInv' /\ [Fifo!Next]_(Fifo!fifoVars)
  BY <1>1, <1>2
<1> QED
  BY <1>3, InitStream, PTL DEF Spec, ImplementsFifo, Fifo!Spec

(***************************************************************************)
(* RepliesMatchContract for the same parameters: what _read and _write     *)
(* return and hand out is what ReferenceModel.apply does.                  *)
(***************************************************************************)
THEOREM BufferRepliesMatchContract == Spec => RepliesMatchContract
<1>1. StreamInv /\ [Next]_vars =>
        StreamInv' /\ [/\ ReadReturn  => Fifo!Read(count, ContractReply, dst)
                       /\ WriteReturn => Fifo!Write(src, ContractReply)]_vars
  BY NextStream
<1> QED
  BY <1>1, InitStream, PTL DEF Spec, RepliesMatchContract

=============================================================================
