-------------------------- MODULE StressTestProofs --------------------------
(***************************************************************************)
(* What a pass of the stress test means, and that a device that works      *)
(* passes it: for any number of threads and messages, any frame, chunk and *)
(* device size and every interleaving.                                     *)
(*                                                                         *)
(* As long as nothing was reported, what the device has delivered is the   *)
(* frames seen so far, in the order of the scan, and what is not scanned   *)
(* yet (ReadInv).  On a device that works, what was delivered and what it  *)
(* still holds are the frames of the writers in the order they got the     *)
(* write lock, the last one perhaps in part (WriteInv): the scan can only  *)
(* meet whole, fresh frames.                                               *)
(***************************************************************************)
EXTENDS StressTest, FiniteSetTheorems, NaturalsInduction, WellFoundedInduction, SequenceTheorems, TLAPS

Ids(messages) == Writers \X (0..messages-1)

WriterPlaces == {"none", "start", "loop", "lock", "write", "failed", "exit"}
ReaderPlaces == {"none", "start", "loop", "lock", "read", "append", "appended", "nothing", "idle",
                 "failed", "exit"}

TypeOK ==
  /\ test \in Tests
  /\ device \in Seq(Units) /\ capacity = DeviceCapacity /\ Len(device) <= capacity
  /\ faults \in Nat
  /\ stop \in BOOLEAN /\ failed \in BOOLEAN
  /\ completed \in Nat /\ done \in Nat
  /\ seen \subseteq Ids(Messages)
  /\ stream \in Seq(Units) /\ Len(stream) < FrameSize
  /\ delivered \in Seq(Units)
  /\ write_lock \in Writers \cup {NoThread} /\ read_lock \in Readers \cup {NoThread}
  /\ pc \in [Threads -> WriterPlaces \cup ReaderPlaces]
  /\ sequence \in [Writers -> Nat] /\ offset \in [Writers -> 0..FrameSize]
  /\ got \in [Readers -> Seq(Units)] /\ idle \in [Readers -> Nat]
  /\ main \in {"create", "join", "done"}
  /\ startup_failed \in BOOLEAN
  /\ exit_code \in {0, 1}

\* The locks, the messages and the bytes of a read are where the threads' places say.
WriterOK(w, l, lock, next, messages) ==
  /\ l \in WriterPlaces
  /\ l = "write" <=> lock = w
  /\ next <= messages
  /\ l \in {"lock", "write"} => next < messages

ReaderOK(r, l, lock, bytes) ==
  /\ l \in ReaderPlaces
  /\ l \in {"read", "append"} <=> lock = r
  /\ l # "append" => bytes = << >>

ThreadInv ==
  /\ \A w \in Writers : WriterOK(w, pc[w], write_lock, sequence[w], Messages)
  /\ \A r \in Readers : ReaderOK(r, pc[r], read_lock, got[r])

\* The frames of `order' are the head of D, s is the rest of D, `found' are the frames.
ReadAt(messages, D, s, found, m, order) ==
  /\ m \in Nat /\ order \in [1..m -> Ids(messages)]
  /\ \A j, k \in 1..m : order[j] = order[k] => j = k
  /\ found = {order[k] : k \in 1..m}
  /\ \A k \in 1..m : \A i \in 1..FrameSize :
       D[(k - 1) * FrameSize + i] = Unit(order[k][1], order[k][2], i)
  /\ Len(D) = m * FrameSize + Len(s)
  /\ \A i \in 1..Len(s) : s[i] = D[m * FrameSize + i]

IsRead(messages, D, s, found) == \E m, order : ReadAt(messages, D, s, found, m, order)

\* What was read and not scanned.
Unscanned(s, lock, bytes) == s \o (IF lock = NoThread THEN << >> ELSE bytes[lock])

ReadInv == ~failed => IsRead(Messages, delivered, Unscanned(stream, read_lock, got), seen)

\* How many frames were begun, and how much of the last one is in T.
Begun(c, lock) == IF lock = NoThread THEN c ELSE c + 1
Part(lock, off) == IF lock = NoThread THEN 0 ELSE off[lock]

\* T is the frames of `line' in its order, the last one up to the offset of the lock's owner.
WriteAt(messages, T, c, lock, next, off, n, line) ==
  /\ n = Begun(c, lock) /\ line \in [1..n -> Ids(messages)]
  /\ \A j, k \in 1..n : line[j] = line[k] => j = k
  /\ \A w \in Writers, i \in 0..messages-1 :
       (\E k \in 1..n : line[k] = <<w, i>>) <=> i < next[w] \/ (w = lock /\ i = next[w])
  /\ lock # NoThread => line[n] = <<lock, next[lock]>>
  /\ Len(T) = c * FrameSize + Part(lock, off)
  /\ \A k \in 1..n : \A i \in 1..FrameSize :
       (k - 1) * FrameSize + i <= Len(T) =>
         T[(k - 1) * FrameSize + i] = Unit(line[k][1], line[k][2], i)

IsWritten(messages, T, c, lock, next, off) ==
  \E n, line : WriteAt(messages, T, c, lock, next, off, n, line)

WriteInv == IsWritten(Messages, delivered \o device, completed, write_lock, sequence, offset)

AllWritten == \A w \in Writers : pc[w] = "exit"
AllSeen    == Cardinality(seen) >= Expected

\* A reader that found nothing after the last frame knows all frames, if it looks again.
IdleInv ==
  \A r \in Readers :
    /\ idle[r] \in {0, 1}
    /\ idle[r] = 1 \/ pc[r] = "idle" => AllWritten
    /\ idle[r] = 1 /\ pc[r] \in {"nothing", "idle"} => AllSeen
    /\ pc[r] = "exit" => AllSeen

QuietInv ==
  /\ ~failed /\ ~stop /\ ~startup_failed
  /\ \A t \in Threads : pc[t] # "failed"
  /\ main # "create" => \A t \in Threads : pc[t] # "none"
  /\ main = "done" => exit_code = 0

DoneInv ==
  /\ done = Cardinality({w \in Writers : pc[w] = "exit"})
  /\ \A w \in Writers : pc[w] = "exit" => sequence[w] = Messages

PassInv ==
  /\ exit_code = 0 => main = "done" /\ Passed
  /\ main = "done" => \A t \in Threads : pc[t] \in {"none", "exit"}

SoundInv == Healthy => QuietInv /\ WriteInv /\ DoneInv /\ IdleInv

Inv == TypeOK /\ ThreadInv /\ ReadInv /\ PassInv /\ SoundInv

-----------------------------------------------------------------------------
(***************************************************************************)
(* Numbers and sequences.                                                  *)
(***************************************************************************)
LEMMA Sizes ==
  /\ Magic \in Nat /\ Magic >= 1 /\ Header \in Nat /\ FrameSize \in Nat
  /\ Magic + 1 <= Header /\ Header <= FrameSize
  /\ \A t \in Tests : t.messages \in Nat /\ t.messages >= 1
BY StressAssumption

Smaller == {p \in Nat \X Nat : p[1] < p[2]}

\* A nonempty set of natural numbers has a least member.
LEMMA LeastNatural ==
  ASSUME NEW T \in SUBSET Nat, T # {}
  PROVE  \E x \in T : \A y \in T : x <= y
<1>1. IsWellFoundedOn(Smaller, Nat)
  BY NatLessThanWellFounded DEF OpToRel, Smaller
<1>2. \E x \in T : \A y \in T : ~(<<y, x>> \in Smaller)
  BY <1>1, WFMin, Zenon
<1>3. ASSUME NEW x \in T, NEW y \in T, ~(<<y, x>> \in Smaller)
      PROVE  x <= y
  <2>1. x \in Nat /\ y \in Nat
    OBVIOUS
  <2> QED
    BY <1>3, <2>1 DEF Smaller
<1> QED
  BY <1>2, <1>3

\* A set of numbers that begins at 0 and holds the successors of its members.
LEMMA Induction ==
  ASSUME NEW S, 0 \in S, \A n \in Nat : n \in S => n + 1 \in S
  PROVE  \A n \in Nat : n \in S
<1> DEFINE T == {n \in Nat : n \notin S}
<1>1. ASSUME T # {} PROVE FALSE
  <2>1. PICK x \in T : \A y \in T : x <= y
    BY <1>1, LeastNatural
  <2>2. x \in Nat /\ x \notin S /\ x # 0
    OBVIOUS
  <2>3. x - 1 \in Nat /\ x - 1 \in S
    BY <2>1, <2>2
  <2>4. x - 1 + 1 \in S
    BY <2>3
  <2> QED
    BY <2>2, <2>4
<1> QED
  BY <1>1

\* Whole frames take more room than fewer whole frames.
LEMMA Frames ==
  ASSUME NEW a \in Nat, NEW b \in Nat
  PROVE  /\ a * FrameSize \in Nat /\ b * FrameSize \in Nat
         /\ (a + 1) * FrameSize = a * FrameSize + FrameSize
         /\ a < b => a * FrameSize + FrameSize <= b * FrameSize
         /\ a <= b => a * FrameSize <= b * FrameSize
<1> DEFINE F == FrameSize
<1>1. F \in Nat
  BY Sizes
<1> HIDE DEF F
<1>2. /\ a * F \in Nat /\ b * F \in Nat /\ (a + 1) * F = a * F + F
  BY <1>1
<1>3. ASSUME a < b PROVE a * F + F <= b * F
  <2>1. b - a - 1 \in Nat
    BY <1>3
  <2>2. (b - a - 1) * F \in Nat
    BY <1>1, <2>1
  <2>3. (b - a - 1) * F = b * F - a * F - F
    BY <1>1, <2>1
  <2> QED
    BY <1>1, <1>2, <2>2, <2>3
<1>4. ASSUME a <= b PROVE a * F <= b * F
  BY <1>1, <1>2, <1>3, <1>4
<1> QED
  BY <1>2, <1>3, <1>4 DEF F

LEMMA DropSeq ==
  ASSUME NEW S, NEW s \in Seq(S), NEW n \in 0..Len(s)
  PROVE  /\ Drop(s, n) \in Seq(S) /\ Len(Drop(s, n)) = Len(s) - n
         /\ \A i \in 1..Len(s) - n : Drop(s, n)[i] = s[n + i]
<1>1. \A i \in n + 1 .. Len(s) : s[i] \in S
  OBVIOUS
<1>2. n + 1 \in Int /\ Len(s) \in Int /\ Len(s) - (n + 1) + 1 = Len(s) - n
  OBVIOUS
<1>3. /\ SubSeq(s, n + 1, Len(s)) \in Seq(S)
      /\ Len(SubSeq(s, n + 1, Len(s))) = IF n + 1 <= Len(s) THEN Len(s) - (n + 1) + 1 ELSE 0
      /\ \A i \in 1 .. Len(s) - (n + 1) + 1 : SubSeq(s, n + 1, Len(s))[i] = s[n + 1 + i - 1]
  BY <1>1, <1>2, SubSeqProperties
<1> QED
  BY <1>3 DEF Drop

LEMMA HeadSeq ==
  ASSUME NEW S, NEW s \in Seq(S), NEW n \in 0..Len(s)
  PROVE  /\ SubSeq(s, 1, n) \in Seq(S) /\ Len(SubSeq(s, 1, n)) = n
         /\ \A i \in 1..n : SubSeq(s, 1, n)[i] = s[i]
<1>1. \A i \in 1 .. n : s[i] \in S
  OBVIOUS
<1>3. /\ SubSeq(s, 1, n) \in Seq(S)
      /\ Len(SubSeq(s, 1, n)) = IF 1 <= n THEN n - 1 + 1 ELSE 0
      /\ \A i \in 1 .. n - 1 + 1 : SubSeq(s, 1, n)[i] = s[1 + i - 1]
  BY <1>1, SubSeqProperties
<1> QED
  BY <1>3

LEMMA JoinSeq ==
  ASSUME NEW S, NEW s \in Seq(S), NEW t \in Seq(S)
  PROVE  /\ s \o t \in Seq(S) /\ Len(s \o t) = Len(s) + Len(t)
         /\ \A i \in 1..Len(s) : (s \o t)[i] = s[i]
         /\ \A i \in 1..Len(t) : (s \o t)[Len(s) + i] = t[i]
<1>1. \A i \in 1 .. Len(s) + Len(t) : (s \o t)[i] = IF i <= Len(s) THEN s[i] ELSE t[i - Len(s)]
  BY ConcatProperties
<1>2. ASSUME NEW i \in 1..Len(t) PROVE (s \o t)[Len(s) + i] = t[i]
  BY <1>1
<1> QED
  BY <1>1, <1>2, ConcatProperties

\* A sequence cut in two.
LEMMA CutSeq ==
  ASSUME NEW S, NEW s \in Seq(S), NEW n \in 0..Len(s)
  PROVE  SubSeq(s, 1, n) \o Drop(s, n) = s
<1> DEFINE h == SubSeq(s, 1, n)
           d == Drop(s, n)
           z == h \o d
<1>1. h \in Seq(S) /\ Len(h) = n /\ \A i \in 1..n : h[i] = s[i]
  BY HeadSeq
<1>2. d \in Seq(S) /\ Len(d) = Len(s) - n /\ \A i \in 1..Len(s) - n : d[i] = s[n + i]
  BY DropSeq
<1> HIDE DEF h, d
<1>3. /\ z \in Seq(S) /\ Len(z) = Len(h) + Len(d)
      /\ \A i \in 1..Len(h) : z[i] = h[i]
      /\ \A i \in 1..Len(d) : z[Len(h) + i] = d[i]
  BY <1>1, <1>2, JoinSeq
<1> HIDE DEF z
<1>4. Len(z) = Len(s)
  BY <1>1, <1>2, <1>3
<1>5. ASSUME NEW i \in 1..Len(s) PROVE z[i] = s[i]
  <2>1. CASE i <= n
    BY <1>1, <1>3, <2>1
  <2>2. CASE i > n
    <3>1. i - n \in 1..Len(s) - n /\ n + (i - n) = i
      BY <2>2
    <3>2. z[n + (i - n)] = d[i - n] /\ d[i - n] = s[n + (i - n)]
      BY <1>1, <1>2, <1>3, <3>1
    <3> QED
      BY <3>1, <3>2
  <2> QED
    BY <2>1, <2>2
<1>6. z = s
  BY <1>3, <1>4, <1>5, SeqEqual
<1> QED
  BY <1>6 DEF z, h, d

-----------------------------------------------------------------------------
(***************************************************************************)
(* The scan.                                                               *)
(***************************************************************************)
ScanStates == [stream : Seq(Units), seen : SUBSET Ids(Messages), failed : BOOLEAN]

NextAfter(f, x, n) == IF n = 0 THEN {x} ELSE {ScanStep(y) : y \in f[n - 1]}

IsAfter(f, x, n) == f = [k \in 0..n |-> NextAfter(f, x, k)]

After(x, n) == CHOOSE f : IsAfter(f, x, n)

LEMMA AfterExists ==
  ASSUME NEW x, NEW n \in Nat
  PROVE  IsAfter(After(x, n), x, n)
<1> DEFINE S == {m \in Nat : \E f : IsAfter(f, x, m)}
<1>1. 0 \in S
  <2> DEFINE f == [d \in 0..0 |-> {x}]
  <2>1. f = [d \in 0..0 |-> NextAfter(f, x, d)]
    BY DEF NextAfter
  <2> QED
    BY <2>1 DEF IsAfter
<1>2. ASSUME NEW m \in Nat, m \in S PROVE m + 1 \in S
  <2>1. PICK g : IsAfter(g, x, m)
    BY <1>2
  <2> DEFINE f == [d \in 0..(m + 1) |-> IF d = m + 1 THEN NextAfter(g, x, m + 1) ELSE g[d]]
  <2>2. ASSUME NEW d \in 0..(m + 1) PROVE f[d] = NextAfter(f, x, d)
    <3>1. CASE d = m + 1
      <4>1. d - 1 \in 0..(m + 1) /\ d - 1 # m + 1 /\ d # 0
        BY <3>1
      <4>2. f[d - 1] = g[d - 1] /\ f[d] = NextAfter(g, x, d)
        BY <3>1, <4>1
      <4> HIDE DEF f
      <4> QED
        BY <4>1, <4>2 DEF NextAfter
    <3>2. CASE d # m + 1
      <4>1. d \in 0..m /\ f[d] = g[d]
        BY <3>2
      <4>2. g[d] = NextAfter(g, x, d)
        BY <2>1, <4>1 DEF IsAfter
      <4>3. d # 0 => d - 1 \in 0..(m + 1) /\ d - 1 # m + 1
        BY <4>1
      <4>4. d # 0 => f[d - 1] = g[d - 1]
        BY <4>3
      <4> HIDE DEF f
      <4> QED
        BY <4>1, <4>2, <4>4 DEF NextAfter
    <3> QED
      BY <3>1, <3>2
  <2>3. f = [d \in 0..(m + 1) |-> f[d]]
    OBVIOUS
  <2> HIDE DEF f
  <2>4. f = [d \in 0..(m + 1) |-> NextAfter(f, x, d)]
    BY <2>2, <2>3
  <2>5. m + 1 \in Nat
    OBVIOUS
  <2> QED
    BY <2>4, <2>5 DEF IsAfter
<1> HIDE DEF S
<1>3. n \in S
  BY <1>1, <1>2, Induction
<1> QED
  BY <1>3 DEF S, After

LEMMA ScanIs ==
  ASSUME NEW s, Len(s) \in Nat, NEW found, NEW bad
  PROVE  Scan(s, found, bad) =
           CHOOSE x \in After([stream |-> s, seen |-> found, failed |-> bad], Len(s))[Len(s)] : TRUE
BY DEF Scan, After, IsAfter, NextAfter

\* An iteration shortens the stream unless it waits.
LEMMA ScanStepShortens ==
  ASSUME NEW x \in ScanStates
  PROVE  /\ Waiting(x.stream) => ScanStep(x) = x
         /\ ~Waiting(x.stream) =>
              \E n \in 1..Len(x.stream) : ScanStep(x).stream = Drop(x.stream, n)
         /\ ScanStep(x) \in ScanStates
<1> DEFINE s == x.stream
           next == {k \in 1..Len(s) - Magic : MagicAt(s, k)}
           id == <<s[Magic + 1][1], s[Magic + 1][2]>>
           y == ScanStep(x)
<1>1. s \in Seq(Units) /\ x.seen \in SUBSET Ids(Messages) /\ x.failed \in BOOLEAN /\ Len(s) \in Nat
  BY DEF ScanStates
<1>2. CASE Waiting(s)
  <2>1. ~(Len(s) >= Header /\ ~MagicAt(s, 0)) /\ ~(Len(s) >= Header /\ MagicAt(s, 0) /\ ~LengthOK(s))
    BY <1>1, <1>2, Sizes DEF Waiting
  <2> HIDE DEF s
  <2>2. x.stream = s
    BY DEF s
  <2>3. ScanStep(x) = x
    BY <1>2, <2>1, <2>2 DEF ScanStep
  <2> QED
    BY <1>2, <2>2, <2>3
<1>3. CASE ~Waiting(s)
  <2>1. Len(s) >= Header /\ Len(s) >= 1 /\ Len(s) - (Magic - 1) \in 1..Len(s)
    BY <1>1, <1>3, Sizes DEF Waiting
  <2>2. CASE ~MagicAt(s, 0)
    <3> DEFINE n == IF next = {} THEN Len(s) - (Magic - 1) ELSE Min(next)
    <3>1. n \in 1..Len(s)
      <4>1. CASE next # {}
        <5>1. next \in SUBSET Nat /\ next \subseteq 1..Len(s)
          BY <1>1, Sizes
        <5>2. Min(next) \in next
          BY <4>1, <5>1, LeastNatural DEF Min
        <5> QED
          BY <4>1, <5>1, <5>2
      <4> QED
        BY <2>1, <4>1
    <3>2. y = [stream |-> Drop(s, n), seen |-> x.seen, failed |-> TRUE]
      BY <1>3, <2>1, <2>2 DEF ScanStep
    <3> HIDE DEF n
    <3>3. Drop(s, n) \in Seq(Units)
      BY <1>1, <3>1, DropSeq
    <3>4. y \in ScanStates /\ y.stream = Drop(s, n)
      BY <1>1, <3>2, <3>3 DEF ScanStates
    <3> QED
      BY <1>3, <3>1, <3>4
  <2>3. CASE MagicAt(s, 0) /\ ~LengthOK(s)
    <3>1. y = [stream |-> Drop(s, 1), seen |-> x.seen, failed |-> TRUE]
      BY <1>3, <2>1, <2>3 DEF ScanStep
    <3>2. Drop(s, 1) \in Seq(Units)
      BY <1>1, <2>1, DropSeq
    <3>3. y \in ScanStates /\ y.stream = Drop(s, 1)
      BY <1>1, <3>1, <3>2 DEF ScanStates
    <3> QED
      BY <1>3, <2>1, <3>3
  <2>4. CASE MagicAt(s, 0) /\ LengthOK(s)
    <3>1. Len(s) >= FrameSize /\ FrameSize \in 1..Len(s)
      BY <1>1, <1>3, <2>4, Sizes DEF Waiting
    <3> DEFINE ok == FrameOK(s, x.seen)
    <3>2. y = [stream |-> Drop(s, FrameSize),
               seen |-> IF ok THEN x.seen \cup {id} ELSE x.seen, failed |-> x.failed \/ ~ok]
      BY <1>3, <2>1, <2>4 DEF ScanStep
    <3>3. Drop(s, FrameSize) \in Seq(Units)
      BY <1>1, <3>1, DropSeq
    <3>4. ok => id \in Ids(Messages)
      BY DEF FrameOK, Ids
    <3> HIDE DEF ok, id
    <3>5. (IF ok THEN x.seen \cup {id} ELSE x.seen) \in SUBSET Ids(Messages)
      BY <1>1, <3>4
    <3>6. (x.failed \/ ~ok) \in BOOLEAN
      OBVIOUS
    <3>7. y \in ScanStates /\ y.stream = Drop(s, FrameSize)
      BY <3>2, <3>3, <3>5, <3>6 DEF ScanStates
    <3> QED
      BY <1>3, <3>1, <3>7
  <2> QED
    BY <2>2, <2>3, <2>4
<1> QED
  BY <1>2, <1>3

\* What every iteration preserves holds of the scan, and the scan leaves nothing it could take.
LEMMA ScanIn ==
  ASSUME NEW G \in SUBSET ScanStates, \A x \in G : ScanStep(x) \in G,
         NEW s, NEW found, NEW bad, [stream |-> s, seen |-> found, failed |-> bad] \in G
  PROVE  /\ Scan(s, found, bad) \in G
         /\ Waiting(Scan(s, found, bad).stream) /\ Len(Scan(s, found, bad).stream) < FrameSize
<1> DEFINE x0 == [stream |-> s, seen |-> found, failed |-> bad]
           L == Len(s)
           f == After(x0, L)
           S == {n \in Nat : n <= L =>
                  \E y \in G : f[n] = {y} /\ (Waiting(y.stream) \/ Len(y.stream) + n <= L)}
<1>1. s \in Seq(Units) /\ L \in Nat
  BY DEF ScanStates
<1>2. IsAfter(f, x0, L)
  BY <1>1, AfterExists
<1> HIDE DEF f
<1>3. ASSUME NEW n \in 0..L PROVE f[n] = NextAfter(f, x0, n)
  BY <1>2 DEF IsAfter
<1> HIDE DEF x0
<1>4. x0 \in G /\ x0.stream = s
  BY DEF x0
<1> HIDE DEF L
<1>5. 0 \in S
  <2> 0 \in 0..L
    BY <1>1
  <2>1. f[0] = {x0}
    <3>1. f[0] = NextAfter(f, x0, 0)
      BY <1>3
    <3> QED
      BY <3>1 DEF NextAfter
  <2>2. Len(x0.stream) + 0 <= L
    BY <1>1, <1>4 DEF L
  <2> QED
    BY <1>4, <2>1, <2>2
<1>6. ASSUME NEW n \in Nat, n \in S PROVE n + 1 \in S
  <2>1. SUFFICES ASSUME n + 1 <= L
                 PROVE  \E y \in G : /\ f[n + 1] = {y}
                                     /\ Waiting(y.stream) \/ Len(y.stream) + (n + 1) <= L
    OBVIOUS
  <2>2. PICK y \in G : f[n] = {y} /\ (Waiting(y.stream) \/ Len(y.stream) + n <= L)
    BY <1>1, <1>6, <2>1
  <2>3. n + 1 \in 0..L /\ n + 1 # 0 /\ n + 1 - 1 = n
    BY <1>1, <2>1
  <2>4. f[n + 1] = {ScanStep(z) : z \in f[n]}
    <3>1. f[n + 1] = NextAfter(f, x0, n + 1)
      BY <1>3, <2>3
    <3>2. NextAfter(f, x0, n + 1) = {ScanStep(z) : z \in f[n + 1 - 1]}
      BY <2>3 DEF NextAfter
    <3> QED
      BY <2>3, <3>1, <3>2
  <2>5. f[n + 1] = {ScanStep(y)}
    BY <2>2, <2>4
  <2>6. ScanStep(y) \in G /\ y \in ScanStates
    OBVIOUS
  <2>7. y.stream \in Seq(Units) /\ Len(y.stream) \in Nat
    BY <2>6 DEF ScanStates
  <2>8. CASE Waiting(y.stream)
    BY <2>5, <2>6, <2>8, ScanStepShortens
  <2>9. CASE ~Waiting(y.stream)
    <3>1. PICK k \in 1..Len(y.stream) : ScanStep(y).stream = Drop(y.stream, k)
      BY <2>6, <2>9, ScanStepShortens
    <3>2. Len(Drop(y.stream, k)) = Len(y.stream) - k
      <4>1. k \in 0..Len(y.stream)
        BY <2>7
      <4> QED
        BY <2>7, <4>1, DropSeq
    <3> DEFINE a == Len(y.stream)
               b == Len(ScanStep(y).stream)
    <3>3. a \in Nat /\ b = a - k /\ k \in 1..a /\ a + n <= L
      BY <2>2, <2>7, <2>9, <3>1, <3>2
    <3> HIDE DEF a, b
    <3>4. b + (n + 1) <= L
      BY <1>1, <3>3
    <3>5. Len(ScanStep(y).stream) + (n + 1) <= L
      BY <3>4 DEF b
    <3> QED
      BY <2>5, <2>6, <3>5
  <2> QED
    BY <2>8, <2>9
<1> HIDE DEF S
<1>7. L \in S
  BY <1>1, <1>5, <1>6, Induction
<1>8. PICK y \in G : f[L] = {y} /\ (Waiting(y.stream) \/ Len(y.stream) + L <= L)
  BY <1>1, <1>7 DEF S
<1>9. y.stream \in Seq(Units) /\ Len(y.stream) \in Nat
  BY DEF ScanStates
<1>10. Waiting(y.stream) /\ Len(y.stream) < FrameSize
  <2>1. Waiting(y.stream)
    BY <1>1, <1>8, <1>9, Sizes DEF Waiting
  <2> QED
    BY <1>9, <2>1, Sizes DEF Waiting
<1>11. Scan(s, found, bad) = CHOOSE x \in f[L] : TRUE
  BY <1>1, ScanIs DEF x0, L, f
<1>12. Scan(s, found, bad) = y
  BY <1>8, <1>11
<1> QED
  BY <1>10, <1>12

\* One more whole and fresh frame is taken off the stream.
LEMMA ReadMore ==
  ASSUME NEW messages, NEW D, NEW s \in Seq(Units), NEW found, NEW m, NEW order,
         ReadAt(messages, D, s, found, m, order),
         NEW id \in Ids(messages), id \notin found, Len(s) >= FrameSize,
         \A i \in 1..FrameSize : s[i] = Unit(id[1], id[2], i)
  PROVE  IsRead(messages, D, Drop(s, FrameSize), found \cup {id})
<1> DEFINE ord == [k \in 1..m+1 |-> IF k = m + 1 THEN id ELSE order[k]]
           t == Drop(s, FrameSize)
           F == FrameSize
           p == m * F
           q == (m + 1) * F
<1>1. /\ m \in Nat /\ order \in [1..m -> Ids(messages)]
      /\ \A j, k \in 1..m : order[j] = order[k] => j = k
      /\ found = {order[k] : k \in 1..m}
      /\ \A k \in 1..m : \A i \in 1..F : D[(k - 1) * F + i] = Unit(order[k][1], order[k][2], i)
      /\ Len(D) = p + Len(s)
      /\ \A i \in 1..Len(s) : s[i] = D[p + i]
  BY DEF ReadAt
<1>2. F \in Nat /\ p \in Nat /\ q \in Nat /\ q = p + F
  BY <1>1, Frames, Sizes, SMTT(40)
<1>3. Len(t) = Len(s) - F /\ \A i \in 1..Len(s) - F : t[i] = s[F + i]
  BY Sizes, DropSeq
<1>4. m + 1 \in Nat /\ ord \in [1..m+1 -> Ids(messages)]
  BY <1>1
<1>5. /\ ord[m + 1] = id /\ \A k \in 1..m : ord[k] = order[k]
      /\ \A k \in 1..m+1 : k # m + 1 => k \in 1..m
      /\ m + 1 \in 1..m+1 /\ \A k \in 1..m : k \in 1..m+1
  BY <1>1
<1> HIDE DEF ord, t
<1>6. ASSUME NEW j \in 1..m+1, NEW k \in 1..m+1, ord[j] = ord[k] PROVE j = k
  <2>1. \A l \in 1..m : order[l] # id
    BY <1>1
  <2> QED
    BY <1>1, <1>5, <1>6, <2>1
<1>7. found \cup {id} = {ord[k] : k \in 1..m+1}
  BY <1>1, <1>5
<1>8. ASSUME NEW k \in 1..m+1, NEW i \in 1..F
      PROVE  D[(k - 1) * F + i] = Unit(ord[k][1], ord[k][2], i)
  <2>1. CASE k # m + 1
    BY <1>1, <1>5, <2>1
  <2>2. CASE k = m + 1
    <3>1. (k - 1) * F = p
      BY <1>1, <2>2
    <3> Len(s) \in Nat
      OBVIOUS
    <3>3. i \in 1..Len(s)
      BY <1>2
    <3>2. s[i] = D[p + i] /\ s[i] = Unit(id[1], id[2], i)
      BY <1>1, <3>3
    <3> QED
      BY <1>5, <2>2, <3>1, <3>2
  <2> QED
    BY <2>1, <2>2
<1> HIDE DEF p, q
<1>9. Len(s) \in Nat /\ Len(D) = q + Len(t)
  BY <1>1, <1>2, <1>3
<1>10. ASSUME NEW i \in 1..Len(t) PROVE t[i] = D[q + i]
  <2>1. F + i \in 1..Len(s) /\ p + (F + i) = q + i
    BY <1>2, <1>3, <1>9
  <2>2. t[i] = s[F + i]
    BY <1>3
  <2>3. s[F + i] = D[p + (F + i)]
    BY <1>1, <2>1
  <2> QED
    BY <2>1, <2>2, <2>3
<1> HIDE DEF F
<1>11. ReadAt(messages, D, t, found \cup {id}, m + 1, ord)
  <2>1. m + 1 - 1 = m
    BY <1>1
  <2>2. Len(D) = (m + 1) * F + Len(t) /\ \A i \in 1..Len(t) : t[i] = D[(m + 1) * F + i]
    BY <1>9, <1>10 DEF q
  <2> QED
    BY <1>4, <1>6, <1>7, <1>8, <2>2 DEF ReadAt, F
<1> QED
  BY <1>11 DEF IsRead, t, F

\* An iteration that reports nothing waits or takes a whole, fresh frame off.
LEMMA UnfailedStep ==
  ASSUME NEW x \in ScanStates, ~ScanStep(x).failed
  PROVE  /\ ~x.failed
         /\ \/ ScanStep(x) = x
            \/ \E id \in Ids(Messages) :
                 /\ id \notin x.seen /\ Len(x.stream) >= FrameSize
                 /\ \A i \in 1..FrameSize : x.stream[i] = Unit(id[1], id[2], i)
                 /\ ScanStep(x).stream = Drop(x.stream, FrameSize)
                 /\ ScanStep(x).seen = x.seen \cup {id}
<1> DEFINE s == x.stream
           id == <<s[Magic + 1][1], s[Magic + 1][2]>>
           ok == FrameOK(s, x.seen)
           next == {k \in 1..Len(s) - Magic : MagicAt(s, k)}
           cut == IF next = {} THEN Len(s) - (Magic - 1) ELSE Min(next)
<1>1. s \in Seq(Units) /\ Len(s) \in Nat /\ x.failed \in BOOLEAN
  BY DEF ScanStates
<1>2. CASE Waiting(s)
  <2>1. ScanStep(x) = x
    BY <1>2, ScanStepShortens
  <2> QED
    BY <2>1
<1>3. CASE ~Waiting(s) /\ ~MagicAt(s, 0)
  <2>1. Len(s) >= Header
    BY <1>1, <1>3, Sizes DEF Waiting
  <2>2. ScanStep(x) = [stream |-> Drop(s, cut), seen |-> x.seen, failed |-> TRUE]
    BY <1>3, <2>1 DEF ScanStep
  <2>3. ScanStep(x).failed
    BY <2>2
  <2> QED
    BY <2>3
<1>4. CASE ~Waiting(s) /\ MagicAt(s, 0) /\ ~LengthOK(s)
  <2>1. Len(s) >= Header
    BY <1>1, <1>4, Sizes DEF Waiting
  <2>2. ScanStep(x) = [stream |-> Drop(s, 1), seen |-> x.seen, failed |-> TRUE]
    BY <1>4, <2>1 DEF ScanStep
  <2>3. ScanStep(x).failed
    BY <2>2
  <2> QED
    BY <2>3
<1>5. CASE ~Waiting(s) /\ MagicAt(s, 0) /\ LengthOK(s)
  <2>1. Len(s) >= FrameSize
    BY <1>1, <1>5, Sizes DEF Waiting
  <2>2. ScanStep(x) = [stream |-> Drop(s, FrameSize),
               seen |-> IF ok THEN x.seen \cup {id} ELSE x.seen, failed |-> x.failed \/ ~ok]
    BY <1>5 DEF ScanStep
  <2> HIDE DEF ok
  <2>3. ok /\ ~x.failed
    <3>1. ScanStep(x).failed = (x.failed \/ ~ok)
      BY <2>2
    <3> QED
      BY <3>1
  <2>4. ScanStep(x).stream = Drop(s, FrameSize) /\ ScanStep(x).seen = x.seen \cup {id}
    BY <2>2, <2>3
  <2>5. id \in Ids(Messages) /\ id \notin x.seen /\ SubSeq(s, 1, FrameSize) = Frame(id[1], id[2])
    BY <2>3 DEF ok, FrameOK, Ids
  <2>6. \A i \in 1..FrameSize : SubSeq(s, 1, FrameSize)[i] = s[i]
    <3>1. FrameSize \in 0..Len(s)
      BY <1>1, <2>1, Sizes
    <3> QED
      BY <1>1, <3>1, HeadSeq
  <2> HIDE DEF id, s
  <2>7. \A i \in 1..FrameSize : s[i] = Unit(id[1], id[2], i)
    BY <2>5, <2>6 DEF Frame
  <2> QED
    BY <2>1, <2>3, <2>4, <2>5, <2>7 DEF s
<1> QED
  BY <1>2, <1>3, <1>4, <1>5

\* As long as the scan reports nothing, it takes whole, fresh frames off the stream.
LEMMA ScanReads ==
  ASSUME NEW D, NEW s \in Seq(Units), NEW found \in SUBSET Ids(Messages), NEW bad \in BOOLEAN,
         ~bad => IsRead(Messages, D, s, found)
  PROVE  LET x == Scan(s, found, bad)
         IN  /\ x \in ScanStates /\ Len(x.stream) < FrameSize
             /\ ~x.failed => IsRead(Messages, D, x.stream, x.seen)
<1> DEFINE G == {x \in ScanStates : ~x.failed => IsRead(Messages, D, x.stream, x.seen)}
<1>1. [stream |-> s, seen |-> found, failed |-> bad] \in G
  BY DEF ScanStates
<1>2. ASSUME NEW x \in G PROVE ScanStep(x) \in G
  <2>1. x \in ScanStates /\ ScanStep(x) \in ScanStates
    BY ScanStepShortens
  <2>2. SUFFICES ASSUME ~ScanStep(x).failed
                 PROVE  IsRead(Messages, D, ScanStep(x).stream, ScanStep(x).seen)
    BY <2>1
  <2>3. ~x.failed /\ IsRead(Messages, D, x.stream, x.seen)
    BY <2>1, <2>2, UnfailedStep
  <2>4. CASE ScanStep(x) = x
    BY <2>3, <2>4
  <2>5. CASE ScanStep(x) # x
    <3>1. PICK id \in Ids(Messages) :
            /\ id \notin x.seen /\ Len(x.stream) >= FrameSize
            /\ \A i \in 1..FrameSize : x.stream[i] = Unit(id[1], id[2], i)
            /\ ScanStep(x).stream = Drop(x.stream, FrameSize)
            /\ ScanStep(x).seen = x.seen \cup {id}
      BY <2>1, <2>2, <2>5, UnfailedStep
    <3>2. PICK m, order : ReadAt(Messages, D, x.stream, x.seen, m, order)
      BY <2>3 DEF IsRead
    <3>3. x.stream \in Seq(Units)
      BY <2>1 DEF ScanStates
    <3>4. IsRead(Messages, D, Drop(x.stream, FrameSize), x.seen \cup {id})
      BY <3>1, <3>2, <3>3, ReadMore
    <3> QED
      BY <3>1, <3>4
  <2> QED
    BY <2>4, <2>5
<1>3. G \in SUBSET ScanStates
  OBVIOUS
<1>4. /\ Scan(s, found, bad) \in G
      /\ Len(Scan(s, found, bad).stream) < FrameSize
  BY <1>1, <1>2, <1>3, ScanIn
<1> QED
  BY <1>4

-----------------------------------------------------------------------------
(***************************************************************************)
(* On a device that works, the scan meets the frames as they were written. *)
(***************************************************************************)
Prefix(D, T) == Len(D) <= Len(T) /\ \A i \in 1..Len(D) : T[i] = D[i]

\* A unit after the magic tells the frame.
LEMMA UnitTells ==
  ASSUME NEW id \in Writers \X Nat, NEW jd \in Writers \X Nat,
         Unit(id[1], id[2], Magic + 1) = Unit(jd[1], jd[2], Magic + 1)
  PROVE  id = jd
<1>1. ~(Magic + 1 <= Magic)
  BY Sizes
<1>2. <<id[1], id[2], Magic + 1>> = <<jd[1], jd[2], Magic + 1>>
  BY <1>1 DEF Unit
<1>3. id[1] = jd[1] /\ id[2] = jd[2]
  BY <1>2
<1> QED
  BY <1>3

\* The frames written make room for no more than their number.
LEMMA WrittenLength ==
  ASSUME NEW messages, NEW T, NEW c \in Nat, NEW lock, NEW next, NEW off, NEW n, NEW line,
         WriteAt(messages, T, c, lock, next, off, n, line), Part(lock, off) \in 0..FrameSize
  PROVE  n \in Nat /\ Len(T) \in Nat /\ Len(T) <= n * FrameSize
<1> DEFINE F == FrameSize
           p == c * F
<1>1. n = Begun(c, lock) /\ Len(T) = p + Part(lock, off)
  BY DEF WriteAt
<1>2. p \in Nat /\ F \in Nat /\ (c + 1) * F = p + F /\ n \in Nat
  BY <1>1, Frames, Sizes DEF Begun
<1>3. CASE lock = NoThread
  <2>1. n = c /\ Part(lock, off) = 0
    BY <1>1, <1>3 DEF Begun, Part
  <2> HIDE DEF p
  <2>2. Len(T) = p /\ n * F = p
    BY <1>1, <1>2, <2>1 DEF p
  <2> QED
    BY <1>2, <2>2
<1>4. CASE lock # NoThread
  <2>1. n = c + 1
    BY <1>1, <1>4 DEF Begun
  <2> HIDE DEF p
  <2> QED
    BY <1>1, <1>2, <2>1
<1> QED
  BY <1>3, <1>4

\* What the scan has at its head was written.
LEMMA MetAsWritten ==
  ASSUME NEW messages \in Nat, NEW D \in Seq(Units), NEW T \in Seq(Units), Prefix(D, T),
         NEW s \in Seq(Units), NEW found, NEW m, NEW order,
         ReadAt(messages, D, s, found, m, order),
         NEW c \in Nat, NEW lock, NEW next, NEW off, NEW n, NEW line,
         WriteAt(messages, T, c, lock, next, off, n, line), Part(lock, off) \in 0..FrameSize,
         Len(s) > 0
  PROVE  /\ m + 1 \in 1..n /\ line[m + 1] \in Ids(messages)
         /\ \A i \in 1..FrameSize :
              i <= Len(s) => s[i] = Unit(line[m + 1][1], line[m + 1][2], i)
<1> DEFINE F == FrameSize
           p == m * F
<1>1. /\ m \in Nat /\ Len(D) = p + Len(s)
      /\ \A i \in 1..Len(s) : s[i] = D[p + i]
  BY DEF ReadAt
<1>2. /\ line \in [1..n -> Ids(messages)]
      /\ \A k \in 1..n : \A i \in 1..F :
           (k - 1) * F + i <= Len(T) => T[(k - 1) * F + i] = Unit(line[k][1], line[k][2], i)
  BY DEF WriteAt
<1>3. n \in Nat /\ Len(T) \in Nat /\ Len(T) <= n * F
  BY WrittenLength
<1>4. p \in Nat /\ n * F \in Nat /\ (n <= m => n * F <= p) /\ F \in Nat
  BY <1>1, <1>3, Frames, Sizes
<1>5. Len(D) \in Nat /\ Len(s) \in Nat /\ Len(D) <= Len(T) /\ \A i \in 1..Len(D) : T[i] = D[i]
  BY DEF Prefix
<1>6. m + 1 \in 1..n
  <2> DEFINE q == n * F
  <2> HIDE DEF p, q
  <2>1. ~(q <= p)
    BY <1>1, <1>3, <1>4, <1>5 DEF q
  <2>2. ~(n <= m)
    BY <1>4, <2>1 DEF q
  <2> QED
    BY <1>1, <1>3, <2>2
<1>7. ASSUME NEW i \in 1..F, i <= Len(s)
      PROVE  s[i] = Unit(line[m + 1][1], line[m + 1][2], i)
  <2> HIDE DEF p
  <2>2. i \in 1..Len(s) /\ p + i \in 1..Len(D) /\ p + i <= Len(T)
    BY <1>1, <1>4, <1>5, <1>7
  <2>3. s[i] = D[p + i] /\ D[p + i] = T[p + i]
    BY <1>1, <1>5, <2>2
  <2> DEFINE k == m + 1
  <2>6. k \in 1..n /\ k - 1 = m
    BY <1>1, <1>6
  <2> HIDE DEF k
  <2>4. k \in 1..n /\ (k - 1) * F = p
    BY <2>6 DEF p
  <2>5. T[(k - 1) * F + i] = Unit(line[k][1], line[k][2], i)
    BY <1>2, <2>2, <2>4
  <2> QED
    BY <2>3, <2>4, <2>5 DEF k
<1> QED
  BY <1>2, <1>6, <1>7

\* The frames read are the first ones written.
LEMMA ReadAsWritten ==
  ASSUME NEW messages \in Nat, NEW D \in Seq(Units), NEW T \in Seq(Units), Prefix(D, T),
         NEW s \in Seq(Units), NEW found, NEW m, NEW order,
         ReadAt(messages, D, s, found, m, order),
         NEW c \in Nat, NEW lock, NEW next, NEW off, NEW n, NEW line,
         WriteAt(messages, T, c, lock, next, off, n, line), Part(lock, off) \in 0..FrameSize
  PROVE  m \in 0..n /\ \A k \in 1..m : order[k] = line[k]
<1> DEFINE F == FrameSize
           p == m * F
<1>1. /\ m \in Nat /\ Len(D) = p + Len(s) /\ order \in [1..m -> Ids(messages)]
      /\ \A k \in 1..m : \A i \in 1..F : D[(k - 1) * F + i] = Unit(order[k][1], order[k][2], i)
  BY DEF ReadAt
<1>2. /\ line \in [1..n -> Ids(messages)]
      /\ \A k \in 1..n : \A i \in 1..F :
           (k - 1) * F + i <= Len(T) => T[(k - 1) * F + i] = Unit(line[k][1], line[k][2], i)
  BY DEF WriteAt
<1>3. n \in Nat /\ Len(T) \in Nat /\ Len(T) <= n * F
  BY WrittenLength
<1>4. p \in Nat /\ n * F \in Nat /\ (n < m => n * F + F <= p) /\ F \in Nat /\ F >= 2 /\ Magic + 1 \in 1..F
  BY <1>1, <1>3, Frames, Sizes
<1>5. Len(D) \in Nat /\ Len(s) \in Nat /\ Len(D) <= Len(T) /\ \A i \in 1..Len(D) : T[i] = D[i]
  BY DEF Prefix
<1>6. m <= n
  <2> DEFINE q == n * F
  <2> HIDE DEF p, q
  <2>1. ~(q + F <= p)
    BY <1>1, <1>3, <1>4, <1>5 DEF q
  <2> QED
    BY <1>1, <1>3, <1>4, <2>1 DEF q
<1>7. ASSUME NEW k \in 1..m PROVE order[k] = line[k]
  <2> DEFINE r == (k - 1) * F
  <2>1. k - 1 \in Nat /\ m \in Nat /\ k - 1 < m
    BY <1>1
  <2>2. r \in Nat /\ r + F <= p
    BY <2>1, Frames
  <2>3. D[r + (Magic + 1)] = Unit(order[k][1], order[k][2], Magic + 1)
    BY <1>1, <1>4
  <2>4. k \in 1..n
    BY <1>1, <1>3, <1>6
  <2>5. r + (Magic + 1) \in 1..Len(D)
    <3> HIDE DEF r, p
    <3> QED
      BY <1>1, <1>4, <1>5, <2>2, SMTT(40)
  <2>6. r + (Magic + 1) <= Len(T)
    <3> HIDE DEF r
    <3> QED
      BY <1>3, <1>4, <1>5, <2>2, <2>5, SMTT(40)
  <2>7. T[r + (Magic + 1)] = Unit(line[k][1], line[k][2], Magic + 1)
    BY <1>2, <1>4, <2>4, <2>6
  <2>8. T[r + (Magic + 1)] = D[r + (Magic + 1)]
    BY <1>5, <2>5
  <2>9. order[k] \in Ids(messages) /\ line[k] \in Ids(messages)
    BY <1>1, <1>2, <2>4
  <2>10. order[k] \in Writers \X Nat /\ line[k] \in Writers \X Nat
    BY <2>9 DEF Ids
  <2>11. Unit(order[k][1], order[k][2], Magic + 1) = Unit(line[k][1], line[k][2], Magic + 1)
    BY <2>3, <2>7, <2>8
  <2> QED
    BY <2>10, <2>11, UnitTells
<1> QED
  BY <1>1, <1>3, <1>6, <1>7

\* On a device that works no iteration reports anything.
LEMMA StepOfWritten ==
  ASSUME NEW D \in Seq(Units), NEW T \in Seq(Units), Prefix(D, T), Messages \in Nat,
         NEW x \in ScanStates, ~x.failed,
         NEW m, NEW order, ReadAt(Messages, D, x.stream, x.seen, m, order),
         NEW c \in Nat, NEW lock, NEW next, NEW off, NEW n, NEW line,
         WriteAt(Messages, T, c, lock, next, off, n, line), Part(lock, off) \in 0..FrameSize
  PROVE  ~ScanStep(x).failed
<1> DEFINE s == x.stream
           id == line[m + 1]
           jd == <<s[Magic + 1][1], s[Magic + 1][2]>>
           ok == FrameOK(s, x.seen)
<1>1. s \in Seq(Units) /\ Len(s) \in Nat
  BY DEF ScanStates
<1>2. CASE Waiting(s)
  BY <1>2, ScanStepShortens
<1>3. CASE ~Waiting(s)
  <2>1. Len(s) >= Header /\ Len(s) > 0 /\ Len(s) >= Magic + 1
    BY <1>1, <1>3, Sizes DEF Waiting
  <2>2. /\ m + 1 \in 1..n /\ id \in Ids(Messages)
        /\ \A i \in 1..FrameSize : i <= Len(s) => s[i] = Unit(id[1], id[2], i)
    BY <1>1, <2>1, MetAsWritten
  <2>3. m \in 0..n /\ \A k \in 1..m : order[k] = line[k]
    BY <1>1, ReadAsWritten
  <2> HIDE DEF s
  <2>4. \A i \in 1..Header : s[i] = Unit(id[1], id[2], i)
    BY <1>1, <2>1, <2>2, Sizes
  <2>5. MagicAt(s, 0)
    <3>1. ASSUME NEW i \in 1..Magic PROVE s[0 + i] = Unit(NoThread, 0, i)
      <4>1. i \in 1..Header /\ 0 + i = i /\ i <= Magic
        BY Sizes
      <4>2. s[i] = Unit(id[1], id[2], i)
        BY <2>4, <4>1
      <4> QED
        BY <4>1, <4>2 DEF Unit
    <3> QED
      BY <3>1 DEF MagicAt
  <2>6. LengthOK(s)
    <3>1. ASSUME NEW i \in Magic + 1..Header PROVE s[i][3] = i
      <4>1. i \in 1..Header /\ ~(i <= Magic)
        BY Sizes
      <4>2. s[i] = Unit(id[1], id[2], i)
        BY <2>4, <4>1
      <4> QED
        BY <4>1, <4>2 DEF Unit
    <3> QED
      BY <3>1 DEF LengthOK
  <2>7. Len(s) >= FrameSize
    BY <1>1, <1>3, <2>5, <2>6, Sizes DEF Waiting
  <2>8. jd = id
    <3>1. Magic + 1 \in 1..Header /\ ~(Magic + 1 <= Magic)
      BY Sizes
    <3>2. s[Magic + 1] = <<id[1], id[2], Magic + 1>>
      BY <2>4, <3>1 DEF Unit
    <3>3. jd = <<id[1], id[2]>>
      BY <3>2
    <3> QED
      BY <2>2, <3>3 DEF Ids
  <2>9. id \notin x.seen
    <3>1. x.seen = {order[k] : k \in 1..m}
      BY DEF ReadAt
    <3>2. \A j, k \in 1..n : line[j] = line[k] => j = k
      BY DEF WriteAt
    <3>3. ASSUME NEW k \in 1..m PROVE order[k] # id
      <4>1. k \in 1..n /\ k # m + 1
        <5>1. n \in Nat /\ m \in Nat
          BY WrittenLength DEF ReadAt
        <5> QED
          BY <2>3, <5>1
      <4> QED
        BY <2>2, <2>3, <3>2, <4>1
    <3> QED
      BY <3>1, <3>3
  <2>10. SubSeq(s, 1, FrameSize) = Frame(id[1], id[2])
    <3>1. FrameSize \in 0..Len(s)
      BY <1>1, <2>7, Sizes
    <3>2. /\ SubSeq(s, 1, FrameSize) \in Seq(Units) /\ Len(SubSeq(s, 1, FrameSize)) = FrameSize
          /\ \A i \in 1..FrameSize : SubSeq(s, 1, FrameSize)[i] = s[i]
      BY <1>1, <3>1, HeadSeq
    <3>3. \A i \in 1..FrameSize : s[i] = Unit(id[1], id[2], i)
      BY <1>1, <2>2, <2>7, Sizes
    <3> DEFINE h == SubSeq(s, 1, FrameSize)
    <3> HIDE DEF h, id
    <3>4. h = [i \in 1..FrameSize |-> h[i]]
      BY <3>2 DEF h
    <3>5. h = [i \in 1..FrameSize |-> Unit(id[1], id[2], i)]
      BY <3>2, <3>3, <3>4 DEF h
    <3> QED
      BY <3>5 DEF h, Frame
  <2>11. ok
    <3> HIDE DEF id
    <3>1. jd \in Ids(Messages) /\ jd \notin x.seen /\ SubSeq(s, 1, FrameSize) = Frame(jd[1], jd[2])
      BY <2>2, <2>8, <2>9, <2>10
    <3> QED
      BY <3>1 DEF FrameOK, Ids
  <2> HIDE DEF ok
  <2>12. s = x.stream
    BY DEF s
  <2>13. ScanStep(x).failed = (x.failed \/ ~ok)
    <3>1. ScanStep(x) = [stream |-> Drop(s, FrameSize),
               seen |-> IF ok THEN x.seen \cup {jd} ELSE x.seen, failed |-> x.failed \/ ~ok]
      BY <1>3, <2>5, <2>6, <2>12 DEF ScanStep, ok
    <3> QED
      BY <3>1
  <2> QED
    BY <2>11, <2>13
<1> QED
  BY <1>2, <1>3

\* On a device that works the scan reports nothing, and forgets no frame.
LEMMA ScanOfWritten ==
  ASSUME NEW D \in Seq(Units), NEW T \in Seq(Units), Prefix(D, T), Messages \in Nat,
         NEW s \in Seq(Units), NEW found \in SUBSET Ids(Messages),
         IsRead(Messages, D, s, found),
         NEW c \in Nat, NEW lock, NEW next, NEW off, IsWritten(Messages, T, c, lock, next, off),
         Part(lock, off) \in 0..FrameSize
  PROVE  ~Scan(s, found, FALSE).failed /\ found \subseteq Scan(s, found, FALSE).seen
<1> DEFINE G == {x \in ScanStates : /\ ~x.failed /\ IsRead(Messages, D, x.stream, x.seen)
                                    /\ found \subseteq x.seen}
<1>1. [stream |-> s, seen |-> found, failed |-> FALSE] \in G
  BY DEF ScanStates
<1>2. ASSUME NEW x \in G PROVE ScanStep(x) \in G
  <2>1. x \in ScanStates /\ ScanStep(x) \in ScanStates
    BY ScanStepShortens
  <2>2. ~x.failed /\ IsRead(Messages, D, x.stream, x.seen) /\ found \subseteq x.seen
    OBVIOUS
  <2>3. PICK m, order : ReadAt(Messages, D, x.stream, x.seen, m, order)
    BY <2>2 DEF IsRead
  <2>4. PICK n, line : WriteAt(Messages, T, c, lock, next, off, n, line)
    BY DEF IsWritten
  <2>5. ~ScanStep(x).failed
    BY <2>1, <2>2, <2>3, <2>4, StepOfWritten
  <2>6. IsRead(Messages, D, ScanStep(x).stream, ScanStep(x).seen) /\ found \subseteq ScanStep(x).seen
    <3>1. CASE ScanStep(x) = x
      BY <2>2, <3>1
    <3>2. CASE ScanStep(x) # x
      <4>1. PICK id \in Ids(Messages) :
              /\ id \notin x.seen /\ Len(x.stream) >= FrameSize
              /\ \A i \in 1..FrameSize : x.stream[i] = Unit(id[1], id[2], i)
              /\ ScanStep(x).stream = Drop(x.stream, FrameSize)
              /\ ScanStep(x).seen = x.seen \cup {id}
        BY <2>1, <2>5, <3>2, UnfailedStep
      <4>2. x.stream \in Seq(Units)
        BY <2>1 DEF ScanStates
      <4>3. IsRead(Messages, D, Drop(x.stream, FrameSize), x.seen \cup {id})
        BY <2>3, <4>1, <4>2, ReadMore
      <4> QED
        BY <2>2, <4>1, <4>3
    <3> QED
      BY <3>1, <3>2
  <2> QED
    BY <2>1, <2>5, <2>6
<1>3. G \in SUBSET ScanStates
  OBVIOUS
<1>4. Scan(s, found, FALSE) \in G
  BY <1>1, <1>2, <1>3, ScanIn
<1> QED
  BY <1>4

-----------------------------------------------------------------------------
(***************************************************************************)
(* What the calls of the device do.                                        *)
(***************************************************************************)
LEMMA FrameSeq ==
  ASSUME NEW w \in Writers, NEW k \in Nat
  PROVE  /\ Frame(w, k) \in Seq(Units) /\ Len(Frame(w, k)) = FrameSize
         /\ \A i \in 1..FrameSize : Frame(w, k)[i] = Unit(w, k, i)
<1>1. \A i \in 1..FrameSize : Unit(w, k, i) \in Units
  <2>1. w \in Threads \cup {NoThread} /\ NoThread \in Threads \cup {NoThread} /\ 0 \in Nat
    BY DEF Threads
  <2> QED
    BY <2>1 DEF Unit, Units
<1>2. Frame(w, k) = [i \in 1..FrameSize |-> Unit(w, k, i)]
  BY DEF Frame
<1>3. FrameSize \in Nat
  BY Sizes
<1> QED
  BY <1>1, <1>2, <1>3

\* n units of w's frame went into the device, behind what it held.
Written(w, n) ==
  /\ n \in Nat /\ offset[w] + n <= FrameSize
  /\ offset' = [offset EXCEPT ![w] = offset[w] + n]
  /\ capacity' = capacity
  /\ device' \in Seq(Units)
  /\ Len(device') = Len(device) + n /\ Len(device') <= capacity
  /\ \A i \in 1..Len(device) : device'[i] = device[i]
  /\ \A i \in 1..n : device'[Len(device) + i] = Unit(w, sequence[w], offset[w] + i)

\* A write(2) puts what fits of the frame behind what the device holds.
LEMMA WriteEffect ==
  ASSUME TypeOK, NEW w \in Writers, WriteSome(w)
  PROVE  \E n : Written(w, n)
<1> DEFINE k == sequence[w]
           o == offset[w]
           rest == Drop(Frame(w, k), o)
           room == capacity - Len(device)
           n == Device!Lesser(Len(rest), room)
           model == [capacity |-> capacity, data |-> device]
<1>1. /\ o < FrameSize /\ Device!Write(rest, IF n = 0 THEN -Device!EAGAIN ELSE n)
      /\ offset' = [offset EXCEPT ![w] = offset[w] + n]
  BY DEF WriteSome
<1>2. /\ k \in Nat /\ o \in 0..FrameSize /\ FrameSize \in Nat
      /\ device \in Seq(Units) /\ Len(device) \in Nat /\ room \in Nat /\ capacity \in Nat
  BY Sizes, StressAssumption DEF TypeOK
<1>3. /\ Frame(w, k) \in Seq(Units) /\ Len(Frame(w, k)) = FrameSize
      /\ \A i \in 1..FrameSize : Frame(w, k)[i] = Unit(w, k, i)
  BY <1>2, FrameSeq
<1>4. /\ rest \in Seq(Units) /\ Len(rest) = FrameSize - o
      /\ \A i \in 1..FrameSize - o : rest[i] = Frame(w, k)[o + i]
  BY <1>2, <1>3, DropSeq
<1> HIDE DEF rest, room
<1>5. n \in Nat /\ n <= FrameSize - o /\ n <= room /\ (n = Len(rest) \/ n = room)
  BY <1>2, <1>4 DEF Device!Lesser
<1>6. /\ capacity' = Device!ApplyWrite(model, rest).model.capacity
      /\ device' = Device!ApplyWrite(model, rest).model.data
  BY <1>1 DEF Device!Write, Device!Answer, Device!Model
<1>7. rest # << >>
  BY <1>1, <1>2, <1>4
<1>8. Device!Lesser(Len(rest), model.capacity - Len(model.data)) = n
  BY DEF room
<1>9. CASE n = 0
  <2>1. Device!ApplyWrite(model, rest).model = model
    BY <1>7, <1>8, <1>9 DEF Device!ApplyWrite
  <2>2. capacity' = capacity /\ device' = device
    BY <1>6, <2>1
  <2> HIDE DEF n
  <2>3. offset[w] + n <= FrameSize /\ Len(device) <= capacity
    BY <1>2, <1>5, <1>9 DEF TypeOK
  <2>4. Len(device') = Len(device) + n /\ Len(device') <= capacity
    BY <1>2, <1>9, <2>2, <2>3
  <2>5. Written(w, n)
    BY <1>1, <1>2, <1>5, <1>9, <2>2, <2>3, <2>4 DEF Written
  <2> QED
    BY <2>5
<1>10. CASE n # 0
  <2>1. Device!ApplyWrite(model, rest).model
          = [model EXCEPT !.data = model.data \o SubSeq(rest, 1, n)]
    BY <1>8, <1>10 DEF Device!ApplyWrite, Device!Front
  <2> DEFINE h == SubSeq(rest, 1, n)
  <2> HIDE DEF n
  <2>2. capacity' = capacity /\ device' = device \o h
    BY <1>6, <2>1
  <2>3. h \in Seq(Units) /\ Len(h) = n /\ \A i \in 1..n : h[i] = rest[i]
    <3>1. n \in 0..Len(rest)
      BY <1>2, <1>4, <1>5
    <3> QED
      BY <1>4, <3>1, HeadSeq
  <2> HIDE DEF h
  <2>4. /\ device' \in Seq(Units) /\ Len(device') = Len(device) + n
        /\ \A i \in 1..Len(device) : device'[i] = device[i]
        /\ \A i \in 1..n : device'[Len(device) + i] = h[i]
    <3>1. /\ device \o h \in Seq(Units) /\ Len(device \o h) = Len(device) + Len(h)
          /\ \A i \in 1..Len(device) : (device \o h)[i] = device[i]
          /\ \A i \in 1..Len(h) : (device \o h)[Len(device) + i] = h[i]
      <4>1. device \in Seq(Units) /\ h \in Seq(Units)
        BY <1>2, <2>3
      <4> QED
        BY <4>1, JoinSeq
    <3> QED
      BY <2>2, <2>3, <3>1
  <2>5. Len(device') <= capacity
    BY <1>2, <1>5, <2>4 DEF room
  <2> HIDE DEF k, o
  <2>6. ASSUME NEW i \in 1..n PROVE device'[Len(device) + i] = Unit(w, k, o + i)
    <3>1. i \in 1..FrameSize - o /\ o + i \in 1..FrameSize
      BY <1>2, <1>5
    <3> QED
      BY <1>3, <1>4, <2>3, <2>4, <3>1
  <2>7. o + n <= FrameSize
    BY <1>2, <1>5
  <2>8. Written(w, n)
    BY <1>1, <1>5, <2>2, <2>4, <2>5, <2>6, <2>7 DEF k, o, Written
  <2> QED
    BY <2>8
<1> QED
  BY <1>9, <1>10

\* out was the head of what the device held, and all of it if there was nothing.
Taken(out) ==
  /\ out \in Seq(Units)
  /\ capacity' = capacity
  /\ device' \in Seq(Units) /\ Len(device') <= Len(device)
  /\ out \o device' = device
  /\ out = << >> => Len(device) = 0

\* The reader gets what was taken, unless the device misbehaves.
Handed(r, out) ==
  \/ Deliver(r, out) /\ UNCHANGED faults
  \/ /\ out # << >> /\ faults < MaxFaults /\ faults' = faults + 1
     /\ \E bytes \in Misread(out) : Deliver(r, bytes)

\* A read(2) takes its bytes off the head of what the device holds.
LEMMA ReadEffect ==
  ASSUME TypeOK, NEW r \in Readers, Read(r)
  PROVE  \E out : Taken(out) /\ Handed(r, out)
<1> DEFINE n == Device!Lesser(ReadChunk, Len(device))
           out == SubSeq(device, 1, n)
           model == [capacity |-> capacity, data |-> device]
<1>1. /\ Device!Read(ReadChunk, IF n = 0 THEN -Device!EAGAIN ELSE n, out)
      /\ Handed(r, out)
  BY DEF Read, Handed
<1>2. device \in Seq(Units) /\ Len(device) \in Nat /\ ReadChunk \in Nat /\ ReadChunk > 0
  BY StressAssumption DEF TypeOK
<1>3. n \in 0..Len(device) /\ (n = 0 => Len(device) = 0)
  BY <1>2 DEF Device!Lesser
<1>4. /\ capacity' = Device!ApplyRead(model, ReadChunk).model.capacity
      /\ device' = Device!ApplyRead(model, ReadChunk).model.data
  BY <1>1 DEF Device!Read, Device!Answer, Device!Model
<1>5. Device!Lesser(ReadChunk, Len(model.data)) = n
  OBVIOUS
<1>6. out \in Seq(Units) /\ Len(out) = n
  BY <1>2, <1>3, HeadSeq
<1>7. /\ Drop(device, n) \in Seq(Units) /\ Len(Drop(device, n)) = Len(device) - n
      /\ out \o Drop(device, n) = device
  BY <1>2, <1>3, DropSeq, CutSeq
<1>8. CASE n = 0
  <2>1. Device!ApplyRead(model, ReadChunk).model = model
    BY <1>2, <1>5, <1>8 DEF Device!ApplyRead
  <2>2. capacity' = capacity /\ device' = device
    BY <1>4, <2>1
  <2>3. Len(device) = 0 /\ device = << >> /\ out = << >>
    BY <1>2, <1>3, <1>6, <1>8
  <2>4. out \o device' = device
    BY <2>2, <2>3
  <2>5. Taken(out)
    BY <1>2, <1>6, <2>2, <2>3, <2>4 DEF Taken
  <2> QED
    BY <1>1, <2>5
<1>9. CASE n # 0
  <2>1. Device!ApplyRead(model, ReadChunk).model
          = [model EXCEPT !.data = SubSeq(model.data, n + 1, Len(model.data))]
    BY <1>5, <1>9 DEF Device!ApplyRead, Device!Rest
  <2> HIDE DEF n
  <2>2. capacity' = capacity /\ device' = Drop(device, n)
    BY <1>4, <2>1 DEF Drop
  <2> HIDE DEF out
  <2>3. Len(device') <= Len(device) /\ out # << >>
    <3>1. Len(device') = Len(device) - n
      BY <1>7, <2>2
    <3>2. out # << >>
      BY <1>3, <1>6, <1>9
    <3> QED
      BY <1>2, <1>3, <3>1, <3>2
  <2>4. Taken(out)
    BY <1>6, <1>7, <2>2, <2>3 DEF Taken
  <2> QED
    BY <1>1, <2>4
<1> QED
  BY <1>8, <1>9

-----------------------------------------------------------------------------
(***************************************************************************)
(* Counting.                                                               *)
(***************************************************************************)
LEMMA IdsCount ==
  ASSUME NEW messages \in Nat
  PROVE  /\ IsFiniteSet(Ids(messages)) /\ Cardinality(Writers) \in Nat
         /\ Cardinality(Ids(messages)) = Cardinality(Writers) * messages
         /\ Cardinality(Writers) * messages \in Nat
<1>1. IsFiniteSet(Writers) /\ Cardinality(Writers) \in Nat
  BY StressAssumption, FS_CardinalityType
<1>2. IsFiniteSet(0..messages-1) /\ Cardinality(0..messages-1) = messages
  BY FS_Interval
<1>3. /\ IsFiniteSet(Ids(messages))
      /\ Cardinality(Ids(messages)) = Cardinality(Writers) * Cardinality(0..messages-1)
  BY <1>1, <1>2, FS_Product DEF Ids
<1> QED
  BY <1>1, <1>2, <1>3

\* A sequence of different things has as many as its length.
Lists(order, m, found) ==
  /\ m \in Nat /\ order \in [1..m -> found]
  /\ \A j, k \in 1..m : order[j] = order[k] => j = k
  /\ found = {order[k] : k \in 1..m}

LEMMA DifferentCount ==
  ASSUME NEW m, NEW order, NEW found, Lists(order, m, found)
  PROVE  IsFiniteSet(found) /\ Cardinality(found) = m
<1> USE DEF Lists
<1>1. order \in [1..m -> found]
  OBVIOUS
<1>2. order \in Injection(1..m, found)
  BY <1>1 DEF Injection, IsInjective
<1>3. order \in Surjection(1..m, found)
  BY <1>1 DEF Surjection
<1>4. ExistsBijection(1..m, found)
  BY <1>2, <1>3 DEF ExistsBijection, Bijection
<1>5. IsFiniteSet(1..m) /\ Cardinality(1..m) = m
  BY FS_Interval
<1> QED
  BY <1>4, <1>5, FS_Bijection

-----------------------------------------------------------------------------
(***************************************************************************)
(* What the steps make of the books of what was read and written.          *)
(***************************************************************************)
\* More is delivered and not scanned yet.
LEMMA ReadExtend ==
  ASSUME NEW messages, NEW D \in Seq(Units), NEW s \in Seq(Units), NEW found,
         IsRead(messages, D, s, found), NEW b \in Seq(Units)
  PROVE  IsRead(messages, D \o b, s \o b, found)
<1> DEFINE F == FrameSize
<1>1. PICK m, order : ReadAt(messages, D, s, found, m, order)
  BY DEF IsRead
<1> DEFINE p == m * F
           E == D \o b
           u == s \o b
<1>2. /\ m \in Nat /\ order \in [1..m -> Ids(messages)]
      /\ \A j, k \in 1..m : order[j] = order[k] => j = k
      /\ found = {order[k] : k \in 1..m}
      /\ \A k \in 1..m : \A i \in 1..F : D[(k - 1) * F + i] = Unit(order[k][1], order[k][2], i)
      /\ Len(D) = p + Len(s)
      /\ \A i \in 1..Len(s) : s[i] = D[p + i]
  BY <1>1 DEF ReadAt
<1>3. /\ Len(E) = Len(D) + Len(b)
      /\ \A i \in 1..Len(D) : E[i] = D[i]
      /\ \A i \in 1..Len(b) : E[Len(D) + i] = b[i]
  BY JoinSeq
<1>4. /\ Len(u) = Len(s) + Len(b)
      /\ \A i \in 1..Len(s) : u[i] = s[i]
      /\ \A i \in 1..Len(b) : u[Len(s) + i] = b[i]
  BY JoinSeq
<1>5. p \in Nat /\ F \in Nat /\ Len(D) \in Nat /\ Len(s) \in Nat /\ Len(b) \in Nat
  BY <1>2, Frames, Sizes
<1> HIDE DEF E, u
<1>6. ASSUME NEW k \in 1..m, NEW i \in 1..F
      PROVE  E[(k - 1) * F + i] = Unit(order[k][1], order[k][2], i)
  <2> DEFINE q == (k - 1) * F
  <2>1. k - 1 \in Nat /\ k - 1 < m
    BY <1>2
  <2>2. q \in Nat /\ q + F <= p
    BY <1>2, <2>1, Frames
  <2>3. D[q + i] = Unit(order[k][1], order[k][2], i)
    BY <1>2
  <2> HIDE DEF q, p
  <2>4. q + i \in 1..Len(D)
    BY <1>2, <1>5, <2>2
  <2>5. E[q + i] = Unit(order[k][1], order[k][2], i)
    BY <1>3, <2>3, <2>4
  <2> QED
    BY <2>5 DEF q
<1>7. ASSUME NEW i \in 1..Len(u) PROVE u[i] = E[p + i]
  <2> HIDE DEF p
  <2>1. CASE i <= Len(s)
    <3>1. i \in 1..Len(s) /\ p + i \in 1..Len(D)
      BY <1>2, <1>5, <2>1
    <3> QED
      BY <1>2, <1>3, <1>4, <3>1
  <2>2. CASE i > Len(s)
    <3> DEFINE j == i - Len(s)
    <3>1. j \in 1..Len(b) /\ i = Len(s) + j /\ p + i = Len(D) + j
      BY <1>2, <1>4, <1>5, <2>2
    <3> HIDE DEF j
    <3>2. u[i] = b[j] /\ E[p + i] = b[j]
      BY <1>3, <1>4, <3>1
    <3> QED
      BY <3>2
  <2> QED
    BY <1>5, <2>1, <2>2
<1>8. Len(E) = p + Len(u)
  <2> HIDE DEF p
  <2> QED
    BY <1>2, <1>3, <1>4, <1>5
<1> HIDE DEF F
<1>9. ReadAt(messages, E, u, found, m, order)
  BY <1>2, <1>6, <1>7, <1>8 DEF ReadAt, F
<1> QED
  BY <1>9 DEF IsRead, E, u

\* A writer begins a frame.
LEMMA WriteBegins ==
  ASSUME NEW messages \in Nat, NEW T, NEW c \in Nat, NEW next \in [Writers -> Nat],
         NEW off, NEW off2, NEW w \in Writers, next[w] < messages,
         IsWritten(messages, T, c, NoThread, next, off), off2[w] = 0
  PROVE  IsWritten(messages, T, c, w, next, off2)
<1> DEFINE F == FrameSize
           id == <<w, next[w]>>
           p == c * F
<1>1. PICK n, line : WriteAt(messages, T, c, NoThread, next, off, n, line)
  BY DEF IsWritten
<1>2. /\ n = c /\ line \in [1..c -> Ids(messages)]
      /\ \A j, k \in 1..c : line[j] = line[k] => j = k
      /\ \A v \in Writers, i \in 0..messages-1 :
           (\E k \in 1..c : line[k] = <<v, i>>) <=> i < next[v] \/ (v = NoThread /\ i = next[v])
      /\ Len(T) = p
      /\ \A k \in 1..c : \A i \in 1..F :
           (k - 1) * F + i <= Len(T) => T[(k - 1) * F + i] = Unit(line[k][1], line[k][2], i)
  <2>1. p \in Nat
    BY Frames
  <2>2. n = c /\ Part(NoThread, off) = 0
    BY <1>1 DEF WriteAt, Begun, Part
  <2>3. WriteAt(messages, T, c, NoThread, next, off, c, line)
    BY <1>1, <2>2
  <2>4. Len(T) = p + 0
    BY <2>2, <2>3 DEF WriteAt
  <2>5. Len(T) = p
    BY <2>1, <2>4
  <2> HIDE DEF p
  <2> QED
    BY <2>2, <2>3, <2>5 DEF WriteAt
<1>3. w # NoThread /\ \A v \in Writers : v # NoThread
  BY StressAssumption DEF Threads
<1> DEFINE long == [k \in 1..c+1 |-> IF k = c + 1 THEN id ELSE line[k]]
<1>4. id \in Ids(messages)
  BY DEF Ids
<1>5. /\ long \in [1..c+1 -> Ids(messages)]
      /\ long[c + 1] = id /\ \A k \in 1..c : long[k] = line[k]
      /\ \A k \in 1..c+1 : k # c + 1 => k \in 1..c
      /\ c + 1 \in 1..c+1 /\ \A k \in 1..c : k \in 1..c+1
  BY <1>2, <1>4
<1> HIDE DEF long
<1>6. \A k \in 1..c : line[k] # id
  <2>1. next[w] \in 0..messages-1 /\ ~(next[w] < next[w])
    OBVIOUS
  <2> QED
    BY <1>2, <1>3, <2>1
<1>7. \A j, k \in 1..c+1 : long[j] = long[k] => j = k
  BY <1>2, <1>5, <1>6
<1>8. ASSUME NEW v \in Writers, NEW i \in 0..messages-1
      PROVE  (\E k \in 1..c+1 : long[k] = <<v, i>>) <=> i < next[v] \/ (v = w /\ i = next[v])
  <2>1. (\E k \in 1..c : line[k] = <<v, i>>) <=> i < next[v]
    BY <1>2, <1>3
  <2>2. (\E k \in 1..c+1 : long[k] = <<v, i>>)
          <=> (\E k \in 1..c : line[k] = <<v, i>>) \/ id = <<v, i>>
    BY <1>5
  <2>3. id = <<v, i>> <=> v = w /\ i = next[v]
    OBVIOUS
  <2> QED
    BY <2>1, <2>2, <2>3
<1>9. ASSUME NEW k \in 1..c+1, NEW i \in 1..F, (k - 1) * F + i <= Len(T)
      PROVE  T[(k - 1) * F + i] = Unit(long[k][1], long[k][2], i)
  <2>1. CASE k # c + 1
    BY <1>2, <1>5, <1>9, <2>1
  <2>2. CASE k = c + 1
    <3>1. (k - 1) * F = p
      BY <2>2
    <3>2. p \in Nat
      BY Frames
    <3> QED
      BY <1>2, <1>9, <3>1, <3>2
  <2> QED
    BY <2>1, <2>2
<1>10. Len(T) = p + 0 /\ Part(w, off2) = 0 /\ Begun(c, w) = c + 1
  <2>1. p \in Nat
    BY Frames
  <2> QED
    BY <1>2, <1>3, <2>1 DEF Part, Begun
<1> HIDE DEF F
<1>11. WriteAt(messages, T, c, w, next, off2, c + 1, long)
  <2>1. Len(T) = c * FrameSize + Part(w, off2)
    BY <1>10 DEF F
  <2> QED
    BY <1>5, <1>7, <1>8, <1>9, <1>10, <2>1 DEF WriteAt, F
<1> QED
  BY <1>11 DEF IsWritten

\* U is T and q more units of w's frame k, from the one at o on.
Grown(T, U, w, k, o, q) ==
  /\ Len(U) = Len(T) + q /\ \A i \in 1..Len(T) : U[i] = T[i]
  /\ \A i \in 1..q : U[Len(T) + i] = Unit(w, k, o + i)

\* More of the frame is written.
LEMMA WriteGoesOn ==
  ASSUME NEW messages \in Nat, NEW T \in Seq(Units), NEW U \in Seq(Units), NEW c \in Nat,
         NEW next, NEW off, NEW off2, NEW w \in Writers,
         IsWritten(messages, T, c, w, next, off), off[w] \in Nat, NEW q \in Nat,
         off2[w] = off[w] + q, off[w] + q <= FrameSize,
         Grown(T, U, w, next[w], off[w], q)
  PROVE  IsWritten(messages, U, c, w, next, off2)
<1> USE DEF Grown
<1> DEFINE F == FrameSize
           p == c * F
           o == off[w]
<1>1. PICK n, line : WriteAt(messages, T, c, w, next, off, n, line)
  BY DEF IsWritten
<1>2. w # NoThread
  BY StressAssumption DEF Threads
<1>3. /\ n = c + 1 /\ line[n] = <<w, next[w]>> /\ Len(T) = p + o
      /\ \A k \in 1..n : \A i \in 1..F :
           (k - 1) * F + i <= Len(T) => T[(k - 1) * F + i] = Unit(line[k][1], line[k][2], i)
  BY <1>1, <1>2 DEF WriteAt, Begun, Part
<1>4. p \in Nat /\ F \in Nat /\ o \in Nat /\ Len(T) \in Nat
  BY Frames, Sizes
<1> HIDE DEF o
<1>5. ASSUME NEW k \in 1..n, NEW i \in 1..F, (k - 1) * F + i <= Len(U)
      PROVE  U[(k - 1) * F + i] = Unit(line[k][1], line[k][2], i)
  <2> DEFINE r == (k - 1) * F
  <2>1. k - 1 \in Nat /\ k - 1 <= c /\ r \in Nat
    <3>1. k - 1 \in Nat /\ k - 1 <= c
      BY <1>3
    <3> QED
      BY <3>1, Frames
  <2>2. CASE r + i <= Len(T)
    <3>1. T[r + i] = Unit(line[k][1], line[k][2], i)
      BY <1>3, <2>2
    <3> HIDE DEF r
    <3>2. r + i \in 1..Len(T)
      BY <1>4, <2>1, <2>2, SMTT(40)
    <3>3. U[r + i] = Unit(line[k][1], line[k][2], i)
      BY <3>1, <3>2
    <3> QED
      BY <3>3 DEF r
  <2>3. CASE r + i > Len(T)
    <3>1. k = n
      <4>1. k - 1 < c => r + F <= p
        BY <2>1, Frames
      <4> HIDE DEF r, p
      <4>2. ~(k - 1 < c)
        BY <1>3, <1>4, <2>1, <2>3, <4>1
      <4> QED
        BY <1>3, <2>1, <4>2
    <3>2. r = p
      <4>1. k - 1 = c
        BY <1>3, <3>1
      <4> QED
        BY <4>1
    <3> HIDE DEF r, p
    <3> DEFINE j == i - o
    <3>3. j \in 1..q /\ r + i = Len(T) + j /\ o + j = i
      <4>1. r + i <= Len(T) + q
        BY <1>5 DEF r
      <4> QED
        BY <1>3, <1>4, <2>3, <3>2, <4>1
    <3> HIDE DEF j
    <3>4. U[Len(T) + j] = Unit(w, next[w], o + j)
      BY <3>3 DEF o
    <3>5. U[r + i] = Unit(w, next[w], i)
      BY <3>3, <3>4
    <3>6. line[k][1] = w /\ line[k][2] = next[w]
      BY <1>3, <3>1
    <3> QED
      BY <3>5, <3>6 DEF r
  <2> QED
    <3> HIDE DEF r
    <3> QED
      BY <1>4, <2>1, <2>2, <2>3
<1>6. Len(U) = p + Part(w, off2)
  <2>1. Part(w, off2) = o + q
    BY <1>2 DEF Part, o
  <2> HIDE DEF p
  <2> QED
    BY <1>3, <1>4, <2>1
<1> HIDE DEF F
<1>7. WriteAt(messages, U, c, w, next, off2, n, line)
  <2>1. Len(U) = c * FrameSize + Part(w, off2)
    BY <1>6 DEF F
  <2> QED
    BY <1>1, <1>5, <2>1 DEF WriteAt, F
<1> QED
  BY <1>7 DEF IsWritten

\* The frame is whole, and counted.
LEMMA WriteEnds ==
  ASSUME NEW messages \in Nat, NEW T, NEW c \in Nat, NEW next \in [Writers -> Nat],
         NEW off, NEW next2, NEW w \in Writers, next2 = [next EXCEPT ![w] = next[w] + 1],
         IsWritten(messages, T, c, w, next, off), off[w] = FrameSize
  PROVE  IsWritten(messages, T, c + 1, NoThread, next2, off)
<1>1. PICK n, line : WriteAt(messages, T, c, w, next, off, n, line)
  BY DEF IsWritten
<1>2. w # NoThread /\ \A v \in Writers : v # NoThread
  BY StressAssumption DEF Threads
<1>3. n = c + 1 /\ Len(T) = c * FrameSize + FrameSize
  BY <1>1, <1>2 DEF WriteAt, Begun, Part
<1>4. n = Begun(c + 1, NoThread)
  BY <1>3 DEF Begun
<1>5. Len(T) = (c + 1) * FrameSize + Part(NoThread, off)
  <2>1. (c + 1) * FrameSize = c * FrameSize + FrameSize /\ c * FrameSize \in Nat
    BY Frames
  <2> DEFINE p == c * FrameSize
             r == (c + 1) * FrameSize
  <2>2. r = p + FrameSize /\ p \in Nat /\ FrameSize \in Nat /\ Len(T) = p + FrameSize
    BY <1>3, <2>1, Sizes
  <2> HIDE DEF p, r
  <2>3. Len(T) = r + Part(NoThread, off)
    BY <2>2 DEF Part
  <2> QED
    BY <2>3 DEF r
<1>6. ASSUME NEW v \in Writers, NEW i \in 0..messages-1
      PROVE  (\E k \in 1..n : line[k] = <<v, i>>)
               <=> i < next2[v] \/ (v = NoThread /\ i = next2[v])
  <2>1. (\E k \in 1..n : line[k] = <<v, i>>) <=> i < next[v] \/ (v = w /\ i = next[v])
    BY <1>1 DEF WriteAt
  <2>2. next2[v] = IF v = w THEN next[v] + 1 ELSE next[v]
    OBVIOUS
  <2>3. next[v] \in Nat /\ v # NoThread
    BY <1>2
  <2>4. i < next2[v] <=> i < next[v] \/ (v = w /\ i = next[v])
    BY <2>2, <2>3
  <2> QED
    BY <2>1, <2>3, <2>4
<1>7. WriteAt(messages, T, c + 1, NoThread, next2, off, n, line)
  BY <1>1, <1>4, <1>5, <1>6 DEF WriteAt
<1> QED
  BY <1>7 DEF IsWritten

-----------------------------------------------------------------------------
(***************************************************************************)
(* The initial states.                                                     *)
(***************************************************************************)
LEMMA InitInv == Init => Inv
<1> SUFFICES ASSUME Init PROVE Inv
  OBVIOUS
<1>1. /\ test \in Tests /\ test.leftover \in Seq(Units) /\ Len(test.leftover) <= DeviceCapacity
      /\ FrameSize \in Nat /\ FrameSize > 0 /\ Messages \in Nat /\ DeviceCapacity \in Nat
  BY Sizes, StressAssumption DEF Init, Messages
<1>2. TypeOK
  <2>1. << >> \in Seq(Units) /\ Len(<< >>) = 0
    OBVIOUS
  <2>2. /\ pc \in [Threads -> WriterPlaces \cup ReaderPlaces]
        /\ sequence \in [Writers -> Nat] /\ offset \in [Writers -> 0..FrameSize]
        /\ got \in [Readers -> Seq(Units)] /\ idle \in [Readers -> Nat]
    BY <1>1, <2>1 DEF Init, WriterPlaces, ReaderPlaces
  <2>3. /\ seen \subseteq Ids(Messages) /\ stream \in Seq(Units) /\ Len(stream) < FrameSize
        /\ delivered \in Seq(Units) /\ device \in Seq(Units) /\ Len(device) <= capacity
        /\ capacity = DeviceCapacity
    BY <1>1, <2>1 DEF Init
  <2> QED
    BY <1>1, <2>2, <2>3 DEF Init, TypeOK
<1>3. NoThread \notin Threads /\ Writers \subseteq Threads /\ Readers \subseteq Threads
  BY StressAssumption DEF Threads
<1>4. ThreadInv
  BY <1>1, <1>3 DEF Init, ThreadInv, WriterOK, ReaderOK, WriterPlaces, ReaderPlaces
<1>5. ReadInv
  <2> DEFINE none == [k \in 1..0 |-> NoThread]
  <2>1. Unscanned(stream, read_lock, got) = << >>
    BY DEF Init, Unscanned
  <2>2. Len(<< >>) = 0 * FrameSize + Len(<< >>)
    BY <1>1
  <2>3. none \in [1..0 -> Ids(Messages)] /\ {} = {none[k] : k \in 1..0}
    OBVIOUS
  <2> HIDE DEF none
  <2>4. ReadAt(Messages, << >>, << >>, {}, 0, none)
    BY <2>2, <2>3 DEF ReadAt
  <2> QED
    BY <2>1, <2>4 DEF Init, ReadInv, IsRead
<1>6. PassInv
  BY DEF Init, PassInv
<1>7. SoundInv
  <2> SUFFICES ASSUME Healthy PROVE QuietInv /\ WriteInv /\ DoneInv /\ IdleInv
    BY DEF SoundInv
  <2>1. QuietInv
    BY DEF Init, QuietInv
  <2>2. DoneInv
    <3>1. {w \in Writers : pc[w] = "exit"} = {}
      BY <1>3 DEF Init
    <3> QED
      BY <1>3, <3>1, FS_EmptySet DEF Init, DoneInv
  <2>3. IdleInv
    BY <1>3 DEF Init, IdleInv
  <2>4. WriteInv
    <3> DEFINE none == [k \in 1..0 |-> NoThread]
    <3>1. none \in [1..0 -> Ids(Messages)]
      OBVIOUS
    <3>2. << >> \o << >> = << >> /\ delivered \o device = << >>
      BY DEF Init, Healthy
    <3>3. ASSUME NEW w \in Writers, NEW i \in 0..Messages-1
          PROVE  (\E k \in 1..0 : none[k] = <<w, i>>)
                   <=> i < sequence[w] \/ (w = NoThread /\ i = sequence[w])
      BY <1>3 DEF Init
    <3>4. Len(<< >>) = 0 * FrameSize + 0
      BY <1>1
    <3> HIDE DEF none
    <3>5. WriteAt(Messages, << >>, 0, NoThread, sequence, offset, 0, none)
      BY <3>1, <3>3, <3>4 DEF WriteAt, Begun, Part
    <3> QED
      BY <3>2, <3>5 DEF Init, WriteInv, IsWritten
  <2> QED
    BY <2>1, <2>2, <2>3, <2>4
<1> QED
  BY <1>2, <1>4, <1>5, <1>6, <1>7 DEF Inv

-----------------------------------------------------------------------------
(***************************************************************************)
(* Types.                                                                  *)
(***************************************************************************)
Places == WriterPlaces \cup ReaderPlaces

\* Thread t goes to l and the others stay.
Moved(t, l) == pc' = [pc EXCEPT ![t] = l]

LEMMA Moves ==
  ASSUME pc \in [Threads -> Places], NEW t \in Threads, NEW l \in Places, Moved(t, l)
  PROVE  /\ pc' \in [Threads -> Places] /\ pc'[t] = l
         /\ \A u \in Threads : u # t => pc'[u] = pc[u]
BY DEF Moved

LEMMA PlacesAre ==
  /\ {"none", "start", "loop", "lock", "write", "failed", "exit", "read", "append", "appended",
      "nothing", "idle"} = Places
  /\ Writers \subseteq Threads /\ Readers \subseteq Threads /\ NoThread \notin Threads
  /\ Writers \cap Readers = {}
BY StressAssumption DEF Places, WriterPlaces, ReaderPlaces, Threads

LEMMA TypeMain ==
  ASSUME TypeOK, NEW t \in Threads,
         Create(t) \/ CreateFails(t) \/ Start(t) \/ StartFails(t) \/ GiveUp(t) \/ Join
  PROVE  TypeOK'
<1>1. CASE Create(t)
  BY <1>1, PlacesAre DEF TypeOK, Create, Goto, Places, Messages, deviceVars, writerVars, readerVars
<1>2. CASE CreateFails(t)
  BY <1>2, PlacesAre DEF TypeOK, CreateFails, Goto, Places, Messages, deviceVars, writerVars, readerVars
<1>3. CASE Start(t)
  BY <1>3, PlacesAre DEF TypeOK, Start, Goto, Places, Messages, deviceVars, writerVars, readerVars, mainVars
<1>4. CASE StartFails(t)
  BY <1>4, PlacesAre DEF TypeOK, StartFails, StopAll, Goto, Places, Messages, deviceVars, writerVars, readerVars, mainVars
<1>5. CASE GiveUp(t)
  BY <1>5, PlacesAre DEF TypeOK, GiveUp, StopAll, Goto, Places, Messages, deviceVars, writerVars, readerVars, mainVars
<1>6. CASE Join
  BY <1>6 DEF TypeOK, Join, Places, Messages, deviceVars, writerVars, readerVars
<1> QED
  BY <1>1, <1>2, <1>3, <1>4, <1>5, <1>6

LEMMA TypeWriter ==
  ASSUME TypeOK, NEW w \in Writers, WriterStep(w)
  PROVE  TypeOK'
<1> USE DEF Goto, Places, Messages, deviceVars, writerVars, readerVars, mainVars
<1>0. w \in Threads /\ FrameSize \in Nat
  BY PlacesAre, Sizes
<1>1. CASE NextMessage(w)
  <2>1. /\ \E l \in Places : pc' = [pc EXCEPT ![w] = l]
        /\ done' = done \/ done' = done + 1
    BY <1>1, PlacesAre DEF NextMessage
  <2>2. pc' \in [Threads -> Places] /\ done' \in Nat
    BY <1>0, <2>1 DEF TypeOK
  <2> QED
    BY <1>1, <2>2 DEF TypeOK, NextMessage
<1>2. CASE LockWrites(w)
  <2>1. offset' \in [Writers -> 0..FrameSize]
    BY <1>0, <1>2 DEF TypeOK, LockWrites
  <2>2. pc' \in [Threads -> Places]
    BY <1>0, <1>2, PlacesAre DEF TypeOK, LockWrites
  <2> QED
    BY <1>2, <2>1, <2>2 DEF TypeOK, LockWrites, FrameLock
<1>3. CASE WriteSome(w)
  <2>1. PICK n : Written(w, n)
    BY <1>3, WriteEffect
  <2>2. /\ offset[w] \in 0..FrameSize /\ offset \in [Writers -> 0..FrameSize]
        /\ offset[w] + n \in 0..FrameSize
    BY <1>0, <2>1 DEF TypeOK, Written
  <2>3. /\ offset' \in [Writers -> 0..FrameSize] /\ capacity' = capacity /\ device' \in Seq(Units)
        /\ Len(device') <= capacity
    BY <2>1, <2>2 DEF Written
  <2> QED
    BY <1>3, <2>3 DEF TypeOK, WriteSome
<1>4. CASE FrameWritten(w)
  BY <1>0, <1>4, PlacesAre DEF TypeOK, FrameWritten
<1>5. CASE FrameCancelled(w)
  BY <1>0, <1>5, PlacesAre DEF TypeOK, FrameCancelled
<1>6. CASE WriteError(w)
  BY <1>0, <1>6, PlacesAre DEF TypeOK, WriteError
<1>7. CASE GiveUp(w)
  BY <1>0, <1>7, TypeMain
<1> QED
  BY <1>1, <1>2, <1>3, <1>4, <1>5, <1>6, <1>7 DEF WriterStep

\* Whatever the device makes of the bytes, they are units.
LEMMA MisreadUnits ==
  ASSUME NEW out \in Seq(Units), out # << >>, NEW bytes \in Misread(out)
  PROVE  bytes \in Seq(Units)
<1>1. Tail(out) \in Seq(Units)
  OBVIOUS
<1>2. <<out[1]>> \o out \in Seq(Units)
  <2>1. out[1] \in Units
    OBVIOUS
  <2>2. <<out[1]>> \in Seq(Units)
    BY <2>1
  <2> QED
    BY <2>2
<1>3. [i \in 1..Len(out) |-> out[Len(out) + 1 - i]] \in Seq(Units)
  <2>1. \A i \in 1..Len(out) : out[Len(out) + 1 - i] \in Units
    <3>1. \A i \in 1..Len(out) : Len(out) + 1 - i \in 1..Len(out)
      OBVIOUS
    <3> QED
      BY <3>1
  <2>2. Len(out) \in Nat
    OBVIOUS
  <2> QED
    BY <2>1, <2>2
<1> QED
  BY <1>1, <1>2, <1>3 DEF Misread

\* What a read hands out.
LEMMA HandedUnits ==
  ASSUME NEW r, NEW out \in Seq(Units), Handed(r, out)
  PROVE  /\ faults' = faults \/ faults' = faults + 1
         /\ \E bytes \in Seq(Units) : Deliver(r, bytes)
BY MisreadUnits DEF Handed

LEMMA TypeReader ==
  ASSUME TypeOK, NEW r \in Readers, ReaderStep(r)
  PROVE  TypeOK'
<1> USE DEF Goto, Places, Messages, deviceVars, writerVars, readerVars, mainVars
<1>0. r \in Threads /\ FrameSize \in Nat
  BY PlacesAre, Sizes
<1>1. CASE NextRead(r)
  BY <1>0, <1>1, PlacesAre DEF TypeOK, NextRead
<1>2. CASE LockReads(r)
  BY <1>0, <1>2, PlacesAre DEF TypeOK, LockReads
<1>3. CASE Read(r)
  <2>1. PICK out : Taken(out) /\ Handed(r, out)
    BY <1>3, ReadEffect
  <2>2. out \in Seq(Units)
    BY <2>1 DEF Taken
  <2>3. /\ faults' = faults \/ faults' = faults + 1
        /\ \E bytes \in Seq(Units) : Deliver(r, bytes)
    BY <2>1, <2>2, HandedUnits
  <2>4. PICK bytes \in Seq(Units) : Deliver(r, bytes)
    BY <2>3
  <2>5. /\ capacity' = capacity /\ device' \in Seq(Units) /\ Len(device') <= capacity
    <3>1. Len(device) \in Nat /\ Len(device') \in Nat /\ capacity \in Nat
      BY <2>1, StressAssumption, SMTT(40) DEF TypeOK, Taken
    <3> QED
      BY <2>1, <3>1 DEF TypeOK, Taken
  <2>6. delivered \o bytes \in Seq(Units)
    BY DEF TypeOK
  <2>7. faults' \in Nat
    BY <2>3 DEF TypeOK
  <2>8. got' \in [Readers -> Seq(Units)] /\ read_lock' \in Readers \cup {NoThread}
        /\ delivered' \in Seq(Units)
    BY <2>4, <2>6 DEF TypeOK, Deliver, ReadLockAfter
  <2>9. pc' \in [Threads -> Places]
    BY <1>0, <2>4, PlacesAre DEF TypeOK, Deliver
  <2> QED
    BY <2>4, <2>5, <2>7, <2>8, <2>9 DEF TypeOK, Deliver
<1>4. CASE ReadError(r)
  BY <1>0, <1>4, PlacesAre DEF TypeOK, ReadError
<1>5. CASE AppendAndValidate(r)
  <2> DEFINE x == Scan(stream \o got[r], seen, failed)
  <2>1. x \in ScanStates /\ Len(x.stream) < FrameSize
    <3>1. stream \o got[r] \in Seq(Units) /\ seen \in SUBSET Ids(Messages) /\ failed \in BOOLEAN
      BY DEF TypeOK
    <3> DEFINE G == ScanStates
    <3>2. [stream |-> stream \o got[r], seen |-> seen, failed |-> failed] \in G
      BY <3>1 DEF ScanStates
    <3>3. G \in SUBSET ScanStates /\ \A y \in G : ScanStep(y) \in G
      BY ScanStepShortens
    <3> HIDE DEF G
    <3>4. x \in G /\ Len(x.stream) < FrameSize
      BY <3>2, <3>3, ScanIn
    <3> QED
      BY <3>3, <3>4
  <2> HIDE DEF x
  <2>2. x.stream \in Seq(Units) /\ x.seen \subseteq Ids(Messages) /\ x.failed \in BOOLEAN
    BY <2>1 DEF ScanStates
  <2>3. stream' = x.stream /\ seen' = x.seen /\ failed' = x.failed
    BY <1>5 DEF AppendAndValidate, x
  <2>4. got' \in [Readers -> Seq(Units)]
    BY <1>5 DEF AppendAndValidate, TypeOK
  <2>5. pc' \in [Threads -> Places]
    BY <1>0, <1>5, PlacesAre DEF TypeOK, AppendAndValidate
  <2> QED
    BY <1>5, <2>1, <2>2, <2>3, <2>4, <2>5 DEF TypeOK, AppendAndValidate
<1>6. CASE AppendFails(r)
  BY <1>0, <1>6, PlacesAre DEF TypeOK, AppendFails, StopAll
<1>7. CASE Appended(r)
  BY <1>0, <1>7, PlacesAre DEF TypeOK, Appended
<1>8. CASE NothingRead(r)
  BY <1>0, <1>8, PlacesAre DEF TypeOK, NothingRead
<1>9. CASE Idle(r)
  BY <1>0, <1>9, PlacesAre, SMTT(40) DEF TypeOK, Idle
<1>10. CASE GiveUp(r)
  BY <1>0, <1>10, TypeMain
<1> QED
  BY <1>1, <1>2, <1>3, <1>4, <1>5, <1>6, <1>7, <1>8, <1>9, <1>10 DEF ReaderStep

-----------------------------------------------------------------------------
(***************************************************************************)
(* The threads and the locks.                                              *)
(***************************************************************************)
LEMMA ThreadsMain ==
  ASSUME TypeOK, ThreadInv, NEW t \in Threads,
         Create(t) \/ CreateFails(t) \/ Start(t) \/ StartFails(t) \/ GiveUp(t) \/ Join
  PROVE  ThreadInv'
<1> USE DEF Messages, deviceVars, writerVars, readerVars, mainVars
<1>1. /\ test' = test /\ write_lock' = write_lock /\ read_lock' = read_lock
      /\ sequence' = sequence /\ got' = got
  BY DEF Create, CreateFails, Start, StartFails, GiveUp, Join
<1>2. \/ pc' = pc
      \/ pc[t] \in {"none", "start", "failed"} /\ \E l \in {"start", "loop", "exit"} : Moved(t, l)
  BY DEF Create, CreateFails, Start, StartFails, GiveUp, Join, Goto, Moved
<1>3. CASE pc' = pc
  BY <1>1, <1>3 DEF ThreadInv
<1>4. CASE pc[t] \in {"none", "start", "failed"} /\ \E l \in {"start", "loop", "exit"} : Moved(t, l)
  <2>1. PICK l \in {"start", "loop", "exit"} : Moved(t, l)
    BY <1>4
  <2>2. pc'[t] = l /\ \A u \in Threads : u # t => pc'[u] = pc[u]
    BY <2>1, PlacesAre, Moves DEF TypeOK, Places
  <2>3. ASSUME NEW w \in Writers
        PROVE  WriterOK(w, pc'[w], write_lock', sequence'[w], Messages')
    BY <1>1, <1>4, <2>2, PlacesAre DEF ThreadInv, WriterOK, WriterPlaces
  <2>4. ASSUME NEW r \in Readers PROVE ReaderOK(r, pc'[r], read_lock', got'[r])
    BY <1>1, <1>4, <2>2, PlacesAre DEF ThreadInv, ReaderOK, ReaderPlaces
  <2> QED
    BY <2>3, <2>4 DEF ThreadInv
<1> QED
  BY <1>2, <1>3, <1>4

LEMMA ThreadsWriter ==
  ASSUME TypeOK, ThreadInv, NEW w \in Writers, WriterStep(w)
  PROVE  ThreadInv'
<1> USE DEF Messages, deviceVars, writerVars, readerVars, mainVars
<1>0. /\ w \in Threads /\ w # NoThread /\ Messages \in Nat /\ sequence[w] \in Nat
      /\ WriterOK(w, pc[w], write_lock, sequence[w], Messages)
  BY PlacesAre, Sizes DEF TypeOK, ThreadInv
<1>1. CASE GiveUp(w)
  BY <1>0, <1>1, ThreadsMain
<1>2. CASE WriteSome(w)
  <2>1. UNCHANGED <<test, pc, write_lock, read_lock, sequence, got>>
    BY <1>2 DEF WriteSome
  <2> QED
    BY <2>1 DEF ThreadInv
<1>3. CASE NextMessage(w) \/ LockWrites(w) \/ FrameWritten(w) \/ FrameCancelled(w) \/ WriteError(w)
  <2>1. UNCHANGED <<test, read_lock, got>>
    BY <1>3 DEF NextMessage, LockWrites, FrameWritten, FrameCancelled, WriteError
  <2>2. PICK l \in WriterPlaces :
          /\ Moved(w, l) /\ WriterOK(w, l, write_lock', sequence'[w], Messages)
          /\ \/ write_lock' = write_lock /\ sequence' = sequence
             \/ write_lock = NoThread /\ write_lock' = w /\ sequence' = sequence
             \/ write_lock = w /\ write_lock' = NoThread
          /\ \A v \in Writers : v # w => sequence'[v] = sequence[v]
    <3>1. CASE NextMessage(w)
      BY <1>0, <3>1 DEF NextMessage, Goto, Moved, WriterOK, WriterPlaces
    <3>2. CASE LockWrites(w)
      BY <1>0, <3>2 DEF LockWrites, FrameLock, Goto, Moved, WriterOK, WriterPlaces
    <3>3. CASE FrameWritten(w)
      <4>1. sequence'[w] = sequence[w] + 1 /\ \A v \in Writers : v # w => sequence'[v] = sequence[v]
        BY <3>3 DEF FrameWritten, TypeOK
      <4> QED
        BY <1>0, <3>3, <4>1 DEF FrameWritten, Goto, Moved, WriterOK, WriterPlaces
    <3>4. CASE FrameCancelled(w)
      BY <1>0, <3>4 DEF FrameCancelled, Goto, Moved, WriterOK, WriterPlaces
    <3>5. CASE WriteError(w)
      BY <1>0, <3>5 DEF WriteError, Goto, Moved, WriterOK, WriterPlaces
    <3> QED
      BY <1>3, <3>1, <3>2, <3>3, <3>4, <3>5
  <2>3. pc'[w] = l /\ \A u \in Threads : u # w => pc'[u] = pc[u]
    BY <1>0, <2>2, Moves DEF TypeOK, Places
  <2>4. ASSUME NEW v \in Writers
        PROVE  WriterOK(v, pc'[v], write_lock', sequence'[v], Messages')
    <3>1. CASE v = w
      BY <2>1, <2>2, <2>3, <3>1
    <3>2. CASE v # w
      <4>1. WriterOK(v, pc[v], write_lock, sequence[v], Messages) /\ v \in Threads /\ v # NoThread
        BY PlacesAre DEF ThreadInv
      <4>2. pc'[v] = pc[v] /\ sequence'[v] = sequence[v] /\ Messages' = Messages
        BY <2>1, <2>2, <2>3, <3>2, <4>1
      <4>3. write_lock = v <=> write_lock' = v
        BY <2>2, <3>2, <4>1
      <4> QED
        BY <4>1, <4>2, <4>3 DEF WriterOK
    <3> QED
      BY <3>1, <3>2
  <2>5. ASSUME NEW r \in Readers PROVE ReaderOK(r, pc'[r], read_lock', got'[r])
    <3>1. r \in Threads /\ r # w
      BY PlacesAre
    <3> QED
      BY <2>1, <2>3, <3>1 DEF ThreadInv
  <2> QED
    BY <2>4, <2>5 DEF ThreadInv
<1> QED
  BY <1>1, <1>2, <1>3 DEF WriterStep

LEMMA ThreadsReader ==
  ASSUME TypeOK, ThreadInv, NEW r \in Readers, ReaderStep(r)
  PROVE  ThreadInv'
<1> USE DEF Messages, deviceVars, writerVars, readerVars, mainVars
<1>0. /\ r \in Threads /\ r # NoThread /\ got \in [Readers -> Seq(Units)]
      /\ ReaderOK(r, pc[r], read_lock, got[r])
  BY PlacesAre DEF TypeOK, ThreadInv
<1>1. CASE GiveUp(r)
  BY <1>0, <1>1, ThreadsMain
<1>2. CASE ~GiveUp(r)
  <2>1. UNCHANGED <<test, write_lock, sequence>>
    <3>1. CASE Read(r)
      <4>1. PICK out : Taken(out) /\ Handed(r, out)
        BY <3>1, ReadEffect
      <4>2. \E bytes : Deliver(r, bytes)
        BY <4>1 DEF Handed
      <4> QED
        BY <4>2 DEF Deliver
    <3>2. CASE ~Read(r)
      BY <1>2, <3>2 DEF ReaderStep, NextRead, LockReads, ReadError, AppendAndValidate, AppendFails,
                        Appended, NothingRead, Idle
    <3> QED
      BY <3>1, <3>2
  <2>2. PICK l \in ReaderPlaces :
          /\ Moved(r, l) /\ ReaderOK(r, l, read_lock', got'[r])
          /\ \/ read_lock' = read_lock
             \/ read_lock = NoThread /\ read_lock' = r
             \/ read_lock = r /\ read_lock' = NoThread
          /\ \A q \in Readers : q # r => got'[q] = got[q]
    <3> USE DEF Goto, Moved, ReaderOK, ReaderPlaces
    <3>1. CASE NextRead(r)
      BY <1>0, <3>1 DEF NextRead
    <3>2. CASE LockReads(r)
      BY <1>0, <3>2 DEF LockReads
    <3>3. CASE Read(r)
      <4>1. PICK out : Taken(out) /\ Handed(r, out)
        BY <3>3, ReadEffect
      <4>2. PICK bytes : Deliver(r, bytes)
        BY <4>1 DEF Handed
      <4>3. pc[r] = "read"
        BY <3>3 DEF Read
      <4>4. got'[r] = bytes /\ \A q \in Readers : q # r => got'[q] = got[q]
        BY <1>0, <4>2 DEF Deliver
      <4>5. read_lock = r
        BY <1>0, <4>3
      <4>6. CASE bytes = << >>
        BY <1>0, <4>2, <4>3, <4>4, <4>5, <4>6 DEF Deliver
      <4>7. CASE bytes # << >>
        BY <1>0, <4>2, <4>3, <4>4, <4>5, <4>7 DEF Deliver, ReadLockAfter
      <4> QED
        BY <4>6, <4>7
    <3>4. CASE ReadError(r)
      BY <1>0, <3>4 DEF ReadError
    <3>5. CASE AppendAndValidate(r)
      <4>1. got'[r] = << >> /\ \A q \in Readers : q # r => got'[q] = got[q]
        BY <1>0, <3>5 DEF AppendAndValidate
      <4> QED
        BY <1>0, <3>5, <4>1 DEF AppendAndValidate
    <3>6. CASE AppendFails(r)
      <4>1. got'[r] = << >> /\ \A q \in Readers : q # r => got'[q] = got[q]
        BY <1>0, <3>6 DEF AppendFails
      <4> QED
        BY <1>0, <3>6, <4>1 DEF AppendFails
    <3>7. CASE Appended(r)
      BY <1>0, <3>7 DEF Appended
    <3>8. CASE NothingRead(r)
      BY <1>0, <3>8 DEF NothingRead
    <3>9. CASE Idle(r)
      BY <1>0, <3>9 DEF Idle
    <3> QED
      BY <1>2, <3>1, <3>2, <3>3, <3>4, <3>5, <3>6, <3>7, <3>8, <3>9 DEF ReaderStep
  <2>3. pc'[r] = l /\ \A u \in Threads : u # r => pc'[u] = pc[u]
    BY <1>0, <2>2, Moves DEF TypeOK, Places
  <2>4. ASSUME NEW q \in Readers PROVE ReaderOK(q, pc'[q], read_lock', got'[q])
    <3>1. CASE q = r
      BY <2>2, <2>3, <3>1
    <3>2. CASE q # r
      <4>1. ReaderOK(q, pc[q], read_lock, got[q]) /\ q \in Threads /\ q # NoThread
        BY PlacesAre DEF ThreadInv
      <4>2. pc'[q] = pc[q] /\ got'[q] = got[q]
        BY <2>2, <2>3, <3>2, <4>1
      <4>3. read_lock = q <=> read_lock' = q
        BY <2>2, <3>2, <4>1
      <4> QED
        BY <4>1, <4>2, <4>3 DEF ReaderOK
    <3> QED
      BY <3>1, <3>2
  <2>5. ASSUME NEW w \in Writers
        PROVE  WriterOK(w, pc'[w], write_lock', sequence'[w], Messages')
    <3>1. w \in Threads /\ w # r
      BY PlacesAre
    <3> QED
      BY <2>1, <2>3, <3>1 DEF ThreadInv
  <2> QED
    BY <2>4, <2>5 DEF ThreadInv
<1> QED
  BY <1>1, <1>2

-----------------------------------------------------------------------------
(***************************************************************************)
(* What was read.                                                          *)
(***************************************************************************)
\* Main and the writers leave it alone.
LEMMA ReadOthers ==
  ASSUME TypeOK, ReadInv,
         \/ Join
         \/ \E t \in Threads : Create(t) \/ CreateFails(t) \/ Start(t) \/ StartFails(t) \/ GiveUp(t)
         \/ \E w \in Writers : WriterStep(w)
  PROVE  ReadInv'
<1>1. /\ UNCHANGED <<test, delivered, seen, stream, read_lock, got>>
      /\ failed' = failed \/ failed' = TRUE
  <2> USE DEF mainVars, readerVars, StopAll
  <2>1. CASE Join
    BY <2>1 DEF Join
  <2>2. CASE \E t \in Threads : Create(t) \/ CreateFails(t) \/ Start(t) \/ StartFails(t) \/ GiveUp(t)
    BY <2>2 DEF Create, CreateFails, Start, StartFails, GiveUp
  <2>3. CASE \E w \in Writers : WriterStep(w)
    BY <2>3 DEF WriterStep, NextMessage, LockWrites, WriteSome, FrameWritten, FrameCancelled,
                WriteError, GiveUp
  <2> QED
    BY <2>1, <2>2, <2>3
<1>2. Unscanned(stream, read_lock, got)' = Unscanned(stream, read_lock, got) /\ Messages' = Messages
  BY <1>1 DEF Unscanned, Messages
<1> QED
  BY <1>1, <1>2 DEF ReadInv

\* A reader that has no bytes of a read has added nothing.
LEMMA UnscannedIs ==
  ASSUME TypeOK, NEW lock, lock = NoThread \/ got[lock] = << >>
  PROVE  Unscanned(stream, lock, got) = stream
<1>1. stream \o << >> = stream
  BY DEF TypeOK
<1> QED
  BY <1>1 DEF Unscanned

LEMMA ReadReader ==
  ASSUME TypeOK, ThreadInv, ReadInv, NEW r \in Readers, ReaderStep(r)
  PROVE  ReadInv'
<1> USE DEF deviceVars, writerVars, readerVars, mainVars
<1>0. /\ r \in Threads /\ r # NoThread /\ got \in [Readers -> Seq(Units)]
      /\ ReaderOK(r, pc[r], read_lock, got[r])
      /\ stream \in Seq(Units) /\ delivered \in Seq(Units)
  BY PlacesAre DEF TypeOK, ThreadInv
<1>1. CASE NextRead(r) \/ Appended(r) \/ NothingRead(r) \/ Idle(r) \/ GiveUp(r)
  <2>1. /\ UNCHANGED <<test, delivered, seen, stream, read_lock, got>>
        /\ failed' = failed \/ failed' = TRUE
    BY <1>1 DEF NextRead, Appended, NothingRead, Idle, GiveUp, StopAll
  <2>2. Unscanned(stream, read_lock, got)' = Unscanned(stream, read_lock, got) /\ Messages' = Messages
    BY <2>1 DEF Unscanned, Messages
  <2> QED
    BY <2>1, <2>2 DEF ReadInv
<1>2. CASE LockReads(r)
  <2>1. UNCHANGED <<test, delivered, seen, stream, got, failed>> /\ read_lock' = r
    BY <1>2 DEF LockReads
  <2>2. read_lock = NoThread /\ got[r] = << >>
    BY <1>0, <1>2 DEF LockReads, ReaderOK
  <2>3. Unscanned(stream, read_lock, got) = stream /\ Unscanned(stream, r, got) = stream
    BY <2>2, UnscannedIs
  <2>4. Unscanned(stream, read_lock, got)' = stream /\ Messages' = Messages
    BY <2>1, <2>3 DEF Unscanned, Messages
  <2> QED
    BY <2>1, <2>3, <2>4 DEF ReadInv
<1>3. CASE ReadError(r)
  <2>1. UNCHANGED <<test, delivered, seen, stream, got, failed>> /\ read_lock' = NoThread
    BY <1>3 DEF ReadError
  <2>2. read_lock = r /\ got[r] = << >>
    BY <1>0, <1>3 DEF ReadError, ReaderOK
  <2>3. Unscanned(stream, read_lock, got) = stream /\ Unscanned(stream, NoThread, got) = stream
    BY <2>2, UnscannedIs
  <2>4. Unscanned(stream, read_lock, got)' = stream /\ Messages' = Messages
    BY <2>1, <2>3 DEF Unscanned, Messages
  <2> QED
    BY <2>1, <2>3, <2>4 DEF ReadInv
<1>4. CASE AppendFails(r)
  BY <1>4 DEF AppendFails, StopAll, ReadInv
<1>5. CASE Read(r)
  <2>1. PICK out : Taken(out) /\ Handed(r, out)
    BY <1>5, ReadEffect
  <2>2. out \in Seq(Units)
    BY <2>1 DEF Taken
  <2>3. PICK bytes \in Seq(Units) : Deliver(r, bytes)
    BY <2>1, <2>2, HandedUnits
  <2>4. read_lock = r /\ got[r] = << >>
    BY <1>0, <1>5 DEF Read, ReaderOK
  <2>5. Unscanned(stream, read_lock, got) = stream
    BY <2>4, UnscannedIs
  <2>6. /\ UNCHANGED <<test, seen, stream, failed>> /\ delivered' = delivered \o bytes
        /\ got'[r] = bytes /\ read_lock' = IF bytes = << >> THEN NoThread ELSE r
    BY <1>0, <2>3 DEF Deliver, ReadLockAfter
  <2>7. Unscanned(stream, read_lock, got)' = stream \o bytes
    <3>1. CASE bytes = << >>
      BY <2>6, <3>1 DEF Unscanned
    <3>2. CASE bytes # << >>
      BY <1>0, <2>6, <3>2 DEF Unscanned
    <3> QED
      BY <3>1, <3>2
  <2>8. SUFFICES ASSUME ~failed
                 PROVE  IsRead(Messages, delivered \o bytes, stream \o bytes, seen)
    BY <2>6, <2>7 DEF ReadInv, Messages
  <2>9. IsRead(Messages, delivered, stream, seen)
    BY <2>5, <2>8 DEF ReadInv
  <2> QED
    BY <1>0, <2>9, ReadExtend
<1>6. CASE AppendAndValidate(r)
  <2> DEFINE s == stream \o got[r]
             x == Scan(s, seen, failed)
  <2>1. /\ stream' = x.stream /\ seen' = x.seen /\ failed' = x.failed
        /\ UNCHANGED <<test, delivered>> /\ read_lock' = NoThread
    BY <1>6 DEF AppendAndValidate
  <2>2. read_lock = r
    BY <1>0, <1>6 DEF AppendAndValidate, ReaderOK
  <2>3. Unscanned(stream, read_lock, got) = s
    BY <1>0, <2>2 DEF Unscanned
  <2>4. s \in Seq(Units) /\ seen \in SUBSET Ids(Messages) /\ failed \in BOOLEAN
    BY <1>0 DEF TypeOK
  <2>5. ~failed => IsRead(Messages, delivered, s, seen)
    BY <2>3 DEF ReadInv
  <2> HIDE DEF s
  <2>6. x \in ScanStates /\ (~x.failed => IsRead(Messages, delivered, x.stream, x.seen))
    BY <2>4, <2>5, ScanReads
  <2> HIDE DEF x
  <2>7. x.stream \o << >> = x.stream
    BY <2>6 DEF ScanStates
  <2>8. Unscanned(stream, read_lock, got)' = x.stream /\ Messages' = Messages
    BY <2>1, <2>7 DEF Unscanned, Messages
  <2> QED
    BY <2>1, <2>6, <2>8 DEF ReadInv
<1> QED
  BY <1>1, <1>2, <1>3, <1>4, <1>5, <1>6 DEF ReaderStep

-----------------------------------------------------------------------------
(***************************************************************************)
(* A pass.                                                                 *)
(***************************************************************************)
LEMMA PassStep ==
  ASSUME TypeOK, PassInv, Next
  PROVE  PassInv'
<1>1. CASE Join
  BY <1>1 DEF Join, PassInv, TypeOK, Passed, Expected, Messages, deviceVars, writerVars, readerVars
<1>2. CASE Ended
  <2>1. UNCHANGED <<exit_code, main, completed, seen, failed, stream, test, pc>>
    BY <1>2 DEF Ended, vars, deviceVars, writerVars, readerVars, mainVars
  <2> QED
    BY <2>1 DEF PassInv, Passed, Expected, Messages
<1>3. CASE ~Join /\ ~Ended
  <2>1. main # "done"
    <3>1. SUFFICES ASSUME main = "done" PROVE FALSE
      OBVIOUS
    <3>2. \A t \in Threads : pc[t] \in {"none", "exit"}
      BY <3>1 DEF PassInv
    <3>3. \A t \in Threads : ~Create(t) /\ ~CreateFails(t) /\ ~Start(t) /\ ~StartFails(t) /\ ~GiveUp(t)
      BY <3>1, <3>2 DEF Create, CreateFails, Start, StartFails, GiveUp
    <3>4. ASSUME NEW w \in Writers PROVE ~WriterStep(w)
      <4>1. w \in Threads
        BY PlacesAre
      <4> QED
        BY <3>2, <3>3, <4>1 DEF WriterStep, NextMessage, LockWrites, WriteSome, FrameWritten,
                                FrameCancelled, WriteError
    <3>5. ASSUME NEW r \in Readers PROVE ~ReaderStep(r)
      <4>1. r \in Threads
        BY PlacesAre
      <4> QED
        BY <3>2, <3>3, <4>1 DEF ReaderStep, NextRead, LockReads, Read, ReadError,
                                AppendAndValidate, AppendFails, Appended, NothingRead, Idle
    <3> QED
      BY <1>3, <3>3, <3>4, <3>5 DEF Next
  <2>2. exit_code # 0
    BY <2>1 DEF PassInv
  <2>3. exit_code' = exit_code /\ main' # "done"
    <3> USE DEF mainVars, readerVars, writerVars
    <3>1. CASE \E t \in Threads : Create(t) \/ CreateFails(t) \/ Start(t) \/ StartFails(t)
      BY <2>1, <3>1 DEF Create, CreateFails, Start, StartFails
    <3>2. CASE \E w \in Writers : WriterStep(w)
      BY <2>1, <3>2 DEF WriterStep, NextMessage, LockWrites, WriteSome, FrameWritten,
                        FrameCancelled, WriteError, GiveUp
    <3>3. CASE \E r \in Readers : ReaderStep(r)
      <4>1. PICK r \in Readers : ReaderStep(r)
        BY <3>3
      <4>2. CASE Read(r)
        <5>1. \E bytes : Deliver(r, bytes)
          BY <4>2 DEF Read
        <5> QED
          BY <2>1, <5>1 DEF Deliver
      <4>3. CASE ~Read(r)
        BY <2>1, <4>1, <4>3 DEF ReaderStep, NextRead, LockReads, ReadError, AppendAndValidate,
                                AppendFails, Appended, NothingRead, Idle, GiveUp
      <4> QED
        BY <4>2, <4>3
    <3> QED
      BY <1>3, <3>1, <3>2, <3>3 DEF Next
  <2> QED
    BY <2>2, <2>3 DEF PassInv
<1> QED
  BY <1>1, <1>2, <1>3

-----------------------------------------------------------------------------
(***************************************************************************)
(* The end of a test on a device that works.                               *)
(***************************************************************************)
\* When all writers have left, all frames were written.
LEMMA AllCompleted ==
  ASSUME TypeOK, ThreadInv, WriteInv, DoneInv, AllWritten
  PROVE  /\ Expected \in Nat /\ completed = Expected
         /\ Len(delivered) + Len(device) = Expected * FrameSize
<1>1. /\ Messages \in Nat /\ delivered \in Seq(Units) /\ device \in Seq(Units)
      /\ completed \in Nat /\ sequence \in [Writers -> Nat]
  BY Sizes DEF TypeOK, Messages
<1>2. write_lock = NoThread
  <2>1. \A w \in Writers : write_lock # w
    BY DEF ThreadInv, WriterOK, AllWritten
  <2> QED
    BY <2>1 DEF TypeOK
<1>3. PICK n, line : WriteAt(Messages, delivered \o device, completed, write_lock, sequence, offset,
                             n, line)
  BY DEF WriteInv, IsWritten
<1>4. /\ n = completed /\ line \in [1..n -> Ids(Messages)]
      /\ \A j, k \in 1..n : line[j] = line[k] => j = k
      /\ Len(delivered \o device) = completed * FrameSize + 0
  BY <1>2, <1>3 DEF WriteAt, Begun, Part
<1>5. ASSUME NEW id \in Ids(Messages) PROVE \E k \in 1..n : line[k] = id
  <2>1. PICK w \in Writers, i \in 0..Messages-1 : id = <<w, i>>
    BY DEF Ids
  <2>2. sequence[w] = Messages
    BY DEF DoneInv, AllWritten
  <2>3. i < sequence[w]
    BY <1>1, <2>2
  <2>4. \E k \in 1..n : line[k] = <<w, i>>
    BY <1>3, <2>3 DEF WriteAt
  <2> QED
    BY <2>1, <2>4
<1>6. {line[k] : k \in 1..n} = Ids(Messages)
  BY <1>4, <1>5
<1>7. Cardinality(Ids(Messages)) = n
  <2>1. Lists(line, n, Ids(Messages))
    BY <1>1, <1>4, <1>6 DEF Lists
  <2> QED
    BY <2>1, DifferentCount
<1>8. Cardinality(Ids(Messages)) = Expected /\ Expected \in Nat
  BY <1>1, IdsCount DEF Expected
<1>9. completed = Expected
  BY <1>4, <1>7, <1>8
<1>10. Len(delivered) + Len(device) = completed * FrameSize
  <2>1. Len(delivered \o device) = Len(delivered) + Len(device)
    BY <1>1, JoinSeq
  <2>2. completed * FrameSize \in Nat
    BY <1>1, Frames
  <2> QED
    BY <1>4, <2>1, <2>2
<1> QED
  BY <1>8, <1>9, <1>10

\* Then the frames are all seen once the device is empty, and nothing is left once all are seen.
LEMMA AllRead ==
  ASSUME TypeOK, ThreadInv, ReadInv, WriteInv, DoneInv, AllWritten, ~failed,
         Unscanned(stream, read_lock, got) = stream, Len(device) = 0 \/ AllSeen
  PROVE  Cardinality(seen) = Expected /\ Expected \in Nat /\ stream = << >>
<1>1. /\ Expected \in Nat /\ Len(delivered) + Len(device) = Expected * FrameSize
  BY AllCompleted
<1>2. PICK m, order : ReadAt(Messages, delivered, stream, seen, m, order)
  BY DEF ReadInv, IsRead
<1>3. m \in Nat /\ Cardinality(seen) = m /\ Len(delivered) = m * FrameSize + Len(stream)
  <2>1. /\ m \in Nat /\ order \in [1..m -> Ids(Messages)] /\ seen = {order[k] : k \in 1..m}
        /\ \A j, k \in 1..m : order[j] = order[k] => j = k
        /\ Len(delivered) = m * FrameSize + Len(stream)
    BY <1>2 DEF ReadAt
  <2>2. Lists(order, m, seen)
    BY <2>1 DEF Lists
  <2>3. Cardinality(seen) = m
    BY <2>2, DifferentCount
  <2> QED
    BY <2>1, <2>3
<1>4. /\ Len(stream) \in Nat /\ Len(device) \in Nat /\ Len(stream) < FrameSize /\ FrameSize \in Nat
      /\ stream \in Seq(Units)
  BY Sizes DEF TypeOK
<1> DEFINE a == m * FrameSize
           b == Expected * FrameSize
<1>5. /\ a \in Nat /\ b \in Nat
      /\ m < Expected => a + FrameSize <= b
      /\ Expected < m => b + FrameSize <= a
      /\ a + Len(stream) + Len(device) = b
  BY <1>1, <1>3, Frames
<1> HIDE DEF a, b
<1>6. ~(Expected < m)
  BY <1>4, <1>5, Sizes
<1>7. ~(m < Expected)
  BY <1>3, <1>4, <1>5, <1>1 DEF AllSeen
<1>8. m = Expected
  BY <1>1, <1>3, <1>6, <1>7
<1>9. a = b
  BY <1>8 DEF a, b
<1>10. Len(stream) = 0
  BY <1>4, <1>5, <1>9
<1> QED
  BY <1>1, <1>3, <1>4, <1>8, <1>10

\* Nobody holds a lock when all threads have left.
LEMMA LocksFree ==
  ASSUME TypeOK, ThreadInv, \A t \in Threads : pc[t] \in {"none", "exit"}
  PROVE  Unscanned(stream, read_lock, got) = stream
<1>1. read_lock = NoThread
  <2>1. ASSUME NEW r \in Readers PROVE read_lock # r
    <3>1. ReaderOK(r, pc[r], read_lock, got[r]) /\ r \in Threads
      BY PlacesAre DEF ThreadInv
    <3> QED
      BY <3>1 DEF ReaderOK
  <2> QED
    BY <2>1 DEF TypeOK
<1> QED
  BY <1>1, UnscannedIs

\* When main joins the threads of a test in which nothing went wrong, the books are complete.
LEMMA HealthyEnd ==
  ASSUME TypeOK, ThreadInv, ReadInv, QuietInv, WriteInv, DoneInv, IdleInv, Join
  PROVE  Passed
<1>1. main # "create" /\ \A t \in Threads : pc[t] \in {"none", "exit"}
  BY DEF Join
<1>2. \A t \in Threads : pc[t] = "exit"
  BY <1>1 DEF QuietInv
<1>3. AllWritten /\ ~failed
  BY <1>2, PlacesAre DEF AllWritten, QuietInv
<1>4. AllSeen
  <2>1. PICK r : r \in Readers
    BY StressAssumption
  <2> QED
    BY <1>2, <2>1, PlacesAre DEF IdleInv
<1>5. Unscanned(stream, read_lock, got) = stream
  BY <1>1, LocksFree
<1>6. Cardinality(seen) = Expected /\ stream = << >>
  BY <1>3, <1>4, <1>5, AllRead
<1>7. completed = Expected
  BY <1>3, AllCompleted
<1> QED
  BY <1>3, <1>6, <1>7 DEF Passed

-----------------------------------------------------------------------------
(***************************************************************************)
(* A test in which nothing goes wrong.                                     *)
(***************************************************************************)
HealthyInv == QuietInv /\ WriteInv /\ DoneInv /\ IdleInv

LEMMA HealthyFacts ==
  ASSUME Healthy
  PROVE  Failing = {} /\ MaxFaults = 0
BY DEF Healthy, Failing, MaxFaults

\* The scan of what was just read reports nothing, and forgets no frame.
LEMMA HealthyScan ==
  ASSUME TypeOK, ThreadInv, ReadInv, WriteInv, NEW r \in Readers, pc[r] = "append", ~failed
  PROVE  /\ ~Scan(stream \o got[r], seen, failed).failed
         /\ seen \subseteq Scan(stream \o got[r], seen, failed).seen
<1> DEFINE s == stream \o got[r]
           T == delivered \o device
<1>1. /\ delivered \in Seq(Units) /\ device \in Seq(Units) /\ stream \in Seq(Units)
      /\ got[r] \in Seq(Units) /\ seen \in SUBSET Ids(Messages) /\ completed \in Nat
      /\ Messages \in Nat
  BY Sizes DEF TypeOK, Messages
<1>2. read_lock = r /\ r # NoThread
  BY PlacesAre DEF ThreadInv, ReaderOK
<1>3. Unscanned(stream, read_lock, got) = s
  BY <1>2 DEF Unscanned
<1>4. s \in Seq(Units) /\ IsRead(Messages, delivered, s, seen)
  BY <1>1, <1>3 DEF ReadInv
<1>5. T \in Seq(Units) /\ Prefix(delivered, T)
  <2>1. /\ T \in Seq(Units) /\ Len(T) = Len(delivered) + Len(device)
        /\ \A i \in 1..Len(delivered) : T[i] = delivered[i]
    BY <1>1, JoinSeq
  <2>2. Len(delivered) \in Nat /\ Len(device) \in Nat
    BY <1>1
  <2> HIDE DEF T
  <2> QED
    BY <2>1, <2>2 DEF Prefix
<1>6. IsWritten(Messages, T, completed, write_lock, sequence, offset)
  BY DEF WriteInv
<1>7. Part(write_lock, offset) \in 0..FrameSize
  BY Sizes DEF TypeOK, Part
<1> HIDE DEF s, T
<1>8. ~Scan(s, seen, FALSE).failed /\ seen \subseteq Scan(s, seen, FALSE).seen
  BY <1>1, <1>4, <1>5, <1>6, <1>7, ScanOfWritten
<1>9. failed = FALSE
  BY DEF TypeOK
<1> QED
  BY <1>8, <1>9 DEF s

LEMMA QuietMain ==
  ASSUME TypeOK, Healthy, QuietInv, NEW t \in Threads,
         Create(t) \/ CreateFails(t) \/ Start(t) \/ StartFails(t)
  PROVE  QuietInv'
<1>1. CASE Create(t)
  <2>1. /\ Moved(t, "start") /\ UNCHANGED <<failed, stop, startup_failed>> /\ main = "create"
        /\ main' = IF \A u \in Threads \ {t} : pc[u] # "none" THEN "join" ELSE "create"
    BY <1>1 DEF Create, Goto, Moved
  <2>2. pc'[t] = "start" /\ \A u \in Threads : u # t => pc'[u] = pc[u]
    BY <2>1, PlacesAre, Moves DEF TypeOK, Places
  <2> QED
    BY <2>1, <2>2 DEF QuietInv
<1>2. CASE CreateFails(t) \/ StartFails(t)
  BY <1>2, HealthyFacts DEF CreateFails, StartFails
<1>3. CASE Start(t)
  <2>1. /\ Moved(t, "loop") /\ UNCHANGED <<failed, stop, startup_failed, main, exit_code>>
    BY <1>3 DEF Start, Goto, Moved, mainVars
  <2>2. pc'[t] = "loop" /\ \A u \in Threads : u # t => pc'[u] = pc[u]
    BY <2>1, PlacesAre, Moves DEF TypeOK, Places
  <2> QED
    BY <2>1, <2>2 DEF QuietInv
<1> QED
  BY <1>1, <1>2, <1>3

LEMMA QuietWriter ==
  ASSUME TypeOK, Healthy, QuietInv, NEW w \in Writers, WriterStep(w)
  PROVE  QuietInv'
<1>1. w \in Threads /\ ~GiveUp(w) /\ ~FrameCancelled(w) /\ ~WriteError(w)
  <2>1. w \in Threads
    BY PlacesAre
  <2>2. ~(faults < MaxFaults)
    BY HealthyFacts DEF TypeOK
  <2> QED
    BY <2>1, <2>2 DEF QuietInv, GiveUp, FrameCancelled, WriteError
<1>2. /\ UNCHANGED <<failed, stop, startup_failed, main, exit_code>>
      /\ pc' = pc \/ \E l \in {"lock", "exit", "write", "loop"} : Moved(w, l)
  BY <1>1 DEF WriterStep, NextMessage, LockWrites, WriteSome, FrameWritten, Goto, Moved, mainVars
<1>3. CASE pc' = pc
  BY <1>2, <1>3 DEF QuietInv
<1>4. CASE \E l \in {"lock", "exit", "write", "loop"} : Moved(w, l)
  <2>1. PICK l \in {"lock", "exit", "write", "loop"} : Moved(w, l)
    BY <1>4
  <2>2. pc'[w] = l /\ \A u \in Threads : u # w => pc'[u] = pc[u]
    BY <1>1, <2>1, PlacesAre, Moves DEF TypeOK, Places
  <2> QED
    BY <1>1, <1>2, <2>2 DEF QuietInv
<1> QED
  BY <1>2, <1>3, <1>4

LEMMA QuietReader ==
  ASSUME TypeOK, ThreadInv, ReadInv, WriteInv, Healthy, QuietInv, NEW r \in Readers, ReaderStep(r)
  PROVE  QuietInv' /\ faults' = faults /\ ~ReadError(r) /\ ~AppendFails(r) /\ ~GiveUp(r)
<1>1. r \in Threads /\ ~GiveUp(r) /\ ~ReadError(r) /\ ~AppendFails(r) /\ ~(faults < MaxFaults)
  <2>1. r \in Threads
    BY PlacesAre
  <2>2. ~(faults < MaxFaults)
    BY HealthyFacts DEF TypeOK
  <2> QED
    BY <2>1, <2>2, HealthyFacts DEF QuietInv, GiveUp, ReadError, AppendFails
<1>2. /\ UNCHANGED <<failed, stop, startup_failed, main, exit_code, faults>>
      /\ \E l \in {"lock", "exit", "read", "append", "appended", "nothing", "idle", "loop"} : Moved(r, l)
  <2> USE DEF Goto, Moved, mainVars, deviceVars
  <2>1. CASE NextRead(r) \/ LockReads(r) \/ Appended(r) \/ NothingRead(r) \/ Idle(r)
    BY <2>1 DEF NextRead, LockReads, Appended, NothingRead, Idle
  <2>2. CASE Read(r)
    <3>1. faults' = faults /\ \E bytes : Deliver(r, bytes)
      BY <1>1, <2>2 DEF Read
    <3> QED
      BY <3>1 DEF Deliver
  <2>3. CASE AppendAndValidate(r)
    <3>1. ~failed /\ pc[r] = "append" /\ failed \in BOOLEAN
      BY <2>3 DEF QuietInv, AppendAndValidate, TypeOK
    <3>2. ~failed'
      BY <2>3, <3>1, HealthyScan DEF AppendAndValidate
    <3>3. TypeOK'
      BY TypeReader
    <3>4. failed' = failed
      BY <3>1, <3>2, <3>3 DEF TypeOK
    <3> QED
      BY <2>3, <3>4 DEF AppendAndValidate
  <2> QED
    BY <1>1, <2>1, <2>2, <2>3 DEF ReaderStep
<1>3. PICK l \in {"lock", "exit", "read", "append", "appended", "nothing", "idle", "loop"} : Moved(r, l)
  BY <1>2
<1>4. pc'[r] = l /\ \A u \in Threads : u # r => pc'[u] = pc[u]
  BY <1>1, <1>3, PlacesAre, Moves DEF TypeOK, Places
<1>5. QuietInv'
  BY <1>1, <1>2, <1>4 DEF QuietInv
<1> QED
  BY <1>1, <1>2, <1>5

LEMMA QuietJoin ==
  ASSUME TypeOK, ThreadInv, ReadInv, HealthyInv, Join
  PROVE  QuietInv'
<1>1. Passed /\ ~startup_failed
  BY HealthyEnd DEF HealthyInv, QuietInv
<1> QED
  BY <1>1 DEF HealthyInv, QuietInv, Join

LEMMA WriteWriter ==
  ASSUME TypeOK, ThreadInv, Healthy, HealthyInv, NEW w \in Writers, WriterStep(w)
  PROVE  WriteInv'
<1> USE DEF deviceVars, writerVars, readerVars, mainVars
<1> DEFINE T == delivered \o device
<1>0. /\ w # NoThread /\ w \in Threads /\ Messages \in Nat /\ completed \in Nat
      /\ sequence \in [Writers -> Nat] /\ offset \in [Writers -> 0..FrameSize]
      /\ delivered \in Seq(Units) /\ device \in Seq(Units)
      /\ WriterOK(w, pc[w], write_lock, sequence[w], Messages)
      /\ IsWritten(Messages, T, completed, write_lock, sequence, offset)
  BY PlacesAre, Sizes DEF TypeOK, Messages, ThreadInv, HealthyInv, WriteInv
<1>1. ~GiveUp(w) /\ ~FrameCancelled(w) /\ ~WriteError(w)
  <2>1. ~(faults < MaxFaults)
    BY HealthyFacts DEF TypeOK
  <2> QED
    BY <1>0, <2>1 DEF HealthyInv, QuietInv, GiveUp, FrameCancelled, WriteError
<1>2. CASE NextMessage(w)
  BY <1>0, <1>2 DEF NextMessage, WriteInv, Messages
<1>3. CASE LockWrites(w)
  <2>1. /\ UNCHANGED <<test, delivered, device, completed, sequence>>
        /\ write_lock = NoThread /\ write_lock' = w /\ offset'[w] = 0 /\ sequence[w] < Messages
    BY <1>0, <1>3 DEF LockWrites, FrameLock, WriterOK
  <2>2. IsWritten(Messages, T, completed, w, sequence, offset')
    BY <1>0, <2>1, WriteBegins
  <2> QED
    BY <2>1, <2>2 DEF WriteInv, Messages
<1>4. CASE WriteSome(w)
  <2>1. /\ UNCHANGED <<test, delivered, completed, sequence, write_lock>> /\ write_lock = w
    BY <1>0, <1>4 DEF WriteSome, WriterOK
  <2>2. PICK n : Written(w, n)
    BY <1>4, WriteEffect
  <2>3. /\ n \in Nat /\ offset[w] + n <= FrameSize /\ offset'[w] = offset[w] + n
        /\ device' \in Seq(Units) /\ Len(device') = Len(device) + n
        /\ \A i \in 1..Len(device) : device'[i] = device[i]
        /\ \A i \in 1..n : device'[Len(device) + i] = Unit(w, sequence[w], offset[w] + i)
    BY <1>0, <2>2 DEF Written
  <2> DEFINE U == delivered \o device'
  <2>4. /\ T \in Seq(Units) /\ Len(T) = Len(delivered) + Len(device)
        /\ \A i \in 1..Len(delivered) : T[i] = delivered[i]
        /\ \A i \in 1..Len(device) : T[Len(delivered) + i] = device[i]
    BY <1>0, JoinSeq
  <2>5. /\ U \in Seq(Units) /\ Len(U) = Len(delivered) + Len(device')
        /\ \A i \in 1..Len(delivered) : U[i] = delivered[i]
        /\ \A i \in 1..Len(device') : U[Len(delivered) + i] = device'[i]
    <3>1. delivered \in Seq(Units) /\ device' \in Seq(Units)
      BY <1>0, <2>3
    <3> QED
      BY <3>1, JoinSeq
  <2>6. Len(delivered) \in Nat /\ Len(device) \in Nat /\ offset[w] \in Nat
    BY <1>0, Sizes
  <2> HIDE DEF T, U
  <2>7. Len(U) = Len(T) + n
    BY <2>3, <2>4, <2>5, <2>6
  <2>8. ASSUME NEW i \in 1..Len(T) PROVE U[i] = T[i]
    <3>1. CASE i <= Len(delivered)
      BY <2>4, <2>5, <2>6, <3>1
    <3>2. CASE i > Len(delivered)
      <4> DEFINE j == i - Len(delivered)
      <4>1. i = Len(delivered) + j /\ j \in 1..Len(device) /\ j \in 1..Len(device')
        BY <2>3, <2>4, <2>6, <3>2
      <4> HIDE DEF j
      <4>2. U[i] = device'[j] /\ T[i] = device[j] /\ device'[j] = device[j]
        BY <2>3, <2>4, <2>5, <4>1
      <4> QED
        BY <4>2
    <3> QED
      BY <2>4, <2>6, <3>1, <3>2
  <2>9. ASSUME NEW i \in 1..n PROVE U[Len(T) + i] = Unit(w, sequence[w], offset[w] + i)
    <3>1. Len(device) + i \in 1..Len(device') /\ Len(T) + i = Len(delivered) + (Len(device) + i)
      BY <2>3, <2>4, <2>6
    <3>2. U[Len(delivered) + (Len(device) + i)] = device'[Len(device) + i]
      BY <2>5, <3>1
    <3> QED
      BY <2>3, <3>1, <3>2
  <2>10. IsWritten(Messages, T, completed, w, sequence, offset)
    BY <1>0, <2>1
  <2>11. IsWritten(Messages, U, completed, w, sequence, offset')
    <3>1. Grown(T, U, w, sequence[w], offset[w], n)
      BY <2>7, <2>8, <2>9 DEF Grown
    <3>2. T \in Seq(Units) /\ U \in Seq(Units) /\ offset[w] \in Nat
      BY <2>4, <2>5, <2>6
    <3>3. n \in Nat /\ offset[w] + n <= FrameSize /\ offset'[w] = offset[w] + n
      BY <2>3
    <3> QED
      BY <1>0, <2>10, <3>1, <3>2, <3>3, WriteGoesOn
  <2> QED
    BY <2>1, <2>11 DEF WriteInv, Messages, U
<1>5. CASE FrameWritten(w)
  <2>1. /\ UNCHANGED <<test, delivered, device, offset>> /\ write_lock = w /\ write_lock' = NoThread
        /\ completed' = completed + 1 /\ sequence' = [sequence EXCEPT ![w] = sequence[w] + 1]
        /\ offset[w] = FrameSize
    BY <1>0, <1>5 DEF FrameWritten, WriterOK
  <2>2. IsWritten(Messages, T, completed + 1, NoThread, sequence', offset)
    BY <1>0, <2>1, WriteEnds
  <2> QED
    BY <2>1, <2>2 DEF WriteInv, Messages
<1> QED
  BY <1>1, <1>2, <1>3, <1>4, <1>5 DEF WriterStep

LEMMA WriteReader ==
  ASSUME TypeOK, ThreadInv, ReadInv, Healthy, HealthyInv, NEW r \in Readers, ReaderStep(r)
  PROVE  WriteInv'
<1> USE DEF deviceVars, writerVars, readerVars, mainVars
<1>1. CASE Read(r)
  <2>1. PICK out : Taken(out) /\ Handed(r, out)
    BY <1>1, ReadEffect
  <2>2. faults' = faults
    BY QuietReader DEF HealthyInv
  <2>3. Deliver(r, out)
    <3>1. faults # faults + 1
      BY DEF TypeOK
    <3> QED
      BY <2>1, <2>2, <3>1 DEF Handed
  <2>4. delivered' \o device' = delivered \o device
    <3>1. /\ delivered \in Seq(Units) /\ out \in Seq(Units) /\ device' \in Seq(Units)
          /\ out \o device' = device /\ delivered' = delivered \o out
      BY <2>1, <2>3 DEF TypeOK, Taken, Deliver
    <3>2. (delivered \o out) \o device' = delivered \o (out \o device')
      <4>1. delivered \in Seq(Units) /\ out \in Seq(Units) /\ device' \in Seq(Units)
        BY <3>1
      <4> QED
        BY <4>1, ConcatAssociative, SMTT(40)
    <3> QED
      BY <3>1, <3>2
  <2>5. UNCHANGED <<test, completed, write_lock, sequence, offset>>
    BY <2>3 DEF Deliver
  <2> QED
    BY <2>4, <2>5 DEF HealthyInv, WriteInv, Messages
<1>2. CASE ~Read(r)
  <2>1. UNCHANGED <<test, delivered, device, completed, write_lock, sequence, offset>>
    BY <1>2 DEF ReaderStep, NextRead, LockReads, ReadError, AppendAndValidate, AppendFails,
                Appended, NothingRead, Idle, GiveUp
  <2> QED
    BY <2>1 DEF HealthyInv, WriteInv, Messages
<1> QED
  BY <1>1, <1>2

\* Main and the beginnings of threads leave alone what was written.
LEMMA WriteMain ==
  ASSUME WriteInv,
         Join \/ \E t \in Threads : Create(t) \/ CreateFails(t) \/ Start(t) \/ StartFails(t)
  PROVE  WriteInv'
<1>1. UNCHANGED <<test, delivered, device, completed, write_lock, sequence, offset>>
  BY DEF Join, Create, CreateFails, Start, StartFails, deviceVars, writerVars, readerVars, mainVars
<1> QED
  BY <1>1 DEF WriteInv, Messages

\* The writers that have left are counted, however many steps the others make.
LEMMA DoneKept ==
  ASSUME DoneInv, UNCHANGED <<test, done>>,
         \A w \in Writers : /\ pc'[w] = "exit" <=> pc[w] = "exit"
                            /\ pc[w] = "exit" => sequence'[w] = sequence[w]
  PROVE  DoneInv'
<1>1. {w \in Writers : pc'[w] = "exit"} = {w \in Writers : pc[w] = "exit"}
  OBVIOUS
<1> QED
  BY <1>1 DEF DoneInv, Messages

LEMMA DoneWriter ==
  ASSUME TypeOK, ThreadInv, Healthy, HealthyInv, NEW w \in Writers, WriterStep(w)
  PROVE  DoneInv'
<1> USE DEF deviceVars, writerVars, readerVars, mainVars
<1>0. /\ w \in Threads /\ Messages \in Nat /\ sequence \in [Writers -> Nat]
      /\ WriterOK(w, pc[w], write_lock, sequence[w], Messages) /\ DoneInv /\ ~stop
      /\ \A v \in Writers : v \in Threads
  BY PlacesAre, Sizes DEF TypeOK, Messages, ThreadInv, HealthyInv, QuietInv
<1>1. ~GiveUp(w) /\ ~FrameCancelled(w) /\ ~WriteError(w)
  <2>1. ~(faults < MaxFaults)
    BY HealthyFacts DEF TypeOK
  <2> QED
    BY <1>0, <2>1 DEF HealthyInv, QuietInv, GiveUp, FrameCancelled, WriteError
<1>2. CASE NextMessage(w) /\ ~(sequence[w] < Messages)
  <2>1. pc[w] = "loop" /\ Moved(w, "exit") /\ done' = done + 1 /\ UNCHANGED <<test, sequence>>
    BY <1>2 DEF NextMessage, Goto, Moved
  <2>2. pc'[w] = "exit" /\ \A u \in Threads : u # w => pc'[u] = pc[u]
    BY <1>0, <2>1, PlacesAre, Moves DEF TypeOK, Places
  <2> DEFINE old == {v \in Writers : pc[v] = "exit"}
             new == {v \in Writers : pc'[v] = "exit"}
  <2>3. new = old \cup {w} /\ w \notin old
    BY <1>0, <2>1, <2>2
  <2>4. IsFiniteSet(old)
    BY StressAssumption, FS_Subset
  <2> HIDE DEF old, new
  <2>5. Cardinality(new) = Cardinality(old) + 1
    BY <2>3, <2>4, FS_AddElement
  <2>6. sequence[w] = Messages
    BY <1>0, <1>2 DEF WriterOK
  <2>7. done' = Cardinality(new)
    BY <1>0, <2>1, <2>5 DEF DoneInv, old
  <2>8. \A v \in Writers : pc'[v] = "exit" => sequence'[v] = Messages'
    BY <1>0, <2>1, <2>2, <2>6 DEF DoneInv, Messages
  <2> QED
    BY <2>7, <2>8 DEF DoneInv, new
<1>3. CASE ~(NextMessage(w) /\ ~(sequence[w] < Messages))
  <2>1. /\ UNCHANGED <<test, done>> /\ pc[w] # "exit"
        /\ \A v \in Writers : v # w => sequence'[v] = sequence[v]
        /\ pc' = pc \/ \E l \in {"lock", "write", "loop"} : Moved(w, l)
    <3>1. CASE NextMessage(w)
      BY <1>0, <1>3, <3>1 DEF NextMessage, Goto, Moved
    <3>2. CASE LockWrites(w)
      BY <3>2 DEF LockWrites, Goto, Moved
    <3>3. CASE WriteSome(w)
      BY <3>3 DEF WriteSome
    <3>4. CASE FrameWritten(w)
      BY <1>0, <3>4 DEF FrameWritten, Goto, Moved
    <3> QED
      BY <1>1, <3>1, <3>2, <3>3, <3>4 DEF WriterStep
  <2>2. pc'[w] # "exit" /\ \A v \in Writers : v # w => pc'[v] = pc[v]
    <3>1. CASE pc' = pc
      BY <2>1, <3>1
    <3>2. CASE \E l \in {"lock", "write", "loop"} : Moved(w, l)
      <4>1. PICK l \in {"lock", "write", "loop"} : Moved(w, l)
        BY <3>2
      <4> QED
        BY <1>0, <4>1, PlacesAre, Moves DEF TypeOK, Places
    <3> QED
      BY <2>1, <3>1, <3>2
  <2>3. \A v \in Writers : /\ pc'[v] = "exit" <=> pc[v] = "exit"
                           /\ pc[v] = "exit" => sequence'[v] = sequence[v]
    BY <2>1, <2>2
  <2> QED
    BY <1>0, <2>1, <2>3, DoneKept
<1> QED
  BY <1>2, <1>3

\* A thread of main's goes on, and no writer leaves by it.
LEMMA MainMoves ==
  ASSUME TypeOK, Healthy, NEW t \in Threads, Create(t) \/ CreateFails(t) \/ Start(t) \/ StartFails(t)
  PROVE  /\ UNCHANGED <<test, done, sequence, seen, idle>>
         /\ pc[t] \in {"none", "start"} /\ pc'[t] \in {"start", "loop"}
         /\ \A u \in Threads : u # t => pc'[u] = pc[u]
<1> USE DEF deviceVars, writerVars, readerVars, mainVars
<1>1. ~CreateFails(t) /\ ~StartFails(t)
  BY HealthyFacts DEF CreateFails, StartFails
<1>2. /\ UNCHANGED <<test, done, sequence, seen, idle>> /\ pc[t] \in {"none", "start"}
      /\ \E l \in {"start", "loop"} : Moved(t, l)
  BY <1>1 DEF Create, Start, Goto, Moved
<1>3. PICK l \in {"start", "loop"} : Moved(t, l)
  BY <1>2
<1> QED
  BY <1>2, <1>3, PlacesAre, Moves DEF TypeOK, Places

\* A reader's step leaves the writers where they are.
LEMMA ReaderMoves ==
  ASSUME TypeOK, NEW r \in Readers, ReaderStep(r)
  PROVE  /\ UNCHANGED <<test, done, sequence>>
         /\ \A u \in Threads : u # r => pc'[u] = pc[u]
         /\ \A q \in Readers : q # r => idle'[q] = idle[q]
<1> USE DEF deviceVars, writerVars, readerVars, mainVars
<1>1. /\ UNCHANGED <<test, done, sequence>> /\ \E l \in Places : Moved(r, l)
      /\ \A q \in Readers : q # r => idle'[q] = idle[q]
  <2> USE PlacesAre DEF Goto, Moved, TypeOK
  <2>1. CASE Read(r)
    <3>1. \E bytes : Deliver(r, bytes)
      BY <2>1 DEF Read
    <3> QED
      BY <3>1 DEF Deliver
  <2>2. CASE NextRead(r)
    BY <2>2 DEF NextRead
  <2>3. CASE LockReads(r)
    BY <2>3 DEF LockReads
  <2>4. CASE ReadError(r)
    BY <2>4 DEF ReadError
  <2>5. CASE AppendAndValidate(r)
    BY <2>5 DEF AppendAndValidate
  <2>6. CASE AppendFails(r)
    BY <2>6 DEF AppendFails
  <2>7. CASE Appended(r)
    BY <2>7 DEF Appended
  <2>8. CASE NothingRead(r)
    BY <2>8 DEF NothingRead
  <2>9. CASE Idle(r)
    BY <2>9 DEF Idle
  <2>10. CASE GiveUp(r)
    BY <2>10 DEF GiveUp
  <2> QED
    BY <2>1, <2>2, <2>3, <2>4, <2>5, <2>6, <2>7, <2>8, <2>9, <2>10 DEF ReaderStep
<1>2. PICK l \in Places : Moved(r, l)
  BY <1>1
<1>3. \A u \in Threads : u # r => pc'[u] = pc[u]
  BY <1>2, PlacesAre, Moves DEF TypeOK, Places
<1> QED
  BY <1>1, <1>3

\* A writer's step leaves the readers, and the writers that have left, where they are.
LEMMA WriterMoves ==
  ASSUME TypeOK, NEW w \in Writers, WriterStep(w)
  PROVE  /\ UNCHANGED <<test, seen, idle>> /\ pc[w] # "exit"
         /\ \A u \in Threads : u # w => pc'[u] = pc[u]
<1> USE DEF deviceVars, writerVars, readerVars, mainVars
<1>1. /\ UNCHANGED <<test, seen, idle>> /\ pc[w] # "exit"
      /\ pc' = pc \/ \E l \in Places : Moved(w, l)
  <2> USE PlacesAre DEF Goto, Moved, TypeOK
  <2>1. CASE NextMessage(w)
    BY <2>1 DEF NextMessage
  <2>2. CASE LockWrites(w)
    BY <2>2 DEF LockWrites
  <2>3. CASE WriteSome(w)
    BY <2>3 DEF WriteSome
  <2>4. CASE FrameWritten(w)
    BY <2>4 DEF FrameWritten
  <2>5. CASE FrameCancelled(w)
    BY <2>5 DEF FrameCancelled
  <2>6. CASE WriteError(w)
    BY <2>6 DEF WriteError
  <2>7. CASE GiveUp(w)
    BY <2>7 DEF GiveUp
  <2> QED
    BY <2>1, <2>2, <2>3, <2>4, <2>5, <2>6, <2>7 DEF WriterStep
<1>2. \A u \in Threads : u # w => pc'[u] = pc[u]
  <2>1. CASE pc' = pc
    BY <2>1
  <2>2. CASE \E l \in Places : Moved(w, l)
    <3>1. PICK l \in Places : Moved(w, l)
      BY <2>2
    <3> QED
      BY <3>1, PlacesAre, Moves DEF TypeOK, Places
  <2> QED
    BY <1>1, <2>1, <2>2
<1> QED
  BY <1>1, <1>2

LEMMA IdleOthers ==
  ASSUME TypeOK, Healthy, HealthyInv,
         \/ \E t \in Threads : Create(t) \/ CreateFails(t) \/ Start(t) \/ StartFails(t)
         \/ \E w \in Writers : WriterStep(w)
  PROVE  IdleInv'
<1>1. /\ UNCHANGED <<test, seen, idle>>
      /\ \A w \in Writers : pc[w] = "exit" => pc'[w] = "exit"
      /\ \A r \in Readers : pc'[r] = pc[r] \/ pc'[r] \in {"start", "loop"}
  <2>1. CASE \E t \in Threads : Create(t) \/ CreateFails(t) \/ Start(t) \/ StartFails(t)
    <3>1. PICK t \in Threads : Create(t) \/ CreateFails(t) \/ Start(t) \/ StartFails(t)
      BY <2>1
    <3>2. /\ UNCHANGED <<test, done, sequence, seen, idle>>
          /\ pc[t] \in {"none", "start"} /\ pc'[t] \in {"start", "loop"}
          /\ \A u \in Threads : u # t => pc'[u] = pc[u]
      BY <3>1, MainMoves
    <3> QED
      BY <3>2, PlacesAre
  <2>2. CASE \E w \in Writers : WriterStep(w)
    <3>1. PICK w \in Writers : WriterStep(w)
      BY <2>2
    <3>2. /\ UNCHANGED <<test, seen, idle>> /\ pc[w] # "exit"
          /\ \A u \in Threads : u # w => pc'[u] = pc[u]
      BY <3>1, WriterMoves
    <3> QED
      BY <3>2, PlacesAre
  <2> QED
    BY <2>1, <2>2
<1>2. AllWritten => AllWritten'
  BY <1>1 DEF AllWritten
<1>3. AllSeen' = AllSeen
  BY <1>1 DEF AllSeen, Expected, Messages
<1> QED
  BY <1>1, <1>2, <1>3 DEF HealthyInv, IdleInv

\* What a reader at l that counted n times knows.
Knows(l, n) ==
  /\ n \in {0, 1}
  /\ n = 1 \/ l = "idle" => AllWritten
  /\ n = 1 /\ l \in {"nothing", "idle"} => AllSeen
  /\ l = "exit" => AllSeen

\* done counts all writers only when all have left.
LEMMA AllDone ==
  ASSUME DoneInv, done >= Cardinality(Writers)
  PROVE  AllWritten
<1> DEFINE left == {w \in Writers : pc[w] = "exit"}
<1>1. IsFiniteSet(Writers) /\ left \in SUBSET Writers
  BY StressAssumption
<1>2. /\ IsFiniteSet(left) /\ Cardinality(left) <= Cardinality(Writers)
      /\ Cardinality(Writers) = Cardinality(left) => Writers = left
  BY <1>1, FS_Subset
<1>3. Cardinality(Writers) \in Nat /\ Cardinality(left) \in Nat
  BY <1>1, <1>2, FS_CardinalityType
<1>4. Cardinality(left) = done
  BY DEF DoneInv
<1> HIDE DEF left
<1>5. Writers = left
  BY <1>2, <1>3, <1>4
<1> QED
  BY <1>5 DEF left, AllWritten

LEMMA IdleReader ==
  ASSUME TypeOK, ThreadInv, ReadInv, Healthy, HealthyInv, NEW r \in Readers, ReaderStep(r)
  PROVE  IdleInv'
<1> USE DEF deviceVars, writerVars, readerVars, mainVars
<1>0. /\ r \in Threads /\ ~failed /\ ~stop /\ pc \in [Threads -> Places] /\ idle \in [Readers -> Nat]
      /\ Knows(pc[r], idle[r])
      /\ QuietInv /\ WriteInv /\ DoneInv /\ IdleInv
  BY PlacesAre DEF TypeOK, Places, HealthyInv, QuietInv, IdleInv, Knows
<1>1. ~ReadError(r) /\ ~AppendFails(r) /\ ~GiveUp(r) /\ faults' = faults
  BY <1>0, QuietReader
<1>2. /\ test' = test /\ \A u \in Threads : u # r => pc'[u] = pc[u]
      /\ \A q \in Readers : q # r => idle'[q] = idle[q]
  BY ReaderMoves
<1>3. AllWritten' <=> AllWritten
  BY <1>2, PlacesAre DEF AllWritten
<1>4. seen \subseteq seen'
  <2>1. CASE AppendAndValidate(r)
    <3>1. pc[r] = "append" /\ seen' = Scan(stream \o got[r], seen, failed).seen
      BY <2>1 DEF AppendAndValidate
    <3>2. seen \subseteq Scan(stream \o got[r], seen, failed).seen
      BY <1>0, <3>1, HealthyScan
    <3> QED
      BY <3>1, <3>2
  <2>2. CASE Read(r)
    <3>1. \E bytes : Deliver(r, bytes)
      BY <2>2 DEF Read
    <3> QED
      BY <3>1 DEF Deliver
  <2> QED
    BY <1>1, <2>1, <2>2 DEF ReaderStep, NextRead, LockReads, Appended, NothingRead, Idle
<1>5. AllSeen => AllSeen'
  <2>1. TypeOK'
    BY TypeReader
  <2>2. Messages' = Messages /\ Expected' = Expected /\ Messages \in Nat
    BY <1>2, Sizes DEF TypeOK, Messages, Expected
  <2>3. seen' \subseteq Ids(Messages)
    BY <2>1, <2>2 DEF TypeOK
  <2>4. IsFiniteSet(Ids(Messages)) /\ Expected \in Nat
    BY <2>2, IdsCount DEF Expected
  <2>5. IsFiniteSet(seen')
    BY <2>3, <2>4, FS_Subset
  <2>6. Cardinality(seen) <= Cardinality(seen') /\ IsFiniteSet(seen)
    BY <1>4, <2>5, FS_Subset
  <2>7. Cardinality(seen) \in Nat /\ Cardinality(seen') \in Nat
    BY <2>5, <2>6, FS_CardinalityType
  <2> QED
    BY <2>2, <2>4, <2>6, <2>7 DEF AllSeen
<1>6. \A q \in Readers : q # r => Knows(pc[q], idle[q])' 
  BY <1>0, <1>2, <1>3, <1>5, PlacesAre DEF IdleInv, Knows
<1>7. Knows(pc[r], idle[r])'
  <2> USE DEF Goto
  <2>1. CASE NextRead(r)
    BY <1>0, <1>3, <1>5, <2>1 DEF NextRead, Knows
  <2>2. CASE LockReads(r)
    BY <1>0, <1>3, <1>5, <2>2 DEF LockReads, Knows
  <2>3. CASE Appended(r)
    BY <1>0, <1>3, <1>5, <2>3 DEF Appended, Knows, AllSeen
  <2>4. CASE NothingRead(r)
    BY <1>0, <1>3, <1>5, <2>4, AllDone DEF NothingRead, Knows
  <2>5. CASE AppendAndValidate(r)
    BY <1>0, <1>3, <1>5, <2>5 DEF AppendAndValidate, Knows
  <2>6. CASE Idle(r)
    <3>1. pc[r] = "idle" /\ AllWritten /\ idle[r] \in {0, 1} /\ (idle[r] = 1 => AllSeen)
      BY <1>0, <2>6 DEF Idle, Knows
    <3>2. CASE AllSeen
      <4>1. Cardinality(seen) >= Expected
        BY <3>2 DEF AllSeen
      <4>2. pc'[r] = "exit" /\ idle'[r] = idle[r]
        BY <1>0, <2>6, <4>1 DEF Idle
      <4> QED
        BY <1>3, <1>5, <3>1, <3>2, <4>2 DEF Knows
    <3>3. CASE ~AllSeen
      <4>1. idle[r] = 0 /\ ~(Cardinality(seen) >= Expected) /\ ~(1 > IdleLimit)
        BY <3>1, <3>3, StressAssumption DEF AllSeen
      <4>2. pc'[r] = "loop" /\ idle'[r] = 1
        BY <1>0, <2>6, <4>1 DEF Idle
      <4> QED
        BY <1>3, <3>1, <4>2 DEF Knows
    <3> QED
      BY <3>2, <3>3
  <2>7. CASE Read(r)
    <3>1. PICK out : Taken(out) /\ Handed(r, out)
      BY <2>7, ReadEffect
    <3>2. Deliver(r, out)
      <4>1. faults # faults + 1
        BY DEF TypeOK
      <4> QED
        BY <1>1, <3>1, <4>1 DEF Handed
    <3>3. idle' = idle /\ pc'[r] = IF out = << >> THEN "nothing" ELSE "append"
      BY <1>0, <3>2 DEF Deliver
    <3>4. CASE out # << >>
      BY <1>0, <1>3, <3>3, <3>4 DEF Knows
    <3>5. CASE out = << >>
      <4>1. Len(device) = 0
        BY <3>1, <3>5 DEF Taken
      <4>2. Unscanned(stream, read_lock, got) = stream
        <5>1. read_lock = r /\ got[r] = << >>
          BY <2>7 DEF Read, ThreadInv, ReaderOK
        <5> QED
          BY <5>1, UnscannedIs
      <4>3. AllWritten => AllSeen
        <5>1. AllWritten => Cardinality(seen) = Expected /\ Expected \in Nat
          BY <1>0, <4>1, <4>2, AllRead
        <5> QED
          BY <5>1 DEF AllSeen
      <4> QED
        BY <1>0, <1>3, <1>5, <3>3, <3>5, <4>3 DEF Knows
    <3> QED
      BY <3>4, <3>5
  <2> QED
    BY <1>1, <2>1, <2>2, <2>3, <2>4, <2>5, <2>6, <2>7 DEF ReaderStep
<1> QED
  BY <1>6, <1>7 DEF IdleInv, Knows

-----------------------------------------------------------------------------
(***************************************************************************)
(* The invariant and what it says.                                         *)
(***************************************************************************)
LEMMA TestSame ==
  ASSUME [Next]_vars
  PROVE  test' = test
<1> USE DEF deviceVars, writerVars, readerVars, mainVars
<1>1. CASE UNCHANGED vars \/ Ended \/ Join
  BY <1>1 DEF vars, Ended, Join
<1>2. CASE \E t \in Threads : Create(t) \/ CreateFails(t) \/ Start(t) \/ StartFails(t)
  BY <1>2 DEF Create, CreateFails, Start, StartFails
<1>3. CASE \E w \in Writers : WriterStep(w)
  BY <1>3 DEF WriterStep, NextMessage, LockWrites, WriteSome, FrameWritten, FrameCancelled,
              WriteError, GiveUp
<1>4. CASE \E r \in Readers : ReaderStep(r)
  <2>1. PICK r \in Readers : ReaderStep(r)
    BY <1>4
  <2>2. CASE Read(r)
    <3>1. \E bytes : Deliver(r, bytes)
      BY <2>2 DEF Read
    <3> QED
      BY <3>1 DEF Deliver
  <2> QED
    BY <2>1, <2>2 DEF ReaderStep, NextRead, LockReads, ReadError, AppendAndValidate, AppendFails,
                      Appended, NothingRead, Idle, GiveUp
<1> QED
  BY <1>1, <1>2, <1>3, <1>4 DEF Next

LEMMA NothingMoves ==
  ASSUME Inv, UNCHANGED vars
  PROVE  Inv'
<1> USE DEF vars, deviceVars, writerVars, readerVars, mainVars, Messages, Expected
<1>1. TypeOK'
  BY DEF Inv, TypeOK
<1>2. ThreadInv'
  BY DEF Inv, ThreadInv
<1>3. ReadInv'
  BY DEF Inv, ReadInv, Unscanned
<1>4. PassInv'
  BY DEF Inv, PassInv, Passed
<1>5. Healthy => QuietInv' /\ WriteInv'
  BY DEF Inv, SoundInv, QuietInv, WriteInv
<1>6. Healthy => DoneInv'
  BY DEF Inv, SoundInv, DoneInv
<1>7. Healthy => IdleInv'
  BY DEF Inv, SoundInv, IdleInv, AllWritten, AllSeen
<1>8. SoundInv'
  BY <1>5, <1>6, <1>7 DEF SoundInv, Healthy
<1> QED
  BY <1>1, <1>2, <1>3, <1>4, <1>8 DEF Inv

LEMMA SoundStep ==
  ASSUME Inv, Healthy, Next, ~Ended
  PROVE  QuietInv' /\ WriteInv' /\ DoneInv' /\ IdleInv'
<1>1. TypeOK /\ ThreadInv /\ ReadInv /\ QuietInv /\ WriteInv /\ DoneInv /\ IdleInv /\ HealthyInv
  BY DEF Inv, SoundInv, HealthyInv
<1>2. CASE \E t \in Threads : Create(t) \/ CreateFails(t) \/ Start(t) \/ StartFails(t)
  <2>1. PICK t \in Threads : Create(t) \/ CreateFails(t) \/ Start(t) \/ StartFails(t)
    BY <1>2
  <2>2. QuietInv' /\ WriteInv' /\ IdleInv'
    BY <1>1, <2>1, QuietMain, WriteMain, IdleOthers
  <2>3. /\ UNCHANGED <<test, done, sequence, seen, idle>>
        /\ pc[t] \in {"none", "start"} /\ pc'[t] \in {"start", "loop"}
        /\ \A u \in Threads : u # t => pc'[u] = pc[u]
    BY <1>1, <2>1, MainMoves
  <2>4. \A w \in Writers : /\ pc'[w] = "exit" <=> pc[w] = "exit"
                           /\ pc[w] = "exit" => sequence'[w] = sequence[w]
    BY <2>3, PlacesAre
  <2>5. DoneInv'
    BY <1>1, <2>3, <2>4, DoneKept
  <2> QED
    BY <2>2, <2>5
<1>3. CASE \E w \in Writers : WriterStep(w)
  <2>1. PICK w \in Writers : WriterStep(w)
    BY <1>3
  <2> QED
    BY <1>1, <2>1, QuietWriter, WriteWriter, DoneWriter, IdleOthers
<1>4. CASE \E r \in Readers : ReaderStep(r)
  <2>1. PICK r \in Readers : ReaderStep(r)
    BY <1>4
  <2>2. QuietInv' /\ WriteInv' /\ IdleInv'
    BY <1>1, <2>1, QuietReader, WriteReader, IdleReader
  <2>3. UNCHANGED <<test, done, sequence>> /\ \A u \in Threads : u # r => pc'[u] = pc[u]
    BY <1>1, <2>1, ReaderMoves
  <2>4. \A w \in Writers : /\ pc'[w] = "exit" <=> pc[w] = "exit"
                           /\ pc[w] = "exit" => sequence'[w] = sequence[w]
    BY <2>3, PlacesAre
  <2>5. DoneInv'
    BY <1>1, <2>3, <2>4, DoneKept
  <2> QED
    BY <2>2, <2>5
<1>5. CASE Join
  <2>1. QuietInv' /\ WriteInv'
    BY <1>1, <1>5, QuietJoin, WriteMain
  <2>2. UNCHANGED <<test, done, sequence, pc, idle, seen>>
    BY <1>5 DEF Join, writerVars, readerVars
  <2>3. DoneInv'
    BY <1>1, <2>2, DoneKept
  <2>4. IdleInv'
    BY <1>1, <2>2 DEF IdleInv, AllWritten, AllSeen, Expected, Messages
  <2> QED
    BY <2>1, <2>3, <2>4
<1> QED
  BY <1>2, <1>3, <1>4, <1>5 DEF Next

LEMMA NextInv == Inv /\ [Next]_vars => Inv'
<1> SUFFICES ASSUME Inv, [Next]_vars PROVE Inv'
  OBVIOUS
<1>1. CASE UNCHANGED vars \/ Ended
  BY <1>1, NothingMoves DEF Ended
<1>2. CASE Next /\ ~Ended
  <2>1. TypeOK /\ ThreadInv /\ ReadInv /\ PassInv
    BY DEF Inv
  <2>2. TypeOK' /\ ThreadInv' /\ ReadInv'
    <3>1. CASE Join \/ \E t \in Threads : Create(t) \/ CreateFails(t) \/ Start(t) \/ StartFails(t)
      <4>1. PICK t \in Threads : Create(t) \/ CreateFails(t) \/ Start(t) \/ StartFails(t) \/ Join
        <5>1. \E r : r \in Readers
          BY StressAssumption
        <5> QED
          BY <3>1, <5>1, PlacesAre
      <4> QED
        BY <2>1, <4>1, TypeMain, ThreadsMain, ReadOthers
    <3>2. CASE \E w \in Writers : WriterStep(w)
      BY <2>1, <3>2, TypeWriter, ThreadsWriter, ReadOthers
    <3>3. CASE \E r \in Readers : ReaderStep(r)
      BY <2>1, <3>3, TypeReader, ThreadsReader, ReadReader
    <3> QED
      BY <1>2, <3>1, <3>2, <3>3 DEF Next
  <2>3. PassInv'
    BY <1>2, <2>1, PassStep
  <2>4. test' = test
    BY TestSame
  <2>5. SoundInv'
    <3>1. Healthy' <=> Healthy
      BY <2>4 DEF Healthy
    <3> QED
      BY <1>2, <3>1, SoundStep DEF SoundInv
  <2> QED
    BY <2>2, <2>3, <2>5 DEF Inv
<1> QED
  BY <1>1, <1>2

\* A pass leaves nothing that was delivered unseen.
LEMMA InvPass == Inv => PassMeansDelivered
<1> SUFFICES ASSUME Inv, exit_code = 0
             PROVE  /\ Len(delivered) = Expected * FrameSize
                    /\ \A id \in Writers \X (0..Messages-1) :
                         \E k \in 0..Expected-1 :
                           SubSeq(delivered, k * FrameSize + 1, (k + 1) * FrameSize)
                             = Frame(id[1], id[2])
  BY DEF PassMeansDelivered
<1>1. /\ Passed /\ \A t \in Threads : pc[t] \in {"none", "exit"}
      /\ TypeOK /\ ThreadInv /\ ReadInv
  BY DEF Inv, PassInv
<1>2. /\ Cardinality(seen) = Expected /\ ~failed /\ stream = << >>
      /\ delivered \in Seq(Units) /\ Len(delivered) \in Nat /\ Messages \in Nat /\ FrameSize \in Nat
      /\ seen \in SUBSET Ids(Messages)
  BY <1>1, Sizes DEF Passed, TypeOK, Messages
<1>3. IsRead(Messages, delivered, stream, seen)
  BY <1>1, <1>2, LocksFree DEF ReadInv
<1>4. PICK m, order : ReadAt(Messages, delivered, stream, seen, m, order)
  BY <1>3 DEF IsRead
<1>5. /\ m \in Nat /\ Lists(order, m, seen) /\ Len(delivered) = m * FrameSize + Len(stream)
      /\ \A k \in 1..m : \A i \in 1..FrameSize :
           delivered[(k - 1) * FrameSize + i] = Unit(order[k][1], order[k][2], i)
  BY <1>4 DEF ReadAt, Lists
<1>6. Cardinality(seen) = m
  BY <1>5, DifferentCount
<1>7. m = Expected /\ Len(stream) = 0
  BY <1>2, <1>6
<1>8. m * FrameSize \in Nat /\ Len(delivered) = m * FrameSize
  <2>1. m * FrameSize \in Nat
    BY <1>5, Frames
  <2> DEFINE a == m * FrameSize
  <2>2. a \in Nat /\ Len(delivered) = a + 0
    BY <1>5, <1>7, <2>1
  <2> HIDE DEF a
  <2>3. Len(delivered) = a
    BY <2>2
  <2> QED
    BY <2>1, <2>3 DEF a
<1>9. seen = Ids(Messages)
  <2>1. /\ IsFiniteSet(Ids(Messages)) /\ Cardinality(Ids(Messages)) = Expected
    BY <1>2, IdsCount DEF Expected
  <2> QED
    BY <1>2, <2>1, FS_Subset
<1>10. ASSUME NEW id \in Writers \X (0..Messages-1)
       PROVE  \E k \in 0..Expected-1 :
                SubSeq(delivered, k * FrameSize + 1, (k + 1) * FrameSize) = Frame(id[1], id[2])
  <2>1. PICK j \in 1..m : order[j] = id
    BY <1>5, <1>9 DEF Lists, Ids
  <2> DEFINE k == j - 1
             a == k * FrameSize
             b == (k + 1) * FrameSize
             f == SubSeq(delivered, a + 1, b)
  <2>2. k \in 0..Expected-1 /\ k \in Nat /\ k + 1 <= m /\ j - 1 = k
    BY <1>5, <1>7
  <2> HIDE DEF k
  <2>3. a \in Nat /\ b = a + FrameSize /\ b <= Len(delivered)
    BY <1>5, <1>8, <2>2, Frames
  <2>4. \A i \in 1..FrameSize : delivered[a + i] = Unit(id[1], id[2], i)
    BY <1>5, <2>1, <2>2
  <2> HIDE DEF a, b
  <2>5. /\ f \in Seq(Units) /\ Len(f) = FrameSize
        /\ \A i \in 1..FrameSize : f[i] = delivered[a + i]
    <3>1. \A i \in a + 1..b : delivered[i] \in Units
      <4>1. \A i \in a + 1..b : i \in 1..Len(delivered)
        BY <1>2, <2>3
      <4> QED
        BY <1>2, <4>1
    <3>2. a + 1 \in Int /\ b \in Int /\ b - (a + 1) + 1 = FrameSize /\ FrameSize >= 1
      BY <1>2, <2>3, Sizes
    <3>3. /\ f \in Seq(Units) /\ Len(f) = IF a + 1 <= b THEN b - (a + 1) + 1 ELSE 0
          /\ \A i \in 1 .. b - (a + 1) + 1 : f[i] = delivered[a + 1 + i - 1]
      BY <3>1, <3>2, SubSeqProperties
    <3> HIDE DEF f
    <3>4. Len(f) = FrameSize
      BY <1>2, <2>3, <3>2, <3>3
    <3>5. \A i \in 1..FrameSize : a + 1 + i - 1 = a + i
      BY <2>3
    <3> QED
      BY <3>2, <3>3, <3>4, <3>5
  <2> HIDE DEF f
  <2>6. f = Frame(id[1], id[2])
    <3>1. f = [i \in 1..FrameSize |-> f[i]]
      BY <2>5
    <3>2. f = [i \in 1..FrameSize |-> Unit(id[1], id[2], i)]
      BY <2>4, <2>5, <3>1
    <3> QED
      BY <3>2 DEF Frame
  <2> QED
    BY <2>2, <2>6 DEF f, a, b
<1> QED
  BY <1>7, <1>8, <1>10

(***************************************************************************)
(* The test passes only if the device handed out the frames of all         *)
(* messages, whole, each once, and nothing else: what                      *)
(* validate_available_frames takes for a pass is one, whatever the device, *)
(* the scheduler and the failing calls do.                                 *)
(***************************************************************************)
THEOREM PassIsEarned == Spec => []PassMeansDelivered
BY InitInv, NextInv, InvPass, PTL DEF Spec

(***************************************************************************)
(* A device that works passes: no reader of concurrent_test.c reports a    *)
(* frame, and main returns 0, whatever the interleaving of partial writes  *)
(* and reads.                                                              *)
(***************************************************************************)
THEOREM HealthyDevicePasses == Spec => []HealthyPasses
<1>1. Inv => HealthyPasses
  BY DEF Inv, SoundInv, QuietInv, HealthyPasses
<1> QED
  BY <1>1, InitInv, NextInv, PTL DEF Spec

(***************************************************************************)
(* On a device that works, a reader that found nothing after all writers   *)
(* were done finds the books complete the next time it looks, so that      *)
(* idle_after_writers never comes near its limit.                          *)
(***************************************************************************)
THEOREM ReadersStay == Spec => []NoReaderGivesUp
<1>1. Inv => NoReaderGivesUp
  BY DEF Inv, SoundInv, IdleInv, NoReaderGivesUp
<1> QED
  BY <1>1, InitInv, NextInv, PTL DEF Spec

=============================================================================
