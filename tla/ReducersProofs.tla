--------------------------- MODULE ReducersProofs ---------------------------
(***************************************************************************)
(* What the three reducers promise, for every scenario size, every number  *)
(* of trials and every budget, and for every set of calls of reduce().     *)
(*                                                                         *)
(* The two delta-debugging loops of Reduction come first: Delta!...  names *)
(* their operators as MCReducers instantiates them.                        *)
(***************************************************************************)
EXTENDS MCReducers, FiniteSetTheorems, TLAPS

\* The workers of the operations.
AllOwners == {Delta!Owner(i) : i \in 1..Size}

\* The values of the variables of a delta-debugging loop.
DeltaTypeOK ==
  /\ mode \in {"scenario", "concurrent"}
  /\ strategy \in {"single", "chunk"}
  /\ budget \in Nat
  /\ operations \in Seq(1..Size) /\ operations # << >>
  /\ worker_ids \in Seq(AllOwners)
  /\ granularity \in Nat \ {0} /\ start \in Nat /\ changed \in BOOLEAN
  /\ attempts \in Nat
  /\ groups.count \in Nat /\ groups.matched \in BOOLEAN

\* What is left is a part of the scenario in its order, and its owners.
DeltaParts ==
  /\ Len(worker_ids) = Len(operations)
  /\ \A k \in DOMAIN operations : worker_ids[k] = Delta!Owner(operations[k])
  /\ \A j, k \in DOMAIN operations : j < k => operations[j] < operations[k]

\* The groups that were run, by the place of the function.
DeltaGroups ==
  /\ attempts <= budget
  /\ phase \in {"initial", "while", "for", "confirm", "ended"}
  /\ phase = "initial" => groups.count = 0 /\ attempts = 0 /\ Len(operations) = Size
  /\ phase \in {"while", "for", "confirm"} => groups.count = attempts + 1
  /\ phase # "ended" => outcome = "none"
  /\ phase = "ended" =>
       \/ groups.count = 1 /\ attempts = 0 /\ outcome # "EXECUTABLE_REPRODUCER_FOUND"
       \/ /\ groups.count = attempts + 2
          /\ outcome = "EXECUTABLE_REPRODUCER_FOUND" =>
               groups.last = operations /\ groups.matched

\* A round of single deletions has rejected those it went past, and the
\* result of a search within its budget is what such a round left over.
DeltaScanned ==
  phase = "for" /\ ~changed /\ Delta!Chunk = 1 =>
    /\ start <= Len(operations)
    /\ \A k \in 1..start : Delta!Remove(operations, k) \in rejected

DeltaDone ==
  (phase = "confirm" \/ (phase = "ended" /\ groups.count > 1))
    /\ attempts < budget /\ Len(operations) > 1 =>
    \A k \in 1..Len(operations) : Delta!Remove(operations, k) \in rejected

DeltaInv == DeltaTypeOK /\ DeltaParts /\ DeltaGroups /\ DeltaScanned /\ DeltaDone

DeltaKept == mode # "dradd" => DeltaInv

-----------------------------------------------------------------------------
\* The chunk of a round is at least one operation, and one if there are as
\* many chunks as operations.
LEMMA ChunkSize ==
  ASSUME NEW L \in Nat \ {0}, NEW g \in Nat \ {0}
  PROVE  /\ (L + g - 1) \div g \in Nat \ {0}
         /\ L <= g => (L + g - 1) \div g = 1
  OBVIOUS

\* A sequence without the w members that follow the first a.
Cut(s, a, w) == SubSeq(s, 1, a) \o SubSeq(s, a + w + 1, Len(s))

LEMMA Deletion ==
  ASSUME NEW S, NEW s \in Seq(S), NEW a \in Nat, NEW w \in Nat \ {0}, a < Len(s)
  PROVE  /\ Cut(s, a, w) \in Seq(S)
         /\ Len(Cut(s, a, w)) = (IF a + w <= Len(s) THEN Len(s) - w ELSE a)
         /\ \A k \in 1..Len(Cut(s, a, w)) : Cut(s, a, w)[k] = s[IF k <= a THEN k ELSE k + w]
<1> DEFINE l == SubSeq(s, 1, a)
           r == SubSeq(s, a + w + 1, Len(s))
           c == l \o r
<1>1. l \in Seq(S) /\ Len(l) = a /\ \A k \in 1..a : l[k] = s[k]
  OBVIOUS
<1>2. r \in Seq(S) /\ Len(r) = (IF a + w <= Len(s) THEN Len(s) - w - a ELSE 0)
      /\ \A k \in 1..Len(r) : r[k] = s[k + a + w]
  OBVIOUS
<1>3. Cut(s, a, w) = c
  BY DEF Cut
<1> HIDE DEF l, r
<1>4. /\ c \in Seq(S) /\ Len(c) = a + Len(r)
      /\ \A k \in 1..Len(c) : c[k] = IF k <= a THEN l[k] ELSE r[k - a]
  <2>1. l \in Seq(S) /\ r \in Seq(S) /\ Len(l) = a /\ Len(r) \in Nat
    BY <1>1, <1>2
  <2>2. c \in Seq(S) /\ Len(c) = a + Len(r)
    BY <2>1
  <2>3. ASSUME NEW k \in 1..Len(c) PROVE c[k] = IF k <= a THEN l[k] ELSE r[k - a]
    BY <2>1, <2>2
  <2> QED
    BY <2>2, <2>3
<1> HIDE DEF c
<1>5. Len(c) = IF a + w <= Len(s) THEN Len(s) - w ELSE a
  BY <1>2, <1>4
<1>6. ASSUME NEW k \in 1..Len(c) PROVE c[k] = s[IF k <= a THEN k ELSE k + w]
  <2>1. CASE k <= a
    BY <1>1, <1>4, <2>1
  <2>2. CASE a < k
    <3>1. k - a \in 1..Len(r) /\ (k - a) + a + w = k + w
      BY <1>2, <1>4, <2>2
    <3>2. c[k] = r[k - a] /\ r[k - a] = s[(k - a) + a + w]
      BY <1>2, <1>4, <2>2, <3>1
    <3> QED
      BY <3>1, <3>2, <2>2
  <2> QED
    BY <2>1, <2>2, <1>4
<1> QED
  BY <1>3, <1>4, <1>5, <1>6

\* The chunk of the two loops.
LEMMA DeltaChunk ==
  ASSUME DeltaTypeOK
  PROVE  /\ Len(operations) \in Nat \ {0}
         /\ Delta!Chunk \in Nat \ {0}
         /\ Delta!Finest => Delta!Chunk = 1
<1>1. Len(operations) \in Nat \ {0} /\ granularity \in Nat \ {0}
  BY DEF DeltaTypeOK
<1>2. /\ (Len(operations) + granularity - 1) \div granularity \in Nat \ {0}
      /\ Len(operations) <= granularity => (Len(operations) + granularity - 1) \div granularity = 1
  BY <1>1, ChunkSize
<1> QED
  BY <1>1, <1>2 DEF Delta!Chunk, Delta!Finest

\* The first call starts with the whole scenario.
LEMMA DeltaStarts ==
  ASSUME Delta!Init
  PROVE  DeltaInv
<1>1. Size \in Nat \ {0} /\ MaxBudget \in Nat
  BY ReductionAssumption
<1>2. /\ operations = [i \in 1..Size |-> i]
      /\ worker_ids = [i \in 1..Size |-> Delta!Owner(i)]
  BY DEF Delta!Init
<1>3. operations \in Seq(1..Size) /\ Len(operations) = Size /\ operations # << >>
  BY <1>1, <1>2
<1>4. \A i \in 1..Size : Delta!Owner(i) \in AllOwners
  BY DEF AllOwners
<1>5. worker_ids \in Seq(AllOwners) /\ Len(worker_ids) = Size
  BY <1>1, <1>2, <1>4
<1>6. DeltaTypeOK
  <2>1. /\ mode \in {"scenario", "concurrent"} /\ strategy \in {"single", "chunk"}
        /\ budget \in Nat /\ granularity = 2 /\ start = 0 /\ changed = FALSE /\ attempts = 0
    BY <1>1 DEF Delta!Init
  <2>2. groups.count = 0 /\ groups.matched = FALSE
    BY DEF Delta!Init
  <2>3. granularity \in Nat \ {0} /\ start \in Nat /\ attempts \in Nat /\ groups.count \in Nat
    BY <2>1, <2>2
  <2>4. changed \in BOOLEAN /\ groups.matched \in BOOLEAN
    BY <2>1, <2>2, Zenon
  <2> QED
    BY <1>3, <1>5, <2>1, <2>3, <2>4 DEF DeltaTypeOK
<1>7. DeltaParts
  BY <1>1, <1>2, <1>3, <1>5 DEF DeltaParts
<1>8. DeltaGroups /\ DeltaScanned /\ DeltaDone
  BY <1>1 DEF Delta!Init, DeltaGroups, DeltaScanned, DeltaDone
<1> QED
  BY <1>6, <1>7, <1>8 DEF DeltaInv

\* The first run of reduce_scenario leaves a prefix of the scenario.
LEMMA DeltaInitialScenario ==
  ASSUME DeltaInv, Delta!InitialScenario
  PROVE  DeltaInv'
<1> USE DEF DeltaInv
<1>1. PICK results \in Delta!Results \ {<<"other">>} :
        /\ Delta!Ran(operations, results)
        /\ IF Delta!Matched(results)
           THEN \E failure_index \in 1..Size :
                  /\ operations' = SubSeq(operations, 1, failure_index)
                  /\ worker_ids' = SubSeq(worker_ids, 1, failure_index)
                  /\ phase' = "while" /\ outcome' = outcome
           ELSE Delta!Ends("ValueError") /\ UNCHANGED Delta!current
  BY DEF Delta!InitialScenario
<1>2. /\ groups.count = 0 /\ attempts = 0 /\ phase = "initial" /\ outcome = "none"
      /\ groups' = [count |-> 1, last |-> operations, matched |-> Delta!Matched(results)]
      /\ UNCHANGED <<mode, strategy, budget, granularity, start, changed, attempts, rejected>>
  BY <1>1 DEF DeltaGroups, Delta!InitialScenario, Delta!Ran, Delta!loop
<1>3. groups'.count = 1 /\ groups'.matched \in BOOLEAN
  BY <1>2 DEF Delta!Matched
<1>4. CASE Delta!Matched(results)
  <2>1. PICK n \in 1..Size : /\ operations' = SubSeq(operations, 1, n)
                             /\ worker_ids' = SubSeq(worker_ids, 1, n)
                             /\ phase' = "while" /\ outcome' = outcome
    BY <1>1, <1>4
  <2>2. Len(operations) = Size /\ Len(worker_ids) = Size /\ n \in Nat \ {0} /\ n <= Size
    BY <1>2, ReductionAssumption DEF DeltaGroups, DeltaParts
  <2>3. operations \in Seq(1..Size) /\ worker_ids \in Seq(AllOwners)
    BY DEF DeltaTypeOK
  <2>4. /\ operations' \in Seq(1..Size) /\ Len(operations') = n
        /\ \A k \in 1..n : operations'[k] = operations[k]
    BY <2>1, <2>2, <2>3
  <2>5. /\ worker_ids' \in Seq(AllOwners) /\ Len(worker_ids') = n
        /\ \A k \in 1..n : worker_ids'[k] = worker_ids[k]
    BY <2>1, <2>2, <2>3
  <2>6. DeltaTypeOK'
    BY <1>2, <1>3, <2>2, <2>4, <2>5 DEF DeltaTypeOK
  <2>7. DeltaParts'
    BY <2>2, <2>3, <2>4, <2>5 DEF DeltaParts
  <2>8. DeltaGroups' /\ DeltaScanned' /\ DeltaDone'
    BY <1>2, <1>3, <2>1 DEF DeltaTypeOK, DeltaGroups, DeltaScanned, DeltaDone
  <2> QED
    BY <2>6, <2>7, <2>8
<1>5. CASE ~Delta!Matched(results)
  <2>1. UNCHANGED <<operations, worker_ids>> /\ phase' = "ended" /\ outcome' = "ValueError"
    BY <1>1, <1>5 DEF Delta!Ends, Delta!current
  <2> QED
    BY <1>2, <1>3, <2>1 DEF DeltaTypeOK, DeltaParts, DeltaGroups, DeltaScanned, DeltaDone
<1> QED
  BY <1>4, <1>5

\* The first group of reduce_concurrent keeps the whole workload.
LEMMA DeltaInitialReplay ==
  ASSUME DeltaInv, Delta!InitialReplay
  PROVE  DeltaInv'
<1> USE DEF DeltaInv
<1>1. PICK results \in Delta!Results :
        /\ Delta!Ran(operations, results)
        /\ IF Delta!Matched(results)
           THEN phase' = "while" /\ outcome' = outcome
           ELSE Delta!Ends(Delta!Unreproduced(results))
  BY DEF Delta!InitialReplay
<1>2. /\ groups.count = 0 /\ attempts = 0 /\ phase = "initial" /\ outcome = "none"
      /\ groups' = [count |-> 1, last |-> operations, matched |-> Delta!Matched(results)]
      /\ UNCHANGED <<mode, strategy, budget, operations, worker_ids, granularity, start,
                     changed, attempts, rejected>>
  BY <1>1 DEF DeltaGroups, Delta!InitialReplay, Delta!Ran, Delta!loop, Delta!current
<1>3. groups'.count = 1 /\ groups'.matched \in BOOLEAN
  BY <1>2 DEF Delta!Matched
<1>4. \/ phase' = "while" /\ outcome' = "none"
      \/ phase' = "ended" /\ outcome' # "EXECUTABLE_REPRODUCER_FOUND"
  BY <1>1, <1>2 DEF Delta!Ends, Delta!Unreproduced
<1> QED
  BY <1>2, <1>3, <1>4 DEF DeltaTypeOK, DeltaParts, DeltaGroups, DeltaScanned, DeltaDone

\* A new round begins at the start, or the search is over.
LEMMA DeltaWhile ==
  ASSUME DeltaInv, Delta!While
  PROVE  DeltaInv'
<1> USE DEF DeltaInv
<1>1. /\ phase = "while"
      /\ UNCHANGED <<mode, strategy, budget, operations, worker_ids, granularity, attempts,
                     outcome, rejected, groups>>
  BY DEF Delta!While, Delta!current
<1>2. CASE Len(operations) > 1 /\ attempts < budget
  <2>1. phase' = "for" /\ start' = 0 /\ changed' = FALSE
    BY <1>2 DEF Delta!While
  <2>2. DeltaTypeOK' /\ DeltaParts' /\ DeltaGroups' /\ DeltaDone'
    BY <1>1, <2>1 DEF DeltaTypeOK, DeltaParts, DeltaGroups, DeltaDone
  <2>3. DeltaScanned'
    BY <1>1, <2>1 DEF DeltaTypeOK, DeltaScanned
  <2> QED
    BY <2>2, <2>3
<1>3. CASE ~(Len(operations) > 1 /\ attempts < budget)
  <2>1. phase' = "confirm" /\ UNCHANGED <<start, changed>>
    BY <1>3 DEF Delta!While
  <2> QED
    BY <1>1, <1>3, <2>1 DEF DeltaTypeOK, DeltaParts, DeltaGroups, DeltaScanned, DeltaDone
<1> QED
  BY <1>2, <1>3

\* A candidate that fails alike replaces the workload; one that does not
\* joins the rejected ones, and the round goes on behind its chunk.
LEMMA DeltaCandidate ==
  ASSUME DeltaInv, Delta!Candidate
  PROVE  DeltaInv'
<1> USE DEF DeltaInv
<1> DEFINE d == Delta!Without(operations)
           e == Delta!Without(worker_ids)
<1>1. PICK results \in Delta!Results :
        /\ Delta!Ran(d, results)
        /\ IF Delta!Matched(results)
           THEN /\ operations' = d /\ worker_ids' = e
                /\ granularity' = Delta!Greatest(2, granularity - 1)
                /\ changed' = TRUE
                /\ rejected' = {}
                /\ start' = start
           ELSE /\ rejected' = rejected \cup {d}
                /\ start' = start + Delta!Chunk
                /\ UNCHANGED <<Delta!current, granularity, changed>>
  BY DEF Delta!Candidate, Delta!Owners
<1>2. /\ phase = "for" /\ ~changed /\ start < Len(operations) /\ attempts < budget
      /\ d # << >> /\ attempts' = attempts + 1
      /\ UNCHANGED <<mode, strategy, budget, phase, outcome>>
  BY DEF Delta!Candidate, Delta!WithinBudget
<1>3. /\ Len(operations) \in Nat \ {0} /\ Delta!Chunk \in Nat \ {0}
      /\ operations \in Seq(1..Size) /\ worker_ids \in Seq(AllOwners) /\ start \in Nat
      /\ Len(worker_ids) = Len(operations)
  BY DeltaChunk DEF DeltaTypeOK, DeltaParts
<1>4. /\ groups' = [count |-> groups.count + 1, last |-> d, matched |-> Delta!Matched(results)]
      /\ groups.count = attempts + 1 /\ outcome = "none"
  BY <1>1, <1>2 DEF Delta!Ran, DeltaGroups
<1>5. groups'.count \in Nat /\ groups'.matched \in BOOLEAN /\ groups'.count = attempts' + 1
  BY <1>2, <1>4 DEF Delta!Matched, DeltaTypeOK
<1>6. DeltaGroups'
  BY <1>2, <1>4, <1>5 DEF DeltaGroups, DeltaTypeOK
<1>7. DeltaDone'
  BY <1>2 DEF DeltaDone
<1>8. CASE Delta!Matched(results)
  <2> DEFINE w == Delta!Chunk
             n == Len(d)
  <2>0. d = Cut(operations, start, w) /\ e = Cut(worker_ids, start, w) /\ w \in Nat \ {0}
    BY <1>3 DEF Delta!Without, Cut
  <2> HIDE DEF d, e, w
  <2>1. /\ d \in Seq(1..Size) /\ n = (IF start + w <= Len(operations)
                                      THEN Len(operations) - w ELSE start)
        /\ \A k \in 1..n : d[k] = operations[IF k <= start THEN k ELSE k + w]
    <3>1. /\ d \in Seq(1..Size)
          /\ Len(d) = (IF start + w <= Len(operations) THEN Len(operations) - w ELSE start)
          /\ \A k \in 1..Len(d) : d[k] = operations[IF k <= start THEN k ELSE k + w]
      BY <1>2, <1>3, <2>0, Deletion
    <3> QED
      BY <3>1
  <2>2. /\ e \in Seq(AllOwners) /\ Len(e) = n
        /\ \A k \in 1..n : e[k] = worker_ids[IF k <= start THEN k ELSE k + w]
    <3>1. start < Len(worker_ids)
      BY <1>2, <1>3
    <3>2. /\ e \in Seq(AllOwners)
          /\ Len(e) = (IF start + w <= Len(worker_ids) THEN Len(worker_ids) - w ELSE start)
          /\ \A k \in 1..Len(e) : e[k] = worker_ids[IF k <= start THEN k ELSE k + w]
      BY <1>3, <2>0, <3>1, Deletion
    <3> QED
      BY <1>3, <2>1, <3>2
  <2>3. operations' = d /\ worker_ids' = e /\ changed' = TRUE /\ start' = start
        /\ granularity' \in Nat \ {0}
    BY <1>1, <1>8 DEF Delta!Greatest, DeltaTypeOK
  <2>4. DeltaTypeOK'
    BY <1>2, <1>5, <2>1, <2>2, <2>3 DEF DeltaTypeOK
  <2>5. \A k \in 1..n : (IF k <= start THEN k ELSE k + w) \in 1..Len(operations)
    BY <1>2, <1>3, <2>0, <2>1
  <2>6. \A j, k \in 1..n : j < k => (IF j <= start THEN j ELSE j + w)
                                      < (IF k <= start THEN k ELSE k + w)
    BY <1>3, <2>0, <2>1
  <2>7. DeltaParts'
    <3>1. \A k \in 1..n : e[k] = Delta!Owner(d[k])
      <4> TAKE k \in 1..n
      <4> DEFINE i == IF k <= start THEN k ELSE k + w
      <4>1. i \in 1..Len(operations) /\ d[k] = operations[i] /\ e[k] = worker_ids[i]
        BY <2>1, <2>2, <2>5
      <4> HIDE DEF i
      <4>2. worker_ids[i] = Delta!Owner(operations[i])
        BY <1>3, <4>1 DEF DeltaParts
      <4> QED
        BY <4>1, <4>2
    <3>2. \A j, k \in 1..n : j < k => d[j] < d[k]
      <4> TAKE j, k \in 1..n
      <4> HAVE j < k
      <4> DEFINE i == IF k <= start THEN k ELSE k + w
                 h == IF j <= start THEN j ELSE j + w
      <4>1. i \in 1..Len(operations) /\ d[k] = operations[i]
        BY <2>1, <2>5
      <4>2. h \in 1..Len(operations) /\ d[j] = operations[h]
        BY <2>1, <2>5
      <4>3. h < i
        BY <2>6
      <4> HIDE DEF h, i
      <4> QED
        BY <1>3, <4>1, <4>2, <4>3, SMTT(30) DEF DeltaParts
    <3>3. DOMAIN d = 1..n
      BY <2>1
    <3> QED
      BY <2>1, <2>2, <2>3, <3>1, <3>2, <3>3 DEF DeltaParts
  <2>8. DeltaScanned'
    BY <2>3 DEF DeltaScanned
  <2> QED
    BY <1>6, <1>7, <2>4, <2>7, <2>8
<1>9. CASE ~Delta!Matched(results)
  <2>1. /\ UNCHANGED <<operations, worker_ids, granularity, changed>>
        /\ rejected' = rejected \cup {d} /\ start' = start + Delta!Chunk
    BY <1>1, <1>9 DEF Delta!current
  <2>2. Delta!Chunk' = Delta!Chunk
    BY <1>2, <2>1 DEF Delta!Chunk
  <2>3. DeltaTypeOK' /\ DeltaParts'
    BY <1>2, <1>3, <1>5, <2>1 DEF DeltaTypeOK, DeltaParts
  <2>4. DeltaScanned'
    <3> SUFFICES ASSUME Delta!Chunk = 1
                 PROVE  /\ start' <= Len(operations)
                        /\ \A k \in 1..start' : Delta!Remove(operations, k) \in rejected'
      BY <2>1, <2>2 DEF DeltaScanned, Delta!Remove
    <3>1. start' = start + 1 /\ start + 1 \in Nat
      BY <1>3, <2>1
    <3>2. Delta!Remove(operations, start + 1) = d
      <4>1. (start + 1) - 1 = start /\ start + Delta!Chunk + 1 = (start + 1) + 1
        BY <1>3
      <4> QED
        BY <4>1, Zenon DEF Delta!Remove, Delta!Without
    <3>3. \A k \in 1..start : Delta!Remove(operations, k) \in rejected
      BY <1>2 DEF DeltaScanned
    <3> QED
      BY <1>2, <1>3, <2>1, <3>1, <3>2, <3>3
  <2> QED
    BY <1>6, <1>7, <2>3, <2>4
<1> QED
  BY <1>8, <1>9

\* A round of single deletions without a success ends a search that was not
\* cut off: it has rejected all of them.
LEMMA DeltaRound ==
  ASSUME DeltaInv, Delta!Round
  PROVE  DeltaInv'
<1> USE DEF DeltaInv
<1>1. /\ phase = "for" /\ (changed \/ start >= Len(operations) \/ ~(attempts < budget))
      /\ UNCHANGED <<mode, strategy, budget, operations, worker_ids, start, changed, attempts,
                     outcome, rejected, groups>>
  BY DEF Delta!Round, Delta!WithinBudget, Delta!current
<1>2. CASE changed \/ ~Delta!Finest
  <2>1. phase' = "while" /\ granularity' \in Nat \ {0}
    BY <1>2, DeltaChunk DEF Delta!Round, Delta!Least, DeltaTypeOK
  <2> QED
    BY <1>1, <2>1 DEF DeltaTypeOK, DeltaParts, DeltaGroups, DeltaScanned, DeltaDone
<1>3. CASE ~changed /\ Delta!Finest
  <2>1. phase' = "confirm" /\ granularity' = granularity
    BY <1>3 DEF Delta!Round
  <2>2. Delta!Chunk = 1 /\ Len(operations) \in Nat
    BY <1>3, DeltaChunk
  <2>3. /\ start <= Len(operations)
        /\ \A k \in 1..start : Delta!Remove(operations, k) \in rejected
    BY <1>1, <1>3, <2>2 DEF DeltaScanned
  <2>4. DeltaDone'
    <3> SUFFICES ASSUME attempts < budget
                 PROVE  \A k \in 1..Len(operations) : Delta!Remove(operations, k) \in rejected
      BY <1>1 DEF DeltaDone, Delta!Remove
    <3>1. start = Len(operations)
      BY <1>1, <1>3, <2>2, <2>3 DEF DeltaTypeOK
    <3> QED
      BY <2>3, <3>1
  <2> QED
    BY <1>1, <2>1, <2>4 DEF DeltaTypeOK, DeltaParts, DeltaGroups, DeltaScanned
<1> QED
  BY <1>2, <1>3

\* The confirmation is a group of its own on the result.
LEMMA DeltaConfirm ==
  ASSUME DeltaInv, Delta!Confirm
  PROVE  DeltaInv'
<1> USE DEF DeltaInv
<1>1. PICK results \in Delta!Results :
        /\ Delta!Ran(operations, results)
        /\ Delta!Ends(IF Delta!Matched(results) THEN "EXECUTABLE_REPRODUCER_FOUND"
                      ELSE Delta!Unreproduced(results))
  BY DEF Delta!Confirm
<1>2. /\ phase = "confirm" /\ groups.count = attempts + 1 /\ attempts \in Nat
      /\ groups' = [count |-> groups.count + 1, last |-> operations,
                    matched |-> Delta!Matched(results)]
      /\ phase' = "ended"
      /\ UNCHANGED <<mode, strategy, budget, operations, worker_ids, granularity, start,
                     changed, attempts, rejected>>
  BY <1>1 DEF DeltaGroups, DeltaTypeOK, Delta!Confirm, Delta!Ran, Delta!Ends, Delta!loop,
              Delta!current
<1>3. /\ groups'.count = attempts + 2 /\ groups'.last = operations
      /\ groups'.matched \in BOOLEAN
      /\ groups'.matched = Delta!Matched(results)
  BY <1>2 DEF Delta!Matched
<1>4. outcome' = "EXECUTABLE_REPRODUCER_FOUND" => groups'.matched
  BY <1>1, <1>3 DEF Delta!Ends, Delta!Unreproduced
<1>5. DeltaTypeOK' /\ DeltaParts' /\ DeltaScanned'
  BY <1>2, <1>3 DEF DeltaTypeOK, DeltaParts, DeltaScanned
<1>6. DeltaGroups'
  BY <1>2, <1>3, <1>4 DEF DeltaGroups
<1>7. DeltaDone'
  BY <1>2, <1>3 DEF DeltaDone, Delta!Remove, DeltaTypeOK
<1> QED
  BY <1>5, <1>6, <1>7

\* The invariant holds in every call of the two loops.
LEMMA DeltaIsKept == AnySpec => []DeltaKept
<1>1. AnyInit => DeltaKept
  BY DeltaStarts DEF AnyInit, DeltaKept
<1>2. ASSUME DeltaKept, [AnyNext]_<<vars, mode, reductionVars>>
      PROVE  DeltaKept'
  <2> SUFFICES ASSUME mode' # "dradd" PROVE DeltaInv'
    BY DEF DeltaKept
  <2>1. CASE UNCHANGED <<vars, mode, reductionVars>>
    <3>1. UNCHANGED <<mode, strategy, budget, operations, worker_ids, granularity, start, changed,
                      attempts, phase, outcome, rejected, groups>>
      BY <2>1 DEF vars, reductionVars, arguments, search
    <3> QED
      BY <1>2, <3>1 DEF DeltaKept, DeltaInv, DeltaTypeOK, DeltaParts, DeltaGroups, DeltaScanned,
                        DeltaDone, Delta!Chunk, Delta!Remove
  <2>2. CASE mode # "dradd" /\ Delta!Next /\ UNCHANGED draddVars
    <3>1. DeltaInv
      BY <1>2, <2>2 DEF DeltaKept
    <3>2. CASE Delta!Ended
      <4>1. UNCHANGED <<mode, strategy, budget, operations, worker_ids, granularity, start, changed,
                        attempts, phase, outcome, rejected, groups>>
        BY <3>2 DEF Delta!Ended, Delta!vars
      <4> QED
        BY <3>1, <4>1 DEF DeltaInv, DeltaTypeOK, DeltaParts, DeltaGroups, DeltaScanned,
                          DeltaDone, Delta!Chunk, Delta!Remove
    <3> QED
      BY <2>2, <3>1, <3>2, DeltaInitialScenario, DeltaInitialReplay, DeltaWhile, DeltaCandidate,
         DeltaRound, DeltaConfirm DEF Delta!Next, Delta!Step
  <2>3. CASE mode = "dradd" /\ Next /\ UNCHANGED <<mode, reductionVars>>
    BY <2>3
  <2> QED
    BY <1>2, <2>1, <2>2, <2>3 DEF AnyNext
<1> QED
  BY <1>1, <1>2, PTL DEF AnySpec

\* reduce_scenario of runner.py and reduce_concurrent of replay.py, for every
\* scenario size, number of trials and budget: the budget holds, and a
\* reproducer is a part of the scenario, with the owners of its operations,
\* that failed again in runs of its own.
THEOREM ReproducersAreSound == AnySpec => []ReductionIsSound
<1>1. DeltaKept => ReductionIsSound
  <2> SUFFICES ASSUME DeltaInv PROVE Delta!ReproducerIsSound
    BY DEF DeltaKept, ReductionIsSound
  <2>1. attempts \in Nat /\ operations \in Seq(1..Size) /\ operations # << >>
    BY DEF DeltaInv, DeltaTypeOK
  <2>2. Delta!BudgetKept
    BY <2>1 DEF DeltaInv, DeltaGroups, Delta!BudgetKept
  <2>3. Delta!ReproducerConfirmed
    BY <2>1 DEF DeltaInv, DeltaGroups, Delta!ReproducerConfirmed
  <2>4. Delta!OrderAndOwnersKept
    BY <2>1 DEF DeltaInv, DeltaParts, Delta!OrderAndOwnersKept
  <2> QED
    BY <2>2, <2>3, <2>4 DEF Delta!ReproducerIsSound
<1> QED
  BY <1>1, DeltaIsKept, PTL

\* reduce_scenario and reduce_concurrent, for every size and budget: unless
\* the budget cut the search off, no operation of the result could be
\* dropped.
THEOREM ReproducersAreMinimal == AnySpec => []ReductionIsMinimal
<1>1. DeltaKept => ReductionIsMinimal
  BY DEF DeltaKept, DeltaInv, DeltaTypeOK, DeltaDone, ReductionIsMinimal, Delta!OneMinimal
<1> QED
  BY <1>1, DeltaIsKept, PTL

-----------------------------------------------------------------------------
\* Induction, in the form the proofs below need: a nonempty set of natural
\* numbers has a least member.

Below == {p \in Nat \X Nat : p[1] < p[2]}

LEMMA LeastNatural ==
  ASSUME NEW T \in SUBSET Nat, T # {}
  PROVE  \E x \in T : \A y \in T : x <= y
<1>1. IsWellFoundedOn(Below, Nat)
  BY NatLessThanWellFounded DEF OpToRel, Below
<1>2. \E x \in T : \A y \in T : ~(<<y, x>> \in Below)
  BY <1>1, WFMin, Zenon
<1>3. ASSUME NEW x \in T, NEW y \in T, ~(<<y, x>> \in Below)
      PROVE  x <= y
  <2>1. x \in Nat /\ y \in Nat
    OBVIOUS
  <2> QED
    BY <1>3, <2>1 DEF Below
<1> QED
  BY <1>2, <1>3

\* sorted() lists every member of a set once, in ascending order: the place
\* of a member is the number of members up to it.
LEMMA SortedMeans ==
  ASSUME NEW S \in SUBSET Nat, IsFiniteSet(S)
  PROVE  /\ Cardinality(S) \in Nat
         /\ Sorted(S) \in Seq(S) /\ Len(Sorted(S)) = Cardinality(S)
         /\ Kept(Sorted(S)) = S
         /\ \A j, k \in 1..Len(Sorted(S)) : j < k => Sorted(S)[j] < Sorted(S)[k]
<1> DEFINE Up(i) == {m \in S : m <= i}
           n == Cardinality(S)
           place == [i \in S |-> Cardinality(Up(i))]
           at(k) == CHOOSE i \in S : Cardinality(Up(i)) = k
           s == Sorted(S)
<1>0. n \in Nat
  BY FS_CardinalityType
<1>1. ASSUME NEW i \in S
      PROVE  Up(i) \in SUBSET S /\ IsFiniteSet(Up(i)) /\ Cardinality(Up(i)) \in 1..n
  <2>1. Up(i) \in SUBSET S /\ i \in Up(i)
    OBVIOUS
  <2> HIDE DEF Up
  <2>2. IsFiniteSet(Up(i)) /\ Cardinality(Up(i)) <= n
    BY <2>1, FS_Subset
  <2>3. Cardinality(Up(i)) \in Nat
    BY <2>2, FS_CardinalityType
  <2>4. Cardinality(Up(i)) # 0
    BY <2>1, <2>2, FS_EmptySet
  <2> QED
    BY <1>0, <2>1, <2>2, <2>3, <2>4
<1>2. ASSUME NEW i \in S, NEW j \in S, i < j
      PROVE  Cardinality(Up(i)) < Cardinality(Up(j))
  <2>1. Up(i) \in SUBSET Up(j) /\ j \in Up(j) /\ j \notin Up(i)
    <3>1. i \in Nat /\ j \in Nat /\ ~(j <= i) /\ j <= j
      BY <1>2
    <3>2. ASSUME NEW m \in S, m <= i PROVE m <= j
      <4>1. m \in Nat
        OBVIOUS
      <4> QED
        BY <1>2, <3>1, <3>2, <4>1
    <3> QED
      BY <3>1, <3>2, Zenon
  <2>2. /\ IsFiniteSet(Up(j)) /\ Cardinality(Up(i)) \in 1..n /\ Cardinality(Up(j)) \in 1..n
    BY <1>1
  <2> HIDE DEF Up
  <2>3. /\ Cardinality(Up(i)) <= Cardinality(Up(j))
        /\ Cardinality(Up(j)) = Cardinality(Up(i)) => Up(j) = Up(i)
    BY <2>1, <2>2, FS_Subset
  <2> QED
    BY <1>0, <2>1, <2>2, <2>3
<1>3. /\ place \in [S -> 1..n]
      /\ \A i \in S : place[i] = Cardinality(Up(i))
  BY <1>1
<1>4. \A i, j \in S : i < j => place[i] < place[j]
  BY <1>2, <1>3
<1> HIDE DEF place
<1>5. place \in Injection(S, 1..n)
  <2>1. \A i, j \in S : place[i] = place[j] => i = j
    <3> TAKE i, j \in S
    <3>1. place[i] \in 1..n /\ place[j] \in 1..n /\ i \in Nat /\ j \in Nat
      BY <1>3
    <3> QED
      BY <1>0, <1>4, <3>1
  <2> QED
    BY <1>3, <2>1 DEF Injection, IsInjective
<1>6. IsFiniteSet(1..n) /\ Cardinality(1..n) = n
  BY <1>0, FS_Interval
<1>7. place \in Surjection(S, 1..n)
  BY <1>5, <1>6, FS_Injection
<1>8. ASSUME NEW k \in 1..n
      PROVE  s[k] \in S /\ place[s[k]] = k
  <2>1. \E i \in S : place[i] = k
    BY <1>7 DEF Surjection
  <2>2. \E i \in S : Cardinality(Up(i)) = k
    BY <1>3, <2>1
  <2>3. s[k] = at(k)
    BY DEF Sorted
  <2>4. s[k] \in S /\ Cardinality(Up(s[k])) = k
    BY <2>2, <2>3
  <2> QED
    BY <1>3, <2>4
<1>9. s = [k \in 1..n |-> at(k)]
  BY DEF Sorted
<1> HIDE DEF s, n, Up, at
<1>10. s \in Seq(S) /\ Len(s) = n /\ DOMAIN s = 1..n
  BY <1>0, <1>8, <1>9
<1>11. \A j, k \in 1..n : j < k => s[j] < s[k]
  <2> SUFFICES ASSUME NEW j \in 1..n, NEW k \in 1..n, j < k
               PROVE  s[j] < s[k]
    OBVIOUS
  <2>1. /\ s[j] \in S /\ s[k] \in S /\ place[s[j]] = j /\ place[s[k]] = k
        /\ s[j] \in Nat /\ s[k] \in Nat
    BY <1>8
  <2> QED
    BY <1>0, <1>4, <2>1
<1>12. Kept(s) = S
  <2>1. ASSUME NEW i \in S PROVE i \in Kept(s)
    <3>1. place[i] \in 1..n
      BY <1>3
    <3>2. s[place[i]] \in S /\ place[s[place[i]]] = place[i]
      BY <1>8, <3>1
    <3>3. s[place[i]] = i
      BY <1>5, <3>2 DEF Injection, IsInjective
    <3> QED
      BY <1>10, <3>1, <3>3 DEF Kept
  <2>2. Kept(s) \subseteq S
    BY <1>8, <1>10 DEF Kept
  <2> QED
    BY <2>1, <2>2
<1> QED
  BY <1>0, <1>10, <1>11, <1>12 DEF s, n

\* A workload is closed under its required edges exactly if every operation
\* finds its prerequisites in it.
LEMMA ClosedMeans ==
  ASSUME NEW w, NEW X
  PROVE  Closed(w, X) <=> \A i \in X : Prerequisites(w, i) \subseteq X
  BY DEF Closed, Prerequisites

\* What one round of prune() keeps.
Supported(w, X) == {i \in X : Prerequisites(w, i) \subseteq X}

\* The rounds of prune() exist: each is made from the one before it.
LEMMA PruneRounds ==
  ASSUME NEW w, NEW keep, Len(keep) \in Nat
  PROVE  \E ids : /\ ids[0] = Kept(keep)
                  /\ \A n \in 1..Len(keep) : ids[n] = Supported(w, ids[n - 1])
                  /\ Prune(w, keep) = Sorted(ids[Len(keep)])
<1> DEFINE Made(g, n) == IF n = 0 THEN Kept(keep) ELSE Supported(w, g[n - 1])
           T == {m \in Nat : ~\E g : g = [n \in 0..m |-> Made(g, n)]}
<1>1. T = {}
  <2> SUFFICES ASSUME T # {} PROVE FALSE
    OBVIOUS
  <2> HIDE DEF Made
  <2>1. PICK x \in T : \A y \in T : x <= y
    BY LeastNatural
  <2>2. x \in Nat /\ ~\E g : g = [n \in 0..x |-> Made(g, n)]
    OBVIOUS
  <2>3. CASE x = 0
    <3> DEFINE h == [n \in 0..0 |-> Kept(keep)]
    <3>1. h = [n \in 0..0 |-> Made(h, n)]
      BY DEF Made
    <3> QED
      BY <2>2, <2>3, <3>1
  <2>4. CASE x # 0
    <3>1. x - 1 \in Nat /\ ~(x <= x - 1)
      BY <2>2, <2>4
    <3>2. x - 1 \notin T
      BY <2>1, <3>1
    <3>3. PICK g : g = [n \in 0..(x - 1) |-> Made(g, n)]
      BY <3>1, <3>2
    <3> DEFINE h == [n \in 0..x |-> IF n = x THEN Made(g, x) ELSE g[n]]
    <3>4. ASSUME NEW n \in 0..x PROVE h[n] = Made(h, n)
      <4>1. CASE n = x
        <5>1. h[n] = Made(g, x) /\ h[x - 1] = g[x - 1]
          BY <2>2, <2>4, <4>1
        <5> QED
          BY <2>4, <4>1, <5>1 DEF Made
      <4>2. CASE n # x
        <5>1. n \in 0..(x - 1) /\ h[n] = g[n] /\ g[n] = Made(g, n)
          BY <2>2, <3>3, <4>2
        <5>2. n # 0 => n - 1 \in 0..x /\ n - 1 # x
          BY <2>2, <4>2
        <5>3. n # 0 => h[n - 1] = g[n - 1]
          BY <5>2
        <5> HIDE DEF h
        <5> QED
          BY <5>1, <5>3 DEF Made
      <4> QED
        BY <4>1, <4>2
    <3>5. h = [n \in 0..x |-> Made(h, n)]
      <4>1. h = [n \in 0..x |-> h[n]]
        OBVIOUS
      <4> HIDE DEF h
      <4> QED
        BY <3>4, <4>1
    <3> HIDE DEF h
    <3> QED
      BY <2>2, <3>5
  <2> QED
    BY <2>3, <2>4
<1> DEFINE ids == CHOOSE g : g = [n \in 0..Len(keep) |-> Made(g, n)]
<1>2. \E g : g = [n \in 0..Len(keep) |-> Made(g, n)]
  BY <1>1
<1>3. ids = [n \in 0..Len(keep) |-> Made(ids, n)]
  <2> HIDE DEF Made
  <2> QED
    BY <1>2
<1>4. Prune(w, keep) = Sorted(ids[Len(keep)])
  BY DEF Prune, Supported
<1> HIDE DEF ids
<1>5. ids[0] = Kept(keep)
  BY <1>3
<1>6. \A n \in 1..Len(keep) : ids[n] = Supported(w, ids[n - 1])
  BY <1>3
<1> QED
  BY <1>4, <1>5, <1>6

\* The operations of a list are finitely many, and at most as many as it is long.
LEMMA KeptIsFinite ==
  ASSUME NEW S, NEW keep \in Seq(S)
  PROVE  /\ Kept(keep) \in SUBSET S /\ IsFiniteSet(Kept(keep))
         /\ Cardinality(Kept(keep)) \in Nat /\ Cardinality(Kept(keep)) <= Len(keep)
<1>1. Len(keep) \in Nat /\ DOMAIN keep = 1..Len(keep) /\ keep \in [1..Len(keep) -> S]
  OBVIOUS
<1>2. Kept(keep) \in SUBSET S /\ keep \in Surjection(1..Len(keep), Kept(keep))
  BY <1>1 DEF Kept, Surjection
<1>3. IsFiniteSet(1..Len(keep)) /\ Cardinality(1..Len(keep)) = Len(keep)
  BY <1>1, FS_Interval, SMTT(30)
<1>4. IsFiniteSet(Kept(keep)) /\ Cardinality(Kept(keep)) <= Len(keep)
  BY <1>2, <1>3, FS_Surjection
<1> QED
  BY <1>2, <1>4, FS_CardinalityType

\* prune() lists the largest part of what it is given in which every
\* operation has its prerequisites: no round takes away an operation of such
\* a part, and every round that is not the last takes away at least one.
LEMMA PruneMeans ==
  ASSUME NEW w, NEW keep \in Seq(Nat)
  PROVE  \E X \in SUBSET Kept(keep) :
           /\ Prune(w, keep) = Sorted(X)
           /\ Supported(w, X) = X
           /\ \A Y \in SUBSET Kept(keep) : Supported(w, Y) = Y => Y \subseteq X
<1> DEFINE n == Len(keep)
           K == Kept(keep)
<1>0. n \in Nat
  OBVIOUS
<1>1. K \in SUBSET Nat /\ IsFiniteSet(K) /\ Cardinality(K) \in Nat /\ Cardinality(K) <= n
  BY KeptIsFinite
<1>2. PICK ids : /\ ids[0] = K
                 /\ \A m \in 1..n : ids[m] = Supported(w, ids[m - 1])
                 /\ Prune(w, keep) = Sorted(ids[n])
  BY <1>0, PruneRounds
<1> HIDE DEF n, K
<1> DEFINE Good(m) == /\ ids[m] \in SUBSET K
                      /\ \A Y \in SUBSET K : Supported(w, Y) = Y => Y \subseteq ids[m]
                      /\ Supported(w, ids[m]) = ids[m] \/ Cardinality(ids[m]) <= n - m
           Bad == {m \in Nat : m <= n /\ ~Good(m)}
<1>3. Good(0)
  BY <1>0, <1>1, <1>2
<1>4. ASSUME NEW m \in Nat, m + 1 <= n, Good(m)
      PROVE  Good(m + 1)
  <2>1. ids[m + 1] = Supported(w, ids[m])
    <3>1. m + 1 \in 1..n /\ (m + 1) - 1 = m
      BY <1>0, <1>4
    <3> QED
      BY <1>2, <3>1
  <2>2. ids[m + 1] \in SUBSET ids[m] /\ ids[m + 1] \in SUBSET K
    BY <1>4, <2>1 DEF Supported
  <2>3. \A Y \in SUBSET K : Supported(w, Y) = Y => Y \subseteq ids[m + 1]
    BY <1>4, <2>1 DEF Supported
  <2>4. CASE Supported(w, ids[m]) = ids[m]
    BY <2>1, <2>2, <2>3, <2>4
  <2>5. CASE Supported(w, ids[m]) # ids[m]
    <3>1. /\ IsFiniteSet(ids[m]) /\ Cardinality(ids[m]) \in Nat
          /\ Cardinality(ids[m]) <= n - m
      BY <1>1, <1>4, <2>5, FS_Subset, FS_CardinalityType
    <3>2. /\ IsFiniteSet(ids[m + 1]) /\ Cardinality(ids[m + 1]) <= Cardinality(ids[m])
          /\ Cardinality(ids[m]) = Cardinality(ids[m + 1]) => ids[m] = ids[m + 1]
      BY <2>2, <3>1, FS_Subset
    <3>3. Cardinality(ids[m + 1]) \in Nat
      BY <3>2, FS_CardinalityType
    <3>4. ids[m] # ids[m + 1]
      BY <2>1, <2>5
    <3>5. Cardinality(ids[m + 1]) <= n - (m + 1)
      BY <1>0, <3>1, <3>2, <3>3, <3>4
    <3> QED
      BY <2>2, <2>3, <3>5
  <2> QED
    BY <2>4, <2>5
<1>5. Bad = {}
  <2> SUFFICES ASSUME Bad # {} PROVE FALSE
    OBVIOUS
  <2> HIDE DEF Good
  <2>1. PICK x \in Bad : \A y \in Bad : x <= y
    BY LeastNatural
  <2>2. x \in Nat /\ x <= n /\ ~Good(x)
    OBVIOUS
  <2>3. x # 0
    BY <1>3, <2>2
  <2>4. x - 1 \in Nat /\ (x - 1) + 1 = x /\ x - 1 <= n /\ ~(x <= x - 1)
    BY <1>0, <2>2, <2>3
  <2>5. Good(x - 1)
    BY <2>1, <2>4
  <2> QED
    BY <1>4, <2>2, <2>4, <2>5
<1>6. Good(n)
  <2> HIDE DEF Good
  <2> QED
    BY <1>0, <1>5
<1>7. Supported(w, ids[n]) = ids[n]
  <2>1. CASE Cardinality(ids[n]) <= n - n
    <3>1. IsFiniteSet(ids[n]) /\ Cardinality(ids[n]) \in Nat
      BY <1>1, <1>6, FS_Subset, FS_CardinalityType
    <3>2. Cardinality(ids[n]) = 0
      BY <1>0, <2>1, <3>1
    <3>3. ids[n] = {}
      BY <3>1, <3>2, FS_EmptySet
    <3> QED
      BY <3>3 DEF Supported
  <2> QED
    BY <1>6, <2>1
<1> QED
  BY <1>2, <1>6, <1>7 DEF n, K

-----------------------------------------------------------------------------
\* reduce() of dradd.py.

\* The arguments are those of one of the calls.
DraddCall == \E c \in Calls : source = c.workload /\ strategy = c.strategy /\ config = c.config

DraddTypeOK ==
  /\ DraddCall
  /\ current \in Seq(DOMAIN source.owners)
  /\ granularity \in Nat \ {0} /\ offset \in Nat
  /\ changed \in BOOLEAN /\ exhausted \in BOOLEAN
  /\ attempts \in Nat /\ executions \in Nat
  /\ phase \in {"construct", "initial", "while", "for", "confirm", "ended"}

\* What is left is a part of the workload in its order and, once the
\* constructor has taken it, one that has what it requires.
DraddPart ==
  /\ phase = "construct" => current = [i \in DOMAIN source.owners |-> i]
  /\ Len(current) <= Len(source.owners)
  /\ \A j, k \in DOMAIN current : j < k => current[j] < current[k]
  /\ phase # "construct" /\ outcome # "ValueError" =>
       Acceptable(source) /\ current # << >> /\ Closed(source, Kept(current))

\* The trials of one group are left until the confirmation.
DraddBudget ==
  /\ attempts <= MaxCandidates
  /\ phase \in {"construct", "initial"} => executions = 0
  /\ phase \in {"while", "for", "confirm"} => executions + Trials <= MaxExecutions
  /\ executions <= MaxExecutions

\* What the log says of the groups that were run.
DraddLog ==
  /\ log.trials = executions /\ log.lawful = TRUE
  /\ phase # "ended" => outcome = "none"
  /\ phase = "construct" \/ outcome = "ValueError" => log.phase = "none"
  /\ phase = "ended" /\ outcome # "ValueError" =>
       log.phase \in {"initial", "confirmation"} /\ log.stats = stats
  /\ outcome = "SUCCESS_REPRODUCER" =>
       /\ log.phase = "confirmation" /\ log.ids = current
       /\ ValidTrials(stats) = Trials
       /\ stats["target"] * Threshold[2] >= Threshold[1] * Trials

\* The candidate without the k-th operation, and what the guided strategies
\* drop with it.
Single(k) == IF Guided THEN Prune(source, Remove(current, k)) ELSE Remove(current, k)

DraddScanned ==
  phase = "for" /\ ~changed /\ Width = 1 =>
    offset <= Len(current) /\ \A k \in 1..offset : Single(k) \in rejected

DraddDone ==
  phase = "confirm" /\ ~exhausted /\ Len(current) > 1 =>
    \A k \in 1..Len(current) : Single(k) \in rejected

DraddInv == DraddTypeOK /\ DraddPart /\ DraddBudget /\ DraddLog /\ DraddScanned /\ DraddDone

DraddKept == mode = "dradd" => DraddInv

\* What a call gives.
LEMMA DraddNumbers ==
  ASSUME DraddCall
  PROVE  /\ source.owners \in Seq(Nat)
         /\ Trials \in Nat \ {0} /\ MaxExecutions \in Nat /\ 2 * Trials <= MaxExecutions
         /\ MaxCandidates \in Nat \ {0} /\ CandidateTrials \in Nat
<1>1. PICK c \in Calls : source = c.workload /\ strategy = c.strategy /\ config = c.config
  BY DEF DraddCall
<1>2. /\ c.workload.owners \in Seq(Nat)
      /\ c.config.trials \in 1..20
      /\ c.config.max_executions \in Nat /\ 2 * c.config.trials <= c.config.max_executions
      /\ c.config.max_candidates \in 1..1000
  BY CallsAssumption, SMTT(30)
<1>3. /\ Trials = c.config.trials /\ MaxExecutions = c.config.max_executions
      /\ MaxCandidates = c.config.max_candidates /\ source.owners = c.workload.owners
      /\ CandidateTrials = 1 \/ CandidateTrials = Trials
  BY <1>1 DEF Trials, MaxExecutions, MaxCandidates, CandidateTrials
<1>4. Trials \in 1..20
  BY <1>2, <1>3, SMT
<1>5. MaxCandidates \in 1..1000
  BY <1>2, <1>3, SMT
<1>6. Trials \in Nat \ {0} /\ MaxCandidates \in Nat \ {0}
  BY <1>4, <1>5
<1>7. MaxExecutions \in Nat /\ 2 * Trials <= MaxExecutions /\ source.owners \in Seq(Nat)
  BY <1>2, <1>3, ZenonT(60)
<1> HIDE DEF Trials
<1>8. CandidateTrials \in Nat
  BY <1>3, <1>6
<1> QED
  BY <1>6, <1>7, <1>8

\* A list of members of a set is one of members of a larger set.
LEMMA WiderList ==
  ASSUME NEW S, NEW T, S \subseteq T, NEW s \in Seq(S)
  PROVE  s \in Seq(T) /\ Len(s) \in Nat
<1>1. Len(s) \in Nat /\ s \in [1..Len(s) -> S]
  OBVIOUS
<1>2. s \in [1..Len(s) -> T]
  BY <1>1
<1> QED
  BY <1>1, <1>2

\* The chunk of the search.
LEMMA DraddWidth ==
  ASSUME granularity \in Nat \ {0}, Len(current) \in Nat \ {0}
  PROVE  Width \in Nat \ {0} /\ (Finest => Width = 1)
<1>1. /\ (Len(current) + granularity - 1) \div granularity \in Nat \ {0}
      /\ Len(current) <= granularity => (Len(current) + granularity - 1) \div granularity = 1
  BY ChunkSize
<1> QED
  BY <1>1 DEF Width, Finest

\* A list without one chunk, before it is pruned.
LEMMA RestMeans ==
  ASSUME DraddTypeOK, DraddPart, offset < Len(current)
  PROVE  /\ Rest \in Seq(DOMAIN source.owners)
         /\ Len(Rest) <= Len(current)
         /\ \A j, k \in 1..Len(Rest) : j < k => Rest[j] < Rest[k]
<1> DEFINE D == DOMAIN source.owners
           w == Width
           n == Len(Rest)
<1>1. /\ Len(current) \in Nat \ {0} /\ offset \in Nat /\ current \in Seq(D)
      /\ granularity \in Nat \ {0} /\ DOMAIN current = 1..Len(current)
  BY DEF DraddTypeOK
<1>2. w \in Nat \ {0}
  BY <1>1, DraddWidth
<1>3. Rest = Cut(current, offset, w)
  BY DEF Rest, Cut
<1> HIDE DEF D, w
<1>4. /\ Rest \in Seq(D)
      /\ n = (IF offset + w <= Len(current) THEN Len(current) - w ELSE offset)
      /\ \A k \in 1..n : Rest[k] = current[IF k <= offset THEN k ELSE k + w]
  <2>1. /\ Cut(current, offset, w) \in Seq(D)
        /\ Len(Cut(current, offset, w)) = (IF offset + w <= Len(current)
                                           THEN Len(current) - w ELSE offset)
        /\ \A k \in 1..Len(Cut(current, offset, w)) :
             Cut(current, offset, w)[k] = current[IF k <= offset THEN k ELSE k + w]
    BY <1>1, <1>2, Deletion, ZenonT(60)
  <2> QED
    BY <1>3, <2>1
<1>5. n \in Nat /\ n <= Len(current)
  <2> HIDE DEF n
  <2>1. Len(current) \in Nat /\ offset \in Nat /\ w \in Nat /\ w > 0
    BY <1>1, <1>2
  <2>2. n = (IF offset + w <= Len(current) THEN Len(current) - w ELSE offset)
    BY <1>4
  <2> QED
    BY <2>1, <2>2
<1>6. \A k \in 1..n : (IF k <= offset THEN k ELSE k + w) \in 1..Len(current)
  <2> HIDE DEF n
  <2>1. /\ Len(current) \in Nat /\ offset \in Nat /\ w \in Nat /\ w > 0
        /\ offset < Len(current) /\ n \in Nat
    BY <1>1, <1>2, <1>5
  <2>2. n = (IF offset + w <= Len(current) THEN Len(current) - w ELSE offset)
    BY <1>4
  <2> QED
    BY ONLY <2>1, <2>2
<1>7. \A j, k \in 1..n : j < k => (IF j <= offset THEN j ELSE j + w)
                                     < (IF k <= offset THEN k ELSE k + w)
  BY <1>1, <1>2, <1>5
<1>8. \A j, k \in 1..n : j < k => Rest[j] < Rest[k]
  <2> TAKE j, k \in 1..n
  <2> HAVE j < k
  <2> DEFINE i == IF k <= offset THEN k ELSE k + w
             h == IF j <= offset THEN j ELSE j + w
  <2>1. i \in 1..Len(current) /\ Rest[k] = current[i]
    BY <1>4, <1>6
  <2>2. h \in 1..Len(current) /\ Rest[j] = current[h]
    BY <1>4, <1>6
  <2>3. h < i
    BY <1>7
  <2> HIDE DEF h, i
  <2> QED
    BY <1>1, <2>1, <2>2, <2>3 DEF DraddPart
<1> QED
  BY <1>4, <1>5, <1>8 DEF D

\* A candidate is a part of the workload in its order.
LEMMA KeepMeans ==
  ASSUME DraddTypeOK, DraddPart, offset < Len(current)
  PROVE  /\ Keep \in Seq(DOMAIN source.owners)
         /\ Len(Keep) <= Len(current)
         /\ \A j, k \in 1..Len(Keep) : j < k => Keep[j] < Keep[k]
<1> DEFINE D == DOMAIN source.owners
<1>1. /\ Rest \in Seq(D) /\ Len(Rest) <= Len(current)
      /\ \A j, k \in 1..Len(Rest) : j < k => Rest[j] < Rest[k]
  BY RestMeans
<1>2. D \in SUBSET Nat /\ Len(current) \in Nat
  <2>1. source.owners \in Seq(Nat)
    BY DraddNumbers DEF DraddTypeOK
  <2>2. D = 1..Len(source.owners)
    BY <2>1
  <2>3. Len(current) \in Nat
    BY DEF DraddTypeOK
  <2> QED
    BY <2>1, <2>2, <2>3
<1> HIDE DEF D
<1>3. CASE Guided
  <2>1. Rest \in Seq(Nat) /\ Len(Rest) \in Nat
    BY <1>1, <1>2, WiderList
  <2>2. PICK X \in SUBSET Kept(Rest) : Prune(source, Rest) = Sorted(X)
    BY <2>1, PruneMeans
  <2>3. /\ Kept(Rest) \in SUBSET D /\ IsFiniteSet(Kept(Rest))
        /\ Cardinality(Kept(Rest)) \in Nat /\ Cardinality(Kept(Rest)) <= Len(Rest)
    BY <1>1, KeptIsFinite
  <2>4. X \in SUBSET D /\ X \in SUBSET Nat
    BY <1>2, <2>3
  <2>5. IsFiniteSet(X) /\ Cardinality(X) <= Cardinality(Kept(Rest))
    BY <2>3, FS_Subset
  <2>6. /\ Cardinality(X) \in Nat
        /\ Sorted(X) \in Seq(X) /\ Len(Sorted(X)) = Cardinality(X)
        /\ \A j, k \in 1..Len(Sorted(X)) : j < k => Sorted(X)[j] < Sorted(X)[k]
    BY <2>4, <2>5, SortedMeans
  <2>7. Keep = Sorted(X)
    BY <1>3, <2>2 DEF Keep
  <2>8. Sorted(X) \in Seq(D)
    BY <2>4, <2>6, WiderList
  <2>9. Cardinality(X) <= Len(current)
    BY <1>1, <1>2, <2>1, <2>3, <2>5, <2>6
  <2> QED
    BY <2>6, <2>7, <2>8, <2>9 DEF D
<1>4. CASE ~Guided
  BY <1>1, <1>4 DEF Keep, D
<1> QED
  BY <1>3, <1>4

\* A call starts with all its operations.
LEMMA DraddStarts ==
  ASSUME Init
  PROVE  DraddInv
<1>1. PICK c \in Calls : source = c.workload /\ strategy = c.strategy /\ config = c.config
  BY DEF Init
<1>2. DraddCall
  BY <1>1 DEF DraddCall
<1>3. /\ source.owners \in Seq(Nat)
      /\ Trials \in Nat \ {0} /\ MaxExecutions \in Nat /\ MaxCandidates \in Nat \ {0}
  BY <1>2, DraddNumbers
<1>4. current = [i \in DOMAIN source.owners |-> i]
  BY DEF Init
<1>5. Len(source.owners) \in Nat /\ DOMAIN source.owners = 1..Len(source.owners)
  BY <1>3
<1>6. /\ current \in Seq(DOMAIN source.owners) /\ Len(current) = Len(source.owners)
      /\ DOMAIN current = 1..Len(source.owners)
  BY <1>4, <1>5
<1>7. /\ granularity = 2 /\ offset = 0 /\ attempts = 0 /\ executions = 0
      /\ phase = "construct" /\ outcome = "none"
      /\ log.trials = 0 /\ log.lawful = TRUE /\ log.phase = "none"
  BY DEF Init
<1>8. changed \in BOOLEAN /\ exhausted \in BOOLEAN
  BY Zenon DEF Init
<1>9. DraddTypeOK
  BY <1>2, <1>6, <1>7, <1>8 DEF DraddTypeOK
<1>10. DraddPart
  BY <1>4, <1>5, <1>6, <1>7 DEF DraddPart
<1>11. DraddBudget /\ DraddLog /\ DraddScanned /\ DraddDone
  BY <1>3, <1>7 DEF DraddBudget, DraddLog, DraddScanned, DraddDone
<1> QED
  BY <1>9, <1>10, <1>11 DEF DraddInv

\* A step that leaves the search where it is keeps what is known of the
\* rejected candidates.
LEMMA SearchStays ==
  ASSUME UNCHANGED <<source, strategy, current, granularity>>
  PROVE  Width' = Width /\ \A k : Single(k)' = Single(k)
  BY DEF Width, Single, Guided, Remove, Prune, Prerequisites, Kept, Sorted

\* The constructor takes the workload or refuses it; nothing has been run.
LEMMA DraddConstruct ==
  ASSUME DraddInv, Construct
  PROVE  DraddInv'
<1> USE DEF DraddInv
<1>1. /\ phase = "construct" /\ outcome = "none"
      /\ UNCHANGED <<source, strategy, config, current, granularity, offset, changed, attempts,
                     invalid, exhausted, executions, stats, rejected, log>>
      /\ \/ Acceptable(source) /\ phase' = "initial" /\ outcome' = "none"
         \/ phase' = "ended" /\ outcome' = "ValueError"
  BY DEF Construct, DraddLog, arguments, search
<1>2. DraddTypeOK'
  BY <1>1 DEF DraddTypeOK, DraddCall
<1>3. /\ current = [i \in DOMAIN source.owners |-> i]
      /\ Kept(current) = DOMAIN source.owners
  BY <1>1 DEF DraddPart, Kept
<1>4. Acceptable(source) => current # << >> /\ Closed(source, Kept(current))
  <2> SUFFICES ASSUME Acceptable(source)
               PROVE  current # << >> /\ Closed(source, Kept(current))
    OBVIOUS
  <2>1. Len(source.owners) \in 1..12 /\ source.owners \in Seq(Nat)
    BY DraddNumbers DEF Acceptable, DraddTypeOK
  <2>2. 1 \in DOMAIN source.owners
    BY <2>1
  <2>3. current # << >>
    BY <1>3, <2>2
  <2>4. Closed(source, Kept(current))
    BY <1>3 DEF Acceptable, Closed
  <2> QED
    BY <2>3, <2>4
<1>5. DraddPart'
  BY <1>1, <1>4 DEF DraddPart, Acceptable, Closed, Prerequisites, Cyclic, Graph, Kept
<1>6. DraddBudget' /\ DraddLog' /\ DraddScanned' /\ DraddDone'
  BY <1>1 DEF DraddBudget, DraddLog, DraddScanned, DraddDone, Trials, MaxExecutions, MaxCandidates
<1> QED
  BY <1>2, <1>5, <1>6

\* The first group decides whether there is anything to reduce.
LEMMA DraddInitial ==
  ASSUME DraddInv, Initial
  PROVE  DraddInv'
<1> USE DEF DraddInv
<1>1. PICK s \in Summaries(Trials) :
        /\ Replay(current, "initial", Trials, s) /\ stats' = s
        /\ IF Accepted(s, Trials, Threshold, Lower)
           THEN phase' = "while" /\ outcome' = outcome
           ELSE phase' = "ended" /\ outcome' = Rejection(s)
  BY DEF Initial
<1>2. /\ phase = "initial" /\ outcome = "none" /\ executions = 0
      /\ UNCHANGED <<source, strategy, config, current, granularity, offset, changed, attempts,
                     invalid, exhausted, rejected>>
      /\ executions' = executions + Trials
      /\ log'.trials = log.trials + Trials
      /\ log'.lawful = (log.lawful /\ Closed(source, Kept(current)))
      /\ log'.phase = "initial" /\ log'.stats = s
  BY <1>1 DEF Initial, DraddBudget, DraddLog, Replay, arguments, search
<1>3. /\ Acceptable(source) /\ current # << >> /\ Closed(source, Kept(current))
      /\ log.lawful = TRUE /\ log.trials = 0
  BY <1>2 DEF DraddPart, DraddLog
<1>4. log'.lawful = TRUE
  BY <1>2, <1>3, Zenon
<1>5. \/ phase' = "while" /\ outcome' = "none"
      \/ phase' = "ended" /\ outcome' \notin {"none", "ValueError", "SUCCESS_REPRODUCER"}
  BY <1>1, <1>2 DEF Rejection
<1>6. /\ Trials \in Nat \ {0} /\ MaxExecutions \in Nat /\ 2 * Trials <= MaxExecutions
      /\ Trials' = Trials /\ MaxExecutions' = MaxExecutions /\ MaxCandidates' = MaxCandidates
  BY <1>2, DraddNumbers DEF DraddTypeOK, Trials, MaxExecutions, MaxCandidates
<1>7. executions' = Trials /\ log'.trials = Trials
  BY <1>2, <1>3, <1>6
<1>8. DraddTypeOK'
  BY <1>2, <1>5, <1>6, <1>7 DEF DraddTypeOK, DraddCall
<1>9. DraddPart'
  BY <1>2, <1>3, <1>5 DEF DraddPart, Acceptable, Closed, Prerequisites, Cyclic, Graph, Kept
<1>10. DraddBudget'
  BY <1>2, <1>5, <1>6, <1>7 DEF DraddBudget
<1>11. DraddLog'
  BY <1>1, <1>2, <1>4, <1>5, <1>7 DEF DraddLog
<1>12. DraddScanned' /\ DraddDone'
  BY <1>5 DEF DraddScanned, DraddDone
<1> QED
  BY <1>8, <1>9, <1>10, <1>11, <1>12

\* A new round begins at the start, or one operation is left.
LEMMA DraddWhile ==
  ASSUME DraddInv, While
  PROVE  DraddInv'
<1> USE DEF DraddInv
<1>1. /\ phase = "while"
      /\ UNCHANGED <<source, strategy, config, current, granularity, attempts, invalid, exhausted,
                     executions, outcome, stats, rejected, log>>
      /\ \/ Len(current) > 1 /\ phase' = "for" /\ offset' = 0 /\ changed' = FALSE
         \/ ~(Len(current) > 1) /\ phase' = "confirm" /\ UNCHANGED <<offset, changed>>
  BY DEF While, arguments
<1>2. DraddTypeOK'
  <2>1. changed' \in BOOLEAN
    BY <1>1, Zenon DEF DraddTypeOK
  <2>2. offset' \in Nat
    BY <1>1 DEF DraddTypeOK
  <2> QED
    BY <1>1, <2>1, <2>2 DEF DraddTypeOK, DraddCall
<1>3. DraddPart'
  BY <1>1 DEF DraddPart, Acceptable, Closed, Prerequisites, Cyclic, Graph, Kept
<1>4. DraddBudget' /\ DraddLog'
  BY <1>1 DEF DraddBudget, DraddLog, Trials, MaxExecutions, MaxCandidates, Threshold, ValidTrials
<1>5. DraddScanned'
  <2>1. Len(current) \in Nat
    BY DEF DraddTypeOK
  <2> QED
    BY <1>1, <2>1 DEF DraddScanned
<1>6. DraddDone'
  BY <1>1 DEF DraddDone
<1> QED
  BY <1>2, <1>3, <1>4, <1>5, <1>6

\* What is left of the workload stays what it is.
LEMMA PartStays ==
  ASSUME DraddPart, UNCHANGED <<source, current>>, phase # "construct", phase' # "construct",
         outcome # "ValueError"
  PROVE  DraddPart'
  BY DEF DraddPart, Acceptable, Closed, Prerequisites, Cyclic, Graph, Kept

\* A rejected candidate is put on record before the round goes on behind it.
LEMMA ScanMoves ==
  ASSUME DraddTypeOK, DraddScanned, InLoop, rejected' = rejected \cup {Keep},
         offset' = offset + Width, UNCHANGED <<source, strategy, current, granularity>>
  PROVE  offset' \in Nat /\ DraddScanned'
<1>1. /\ phase = "for" /\ ~changed /\ offset < Len(current) /\ offset \in Nat
      /\ Len(current) \in Nat \ {0} /\ granularity \in Nat \ {0}
  BY DEF InLoop, DraddTypeOK
<1>2. Width \in Nat \ {0}
  BY <1>1, DraddWidth
<1>3. ASSUME Width = 1
      PROVE  /\ offset' <= Len(current)
             /\ \A k \in 1..offset' : Single(k) \in rejected'
  <2>1. offset' = offset + 1
    BY <1>3
  <2>2. Keep = Single(offset + 1)
    <3>1. (offset + 1) - 1 = offset /\ offset + Width + 1 = (offset + 1) + 1
      BY <1>1, <1>3
    <3>2. Rest = Remove(current, offset + 1)
      BY <3>1, Zenon DEF Rest, Remove
    <3> QED
      BY <3>2, Zenon DEF Keep, Single
  <2>3. \A k \in 1..offset : Single(k) \in rejected
    BY <1>1, <1>3 DEF DraddScanned
  <2> QED
    BY <1>1, <2>1, <2>2, <2>3
<1>4. DraddScanned'
  BY <1>3, SearchStays DEF DraddScanned
<1> QED
  BY <1>1, <1>2, <1>4

\* The candidate budget ends the search.
LEMMA DraddNoCandidateLeft ==
  ASSUME DraddInv, NoCandidateLeft
  PROVE  DraddInv'
<1> USE DEF DraddInv
<1>1. /\ phase = "for" /\ exhausted' = TRUE
      /\ UNCHANGED <<source, strategy, config, current, granularity, offset, changed, attempts,
                     invalid, executions, phase, outcome, stats, rejected, log>>
  BY DEF NoCandidateLeft, InLoop, arguments
<1>2. DraddTypeOK'
  <2>1. exhausted' \in BOOLEAN
    BY <1>1, Zenon
  <2> QED
    BY <1>1, <2>1 DEF DraddTypeOK, DraddCall
<1>3. DraddPart'
  BY <1>1, PartStays DEF DraddLog
<1>4. DraddBudget' /\ DraddLog'
  BY <1>1 DEF DraddBudget, DraddLog, Trials, MaxExecutions, MaxCandidates, Threshold, ValidTrials
<1>5. DraddScanned'
  BY <1>1, SearchStays DEF DraddScanned
<1>6. DraddDone'
  BY <1>1 DEF DraddDone
<1> QED
  BY <1>2, <1>3, <1>4, <1>5, <1>6

\* An invalid candidate counts as an attempt and is not run.
LEMMA DraddInvalid ==
  ASSUME DraddInv, Invalid
  PROVE  DraddInv'
<1> USE DEF DraddInv
<1>1. /\ InLoop /\ phase = "for" /\ attempts < MaxCandidates /\ attempts' = attempts + 1
      /\ rejected' = rejected \cup {Keep} /\ offset' = offset + Width
      /\ log' = [log EXCEPT !.phase = "invalid", !.stats = NoStats]
      /\ UNCHANGED <<source, strategy, config, current, granularity, changed, exhausted,
                     executions, phase, outcome, stats>>
  BY DEF Invalid, InLoop, arguments
<1>2. offset' \in Nat /\ DraddScanned'
  BY <1>1, ScanMoves
<1>3. DraddTypeOK'
  BY <1>1, <1>2 DEF DraddTypeOK, DraddCall
<1>4. DraddPart'
  BY <1>1, PartStays DEF DraddLog
<1>5. DraddBudget'
  <2>1. MaxCandidates \in Nat /\ attempts \in Nat
    BY DraddNumbers DEF DraddTypeOK
  <2> QED
    BY <1>1, <2>1 DEF DraddBudget, Trials, MaxExecutions, MaxCandidates
<1>6. log'.trials = log.trials /\ log'.lawful = log.lawful
  BY <1>1 DEF DraddLog
<1>7. DraddLog'
  BY <1>1, <1>6 DEF DraddLog
<1>8. DraddDone'
  BY <1>1 DEF DraddDone
<1> QED
  BY <1>2, <1>3, <1>4, <1>5, <1>7, <1>8

\* The trial budget ends the search, the confirmation still being paid for.
LEMMA DraddUnaffordable ==
  ASSUME DraddInv, Unaffordable
  PROVE  DraddInv'
<1> USE DEF DraddInv
<1>1. /\ phase = "for" /\ exhausted' = TRUE
      /\ attempts < MaxCandidates /\ attempts' = attempts + 1
      /\ UNCHANGED <<source, strategy, config, current, granularity, offset, changed,
                     invalid, executions, phase, outcome, stats, rejected, log>>
  BY DEF Unaffordable, InLoop, arguments
<1>2. DraddTypeOK'
  <2>1. exhausted' \in BOOLEAN
    BY <1>1, Zenon
  <2>2. attempts' \in Nat
    BY <1>1 DEF DraddTypeOK
  <2> QED
    BY <1>1, <2>1, <2>2 DEF DraddTypeOK, DraddCall
<1>3. DraddPart'
  BY <1>1, PartStays DEF DraddLog
<1>4. DraddBudget'
  <2>1. MaxCandidates \in Nat /\ attempts \in Nat
    BY DraddNumbers DEF DraddTypeOK
  <2> QED
    BY <1>1, <2>1 DEF DraddBudget, Trials, MaxExecutions, MaxCandidates
<1>5. DraddLog'
  BY <1>1 DEF DraddLog, Trials, Threshold, ValidTrials
<1>6. DraddScanned'
  BY <1>1, SearchStays DEF DraddScanned
<1>7. DraddDone'
  BY <1>1 DEF DraddDone
<1> QED
  BY <1>2, <1>3, <1>4, <1>5, <1>6, <1>7

\* A candidate is run: accepted, it is what is left from now on.
LEMMA DraddTry ==
  ASSUME DraddInv, Try
  PROVE  DraddInv'
<1> USE DEF DraddInv
<1>1. /\ InLoop /\ attempts < MaxCandidates /\ Valid(source, Keep) /\ Affordable
      /\ attempts' = attempts + 1
      /\ Replay(Keep, "candidate", CandidateTrials, NoStats)
      /\ UNCHANGED <<source, strategy, config, invalid, exhausted, phase, outcome, stats>>
      /\ \/ /\ current' = Keep
            /\ granularity' = IF granularity > 3 THEN granularity - 1 ELSE 2
            /\ changed' = TRUE /\ rejected' = {} /\ offset' = offset
         \/ /\ rejected' = rejected \cup {Keep}
            /\ offset' = offset + Width
            /\ UNCHANGED <<current, granularity, changed>>
  BY DEF Try, arguments
<1>2. /\ phase = "for" /\ offset < Len(current) /\ outcome = "none"
      /\ Acceptable(source) /\ Closed(source, Kept(current)) /\ log.lawful = TRUE
      /\ log.trials = executions
  BY <1>1 DEF InLoop, DraddLog, DraddPart
<1>3. /\ Trials \in Nat \ {0} /\ MaxExecutions \in Nat /\ MaxCandidates \in Nat
      /\ CandidateTrials \in Nat /\ attempts \in Nat /\ executions \in Nat
      /\ Trials' = Trials /\ MaxExecutions' = MaxExecutions /\ MaxCandidates' = MaxCandidates
  BY <1>1, DraddNumbers DEF DraddTypeOK, Trials, MaxExecutions, MaxCandidates
<1>4. Keep # << >> /\ Closed(source, Kept(Keep))
  BY <1>1, ClosedMeans DEF Valid
<1>5. /\ executions' = executions + CandidateTrials
      /\ log'.trials = log.trials + CandidateTrials
      /\ log'.lawful = (log.lawful /\ Closed(source, Kept(Keep)))
      /\ log'.phase = "candidate"
  BY <1>1 DEF Replay
<1>6. log'.lawful = TRUE
  BY <1>2, <1>4, <1>5, Zenon
<1>7. executions' + Trials <= MaxExecutions /\ executions' \in Nat
  BY <1>1, <1>3, <1>5 DEF Affordable
<1>8. DraddBudget'
  <2> HIDE DEF DraddInv
  <2>1. attempts < MaxCandidates /\ attempts' = attempts + 1
    BY <1>1
  <2>2. attempts' <= MaxCandidates
    BY <1>3, <2>1
  <2>3. executions' <= MaxExecutions
    <3>1. \A a, b, c \in Nat : a + b <= c => a <= c
      OBVIOUS
    <3>2. Trials \in Nat /\ MaxExecutions \in Nat
      BY <1>3
    <3> QED
      BY <3>1, <3>2, <1>7, Zenon
  <2> QED
    BY <1>1, <1>2, <1>3, <1>7, <2>2, <2>3 DEF DraddBudget
<1>9. log'.trials = executions'
  BY <1>2, <1>5
<1>10. DraddLog'
  BY <1>1, <1>2, <1>6, <1>9 DEF DraddLog
<1>11. DraddDone'
  BY <1>1, <1>2 DEF DraddDone
<1>12. CASE /\ current' = Keep
            /\ granularity' = IF granularity > 3 THEN granularity - 1 ELSE 2
            /\ changed' = TRUE /\ rejected' = {} /\ offset' = offset
  <2>1. /\ Keep \in Seq(DOMAIN source.owners) /\ Len(Keep) <= Len(current)
        /\ \A j, k \in 1..Len(Keep) : j < k => Keep[j] < Keep[k]
    BY <1>2, KeepMeans
  <2>2. granularity' \in Nat \ {0}
    BY <1>12 DEF DraddTypeOK
  <2>3. changed' \in BOOLEAN
    BY <1>12, Zenon
  <2>4. DraddTypeOK'
    BY <1>1, <1>3, <1>7, <1>12, <2>1, <2>2, <2>3 DEF DraddTypeOK, DraddCall
  <2>5. /\ Len(Keep) <= Len(source.owners) /\ DOMAIN Keep = 1..Len(Keep)
    <3>1. /\ Len(source.owners) \in Nat /\ Len(current) \in Nat /\ Len(Keep) \in Nat
          /\ DOMAIN Keep = 1..Len(Keep)
      BY <2>1, DraddNumbers DEF DraddTypeOK
    <3> QED
      BY <2>1, <3>1 DEF DraddPart
  <2>6. Acceptable(source)' /\ Closed(source, Kept(current))'
    BY <1>1, <1>2, <1>4, <1>12 DEF Acceptable, Closed, Prerequisites, Cyclic, Graph, Kept
  <2>7. DraddPart'
    BY <1>1, <1>2, <1>4, <1>12, <2>1, <2>5, <2>6 DEF DraddPart
  <2>8. DraddScanned'
    BY <1>12 DEF DraddScanned
  <2> QED
    BY <1>8, <1>10, <1>11, <2>4, <2>7, <2>8
<1>13. CASE /\ rejected' = rejected \cup {Keep}
            /\ offset' = offset + Width
            /\ UNCHANGED <<current, granularity, changed>>
  <2>1. offset' \in Nat /\ DraddScanned'
    BY <1>1, <1>13, ScanMoves
  <2>2. DraddTypeOK'
    BY <1>1, <1>3, <1>7, <1>13, <2>1 DEF DraddTypeOK, DraddCall
  <2>3. DraddPart'
    BY <1>1, <1>2, <1>13, PartStays
  <2> QED
    BY <1>8, <1>10, <1>11, <2>1, <2>2, <2>3
<1> QED
  BY <1>1, <1>12, <1>13

\* A round of single deletions without a success ends the search.
LEMMA DraddRound ==
  ASSUME DraddInv, Round
  PROVE  DraddInv'
<1> USE DEF DraddInv
<1>1. /\ phase = "for" /\ ~InLoop
      /\ UNCHANGED <<source, strategy, config, current, offset, changed, attempts, invalid,
                     exhausted, executions, outcome, stats, rejected, log>>
      /\ \/ (exhausted \/ (~changed /\ Finest)) /\ phase' = "confirm" /\ granularity' = granularity
         \/ /\ phase' = "while"
            /\ granularity' = IF changed THEN granularity
                              ELSE IF granularity * 2 < Len(current) THEN granularity * 2
                              ELSE Len(current)
  BY DEF Round, arguments
<1>2. /\ Len(current) \in Nat \ {0} /\ granularity \in Nat \ {0} /\ offset \in Nat
      /\ outcome = "none"
  BY <1>1 DEF DraddTypeOK, DraddPart, DraddLog
<1>3. granularity' \in Nat \ {0}
  BY <1>1, <1>2
<1>4. DraddTypeOK'
  BY <1>1, <1>3 DEF DraddTypeOK, DraddCall
<1>5. DraddPart'
  BY <1>1, <1>2, PartStays
<1>6. DraddBudget' /\ DraddLog'
  BY <1>1 DEF DraddBudget, DraddLog, Trials, MaxExecutions, MaxCandidates, Threshold, ValidTrials
<1>7. DraddScanned'
  BY <1>1 DEF DraddScanned
<1>8. DraddDone'
  <2> SUFFICES ASSUME phase' = "confirm", ~exhausted
               PROVE  \A k \in 1..Len(current) : Single(k)' \in rejected
    BY <1>1 DEF DraddDone
  <2>1. ~changed /\ Finest /\ granularity' = granularity
    BY <1>1
  <2>2. Width = 1
    BY <1>2, <2>1, DraddWidth
  <2>3. offset <= Len(current) /\ \A k \in 1..offset : Single(k) \in rejected
    BY <1>1, <2>1, <2>2 DEF DraddScanned
  <2>4. offset = Len(current)
    BY <1>1, <1>2, <2>1, <2>3 DEF InLoop
  <2> QED
    BY <1>1, <2>1, <2>3, <2>4, SearchStays
<1> QED
  BY <1>4, <1>5, <1>6, <1>7, <1>8

\* The reserved group is run on the result, and decides.
LEMMA DraddConfirm ==
  ASSUME DraddInv, Confirm
  PROVE  DraddInv'
<1> USE DEF DraddInv
<1>1. PICK s \in Summaries(Trials) :
        /\ Replay(current, "confirmation", Trials, s) /\ stats' = s
        /\ outcome' = IF Accepted(s, Trials, Threshold, Lower)
                      THEN "SUCCESS_REPRODUCER" ELSE Rejection(s)
  BY DEF Confirm
<1>2. /\ phase = "confirm" /\ outcome = "none" /\ phase' = "ended"
      /\ UNCHANGED <<source, strategy, config, current, granularity, offset, changed, attempts,
                     invalid, exhausted, rejected>>
      /\ executions' = executions + Trials
      /\ log'.trials = log.trials + Trials
      /\ log'.lawful = (log.lawful /\ Closed(source, Kept(current)))
      /\ log'.phase = "confirmation" /\ log'.stats = s /\ log'.ids = current
  BY <1>1 DEF Confirm, DraddLog, Replay, arguments, search
<1>3. /\ Closed(source, Kept(current)) /\ log.lawful = TRUE /\ log.trials = executions
  BY <1>2 DEF DraddPart, DraddLog
<1>4. log'.lawful = TRUE
  BY <1>2, <1>3, Zenon
<1>5. outcome' \notin {"none", "ValueError"}
  BY <1>1 DEF Rejection
<1>6. outcome' = "SUCCESS_REPRODUCER" => Accepted(s, Trials, Threshold, Lower)
  BY <1>1 DEF Rejection
<1>7. /\ Trials \in Nat \ {0} /\ MaxExecutions \in Nat /\ executions \in Nat
      /\ Trials' = Trials /\ MaxExecutions' = MaxExecutions /\ MaxCandidates' = MaxCandidates
      /\ Threshold' = Threshold
  BY <1>2, DraddNumbers DEF DraddTypeOK, Trials, MaxExecutions, MaxCandidates, Threshold
<1>8. executions' \in Nat /\ log'.trials = executions' /\ executions' <= MaxExecutions
  BY <1>2, <1>3, <1>7 DEF DraddBudget
<1>9. DraddTypeOK'
  BY <1>2, <1>8 DEF DraddTypeOK, DraddCall
<1>10. DraddPart'
  BY <1>2, PartStays
<1>11. DraddBudget'
  BY <1>2, <1>7, <1>8 DEF DraddBudget
<1>12. outcome' = "SUCCESS_REPRODUCER" =>
         /\ ValidTrials(stats') = Trials
         /\ stats'["target"] * Threshold[2] >= Threshold[1] * Trials
  BY <1>1, <1>6 DEF Accepted
<1>13. DraddLog'
  BY <1>1, <1>2, <1>4, <1>5, <1>7, <1>8, <1>12 DEF DraddLog, ValidTrials
<1>14. DraddScanned' /\ DraddDone'
  BY <1>2 DEF DraddScanned, DraddDone
<1> QED
  BY <1>9, <1>10, <1>11, <1>13, <1>14

\* The invariant holds in every call of reduce().
LEMMA DraddIsKept == AnySpec => []DraddKept
<1>1. AnyInit => DraddKept
  <2>1. Delta!Init => mode # "dradd"
    BY DEF Delta!Init
  <2> QED
    BY <2>1, DraddStarts DEF AnyInit, DraddKept
<1>2. ASSUME DraddKept, [AnyNext]_<<vars, mode, reductionVars>>
      PROVE  DraddKept'
  <2> SUFFICES ASSUME mode' = "dradd" PROVE DraddInv'
    BY DEF DraddKept
  <2>1. ASSUME mode = "dradd", UNCHANGED vars
        PROVE  DraddInv'
    <3>1. /\ DraddInv
          /\ UNCHANGED <<source, strategy, config, current, granularity, offset, changed, attempts,
                         invalid, exhausted, executions, phase, outcome, stats, rejected, log>>
      BY <1>2, <2>1 DEF DraddKept, vars
    <3>2. DraddTypeOK' /\ DraddPart'
      BY <3>1 DEF DraddInv, DraddTypeOK, DraddCall, DraddPart, Acceptable, Closed, Prerequisites,
                  Cyclic, Graph, Kept
    <3>3. DraddBudget' /\ DraddLog'
      BY <3>1 DEF DraddInv, DraddBudget, DraddLog, Trials, MaxExecutions, MaxCandidates, Threshold,
                  ValidTrials
    <3>4. DraddScanned' /\ DraddDone'
      BY <3>1, SearchStays DEF DraddInv, DraddScanned, DraddDone
    <3> QED
      BY <3>2, <3>3, <3>4 DEF DraddInv
  <2>2. CASE UNCHANGED <<vars, mode, reductionVars>>
    BY <2>1, <2>2
  <2>3. CASE mode = "dradd" /\ Next /\ UNCHANGED <<mode, reductionVars>>
    <3>1. DraddInv
      BY <1>2, <2>3 DEF DraddKept
    <3>2. CASE Ended
      BY <2>1, <2>3, <3>2 DEF Ended
    <3> QED
      BY <2>3, <3>1, <3>2, DraddConstruct, DraddInitial, DraddWhile, DraddNoCandidateLeft,
         DraddInvalid, DraddUnaffordable, DraddTry, DraddRound, DraddConfirm DEF Next, Step
  <2>4. CASE mode # "dradd" /\ Delta!Next /\ UNCHANGED draddVars
    <3>1. mode' = mode
      BY <2>4 DEF Delta!Next, Delta!Step, Delta!InitialScenario, Delta!InitialReplay, Delta!While,
                  Delta!Candidate, Delta!Round, Delta!Confirm, Delta!Ended, Delta!vars
    <3> QED
      BY <2>4, <3>1
  <2> QED
    BY <1>2, <2>2, <2>3, <2>4 DEF AnyNext
<1> QED
  BY <1>1, <1>2, PTL DEF AnySpec

\* reduce() of dradd.py, for every set of calls: neither budget is exceeded
\* and the trials of the confirmation are left when it is reached, success
\* rests on that group alone, and verify() of research.py accepts every
\* result.
THEOREM ReducedIsConfirmed == AnySpec => []DraddIsConfirmed
<1>1. DraddKept => DraddIsConfirmed
  <2> SUFFICES ASSUME DraddInv PROVE ResultIsConfirmed
    BY DEF DraddKept, DraddIsConfirmed
  <2>1. ConfirmationReserved
    BY DEF DraddInv, DraddBudget, ConfirmationReserved
  <2>2. SuccessIsConfirmed
    BY DEF DraddInv, DraddLog, SuccessIsConfirmed, ValidTrials
  <2>3. ResultVerifies
    <3>1. log.lawful
      BY Zenon DEF DraddInv, DraddLog
    <3> QED
      BY <3>1 DEF DraddInv, DraddLog, DraddBudget, ResultVerifies
  <2> QED
    BY <2>1, <2>2, <2>3 DEF ResultIsConfirmed
<1> QED
  BY <1>1, DraddIsKept, PTL

\* reduce() of dradd.py, for every set of calls: a search that ends within
\* its budgets has tried and rejected every single deletion from the result.
THEOREM ReducedIsMinimal == AnySpec => []DraddIsMinimal
<1>1. DraddKept => DraddIsMinimal
  <2> SUFFICES ASSUME DraddInv PROVE NoDeletionUntried
    BY DEF DraddKept, DraddIsMinimal
  <2>1. DOMAIN current = 1..Len(current)
    BY DEF DraddInv, DraddTypeOK
  <2> QED
    BY <2>1 DEF DraddInv, DraddDone, Single, NoDeletionUntried
<1> QED
  BY <1>1, DraddIsKept, PTL

-----------------------------------------------------------------------------
\* The result of reduce() is a workload.

\* The operation before another one by its worker, and where it must lie.
LEMMA PreviousOfWorker ==
  ASSUME NEW w, w.owners \in Seq(Nat),
         NEW x \in DOMAIN w.owners, NEW y \in DOMAIN w.owners, y < x,
         w.owners[y] = w.owners[x]
  PROVE  \E p \in DOMAIN w.owners : /\ y <= p /\ p < x /\ w.owners[p] = w.owners[x]
                                    /\ p \in Graph(w, x)
<1> DEFINE own(z) == w.owners[z]
           T == {d \in Nat : x - d \in 1..(x - 1) /\ own(x - d) = own(x)}
<1>1. /\ Len(w.owners) \in Nat /\ DOMAIN w.owners = 1..Len(w.owners)
      /\ x \in Nat /\ y \in Nat /\ x <= Len(w.owners) /\ 1 <= y
  OBVIOUS
<1>2. own(y) = own(x)
  OBVIOUS
<1>3. \A z \in 1..(x - 1) : z \in DOMAIN w.owners
  BY <1>1
<1>4. \A p : p \in 1..(x - 1) /\ own(p) = own(x) /\ (\A k \in (p + 1)..(x - 1) : own(k) # own(x))
               => p \in Graph(w, x)
  BY DEF Graph
<1> HIDE DEF own
<1>5. x - y \in T
  <2>1. x - y \in Nat /\ x - (x - y) = y /\ y \in 1..(x - 1)
    BY <1>1
  <2> QED
    BY <1>2, <2>1
<1>6. PICK d \in T : \A e \in T : d <= e
  BY <1>5, LeastNatural
<1> DEFINE p == x - d
<1>7. d \in Nat /\ p \in 1..(x - 1) /\ own(p) = own(x) /\ d <= x - y
  BY <1>5, <1>6 DEF T
<1> HIDE DEF T
<1>8. ASSUME NEW k \in (p + 1)..(x - 1), own(k) = own(x) PROVE FALSE
  <2>0. /\ x \in Nat /\ d \in Nat /\ k \in Int
        /\ 1 <= x - d /\ x - d + 1 <= k /\ k <= x - 1
    BY <1>1, <1>7
  <2>1. x - k \in Nat /\ x - (x - k) = k /\ k \in 1..(x - 1) /\ ~(d <= x - k)
    <3>1. \A a, b \in Nat, e \in Int : 1 <= a - b /\ a - b + 1 <= e /\ e <= a - 1
            => a - e \in Nat /\ a - (a - e) = e /\ e \in 1..(a - 1) /\ ~(b <= a - e)
      OBVIOUS
    <3> QED
      BY <2>0, <3>1, Zenon
  <2>2. x - k \in T
    BY <1>8, <2>1 DEF T
  <2> QED
    BY <1>6, <2>1, <2>2
<1>9. p \in Graph(w, x)
  BY <1>4, <1>7, <1>8
<1>10. y <= p /\ p < x
  <2>1. x \in Nat /\ y \in Nat /\ d \in Nat /\ x - d \in 1..(x - 1) /\ d <= x - y
    BY <1>1, <1>7
  <2> QED
    BY <2>1, SMTT(30)
<1>11. p \in DOMAIN w.owners
  BY <1>3, <1>7
<1> QED
  BY <1>7, <1>9, <1>10, <1>11 DEF own

\* A part of a workload in its order, its edges renumbered, is a workload: a
\* cycle in it would be one in the workload, with the operations of a worker
\* in between.
LEMMA PartIsWorkload ==
  ASSUME NEW w, w.owners \in Seq(Nat), Acceptable(w),
         NEW keep \in Seq(DOMAIN w.owners), keep # << >>, Len(keep) <= Len(w.owners),
         \A j, k \in 1..Len(keep) : j < k => keep[j] < keep[k]
  PROVE  Acceptable(Candidate(w, keep))
<1> DEFINE n == Len(keep)
           D == DOMAIN w.owners
           place == [i \in Kept(keep) |-> CHOOSE k \in DOMAIN keep : keep[k] = i]
           c == Candidate(w, keep)
<1>1. /\ n \in Nat \ {0} /\ DOMAIN keep = 1..n /\ Len(w.owners) \in 1..12
      /\ D = 1..Len(w.owners) /\ \A k \in 1..n : keep[k] \in D
  BY DEF Acceptable
<1>2. \A k \in 1..n : keep[k] \in Nat
  BY <1>1
<1>3. ASSUME NEW j \in 1..n, NEW k \in 1..n
      PROVE  /\ keep[j] = keep[k] => j = k
             /\ keep[j] < keep[k] => j < k
  <2>1. /\ j < k => keep[j] < keep[k]
        /\ k < j => keep[k] < keep[j]
        /\ keep[j] \in Nat /\ keep[k] \in Nat /\ j \in Nat /\ k \in Nat
    BY <1>2, SMTT(40)
  <2> QED
    BY <2>1, SMTT(30)
<1>4. ASSUME NEW i \in Kept(keep)
      PROVE  place[i] \in 1..n /\ keep[place[i]] = i
  <2>1. \E k \in DOMAIN keep : keep[k] = i
    BY DEF Kept
  <2>2. place[i] = CHOOSE k \in DOMAIN keep : keep[k] = i
    OBVIOUS
  <2> QED
    BY <1>1, <2>1, <2>2
<1>5. c = [owners |-> [k \in DOMAIN keep |-> w.owners[keep[k]]],
           edges |-> {[op |-> place[e.op], requires |-> place[e.requires], kind |-> e.kind] :
                        e \in {d \in w.edges : {d.op, d.requires} \subseteq Kept(keep)}}]
  BY DEF Candidate
<1>6. /\ c.owners = [k \in 1..n |-> w.owners[keep[k]]]
      /\ c.edges = {[op |-> place[e.op], requires |-> place[e.requires], kind |-> e.kind] :
                      e \in {d \in w.edges : {d.op, d.requires} \subseteq Kept(keep)}}
  BY <1>1, <1>5
<1> HIDE DEF place, c, n
<1>7. ASSUME NEW e \in c.edges
      PROVE  /\ e.op \in 1..n /\ e.requires \in 1..n /\ e.op # e.requires
             /\ e.kind \in Required => keep[e.requires] \in Prerequisites(w, keep[e.op])
  <2>1. PICK d \in w.edges : /\ d.op \in Kept(keep) /\ d.requires \in Kept(keep)
                             /\ e = [op |-> place[d.op], requires |-> place[d.requires],
                                     kind |-> d.kind]
    BY <1>6
  <2>2. e.op = place[d.op] /\ e.requires = place[d.requires] /\ e.kind = d.kind
    BY <2>1
  <2>3. /\ e.op \in 1..n /\ e.requires \in 1..n
        /\ keep[e.op] = d.op /\ keep[e.requires] = d.requires
    BY <1>4, <2>1, <2>2
  <2>4. d.op # d.requires
    BY DEF Acceptable
  <2>5. e.op # e.requires
    BY <2>3, <2>4
  <2>6. e.kind \in Required => d.requires \in Prerequisites(w, d.op)
    BY <2>2 DEF Prerequisites
  <2> QED
    BY <2>3, <2>5, <2>6
<1>8. ASSUME NEW k \in 1..n, NEW j \in Prerequisites(c, k)
      PROVE  j \in 1..n /\ keep[j] \in Prerequisites(w, keep[k])
  <2>1. PICK e \in c.edges : e.op = k /\ e.kind \in Required /\ j = e.requires
    BY DEF Prerequisites
  <2> QED
    BY <1>7, <2>1
<1>9. DOMAIN c.owners = 1..n /\ \A k \in 1..n : c.owners[k] = w.owners[keep[k]]
  BY <1>6
<1>10. Len(c.owners) \in 1..12
  <2>1. c.owners \in Seq(Nat) /\ Len(c.owners) = n
    <3>1. \A k \in 1..n : w.owners[keep[k]] \in Nat
      <4>1. \A i \in D : w.owners[i] \in Nat
        OBVIOUS
      <4> QED
        BY <1>1, <4>1
    <3> QED
      BY <1>1, <1>6, <3>1
  <2>2. n <= Len(w.owners)
    BY DEF n
  <2>3. n \in 1..12
    <3>1. n \in Nat /\ 1 <= n
      BY <1>1
    <3>2. Len(w.owners) \in Nat /\ Len(w.owners) <= 12
      <4>1. \A i \in 1..12 : i \in Nat /\ i <= 12
        OBVIOUS
      <4> QED
        BY <1>1, <4>1
    <3> QED
      BY <2>2, <3>1, <3>2
  <2> QED
    BY <2>1, <2>3
<1>11. \A e \in c.edges : e.op # e.requires /\ {e.op, e.requires} \subseteq DOMAIN c.owners
  BY <1>7, <1>9
<1>12. ASSUME NEW k \in 1..n, NEW j \in Prerequisites(c, k), c.owners[k] = c.owners[j]
       PROVE  j < k
  <2>1. j \in 1..n /\ keep[j] \in Prerequisites(w, keep[k]) /\ keep[k] \in D
    BY <1>1, <1>8
  <2>2. w.owners[keep[k]] = w.owners[keep[j]]
    BY <1>9, <1>12, <2>1
  <2>3. keep[j] < keep[k]
    BY <2>1, <2>2 DEF Acceptable
  <2> QED
    BY <1>3, <2>1, <2>3
<1>13. ~Cyclic(c)
  <2> SUFFICES ASSUME NEW S \in SUBSET (1..n), S # {},
                      \A k \in S : Graph(c, k) \cap S # {}
               PROVE  Cyclic(w)
    BY <1>9 DEF Cyclic, Acceptable
  <2> DEFINE own(x) == w.owners[x]
             X == {x \in D : \E j, k \in S : /\ own(keep[j]) = own(x) /\ own(keep[k]) = own(x)
                                             /\ keep[j] <= x /\ x <= keep[k]}
  <2>1. ASSUME NEW k \in S PROVE keep[k] \in X
    <3>1. keep[k] \in D /\ keep[k] \in Nat
      BY <1>1, <1>2
    <3>2. keep[k] <= keep[k]
      BY <3>1
    <3> QED
      BY <3>1, <3>2
  <2>2. X # {} /\ X \in SUBSET D
    BY <2>1
  <2>3. ASSUME NEW x \in X PROVE Graph(w, x) \cap X # {}
    <3>1. PICK j \in S, k \in S : /\ own(keep[j]) = own(x) /\ own(keep[k]) = own(x)
                                  /\ keep[j] <= x /\ x <= keep[k]
      OBVIOUS
    <3>2. /\ x \in D /\ x \in Nat /\ keep[j] \in D /\ keep[k] \in D
          /\ keep[j] \in Nat /\ keep[k] \in Nat /\ j \in 1..n
      <4>1. j \in 1..n /\ k \in 1..n /\ x \in D
        OBVIOUS
      <4>2. x \in Nat
        BY <1>1, <4>1
      <4> QED
        BY <1>1, <1>2, <4>1, <4>2
    <3>3. ASSUME NEW m \in S, keep[m] < x, own(keep[m]) = own(x)
          PROVE  Graph(w, x) \cap X # {}
      <4>1. keep[m] \in D /\ keep[m] \in Nat
        BY <1>1, <1>2
      <4>2. PICK p \in D : /\ keep[m] <= p /\ p < x /\ own(p) = own(x) /\ p \in Graph(w, x)
        BY <3>2, <3>3, <4>1, PreviousOfWorker
      <4>3. p \in Nat /\ p <= keep[k]
        <5>1. p \in Nat
          BY <1>1
        <5>2. p < x /\ x <= keep[k] /\ x \in Nat /\ keep[k] \in Nat
          BY <3>1, <3>2, <4>2
        <5> QED
          BY <5>1, <5>2
      <4>4. p \in X
        BY <3>1, <3>3, <4>2, <4>3
      <4> QED
        BY <4>2, <4>4
    <3>4. CASE keep[j] < x
      BY <3>1, <3>3, <3>4
    <3>5. CASE keep[j] = x
      <4>1. PICK m \in S : m \in Graph(c, j)
        OBVIOUS
      <4>2. CASE m \in Prerequisites(c, j)
        <5>1. keep[m] \in Prerequisites(w, x)
          BY <1>8, <3>2, <3>5, <4>2
        <5>2. keep[m] \in Graph(w, x)
          BY <5>1 DEF Graph
        <5> QED
          BY <2>1, <5>2
      <4>3. CASE m \in 1..(j - 1) /\ c.owners[m] = c.owners[j]
        <5>1. m \in 1..n /\ j \in 1..n /\ m < j
          BY <3>2, <4>3
        <5>2. keep[m] < keep[j]
          BY <5>1 DEF n
        <5>3. own(keep[m]) = own(x)
          BY <1>9, <3>5, <4>3, <5>1
        <5> QED
          BY <3>3, <3>5, <5>2, <5>3
      <4> QED
        BY <4>1, <4>2, <4>3 DEF Graph
    <3>6. keep[j] < x \/ keep[j] = x
      <4>1. keep[j] <= x /\ keep[j] \in Nat /\ x \in Nat
        BY <3>1, <3>2
      <4> QED
        BY <4>1
    <3> QED
      BY <3>4, <3>5, <3>6
  <2> HIDE DEF X
  <2> QED
    BY <2>2, <2>3 DEF Cyclic
<1>14. \A i \in DOMAIN c.owners : \A j \in Prerequisites(c, i) :
         c.owners[i] = c.owners[j] => j < i
  BY <1>9, <1>12
<1> QED
  BY <1>10, <1>11, <1>13, <1>14 DEF Acceptable, c

\* reduce() of dradd.py, for every set of calls: every workload that is run
\* has all prerequisites of its operations, pruning takes away no more than
\* it must, and the result, its edges renumbered, could be reduced again.
THEOREM ReducedIsLawful == AnySpec => []DraddIsLawful
<1>1. DraddKept => DraddIsLawful
  <2> SUFFICES ASSUME DraddInv PROVE CandidatesAreLawful
    BY DEF DraddKept, DraddIsLawful
  <2>0. /\ source.owners \in Seq(Nat) /\ current \in Seq(DOMAIN source.owners)
        /\ DOMAIN source.owners \in SUBSET Nat /\ DOMAIN current = 1..Len(current)
    BY DraddNumbers DEF DraddInv, DraddTypeOK
  <2>1. NothingInvalidRuns
    <3>1. log.lawful
      BY Zenon DEF DraddInv, DraddLog
    <3> QED
      BY <3>1 DEF DraddInv, DraddPart, NothingInvalidRuns
  <2>2. PruneIsLargest
    <3> SUFFICES ASSUME InLoop, Guided
                 PROVE  Kept(Keep) = UNION {S \in SUBSET Kept(Rest) : Closed(source, S)}
      BY DEF PruneIsLargest
    <3>1. Rest \in Seq(DOMAIN source.owners)
      BY RestMeans DEF DraddInv, InLoop
    <3>2. Rest \in Seq(Nat)
      BY <2>0, <3>1, WiderList
    <3>3. PICK X \in SUBSET Kept(Rest) :
            /\ Prune(source, Rest) = Sorted(X)
            /\ Supported(source, X) = X
            /\ \A Y \in SUBSET Kept(Rest) : Supported(source, Y) = Y => Y \subseteq X
      BY <3>2, PruneMeans
    <3>4. Kept(Rest) \in SUBSET Nat /\ IsFiniteSet(Kept(Rest))
      BY <3>2, KeptIsFinite
    <3>5. IsFiniteSet(X) /\ X \in SUBSET Nat
      BY <3>4, FS_Subset
    <3>6. Kept(Sorted(X)) = X
      BY <3>5, SortedMeans
    <3>7. \A Y : Supported(source, Y) = Y <=> Closed(source, Y)
      BY ClosedMeans DEF Supported
    <3>8. Kept(Keep) = X
      BY <3>3, <3>6 DEF Keep
    <3>9. Closed(source, X) /\ \A Y \in SUBSET Kept(Rest) : Closed(source, Y) => Y \subseteq X
      BY <3>3, <3>7
    <3> QED
      BY <3>8, <3>9
  <2>3. ReducedIsWorkload
    <3> SUFFICES ASSUME phase = "ended", log.phase # "none"
                 PROVE  Acceptable(Candidate(source, current))
      BY DEF ReducedIsWorkload
    <3>1. Acceptable(source) /\ current # << >>
      BY DEF DraddInv, DraddLog, DraddPart
    <3>2. /\ Len(current) <= Len(source.owners)
          /\ \A j, k \in 1..Len(current) : j < k => current[j] < current[k]
      BY <2>0 DEF DraddInv, DraddPart
    <3> QED
      BY <2>0, <3>1, <3>2, PartIsWorkload
  <2> QED
    BY <2>1, <2>2, <2>3 DEF CandidatesAreLawful
<1> QED
  BY <1>1, DraddIsKept, PTL

=============================================================================
