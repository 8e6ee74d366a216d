------------------------- MODULE ConcurrentRunProofs -------------------------
(***************************************************************************)
(* check_history decides what it claims to decide, for every history, and  *)
(* what evaluate_concurrent captures is a history it can judge, for every  *)
(* plan, number of workers, clock and interleaving.                        *)
(*                                                                         *)
(* The first half is about the search as an operator: it is sound and      *)
(* complete for the orders of the reference definition, and a budget of    *)
(* one transition per partial order is enough.  The second half is the     *)
(* inductive invariant of the workers.                                     *)
(***************************************************************************)
EXTENDS ConcurrentRun, FiniteSetTheorems, SequenceTheorems, TLAPS

\* A request of a valid operation, its bytes included.
Request(op) == ValidOperation(op) /\ (op.op = "write" => op.data \in Seq(Nat))

\* The history's events have the fields check_history asks for.
Event(e) ==
  /\ e.worker \in Int /\ e.sequence \in Nat /\ e.index \in Int
  /\ e.started \in Nat /\ e.finished \in Nat

\* What the search is given: a list of requests with their times and replies.
Recorded(h) == Len(h) \in Nat /\ DOMAIN h = 1..Len(h) /\ \A i \in 1..Len(h) : Event(h[i])

Playable(h) == Recorded(h) /\ \A i \in 1..Len(h) : Request(h[i].operation)

-----------------------------------------------------------------------------
(***************************************************************************)
(* Induction, without operators as parameters.                             *)
(***************************************************************************)
Below == {p \in Nat \X Nat : p[1] < p[2]}

\* A nonempty set of natural numbers has a least member.
LEMMA LeastNatural ==
  ASSUME NEW T \in SUBSET Nat, T # {}
  PROVE  \E x \in T : \A y \in T : x <= y
<1>1. IsWellFoundedOn(Below, Nat)
  BY NatLessThanWellFounded DEF OpToRel, Below
<1>2. \E x \in T : \A y \in T : ~(<<y, x>> \in Below)
  BY <1>1, WFMin, Zenon
<1>3. ASSUME NEW x \in T, NEW y \in T, ~(<<y, x>> \in Below)
      PROVE  x <= y
  <2>1. x \in Nat /\ y \in Nat
    OBVIOUS
  <2> QED
    BY <1>3, <2>1 DEF Below
<1> QED
  BY <1>2, <1>3

\* A set of numbers that holds a number whenever it holds all smaller ones.
LEMMA Induction ==
  ASSUME NEW S, \A n \in Nat : (\A m \in 0..n - 1 : m \in S) => n \in S
  PROVE  \A n \in Nat : n \in S
<1> DEFINE T == {n \in Nat : n \notin S}
<1>1. ASSUME T # {} PROVE FALSE
  <2>1. PICK x \in T : \A y \in T : x <= y
    BY <1>1, LeastNatural
  <2>2. x \in Nat /\ x \notin S
    OBVIOUS
  <2>3. \A m \in 0..x - 1 : m \in S
    BY <2>1, <2>2
  <2> QED
    BY <2>2, <2>3
<1> QED
  BY <1>1

-----------------------------------------------------------------------------
(***************************************************************************)
(* The reference model.                                                    *)
(***************************************************************************)
\* Every operation takes a state of the model to a state of the model.
LEMMA ApplyKeepsModel ==
  ASSUME NEW m \in Model, NEW op, Request(op)
  PROVE  Apply(m, op).model \in Model
<1>1. /\ m.capacity \in Nat /\ m.data \in Seq(Nat) /\ Len(m.data) \in Nat
      /\ Len(m.data) <= m.capacity /\ m = [capacity |-> m.capacity, data |-> m.data]
  BY DEF Model
<1>2. CASE op.op = "write"
  <2> DEFINE n == Lesser(Len(op.data), m.capacity - Len(m.data))
             s == Front(op.data, n)
             r == ApplyWrite(m, op.data)
  <2>1. op.data \in Seq(Nat) /\ Len(op.data) \in Nat
    BY <1>2 DEF Request
  <2>2. n \in Nat /\ n <= Len(op.data) /\ n <= m.capacity - Len(m.data)
    BY <1>1, <2>1 DEF Lesser
  <2>3. s \in Seq(Nat) /\ Len(s) = n
    <3> HIDE DEF n
    <3>1. \A i \in 1..n : op.data[i] \in Nat
      BY <2>1, <2>2, ElementOfSeq
    <3>2. Front(op.data, n) \in Seq(Nat) /\ Len(Front(op.data, n)) = IF 1 <= n THEN n - 1 + 1 ELSE 0
      BY <2>1, <2>2, <3>1, SubSeqProperties DEF Front
    <3> QED
      BY <2>2, <3>2
  <2>4. r.model = m \/ r.model = [m EXCEPT !.data = m.data \o s]
    BY DEF ApplyWrite
  <2> HIDE DEF s, r, n
  <2>5. m.data \o s \in Seq(Nat) /\ Len(m.data \o s) = Len(m.data) + n
    BY <1>1, <2>3, ConcatProperties
  <2>6. [m EXCEPT !.data = m.data \o s] = [capacity |-> m.capacity, data |-> m.data \o s]
    <3> DEFINE t == m.data \o s
    <3> HIDE DEF t
    <3>1. [m EXCEPT !.data = t] = [capacity |-> m.capacity, data |-> t]
      BY <1>1
    <3> QED
      BY <3>1 DEF t
  <2>7. [capacity |-> m.capacity, data |-> m.data \o s] \in Model
    BY <1>1, <2>2, <2>5 DEF Model
  <2>8. r.model \in Model
    BY <2>4, <2>6, <2>7
  <2>9. Apply(m, op) = r
    BY <1>2 DEF Apply, r
  <2> QED
    BY <2>8, <2>9
<1>3. CASE op.op = "read"
  <2> DEFINE n == Lesser(op.count, Len(m.data))
             s == Rest(m.data, n)
             r == ApplyRead(m, op.count)
  <2>1. op.count \in Nat
    BY <1>3, BoundsAssumption DEF Request, ValidOperation
  <2>2. n \in Nat /\ n <= Len(m.data)
    BY <1>1, <2>1 DEF Lesser
  <2>3. s \in Seq(Nat) /\ Len(s) <= Len(m.data)
    <3> HIDE DEF n
    <3>1. n + 1 \in Int /\ Len(m.data) \in Int /\ \A i \in n + 1..Len(m.data) : m.data[i] \in Nat
      BY <1>1, <2>2, ElementOfSeq
    <3>2. /\ Rest(m.data, n) \in Seq(Nat)
          /\ Len(Rest(m.data, n)) = IF n + 1 <= Len(m.data) THEN Len(m.data) - (n + 1) + 1 ELSE 0
      BY <3>1, SubSeqProperties DEF Rest
    <3> QED
      BY <1>1, <2>2, <3>2
  <2>4. r.model = m \/ r.model = [m EXCEPT !.data = s]
    BY DEF ApplyRead
  <2> HIDE DEF s, r, n
  <2>5. [m EXCEPT !.data = s] = [capacity |-> m.capacity, data |-> s]
    BY <1>1
  <2>6. [capacity |-> m.capacity, data |-> s] \in Model
    <3>1. Len(s) \in Nat
      BY <2>3
    <3> QED
      BY <1>1, <2>3, <3>1 DEF Model
  <2>7. Apply(m, op) = r
    BY <1>3 DEF Apply, r
  <2> QED
    BY <2>4, <2>5, <2>6, <2>7
<1>4. CASE op.op = "resize"
  <2> DEFINE c == op.capacity
             r == ApplyResize(m, c)
  <2>1. c \in Nat
    BY <1>4 DEF Request, ValidOperation
  <2>2. r.model = m \/ (~(c < Len(m.data)) /\ r.model = [m EXCEPT !.capacity = c])
    BY DEF ApplyResize
  <2>3. ~(c < Len(m.data)) => [capacity |-> c, data |-> m.data] \in Model
    BY <1>1, <2>1 DEF Model
  <2>4. [m EXCEPT !.capacity = c] = [capacity |-> c, data |-> m.data]
    BY <1>1
  <2>5. Apply(m, op) = r
    BY <1>4 DEF Apply
  <2> QED
    BY <2>2, <2>3, <2>4, <2>5
<1>5. CASE op.op = "clear"
  <2>1. Apply(m, op).model = [m EXCEPT !.data = << >>]
    BY <1>5 DEF Apply, ApplyClear
  <2>2. [m EXCEPT !.data = << >>] = [capacity |-> m.capacity, data |-> << >>]
    BY <1>1
  <2>3. << >> \in Seq(Nat) /\ Len(<< >>) = 0
    OBVIOUS
  <2>4. [capacity |-> m.capacity, data |-> << >>] \in Model
    BY <1>1, <2>3 DEF Model
  <2> QED
    BY <2>1, <2>2, <2>4
<1>6. CASE op.op = "capacity"
  BY <1>6 DEF Apply, ApplyCapacity
<1> QED
  BY <1>2, <1>3, <1>4, <1>5, <1>6 DEF Request, ValidOperation

\* A new model is a state of the model.
LEMMA NewModelIsModel ==
  ASSUME NEW c \in Nat
  PROVE  NewModel(c) \in Model
<1>1. << >> \in Seq(Nat) /\ Len(<< >>) = 0
  OBVIOUS
<1> QED
  BY <1>1 DEF NewModel, Model

-----------------------------------------------------------------------------
(***************************************************************************)
(* The contract run in some order: the states before and after each call.  *)
(***************************************************************************)
NextInRun(f, h, c, p, k) ==
  IF k = 0 THEN NewModel(c) ELSE Apply(f[k - 1], h[p[k]].operation).model

IsRun(f, h, c, p, n) == f = [k \in 0..n |-> NextInRun(f, h, c, p, k)]

RunOf(h, c, p, n) ==
  LET at[k \in 0..n] ==
        IF k = 0 THEN NewModel(c) ELSE Apply(at[k - 1], h[p[k]].operation).model
  IN  at

\* Every list of calls has a run: a longer one extends a shorter one.
LEMMA RunExists ==
  ASSUME NEW h, NEW c, NEW p, NEW n \in Nat
  PROVE  IsRun(RunOf(h, c, p, n), h, c, p, n)
<1> DEFINE S == {m \in Nat : \E f : IsRun(f, h, c, p, m)}
<1>1. ASSUME NEW m \in Nat, \A k \in 0..m - 1 : k \in S
      PROVE  m \in S
  <2>1. CASE m = 0
    <3> DEFINE f == [k \in 0..m |-> NewModel(c)]
    <3>1. f = [k \in 0..m |-> NextInRun(f, h, c, p, k)]
      BY <2>1 DEF NextInRun
    <3> QED
      BY <3>1 DEF IsRun
  <2>2. CASE m # 0
    <3>1. m - 1 \in 0..m - 1
      BY <2>2
    <3>2. PICK g : IsRun(g, h, c, p, m - 1)
      BY <1>1, <3>1
    <3> DEFINE f == [k \in 0..m |-> IF k = m THEN NextInRun(g, h, c, p, m) ELSE g[k]]
    <3>3. ASSUME NEW k \in 0..m PROVE f[k] = NextInRun(f, h, c, p, k)
      <4>1. CASE k = m
        <5>1. k - 1 \in 0..m /\ k - 1 # m
          BY <2>2, <4>1
        <5>2. f[k - 1] = g[k - 1] /\ f[k] = NextInRun(g, h, c, p, k)
          BY <4>1, <5>1
        <5> HIDE DEF f
        <5> QED
          BY <2>2, <4>1, <5>2 DEF NextInRun
      <4>2. CASE k # m
        <5>1. k \in 0..m - 1 /\ f[k] = g[k]
          BY <4>2
        <5>2. g[k] = NextInRun(g, h, c, p, k)
          BY <3>2, <5>1 DEF IsRun
        <5>3. k # 0 => k - 1 \in 0..m /\ k - 1 # m
          BY <5>1
        <5>4. k # 0 => f[k - 1] = g[k - 1]
          BY <5>3
        <5> HIDE DEF f
        <5> QED
          BY <5>1, <5>2, <5>4 DEF NextInRun
      <4> QED
        BY <4>1, <4>2
    <3>4. f = [k \in 0..m |-> f[k]]
      OBVIOUS
    <3> HIDE DEF f
    <3>5. f = [k \in 0..m |-> NextInRun(f, h, c, p, k)]
      BY <3>3, <3>4
    <3> QED
      BY <3>5 DEF IsRun
  <2> QED
    BY <2>1, <2>2
<1> HIDE DEF S
<1>2. n \in S
  BY <1>1, Induction
<1> QED
  BY <1>2 DEF S, RunOf, IsRun, NextInRun

\* What a run is, state by state.
LEMMA RunSteps ==
  ASSUME NEW h, NEW c, NEW p, NEW n \in Nat
  PROVE  /\ RunOf(h, c, p, n)[0] = NewModel(c)
         /\ \A k \in 1..n : RunOf(h, c, p, n)[k] =
              Apply(RunOf(h, c, p, n)[k - 1], h[p[k]].operation).model
<1> DEFINE f == RunOf(h, c, p, n)
<1>1. f = [k \in 0..n |-> NextInRun(f, h, c, p, k)]
  BY RunExists DEF IsRun
<1> HIDE DEF f
<1>2. \A k \in 0..n : f[k] = NextInRun(f, h, c, p, k)
  BY <1>1
<1>3. f[0] = NewModel(c)
  <2>1. 0 \in 0..n
    OBVIOUS
  <2> QED
    BY <1>2, <2>1 DEF NextInRun
<1>4. ASSUME NEW k \in 1..n PROVE f[k] = Apply(f[k - 1], h[p[k]].operation).model
  <2>1. k \in 0..n /\ k # 0
    OBVIOUS
  <2> QED
    BY <1>2, <2>1 DEF NextInRun
<1> QED
  BY <1>3, <1>4 DEF f

\* f and g begin alike and are then driven by the same n calls.
SameCalls(f, g, n) ==
  /\ f[0] = g[0]
  /\ \A k \in 1..n : \E op : f[k] = Apply(f[k - 1], op).model /\ g[k] = Apply(g[k - 1], op).model

\* Two runs of the same calls go through the same states.
LEMMA RunsAgree ==
  ASSUME NEW f, NEW g, NEW n \in Nat, SameCalls(f, g, n)
  PROVE  \A k \in 0..n : f[k] = g[k]
<1> DEFINE S == {k \in Nat : k \in 0..n => f[k] = g[k]}
<1>1. ASSUME NEW m \in Nat, \A k \in 0..m - 1 : k \in S
      PROVE  m \in S
  <2>1. CASE m = 0
    BY <2>1 DEF SameCalls
  <2>2. CASE m # 0 /\ m \in 0..n
    <3>1. m - 1 \in 0..m - 1 /\ m - 1 \in 0..n /\ m \in 1..n
      BY <2>2
    <3>2. f[m - 1] = g[m - 1]
      BY <1>1, <3>1
    <3>3. f[m] = g[m]
      BY <3>1, <3>2 DEF SameCalls
    <3> QED
      BY <3>3
  <2> QED
    BY <2>1, <2>2
<1> HIDE DEF S
<1>2. \A k \in Nat : k \in S
  BY <1>1, Induction
<1> QED
  BY <1>2 DEF S

\* A run of valid requests stays among the states of the model.
LEMMA RunTyped ==
  ASSUME NEW f, NEW n \in Nat, f[0] \in Model,
         \A k \in 1..n : \E op : Request(op) /\ f[k] = Apply(f[k - 1], op).model
  PROVE  \A k \in 0..n : f[k] \in Model
<1> DEFINE S == {k \in Nat : k \in 0..n => f[k] \in Model}
<1>1. ASSUME NEW m \in Nat, \A k \in 0..m - 1 : k \in S
      PROVE  m \in S
  <2>1. CASE m = 0
    BY <2>1
  <2>2. CASE m # 0 /\ m \in 0..n
    <3>1. m - 1 \in 0..m - 1 /\ m - 1 \in 0..n /\ m \in 1..n
      BY <2>2
    <3>2. f[m - 1] \in Model
      BY <1>1, <3>1
    <3>3. PICK op : Request(op) /\ f[m] = Apply(f[m - 1], op).model
      BY <3>1
    <3>4. f[m] \in Model
      BY <3>2, <3>3, ApplyKeepsModel
    <3> QED
      BY <3>4
  <2> QED
    BY <2>1, <2>2
<1> HIDE DEF S
<1>2. \A k \in Nat : k \in S
  BY <1>1, Induction
<1> QED
  BY <1>2 DEF S

-----------------------------------------------------------------------------
(***************************************************************************)
(* The search as a function of the budget that is left and of the place.   *)
(***************************************************************************)
Result(left) == [outcome : {"found", "none", "exhausted"}, order : Seq(Nat), left : 0..left]

\* What the search does with the first event that is ready: it goes deeper
\* if the reply is right, and further along its loop if that finds nothing.
Deeper(h, x) ==
  [from |-> 1, order |-> Append(x.order, First(Ready(h, x))),
   model |-> Apply(x.model, h[First(Ready(h, x))].operation).model]

Further(h, x) == [x EXCEPT !.from = First(Ready(h, x)) + 1]

Tried(h, s, left, x) ==
  IF Apply(x.model, h[First(Ready(h, x))].operation).reply = h[First(Ready(h, x))].actual
  THEN s[left - 1][Deeper(h, x)]
  ELSE Ends("none", x.order, left - 1)

\* The fields of a place.
LEMMA PlaceFields ==
  ASSUME NEW x \in Place
  PROVE  /\ x.from \in Nat /\ x.order \in Seq(Nat) /\ x.model \in Model
         /\ Len(x.order) \in Nat /\ DOMAIN x.order = 1..Len(x.order)
         /\ x = [from |-> x.from, order |-> x.order, model |-> x.model]
<1>1. /\ x.from \in Nat /\ x.order \in Seq(Nat) /\ x.model \in Model
      /\ x = [from |-> x.from, order |-> x.order, model |-> x.model]
  BY DEF Place
<1>2. Len(x.order) \in Nat /\ DOMAIN x.order = 1..Len(x.order)
  BY <1>1, LenProperties
<1> QED
  BY <1>1, <1>2

\* The loop goes on with the first event that is ready.
LEMMA FirstReady ==
  ASSUME NEW h, Playable(h), NEW x \in Place, Ready(h, x) # {}
  PROVE  /\ First(Ready(h, x)) \in Ready(h, x) /\ First(Ready(h, x)) \in 1..Len(h)
         /\ \A j \in Ready(h, x) : First(Ready(h, x)) <= j
         /\ Deeper(h, x) \in Place /\ Further(h, x) \in Place
<1> DEFINE R == Ready(h, x)
           i == First(R)
<1>1. R \in SUBSET (1..Len(h)) /\ Len(h) \in Nat
  BY DEF Playable, Recorded, Ready
<1>2. R \in SUBSET Nat /\ R # {}
  BY <1>1
<1> HIDE DEF R
<1>3. \E a \in R : \A b \in R : a <= b
  BY <1>2, LeastNatural
<1>4. i \in R /\ \A j \in R : i <= j
  BY <1>3 DEF First
<1> HIDE DEF i
<1>5. i \in 1..Len(h) /\ i \in Nat
  BY <1>1, <1>2, <1>4
<1>6. Request(h[i].operation)
  BY <1>5 DEF Playable
<1>7. Apply(x.model, h[i].operation).model \in Model
  BY <1>6, PlaceFields, ApplyKeepsModel
<1>8. Append(x.order, i) \in Seq(Nat)
  BY <1>5, PlaceFields, AppendProperties
<1>9. [from |-> 1, order |-> Append(x.order, i), model |-> Apply(x.model, h[i].operation).model]
        \in Place
  BY <1>7, <1>8 DEF Place
<1>10. [x EXCEPT !.from = i + 1] \in Place
  <2>1. i + 1 \in Nat
    BY <1>5
  <2>2. [x EXCEPT !.from = i + 1] = [from |-> i + 1, order |-> x.order, model |-> x.model]
    BY PlaceFields
  <2> QED
    BY <2>1, <2>2, PlaceFields DEF Place
<1> QED
  BY <1>4, <1>5, <1>9, <1>10 DEF Deeper, Further, i, R

\* The ways out of search().
LEMMA ExploreCases ==
  ASSUME NEW h, NEW s, NEW left, NEW x
  PROVE  /\ Len(x.order) = Len(h) => Explore(h, s, left, x) = Ends("found", x.order, left)
         /\ Len(x.order) # Len(h) /\ Ready(h, x) = {} =>
              Explore(h, s, left, x) = Ends("none", x.order, left)
         /\ Len(x.order) # Len(h) /\ Ready(h, x) # {} /\ left = 0 =>
              Explore(h, s, left, x) = Ends("exhausted", x.order, left)
         /\ Len(x.order) # Len(h) /\ Ready(h, x) # {} /\ left # 0 =>
              Explore(h, s, left, x) =
                IF Tried(h, s, left, x).outcome # "none" THEN Tried(h, s, left, x)
                ELSE s[Tried(h, s, left, x).left][Further(h, x)]
  BY DEF Explore, Tried, Deeper, Further

\* An attempt costs a transition.
LEMMA TriedTyped ==
  ASSUME NEW h, Playable(h), NEW x \in Place, Ready(h, x) # {},
         NEW left \in Nat \ {0}, NEW s, \A k \in 0..left - 1 : s[k] \in [Place -> Result(k)]
  PROVE  Tried(h, s, left, x) \in Result(left - 1)
<1>1. left - 1 \in 0..left - 1 /\ left - 1 \in Nat
  OBVIOUS
<1>2. s[left - 1] \in [Place -> Result(left - 1)]
  BY <1>1
<1>3. s[left - 1][Deeper(h, x)] \in Result(left - 1)
  BY <1>2, FirstReady
<1>4. Ends("none", x.order, left - 1) \in Result(left - 1)
  BY <1>1, PlaceFields DEF Ends, Result
<1> QED
  BY <1>3, <1>4 DEF Tried

LEMMA ExploreTyped ==
  ASSUME NEW h, Playable(h), NEW x \in Place,
         NEW left \in Nat, NEW s, \A k \in 0..left - 1 : s[k] \in [Place -> Result(k)]
  PROVE  Explore(h, s, left, x) \in Result(left)
<1>1. \A o \in {"found", "none", "exhausted"} : Ends(o, x.order, left) \in Result(left)
  BY PlaceFields DEF Ends, Result
<1>2. CASE Len(x.order) # Len(h) /\ Ready(h, x) # {} /\ left # 0
  <2> DEFINE r == Tried(h, s, left, x)
  <2>1. r \in Result(left - 1)
    BY <1>2, TriedTyped
  <2> HIDE DEF r
  <2>2. r.left \in 0..left - 1
    BY <2>1 DEF Result
  <2>3. s[r.left] \in [Place -> Result(r.left)]
    BY <2>2
  <2>4. s[r.left][Further(h, x)] \in Result(r.left)
    BY <1>2, <2>3, FirstReady
  <2>5. ASSUME NEW k \in 0..left - 1 PROVE Result(k) \subseteq Result(left)
    <3>1. 0..k \subseteq 0..left
      OBVIOUS
    <3> QED
      BY <3>1 DEF Result
  <2>6. left - 1 \in 0..left - 1
    BY <1>2
  <2>7. r \in Result(left) /\ s[r.left][Further(h, x)] \in Result(left)
    BY <2>1, <2>2, <2>4, <2>5, <2>6
  <2> QED
    BY <1>2, <2>7, ExploreCases DEF r
<1> QED
  BY <1>1, <1>2, ExploreCases

\* The search reads only what is found with less left.
LEMMA ExploreSame ==
  ASSUME NEW h, Playable(h), NEW x \in Place,
         NEW left \in Nat, NEW s, NEW t, \A k \in 0..left - 1 : s[k] \in [Place -> Result(k)],
         \A k \in 0..left - 1 : s[k] = t[k]
  PROVE  Explore(h, s, left, x) = Explore(h, t, left, x)
<1>1. CASE Len(x.order) # Len(h) /\ Ready(h, x) # {} /\ left # 0
  <2> DEFINE r == Tried(h, s, left, x)
  <2>1. r \in Result(left - 1)
    BY <1>1, TriedTyped
  <2>2. left - 1 \in 0..left - 1
    BY <1>1
  <2>3. s[left - 1] = t[left - 1]
    BY <2>2
  <2>4. r = Tried(h, t, left, x)
    BY <2>3 DEF Tried
  <2> HIDE DEF r
  <2>5. r.left \in 0..left - 1
    BY <2>1 DEF Result
  <2>6. s[r.left] = t[r.left]
    BY <2>5
  <2>7. Explore(h, s, left, x) = IF r.outcome # "none" THEN r ELSE s[r.left][Further(h, x)]
    BY <1>1, ExploreCases DEF r
  <2>8. Explore(h, t, left, x) = IF r.outcome # "none" THEN r ELSE t[r.left][Further(h, x)]
    BY <1>1, <2>4, ExploreCases DEF r
  <2> QED
    BY <2>6, <2>7, <2>8
<1> QED
  BY <1>1, ExploreCases

IsSearch(s, h, b) == s = [left \in 0..b |-> [x \in Place |-> Explore(h, s, left, x)]]

Answers(s, b) == \A k \in 0..b : s[k] \in [Place -> Result(k)]

\* The recursion of search() is well-founded: every transition tried leaves
\* less of the budget.
LEMMA SearchExists ==
  ASSUME NEW h, Playable(h), NEW b \in Nat
  PROVE  \E s : IsSearch(s, h, b) /\ Answers(s, b)
<1> DEFINE S == {m \in Nat : \E s : IsSearch(s, h, m) /\ Answers(s, m)}
<1>1. ASSUME NEW m \in Nat, NEW g, \A k \in 0..m - 1 : g[k] \in [Place -> Result(k)],
             m # 0 => \A k \in 0..m - 1 : g[k] = [x \in Place |-> Explore(h, g, k, x)]
      PROVE  m \in S
  <2> DEFINE last == [x \in Place |-> Explore(h, g, m, x)]
             s == [k \in 0..m |-> IF k = m THEN last ELSE g[k]]
  <2>1. last \in [Place -> Result(m)]
    BY <1>1, ExploreTyped
  <2>2. \A k \in 0..m : k # m => k \in 0..m - 1
    OBVIOUS
  <2>3. Answers(s, m)
    <3> SUFFICES ASSUME NEW k \in 0..m PROVE s[k] \in [Place -> Result(k)]
      BY DEF Answers
    <3> HIDE DEF last
    <3> QED
      BY <1>1, <2>1, <2>2
  <2>4. \A k \in 0..m - 1 : s[k] = g[k]
    OBVIOUS
  <2>5. ASSUME NEW k \in 0..m PROVE s[k] = [x \in Place |-> Explore(h, s, k, x)]
    <3>1. /\ k \in Nat
          /\ \A j \in 0..k - 1 : j \in 0..m - 1
      OBVIOUS
    <3>2. \A j \in 0..k - 1 : g[j] \in [Place -> Result(j)] /\ g[j] = s[j]
      BY <1>1, <2>4, <3>1
    <3>3. s[k] = [x \in Place |-> Explore(h, g, k, x)]
      <4>1. CASE k = m
        BY <4>1
      <4>2. CASE k # m
        BY <1>1, <2>2, <4>2
      <4> QED
        BY <4>1, <4>2
    <3> HIDE DEF s
    <3>4. \A x \in Place : Explore(h, g, k, x) = Explore(h, s, k, x)
      BY <3>1, <3>2, ExploreSame
    <3> QED
      BY <3>3, <3>4
  <2>6. s = [k \in 0..m |-> s[k]]
    OBVIOUS
  <2> HIDE DEF s
  <2>7. IsSearch(s, h, m)
    BY <2>5, <2>6 DEF IsSearch
  <2> QED
    BY <2>3, <2>7
<1>2. ASSUME NEW m \in Nat, \A k \in 0..m - 1 : k \in S
      PROVE  m \in S
  <2>1. CASE m = 0
    <3>1. 0..m - 1 = {}
      BY <2>1
    <3> HIDE DEF S
    <3> QED
      BY <1>1, <2>1, <3>1
  <2>2. CASE m # 0
    <3>1. m - 1 \in 0..m - 1
      BY <2>2
    <3>2. PICK g : IsSearch(g, h, m - 1) /\ Answers(g, m - 1)
      BY <1>2, <3>1
    <3>3. \A k \in 0..m - 1 : g[k] \in [Place -> Result(k)]
      BY <3>2 DEF Answers
    <3>4. \A k \in 0..m - 1 : g[k] = [x \in Place |-> Explore(h, g, k, x)]
      BY <3>2 DEF IsSearch
    <3> HIDE DEF S
    <3> QED
      BY <1>1, <3>3, <3>4
  <2> QED
    BY <2>1, <2>2
<1> HIDE DEF S
<1>3. b \in S
  BY <1>2, Induction
<1> QED
  BY <1>3 DEF S

-----------------------------------------------------------------------------
(***************************************************************************)
(* What the search looks for: an order of some of the calls in which every *)
(* call comes after its predecessors and is answered as it was.            *)
(***************************************************************************)
Injective(p) == \A j, k \in 1..Len(p) : p[j] = p[k] => j = k

Serial(h, c, p) ==
  /\ p \in Seq(Nat) /\ \A k \in 1..Len(p) : p[k] \in 1..Len(h)
  /\ Injective(p)
  /\ \A k \in 1..Len(p) : Predecessors(h, p[k]) \subseteq {p[j] : j \in 1..k - 1}
  /\ \A k \in 1..Len(p) :
       Apply(RunOf(h, c, p, Len(p))[k - 1], h[p[k]].operation).reply = h[p[k]].actual

\* p begins with the calls of o.
Continues(p, o) == \A k \in 1..Len(o) : p[k] = o[k]

\* The places the search can be at.
Reached(h, c, x) ==
  /\ x \in Place
  /\ Serial(h, c, x.order)
  /\ x.model = RunOf(h, c, x.order, Len(x.order))[Len(x.order)]

\* What an answer at a place promises.
Right(h, c, x, r) ==
  /\ r.outcome = "found" => Serial(h, c, r.order) /\ Len(r.order) = Len(h)
  /\ r.outcome = "none" =>
       /\ Len(x.order) # Len(h)
       /\ \A p : Serial(h, c, p) /\ Len(p) = Len(h) /\ Continues(p, x.order) =>
            p[Len(x.order) + 1] < x.from

\* The first n calls of two orders are the same.
SameFront(p, q, n) == \A k \in 1..n : q[k] = p[k]

\* The runs of two orders agree as long as the orders do.
LEMMA RunPrefix ==
  ASSUME NEW h, NEW c, NEW p, NEW q, NEW n \in Nat, NEW m \in Nat, n <= m, SameFront(p, q, n)
  PROVE  \A k \in 0..n : RunOf(h, c, p, n)[k] = RunOf(h, c, q, m)[k]
<1> DEFINE f == RunOf(h, c, p, n)
           g == RunOf(h, c, q, m)
<1>1. f[0] = g[0]
  BY RunSteps
<1>2. ASSUME NEW k \in 1..n
      PROVE  \E op : f[k] = Apply(f[k - 1], op).model /\ g[k] = Apply(g[k - 1], op).model
  <2>1. f[k] = Apply(f[k - 1], h[p[k]].operation).model
    BY RunSteps
  <2>2. k \in 1..m
    OBVIOUS
  <2>3. g[k] = Apply(g[k - 1], h[q[k]].operation).model
    BY <2>2, RunSteps
  <2>4. q[k] = p[k]
    BY DEF SameFront
  <2> QED
    BY <2>1, <2>3, <2>4
<1> HIDE DEF f, g
<1>3. \A k \in 0..n : f[k] = g[k]
  <2>1. SameCalls(f, g, n)
    BY <1>1, <1>2 DEF SameCalls
  <2> QED
    BY <2>1, RunsAgree
<1> QED
  BY <1>3 DEF f, g

\* An order of distinct calls is no longer than the history, and if it is
\* as long it has them all.
LEMMA OrderLength ==
  ASSUME NEW n \in Nat, NEW p \in Seq(Nat), \A k \in 1..Len(p) : p[k] \in 1..n, Injective(p)
  PROVE  /\ Len(p) \in Nat /\ Len(p) <= n
         /\ Len(p) = n => \A i \in 1..n : \E k \in 1..n : p[k] = i
<1>1. Len(p) \in Nat /\ p \in [1..Len(p) -> Nat]
  BY LenProperties
<1>2. p \in [1..Len(p) -> 1..n]
  BY <1>1
<1>3. p \in Injection(1..Len(p), 1..n)
  BY <1>2 DEF Injection, IsInjective, Injective
<1>4. /\ IsFiniteSet(1..n) /\ Cardinality(1..n) = n
      /\ Cardinality(1..Len(p)) = Len(p)
  <2>1. \A m \in Nat : IsFiniteSet(1..m) /\ Cardinality(1..m) = m
    BY FS_Interval
  <2> QED
    BY <1>1, <2>1
<1>5. /\ Cardinality(1..Len(p)) <= Cardinality(1..n)
      /\ Cardinality(1..Len(p)) = Cardinality(1..n) => p \in Surjection(1..Len(p), 1..n)
  BY <1>3, <1>4, FS_Injection
<1> QED
  BY <1>1, <1>4, <1>5 DEF Surjection

\* A ready call with the right reply goes to the end of an order.
LEMMA SerialAppend ==
  ASSUME NEW h, Recorded(h), NEW c, NEW o, Serial(h, c, o), NEW i \in 1..Len(h),
         i \notin Placed(o), Predecessors(h, i) \subseteq Placed(o),
         Apply(RunOf(h, c, o, Len(o))[Len(o)], h[i].operation).reply = h[i].actual
  PROVE  /\ Serial(h, c, Append(o, i)) /\ Len(Append(o, i)) = Len(o) + 1
         /\ RunOf(h, c, Append(o, i), Len(o) + 1)[Len(o) + 1] =
              Apply(RunOf(h, c, o, Len(o))[Len(o)], h[i].operation).model
<1> DEFINE p == Append(o, i)
           n == Len(o)
<1>1. o \in Seq(Nat) /\ n \in Nat /\ DOMAIN o = 1..n /\ i \in Nat /\ Len(h) \in Nat
  BY LenProperties DEF Serial, Recorded
<1>2. p \in Seq(Nat) /\ Len(p) = n + 1 /\ (\A k \in 1..n : p[k] = o[k]) /\ p[n + 1] = i
  BY <1>1, AppendProperties
<1>3. Placed(o) = {o[j] : j \in 1..n}
  BY <1>1 DEF Placed
<1>4. \A k \in 0..n : RunOf(h, c, o, n)[k] = RunOf(h, c, p, n + 1)[k]
  <2> HIDE DEF p, n
  <2>1. n + 1 \in Nat /\ n <= n + 1
    BY <1>1
  <2>2. SameFront(o, p, n)
    BY <1>2 DEF SameFront
  <2> QED
    BY <1>1, <2>1, <2>2, RunPrefix
<1>5. RunOf(h, c, p, n + 1)[n + 1] = Apply(RunOf(h, c, p, n + 1)[n], h[i].operation).model
  <2> HIDE DEF p, n
  <2>1. n + 1 \in Nat /\ n + 1 \in 1..n + 1 /\ (n + 1) - 1 = n
    BY <1>1
  <2>2. RunOf(h, c, p, n + 1)[n + 1] =
          Apply(RunOf(h, c, p, n + 1)[(n + 1) - 1], h[p[n + 1]].operation).model
    BY <2>1, RunSteps
  <2> QED
    BY <1>2, <2>1, <2>2
<1>6. n \in 0..n
  BY <1>1
<1> HIDE DEF p, n
<1>7. ASSUME NEW k \in 1..n + 1
      PROVE  k \in 1..n \/ k = n + 1
  BY <1>1
<1>8. \A k \in 1..n + 1 : p[k] \in 1..Len(h)
  <2>1. \A k \in 1..n : o[k] \in 1..Len(h)
    BY DEF Serial, n
  <2> QED
    BY <1>2, <1>7, <2>1
<1>9. Injective(p)
  <2>1. \A j, k \in 1..n : o[j] = o[k] => j = k
    BY DEF Serial, Injective, n
  <2>2. \A k \in 1..n : o[k] # i
    BY <1>3
  <2>3. \A j, k \in 1..n + 1 : p[j] = p[k] => j = k
    BY <1>2, <1>7, <2>1, <2>2
  <2> QED
    BY <1>2, <2>3 DEF Injective
<1>10. ASSUME NEW k \in 1..n + 1
       PROVE  Predecessors(h, p[k]) \subseteq {p[j] : j \in 1..k - 1}
  <2>1. \A j \in 1..k - 1 : j \in 1..n
    BY <1>1
  <2>2. \A j \in 1..k - 1 : p[j] = o[j]
    BY <1>2, <2>1
  <2>3. {p[j] : j \in 1..k - 1} = {o[j] : j \in 1..k - 1}
    BY <2>2
  <2>4. CASE k \in 1..n
    <3>1. Predecessors(h, o[k]) \subseteq {o[j] : j \in 1..k - 1}
      BY <2>4 DEF Serial, n
    <3> QED
      BY <1>2, <2>3, <2>4, <3>1
  <2>5. CASE k = n + 1
    <3>1. k - 1 = n
      BY <1>1, <2>5
    <3> QED
      BY <1>2, <1>3, <2>3, <2>5, <3>1
  <2> QED
    BY <1>7, <2>4, <2>5
<1>11. ASSUME NEW k \in 1..n + 1
       PROVE  Apply(RunOf(h, c, p, n + 1)[k - 1], h[p[k]].operation).reply = h[p[k]].actual
  <2>1. CASE k \in 1..n
    <3>1. k - 1 \in 0..n /\ p[k] = o[k]
      BY <1>1, <1>2, <2>1
    <3>2. Apply(RunOf(h, c, o, n)[k - 1], h[o[k]].operation).reply = h[o[k]].actual
      BY <2>1 DEF Serial, n
    <3> QED
      BY <1>4, <3>1, <3>2
  <2>2. CASE k = n + 1
    <3>1. k - 1 = n /\ p[k] = i
      BY <1>1, <1>2, <2>2
    <3> QED
      BY <1>4, <1>6, <3>1 DEF n
  <2> QED
    BY <1>7, <2>1, <2>2
<1>12. Serial(h, c, p)
  BY <1>2, <1>8, <1>9, <1>10, <1>11 DEF Serial
<1> QED
  BY <1>2, <1>4, <1>5, <1>6, <1>12 DEF p, n

\* Going deeper reaches a place, and so does going further.
LEMMA StepsReach ==
  ASSUME NEW h, Playable(h), NEW c, NEW x, Reached(h, c, x), Ready(h, x) # {}
  PROVE  /\ Reached(h, c, Further(h, x))
         /\ Further(h, x).order = x.order /\ Further(h, x).from = First(Ready(h, x)) + 1
         /\ Apply(x.model, h[First(Ready(h, x))].operation).reply = h[First(Ready(h, x))].actual =>
              /\ Reached(h, c, Deeper(h, x))
              /\ Len(Deeper(h, x).order) = Len(x.order) + 1
<1> DEFINE i == First(Ready(h, x))
           y == Deeper(h, x)
           z == Further(h, x)
<1>1. x \in Place /\ Serial(h, c, x.order)
  BY DEF Reached
<1>2. i \in Ready(h, x) /\ i \in 1..Len(h) /\ y \in Place /\ z \in Place
  BY <1>1, FirstReady
<1>3. x = [from |-> x.from, order |-> x.order, model |-> x.model]
  BY <1>1, PlaceFields
<1>4. z.order = x.order /\ z.model = x.model /\ z.from = i + 1
  BY <1>3 DEF Further
<1>5. Reached(h, c, z)
  BY <1>1, <1>2, <1>4 DEF Reached
<1>6. y.order = Append(x.order, i) /\ y.model = Apply(x.model, h[i].operation).model
  BY DEF Deeper
<1>7. i \notin Placed(x.order) /\ Predecessors(h, i) \subseteq Placed(x.order)
  BY <1>2 DEF Ready
<1>8. ASSUME Apply(x.model, h[i].operation).reply = h[i].actual
      PROVE  Reached(h, c, y) /\ Len(y.order) = Len(x.order) + 1
  <2> HIDE DEF i, y, z
  <2>1. x.model = RunOf(h, c, x.order, Len(x.order))[Len(x.order)]
    BY DEF Reached
  <2>2. Recorded(h)
    BY DEF Playable
  <2>3. /\ Serial(h, c, Append(x.order, i)) /\ Len(Append(x.order, i)) = Len(x.order) + 1
        /\ RunOf(h, c, Append(x.order, i), Len(x.order) + 1)[Len(x.order) + 1] =
             Apply(x.model, h[i].operation).model
    BY <1>1, <1>2, <1>7, <1>8, <2>1, <2>2, SerialAppend
  <2> QED
    BY <1>2, <1>6, <2>3 DEF Reached
<1> QED
  BY <1>4, <1>5, <1>8

\* An order of the whole history that continues o goes on with a call that is
\* ready after o; it is answered as it was.
LEMMA NextIsReady ==
  ASSUME NEW h, Recorded(h), NEW c, NEW o, Serial(h, c, o), Len(o) # Len(h),
         NEW p, Serial(h, c, p), Len(p) = Len(h), Continues(p, o)
  PROVE  LET e == p[Len(o) + 1]
         IN  /\ e \in 1..Len(h) /\ e \notin Placed(o) /\ Predecessors(h, e) \subseteq Placed(o)
             /\ Apply(RunOf(h, c, o, Len(o))[Len(o)], h[e].operation).reply = h[e].actual
<1> DEFINE n == Len(o)
           e == p[n + 1]
<1>1. /\ o \in Seq(Nat) /\ n \in Nat /\ DOMAIN o = 1..n /\ Len(h) \in Nat
      /\ \A k \in 1..n : o[k] \in 1..Len(h)
  BY LenProperties DEF Serial, Recorded
<1>2. n <= Len(h)
  BY <1>1, OrderLength DEF Serial
<1>3. n + 1 \in 1..Len(p) /\ (n + 1) - 1 = n /\ n \in 0..n
  BY <1>1, <1>2
<1>4. \A k \in 1..n : p[k] = o[k] /\ k \in 1..Len(p) /\ k # n + 1
  BY <1>1, <1>2 DEF Continues
<1>5. Placed(o) = {p[j] : j \in 1..n}
  BY <1>1, <1>4 DEF Placed
<1>6. e \in 1..Len(h)
  BY <1>3 DEF Serial
<1>7. Predecessors(h, e) \subseteq Placed(o)
  BY <1>3, <1>5 DEF Serial
<1>8. e \notin Placed(o)
  BY <1>3, <1>4, <1>5 DEF Serial, Injective
<1>9. SameFront(o, p, n)
  BY <1>4 DEF SameFront
<1> HIDE DEF n, e
<1>10. \A k \in 0..n : RunOf(h, c, o, n)[k] = RunOf(h, c, p, Len(h))[k]
  BY <1>1, <1>2, <1>9, RunPrefix
<1>11. Apply(RunOf(h, c, p, Len(h))[n], h[e].operation).reply = h[e].actual
  BY <1>3 DEF Serial, e
<1>12. Apply(RunOf(h, c, o, n)[n], h[e].operation).reply = h[e].actual
  BY <1>3, <1>10, <1>11
<1> QED
  BY <1>6, <1>7, <1>8, <1>12 DEF n, e

\* One round of the search is right if what it calls is.
LEMMA ExploreRight ==
  ASSUME NEW h, Playable(h), NEW c, NEW left \in Nat, NEW s,
         \A k \in 0..left - 1 : s[k] \in [Place -> Result(k)],
         \A k \in 0..left - 1 : \A y : Reached(h, c, y) => Right(h, c, y, s[k][y]),
         NEW x, Reached(h, c, x)
  PROVE  Right(h, c, x, Explore(h, s, left, x))
<1> DEFINE r == Explore(h, s, left, x)
           n == Len(x.order)
<1>1. /\ x \in Place /\ Serial(h, c, x.order) /\ Recorded(h)
      /\ x.model = RunOf(h, c, x.order, n)[n]
  BY DEF Reached, Playable
<1>2. n \in Nat /\ x.from \in Nat
  BY <1>1, PlaceFields
<1>3. CASE n = Len(h)
  <2>1. r = Ends("found", x.order, left)
    BY <1>3, ExploreCases
  <2> HIDE DEF r
  <2>2. r.outcome = "found" /\ r.order = x.order
    BY <2>1 DEF Ends
  <2>3. Right(h, c, x, r)
    BY <1>1, <1>3, <2>2 DEF Right
  <2> QED
    BY <2>3 DEF r
<1>4. ASSUME n # Len(h), NEW p, Serial(h, c, p), Len(p) = Len(h), Continues(p, x.order),
             p[n + 1] >= x.from
      PROVE  p[n + 1] \in Ready(h, x)
  <2>1. /\ p[n + 1] \in 1..Len(h) /\ p[n + 1] \notin Placed(x.order)
        /\ Predecessors(h, p[n + 1]) \subseteq Placed(x.order)
    BY <1>1, <1>4, NextIsReady
  <2>2. DOMAIN h = 1..Len(h) /\ p[n + 1] \in Nat
    BY <1>1, <2>1 DEF Recorded
  <2>3. x.from <= p[n + 1]
    BY <1>2, <1>4, <2>2
  <2> QED
    BY <2>1, <2>2, <2>3 DEF Ready
<1>5. CASE n # Len(h) /\ Ready(h, x) = {}
  <2>1. r = Ends("none", x.order, left)
    BY <1>5, ExploreCases
  <2> HIDE DEF r
  <2>2. r.outcome = "none"
    BY <2>1 DEF Ends
  <2>3. ASSUME NEW p, Serial(h, c, p), Len(p) = Len(h), Continues(p, x.order)
        PROVE  p[n + 1] < x.from
    <3>1. ~(p[n + 1] >= x.from)
      BY <1>4, <1>5, <2>3
    <3>2. p[n + 1] \in 1..Len(h)
      BY <1>1, <1>5, <2>3, NextIsReady
    <3> QED
      BY <1>2, <3>1, <3>2
  <2>4. Right(h, c, x, r)
    BY <1>5, <2>2, <2>3 DEF Right
  <2> QED
    BY <2>4 DEF r
<1>6. CASE n # Len(h) /\ Ready(h, x) # {} /\ left = 0
  <2>1. r = Ends("exhausted", x.order, left)
    BY <1>6, ExploreCases
  <2> HIDE DEF r
  <2>2. r.outcome = "exhausted"
    BY <2>1 DEF Ends
  <2>3. Right(h, c, x, r)
    BY <2>2 DEF Right
  <2> QED
    BY <2>3 DEF r
<1>7. CASE n # Len(h) /\ Ready(h, x) # {} /\ left # 0
  <2> DEFINE i == First(Ready(h, x))
             t == Tried(h, s, left, x)
             y == Deeper(h, x)
             z == Further(h, x)
             hit == Apply(x.model, h[i].operation).reply = h[i].actual
  <2>1. r = IF t.outcome # "none" THEN t ELSE s[t.left][z]
    BY <1>7, ExploreCases
  <2>2. /\ i \in Ready(h, x) /\ i \in 1..Len(h) /\ y \in Place /\ z \in Place
        /\ \A j \in Ready(h, x) : i <= j
    BY <1>1, <1>7, FirstReady
  <2>3. /\ Reached(h, c, z) /\ z.order = x.order /\ z.from = i + 1
        /\ hit => Reached(h, c, y) /\ Len(y.order) = n + 1
    BY <1>7, StepsReach
  <2>4. t \in Result(left - 1)
    BY <1>1, <1>7, TriedTyped
  <2>5. y.order = Append(x.order, i) /\ y.from = 1
    BY DEF Deeper
  <2>6. /\ hit => t = s[left - 1][y]
        /\ ~hit => t = Ends("none", x.order, left - 1)
    BY DEF Tried
  <2> HIDE DEF i, t, y, z, r
  <2>7. hit => Right(h, c, y, t)
    <3>1. left - 1 \in 0..left - 1
      BY <1>7
    <3> QED
      BY <2>3, <2>6, <3>1
  <2>8. t.left \in 0..left - 1
    BY <2>4 DEF Result
  <2>9. Right(h, c, z, s[t.left][z])
    BY <2>3, <2>8
  <2>11. CASE t.outcome # "none"
    <3>1. r = t
      BY <2>1, <2>11
    <3>2. hit
      BY <2>6, <2>11 DEF Ends
    <3>3. r.outcome = "found" => Serial(h, c, r.order) /\ Len(r.order) = Len(h)
      BY <2>7, <3>1, <3>2 DEF Right
    <3>4. Right(h, c, x, r)
      BY <2>11, <3>1, <3>3 DEF Right
    <3> QED
      BY <3>4 DEF r
  <2>12. CASE t.outcome = "none"
    <3>1. r = s[t.left][z]
      BY <2>1, <2>12
    <3>2. Right(h, c, z, r)
      BY <2>9, <3>1
    <3>3. ASSUME r.outcome = "none", NEW p, Serial(h, c, p), Len(p) = Len(h),
                 Continues(p, x.order)
          PROVE  p[n + 1] < x.from
      <4>1. SUFFICES ASSUME ~(p[n + 1] < x.from) PROVE FALSE
        OBVIOUS
      <4>2. /\ p[n + 1] \in 1..Len(h)
            /\ Apply(x.model, h[p[n + 1]].operation).reply = h[p[n + 1]].actual
        BY <1>1, <1>7, <3>3, NextIsReady
      <4>3. p[n + 1] \in Ready(h, x)
        <5>1. p[n + 1] >= x.from
          BY <1>2, <4>1, <4>2
        <5> QED
          BY <1>4, <1>7, <3>3, <5>1
      <4>4. i <= p[n + 1]
        BY <2>2, <4>3
      <4>5. Continues(p, z.order)
        BY <2>3, <3>3
      <4>6. p[n + 1] < i + 1
        BY <2>3, <3>2, <3>3, <4>5 DEF Right
      <4>7. p[n + 1] = i /\ i \in Nat
        BY <2>2, <4>2, <4>4, <4>6
      <4>8. hit
        BY <4>2, <4>7
      <4>9. Len(y.order) # Len(h) /\ Len(y.order) = n + 1
        BY <2>3, <2>7, <2>12, <4>8 DEF Right
      <4>10. Continues(p, y.order)
        <5>1. \A k \in 1..n : p[k] = x.order[k]
          BY <3>3 DEF Continues
        <5>2. /\ \A k \in 1..n : y.order[k] = x.order[k]
              /\ y.order[n + 1] = i
          <6>1. x.order \in Seq(Nat) /\ i \in Nat
            BY <1>1, <4>7, PlaceFields
          <6> QED
            BY <2>5, <6>1, AppendProperties
        <5>3. \A k \in 1..n + 1 : k \in 1..n \/ k = n + 1
          BY <1>2
        <5> HIDE DEF n
        <5> QED
          BY <4>7, <4>9, <5>1, <5>2, <5>3 DEF Continues
      <4>11. p[Len(y.order) + 1] < 1
        BY <2>5, <2>7, <2>12, <3>3, <4>8, <4>10 DEF Right
      <4>12. p[Len(y.order) + 1] \in 1..Len(h)
        <5>1. Serial(h, c, y.order)
          BY <2>3, <4>8 DEF Reached
        <5> QED
          BY <1>1, <3>3, <4>9, <4>10, <5>1, NextIsReady
      <4> QED
        BY <4>11, <4>12
    <3>4. r.outcome = "found" => Serial(h, c, r.order) /\ Len(r.order) = Len(h)
      BY <3>2 DEF Right
    <3>5. Right(h, c, x, r)
      BY <1>7, <3>3, <3>4 DEF Right
    <3> QED
      BY <3>5 DEF r
  <2> QED
    BY <2>11, <2>12
<1> QED
  BY <1>3, <1>5, <1>6, <1>7

\* The search is right wherever it is resumed, with whatever budget is left.
LEMMA SearchRight ==
  ASSUME NEW h, Playable(h), NEW c, NEW b \in Nat, NEW s, IsSearch(s, h, b), Answers(s, b)
  PROVE  \A left \in 0..b : \A x : Reached(h, c, x) => Right(h, c, x, s[left][x])
<1> DEFINE S == {m \in Nat : m \in 0..b => \A x : Reached(h, c, x) => Right(h, c, x, s[m][x])}
<1>1. ASSUME NEW m \in Nat, \A k \in 0..m - 1 : k \in S
      PROVE  m \in S
  <2> SUFFICES ASSUME m \in 0..b, NEW x, Reached(h, c, x)
               PROVE  Right(h, c, x, s[m][x])
    OBVIOUS
  <2>1. \A k \in 0..m - 1 : k \in 0..b
    OBVIOUS
  <2>2. \A k \in 0..m - 1 : \A y : Reached(h, c, y) => Right(h, c, y, s[k][y])
    BY <1>1, <2>1
  <2> HIDE DEF S
  <2>3. \A k \in 0..m - 1 : s[k] \in [Place -> Result(k)]
    BY <2>1 DEF Answers
  <2>4. s[m] = [y \in Place |-> Explore(h, s, m, y)]
    BY DEF IsSearch
  <2>5. x \in Place
    BY DEF Reached
  <2>6. s[m][x] = Explore(h, s, m, x)
    BY <2>4, <2>5
  <2>7. Right(h, c, x, Explore(h, s, m, x))
    BY <2>2, <2>3, ExploreRight
  <2> QED
    BY <2>6, <2>7
<1> HIDE DEF S
<1>2. \A k \in Nat : k \in S
  BY <1>1, Induction
<1> QED
  BY <1>2 DEF S

-----------------------------------------------------------------------------
(***************************************************************************)
(* Orders that keep the predecessors are those the reference definition    *)
(* asks for, in a history that passes check_history's own checks.          *)
(***************************************************************************)
WellFormed(h) == Failed(h) = {} /\ ~Malformed(h) /\ ~Disordered(h)

LEMMA WellFormedMeans ==
  ASSUME NEW h, Recorded(h), WellFormed(h)
  PROVE  /\ \A k \in 1..Len(h) : h[k].started <= h[k].finished
         /\ \A j, k \in 1..Len(h) :
              h[j].worker = h[k].worker /\ h[j].sequence = h[k].sequence => j = k
<1>1. DOMAIN h = 1..Len(h) /\ Len(h) \in Nat /\ \A k \in 1..Len(h) : Event(h[k])
  BY DEF Recorded
<1>2. Scanned(h) = 1..Len(h)
  BY <1>1 DEF WellFormed, Scanned
<1>3. \A k \in 1..Len(h) : ~(h[k].finished < h[k].started)
  BY <1>2 DEF WellFormed, Malformed
<1>4. \A k \in 1..Len(h) : \A j \in 1..k - 1 :
        ~(h[j].worker = h[k].worker /\ h[j].sequence = h[k].sequence)
  BY <1>2 DEF WellFormed, Malformed
<1>5. \A k \in 1..Len(h) : h[k].started <= h[k].finished
  BY <1>1, <1>3 DEF Event
<1>6. ASSUME NEW j \in 1..Len(h), NEW k \in 1..Len(h),
             h[j].worker = h[k].worker, h[j].sequence = h[k].sequence
      PROVE  j = k
  <2>1. j \in 1..k - 1 \/ k \in 1..j - 1 \/ j = k
    BY <1>1
  <2> QED
    BY <1>4, <1>6, <2>1
<1> QED
  BY <1>5, <1>6

\* The reference definition, with its run named.
LEMMA ExplainsMeans ==
  ASSUME NEW p, NEW c, NEW h
  PROVE  Explains(p, c, h) <=>
           /\ \A k \in 1..Len(h) :
                Apply(RunOf(h, c, p, Len(h))[k - 1], h[p[k]].operation).reply = h[p[k]].actual
           /\ \A i \in 1..Len(h) : \A j \in 1..(i - 1) :
                /\ h[p[i]].finished >= h[p[j]].started
                /\ h[p[i]].worker = h[p[j]].worker => h[p[j]].sequence < h[p[i]].sequence
<1> DEFINE at == CHOOSE at : at = [k \in 0..Len(h) |->
                   IF k = 0 THEN NewModel(c) ELSE Apply(at[k - 1], h[p[k]].operation).model]
<1>1. at = RunOf(h, c, p, Len(h))
  BY DEF RunOf
<1>2. Explains(p, c, h) <=>
        /\ \A k \in 1..Len(h) : Apply(at[k - 1], h[p[k]].operation).reply = h[p[k]].actual
        /\ \A i \in 1..Len(h) : \A j \in 1..(i - 1) :
             /\ h[p[i]].finished >= h[p[j]].started
             /\ h[p[i]].worker = h[p[j]].worker => h[p[j]].sequence < h[p[i]].sequence
  BY DEF Explains
<1> HIDE DEF at
<1> QED
  BY <1>1, <1>2

\* Two events, one of which has to come first.
LEMMA EventTimes ==
  ASSUME NEW h, Recorded(h), NEW j \in 1..Len(h), NEW k \in 1..Len(h)
  PROVE  /\ h[j].finished < h[k].started <=> ~(h[j].finished >= h[k].started)
         /\ h[j].sequence < h[k].sequence \/ h[j].sequence = h[k].sequence
              \/ h[k].sequence < h[j].sequence
         /\ ~(h[j].sequence < h[k].sequence /\ h[k].sequence < h[j].sequence)
         /\ k \in Predecessors(h, j) <=> k # j /\ Precedes(h[k], h[j])
<1>1. Event(h[j]) /\ Event(h[k]) /\ DOMAIN h = 1..Len(h)
  BY DEF Recorded
<1>2. /\ h[j].finished \in Nat /\ h[k].started \in Nat
      /\ h[j].sequence \in Nat /\ h[k].sequence \in Nat
  BY <1>1 DEF Event
<1>3. k \in Predecessors(h, j) <=> k # j /\ Precedes(h[k], h[j])
  BY <1>1 DEF Predecessors
<1> QED
  BY <1>2, <1>3

LEMMA SerialExplains ==
  ASSUME NEW h, Recorded(h), WellFormed(h), NEW c, NEW p, Serial(h, c, p), Len(p) = Len(h)
  PROVE  p \in Orders(Len(h)) /\ Explains(p, c, h)
<1> DEFINE n == Len(h)
<1>1. /\ n \in Nat /\ p \in Seq(Nat) /\ p \in [1..n -> Nat]
      /\ \A k \in 1..n : p[k] \in 1..n
      /\ \A j, k \in 1..n : p[j] = p[k] => j = k
  BY LenProperties DEF Recorded, Serial, Injective
<1>2. p \in Orders(n)
  <2>1. p \in [1..n -> 1..n]
    BY <1>1
  <2> QED
    BY <1>1, <2>1 DEF Orders
<1>3. ASSUME NEW i \in 1..n, NEW j \in 1..i - 1
      PROVE  /\ j \in 1..n /\ p[i] \in 1..n /\ p[j] \in 1..n /\ p[i] # p[j]
             /\ p[i] \notin Predecessors(h, p[j])
  <2>1. j \in 1..n /\ i # j /\ \A k \in 1..j - 1 : k \in 1..n /\ k # i
    BY <1>1
  <2>2. p[i] \notin {p[k] : k \in 1..j - 1}
    BY <1>1, <2>1
  <2>3. Predecessors(h, p[j]) \subseteq {p[k] : k \in 1..j - 1}
    BY <2>1 DEF Serial
  <2> QED
    BY <1>1, <2>1, <2>2, <2>3
<1>4. ASSUME NEW i \in 1..n, NEW j \in 1..i - 1
      PROVE  /\ h[p[i]].finished >= h[p[j]].started
             /\ h[p[i]].worker = h[p[j]].worker => h[p[j]].sequence < h[p[i]].sequence
  <2> DEFINE a == p[i]
             b == p[j]
  <2>1. a \in 1..n /\ b \in 1..n /\ a # b /\ a \notin Predecessors(h, b)
    BY <1>3
  <2> HIDE DEF a, b
  <2>2. ~Precedes(h[a], h[b])
    BY <2>1, EventTimes
  <2>3. ~(h[a].finished < h[b].started)
        /\ ~(h[b].worker = h[a].worker /\ h[a].sequence < h[b].sequence)
    BY <2>2 DEF Precedes, SameWorkerBefore
  <2>4. h[a].finished >= h[b].started
    BY <2>1, <2>3, EventTimes
  <2>5. ASSUME h[a].worker = h[b].worker PROVE h[b].sequence < h[a].sequence
    <3>1. h[a].sequence # h[b].sequence
      BY <2>1, <2>5, WellFormedMeans
    <3> QED
      BY <2>1, <2>3, <2>5, <3>1, EventTimes
  <2> QED
    BY <2>4, <2>5 DEF a, b
<1>5. \A k \in 1..n :
        Apply(RunOf(h, c, p, n)[k - 1], h[p[k]].operation).reply = h[p[k]].actual
  BY DEF Serial
<1> QED
  BY <1>2, <1>4, <1>5, ExplainsMeans

LEMMA ExplainsSerial ==
  ASSUME NEW h, Recorded(h), NEW c, NEW p \in Orders(Len(h)), Explains(p, c, h)
  PROVE  Serial(h, c, p) /\ Len(p) = Len(h)
<1> DEFINE n == Len(h)
<1>1. n \in Nat /\ p \in [1..n -> 1..n] /\ \A j, k \in 1..n : p[j] = p[k] => j = k
  BY DEF Recorded, Orders
<1>2. p \in Seq(Nat) /\ Len(p) = n
  <2>1. p \in Seq(1..n)
    BY <1>1
  <2>2. Len(p) = n /\ p \in [1..n -> Nat]
    BY <1>1, <2>1
  <2> QED
    BY <1>1, <2>2
<1>3. Injective(p)
  BY <1>1, <1>2 DEF Injective
<1>4. \A k \in 1..Len(p) : p[k] \in 1..n
  BY <1>1, <1>2
<1>5. \A e \in 1..n : \E k \in 1..n : p[k] = e
  BY <1>1, <1>2, <1>3, <1>4, OrderLength
<1>6. ASSUME NEW k \in 1..n, NEW e \in Predecessors(h, p[k])
      PROVE  e \in {p[j] : j \in 1..k - 1}
  <2>1. e \in 1..n /\ p[k] \in 1..n
    BY <1>1 DEF Predecessors, Recorded
  <2>2. e # p[k] /\ Precedes(h[e], h[p[k]])
    BY <2>1, EventTimes
  <2>3. PICK m \in 1..n : p[m] = e
    BY <1>5, <2>1
  <2>4. CASE m < k
    <3>1. m \in 1..k - 1
      BY <1>1, <2>4
    <3> QED
      BY <2>3, <3>1
  <2>5. CASE k < m
    <3>1. k \in 1..m - 1
      BY <1>1, <2>5
    <3>2. /\ h[e].finished >= h[p[k]].started
          /\ h[e].worker = h[p[k]].worker => h[p[k]].sequence < h[e].sequence
      BY <2>3, <3>1, ExplainsMeans
    <3> QED
      BY <2>1, <2>2, <3>2, EventTimes DEF Precedes, SameWorkerBefore
  <2> QED
    BY <1>1, <2>2, <2>3, <2>4, <2>5
<1>7. \A k \in 1..n :
        Apply(RunOf(h, c, p, n)[k - 1], h[p[k]].operation).reply = h[p[k]].actual
  BY ExplainsMeans
<1> QED
  BY <1>2, <1>3, <1>4, <1>6, <1>7 DEF Serial

-----------------------------------------------------------------------------
(***************************************************************************)
(* check_history.                                                          *)
(***************************************************************************)
Start(c) == [from |-> 1, order |-> << >>, model |-> NewModel(c)]

\* The search starts with no call ordered.
LEMMA StartReached ==
  ASSUME NEW h, NEW c \in Nat
  PROVE  Reached(h, c, Start(c))
<1>1. /\ << >> \in Seq(Nat) /\ Len(<< >>) = 0 /\ 1..0 = {}
      /\ RunOf(h, c, << >>, 0)[0] = NewModel(c)
  BY RunSteps
<1>2. Serial(h, c, << >>)
  BY <1>1 DEF Serial, Injective
<1>3. Start(c) \in Place
  BY <1>1, NewModelIsModel DEF Start, Place
<1>4. Start(c).order = << >> /\ Start(c).model = NewModel(c)
  BY DEF Start
<1> QED
  BY <1>1, <1>2, <1>3, <1>4 DEF Reached

\* What is found is what the recursive function has at the start.
LEMMA SearchIs ==
  ASSUME NEW h, Playable(h), NEW c, NEW b \in Nat
  PROVE  \E s : IsSearch(s, h, b) /\ Answers(s, b) /\ Search(h, NewModel(c), b) = s[b][Start(c)]
<1> DEFINE s == CHOOSE s : s = [left \in 0..b |-> [x \in Place |-> Explore(h, s, left, x)]]
<1>1. Search(h, NewModel(c), b) = s[b][Start(c)]
  BY DEF Search, Start
<1>2. IsSearch(s, h, b)
  <2>1. \E t : IsSearch(t, h, b)
    BY SearchExists
  <2> QED
    BY <2>1 DEF IsSearch
<1>3. Answers(s, b)
  <2>1. PICK t : IsSearch(t, h, b) /\ Answers(t, b)
    BY SearchExists
  <2>2. SUFFICES \A k \in 0..b : s[k] = t[k]
    BY <2>1 DEF Answers
  <2> DEFINE S == {m \in Nat : m \in 0..b => t[m] = s[m]}
  <2> HIDE DEF s
  <2>3. ASSUME NEW m \in Nat, \A k \in 0..m - 1 : k \in S
        PROVE  m \in S
    <3> SUFFICES ASSUME m \in 0..b PROVE t[m] = s[m]
      OBVIOUS
    <3>1. \A k \in 0..m - 1 : k \in 0..b
      OBVIOUS
    <3>2. \A k \in 0..m - 1 : t[k] = s[k] /\ t[k] \in [Place -> Result(k)]
      BY <2>1, <2>3, <3>1 DEF Answers
    <3>3. /\ t[m] = [x \in Place |-> Explore(h, t, m, x)]
          /\ s[m] = [x \in Place |-> Explore(h, s, m, x)]
      BY <1>2, <2>1 DEF IsSearch
    <3> HIDE DEF S
    <3>4. \A x \in Place : Explore(h, t, m, x) = Explore(h, s, m, x)
      BY <3>2, ExploreSame
    <3> QED
      BY <3>3, <3>4
  <2> HIDE DEF S
  <2>4. \A k \in Nat : k \in S
    BY <2>3, Induction
  <2> QED
    BY <2>4 DEF S
<1> HIDE DEF s
<1> QED
  BY <1>1, <1>2, <1>3

\* The search finds an order that explains the history, or there is none.
LEMMA SearchDecides ==
  ASSUME NEW h, Playable(h), WellFormed(h), NEW c \in Nat, NEW b \in Nat
  PROVE  LET r == Search(h, NewModel(c), b)
         IN  /\ r \in Result(b)
             /\ r.outcome = "found" =>
                  Serial(h, c, r.order) /\ r.order \in Orders(Len(h)) /\ Explains(r.order, c, h)
             /\ r.outcome = "none" => ~Explainable(c, h)
<1> DEFINE r == Search(h, NewModel(c), b)
<1>1. PICK s : IsSearch(s, h, b) /\ Answers(s, b) /\ r = s[b][Start(c)]
  BY SearchIs
<1> HIDE DEF r
<1>2. Reached(h, c, Start(c))
  BY StartReached
<1>3. b \in 0..b
  OBVIOUS
<1>4. Right(h, c, Start(c), r)
  BY <1>1, <1>2, <1>3, SearchRight
<1>5. r \in Result(b)
  <2>1. Start(c) \in Place
    BY <1>2 DEF Reached
  <2> QED
    BY <1>1, <1>3, <2>1 DEF Answers
<1>6. ASSUME r.outcome = "found"
      PROVE  Serial(h, c, r.order) /\ r.order \in Orders(Len(h)) /\ Explains(r.order, c, h)
  BY <1>4, <1>6, SerialExplains DEF Right, Playable
<1>7. ASSUME r.outcome = "none", NEW p \in Orders(Len(h)), Explains(p, c, h)
      PROVE  FALSE
  <2>1. Serial(h, c, p) /\ Len(p) = Len(h) /\ Recorded(h)
    BY <1>7, ExplainsSerial DEF Playable
  <2>2. Start(c).order = << >> /\ Start(c).from = 1 /\ Len(Start(c).order) = 0
    BY DEF Start
  <2>3. Len(h) # 0 /\ Continues(p, Start(c).order)
    BY <1>4, <1>7, <2>2 DEF Right, Continues
  <2>4. p[0 + 1] < 1
    BY <1>4, <1>7, <2>1, <2>2, <2>3 DEF Right
  <2>5. 1 \in 1..Len(p) /\ p[1] \in 1..Len(h)
    BY <2>1, <2>3 DEF Serial, Recorded
  <2> QED
    BY <2>4, <2>5
<1> QED
  BY <1>5, <1>6, <1>7 DEF r, Explainable

-----------------------------------------------------------------------------
(***************************************************************************)
(* How much the search can cost.  Every transition it tries makes an order *)
(* of some of the calls, another one each time; such an order is the first *)
(* part of an order of all calls.                                          *)
(***************************************************************************)
Lists(n) == {q \in Seq(Nat) : Injective(q) /\ \A k \in 1..Len(q) : q[k] \in 1..n}

NonEmptyLists(n) == {q \in Lists(n) : Len(q) # 0}

LEMMA OrdersFinite ==
  ASSUME NEW n \in Nat
  PROVE  IsFiniteSet(Orders(n)) /\ Cardinality(Orders(n)) \in Nat
<1> DEFINE G == SUBSET ((1..n) \X (1..n))
           graph == [p \in Orders(n) |-> {<<i, p[i]>> : i \in 1..n}]
<1>1. IsFiniteSet(1..n)
  BY FS_Interval
<1>2. IsFiniteSet((1..n) \X (1..n))
  BY <1>1, FS_Product
<1>3. IsFiniteSet(G)
  BY <1>2, FS_SUBSET
<1>4. \A p \in Orders(n) : p \in [1..n -> 1..n]
  BY DEF Orders
<1>5. graph \in [Orders(n) -> G]
  BY <1>4
<1>6. ASSUME NEW p \in Orders(n), NEW q \in Orders(n), graph[p] = graph[q]
      PROVE  p = q
  <2>1. ASSUME NEW i \in 1..n PROVE p[i] = q[i]
    <3>1. <<i, p[i]>> \in {<<j, q[j]>> : j \in 1..n}
      BY <1>6
    <3> QED
      BY <3>1
  <2> QED
    BY <1>4, <2>1
<1>7. graph \in Injection(Orders(n), G)
  BY <1>5, <1>6 DEF Injection, IsInjective
<1> HIDE DEF G, graph
<1>8. IsFiniteSet(Orders(n))
  BY <1>3, <1>7, FS_Injection
<1> QED
  BY <1>8, FS_CardinalityType

\* A list of distinct calls is the first part of an order of all calls: what
\* it leaves out are as many as the places that are left.
LEMMA ListCompletes ==
  ASSUME NEW n \in Nat, NEW q \in Lists(n)
  PROVE  \E p \in Orders(n) : Continues(p, q)
<1> DEFINE m == Len(q)
           used == {q[k] : k \in 1..m}
           unused == (1..n) \ used
<1>1. /\ q \in Seq(Nat) /\ Injective(q) /\ m \in Nat
      /\ \A k \in 1..m : q[k] \in 1..n
  BY LenProperties DEF Lists
<1>2. m <= n
  BY <1>1, OrderLength
<1>3. IsFiniteSet(1..n) /\ Cardinality(1..n) = n
  BY FS_Interval
<1>4. IsFiniteSet(1..m) /\ Cardinality(1..m) = m
  <2> HIDE DEF m
  <2> QED
    BY <1>1, FS_Interval
<1>5. IsFiniteSet(used) /\ Cardinality(used) = m
  <2> DEFINE f == [k \in 1..m |-> q[k]]
  <2>1. f \in Surjection(1..m, used)
    BY DEF Surjection
  <2>2. f \in Injection(1..m, used)
    <3>1. \A j, k \in 1..m : q[j] = q[k] => j = k
      BY <1>1 DEF Injective
    <3> QED
      BY <3>1 DEF Injection, IsInjective
  <2> HIDE DEF f, used, m
  <2> QED
    BY <1>4, <2>1, <2>2, FS_Surjection
<1>6. used \subseteq 1..n /\ used \cap (1..n) = used /\ (1..n) \cap used = used
  BY <1>1
<1>7. IsFiniteSet(unused) /\ Cardinality(unused) = n - m
  <2> HIDE DEF used, m
  <2> QED
    BY <1>3, <1>5, <1>6, FS_Difference, ZenonT(60)
<1>8. IsFiniteSet(m + 1..n) /\ Cardinality(m + 1..n) = n - m
  <2> HIDE DEF m
  <2>1. m + 1 \in Int /\ n \in Int
    BY <1>1
  <2>2. IsFiniteSet(m + 1..n) /\ Cardinality(m + 1..n) = IF m + 1 > n THEN 0 ELSE n - (m + 1) + 1
    BY <2>1, FS_Interval
  <2> QED
    BY <1>1, <1>2, <2>2
<1>9. PICK g : g \in Bijection(m + 1..n, unused)
  <2> HIDE DEF unused, m
  <2> QED
    BY <1>7, <1>8, FS_SameCardinalityBij DEF ExistsBijection
<1>10. /\ g \in [m + 1..n -> unused]
       /\ \A j, k \in m + 1..n : g[j] = g[k] => j = k
  BY <1>9 DEF Bijection, Injection, IsInjective
<1> DEFINE p == [k \in 1..n |-> IF k <= m THEN q[k] ELSE g[k]]
<1>11. ASSUME NEW k \in 1..n
       PROVE  IF k <= m THEN k \in 1..m /\ p[k] = q[k] /\ p[k] \in used
              ELSE k \in m + 1..n /\ p[k] = g[k] /\ p[k] \in unused
  BY <1>1, <1>10
<1>12. p \in [1..n -> 1..n]
  BY <1>6, <1>11
<1>13. ASSUME NEW j \in 1..n, NEW k \in 1..n, p[j] = p[k]
       PROVE  j = k
  <2>1. j <= m <=> k <= m
    BY <1>11, <1>13
  <2>2. CASE j <= m
    BY <1>1, <1>11, <1>13, <2>1, <2>2 DEF Injective
  <2>3. CASE ~(j <= m)
    BY <1>10, <1>11, <1>13, <2>1, <2>3
  <2> QED
    BY <2>2, <2>3
<1>14. p \in Orders(n)
  BY <1>12, <1>13 DEF Orders
<1>15. Continues(p, q)
  <2>1. \A k \in 1..m : k \in 1..n /\ k <= m
    BY <1>1, <1>2
  <2> QED
    BY <2>1 DEF Continues
<1> HIDE DEF p
<1> QED
  BY <1>14, <1>15

\* So there are at most n lists for every order of n calls.
LEMMA ListsAreBounded ==
  ASSUME NEW n \in Nat
  PROVE  /\ IsFiniteSet(NonEmptyLists(n)) /\ Cardinality(NonEmptyLists(n)) \in Nat
         /\ Cardinality(NonEmptyLists(n)) <= Exhaustive(n) /\ Exhaustive(n) \in Nat
<1> DEFINE L == NonEmptyLists(n)
           whole == [q \in L |-> CHOOSE p \in Orders(n) : Continues(p, q)]
           code == [q \in L |-> <<Len(q), whole[q]>>]
           B == (1..n) \X Orders(n)
<1>1. ASSUME NEW q \in L
      PROVE  /\ q \in Lists(n) /\ Len(q) \in 1..n /\ q \in Seq(Nat)
             /\ whole[q] \in Orders(n) /\ Continues(whole[q], q)
  <2>1. q \in Lists(n) /\ Len(q) # 0
    BY DEF NonEmptyLists
  <2>2. q \in Seq(Nat) /\ Injective(q) /\ \A k \in 1..Len(q) : q[k] \in 1..n
    BY <2>1 DEF Lists
  <2>3. Len(q) \in Nat /\ Len(q) <= n
    BY <2>2, OrderLength
  <2>4. \E p \in Orders(n) : Continues(p, q)
    BY <2>1, ListCompletes
  <2> QED
    BY <2>1, <2>2, <2>3, <2>4
<1> HIDE DEF L, whole
<1>2. code \in [L -> B]
  BY <1>1
<1>3. ASSUME NEW q \in L, NEW r \in L, code[q] = code[r]
      PROVE  q = r
  <2>1. Len(q) = Len(r) /\ whole[q] = whole[r]
    BY <1>3
  <2>2. \A k \in 1..Len(q) : q[k] = r[k]
    BY <1>1, <2>1 DEF Continues
  <2>3. q \in Seq(Nat) /\ r \in Seq(Nat)
    BY <1>1
  <2> QED
    BY <2>1, <2>2, <2>3, SeqEqual
<1>4. code \in Injection(L, B)
  BY <1>2, <1>3 DEF Injection, IsInjective
<1>5. /\ IsFiniteSet(1..n) /\ Cardinality(1..n) = n
      /\ IsFiniteSet(Orders(n)) /\ Cardinality(Orders(n)) \in Nat
  BY FS_Interval, OrdersFinite
<1>6. IsFiniteSet(B) /\ Cardinality(B) = n * Cardinality(Orders(n))
  BY <1>5, FS_Product
<1> HIDE DEF code, B
<1>7. IsFiniteSet(L) /\ Cardinality(L) <= Cardinality(B)
  BY <1>4, <1>6, FS_Injection
<1>8. Cardinality(L) \in Nat
  BY <1>7, FS_CardinalityType
<1>9. n * Cardinality(Orders(n)) \in Nat
  BY <1>5
<1> QED
  BY <1>6, <1>7, <1>8, <1>9 DEF L, Exhaustive

\* The orders the search may still make from a place.
Tries(h, x) ==
  {q \in NonEmptyLists(Len(h)) :
     Len(q) > Len(x.order) /\ Continues(q, x.order) /\ q[Len(x.order) + 1] >= x.from}

\* What an answer has cost, and that a budget that ran out was too small.
Paid(h, x, left, r) ==
  /\ r.outcome \in {"found", "none"} => left - r.left <= Cardinality(Tries(h, x))
  /\ r.outcome = "exhausted" => left < Cardinality(Tries(h, x))

LEMMA TriesFinite ==
  ASSUME NEW h, Recorded(h), NEW x
  PROVE  IsFiniteSet(Tries(h, x)) /\ Cardinality(Tries(h, x)) \in Nat
<1>1. Tries(h, x) \in SUBSET NonEmptyLists(Len(h)) /\ IsFiniteSet(NonEmptyLists(Len(h)))
  BY ListsAreBounded DEF Tries, Recorded
<1>2. IsFiniteSet(Tries(h, x))
  BY <1>1, FS_Subset
<1> QED
  BY <1>2, FS_CardinalityType

\* The orders that are made deeper and those that are made further along are
\* not the same, and none is the one just tried.
LEMMA TriesSplit ==
  ASSUME NEW h, Playable(h), NEW c, NEW x, Reached(h, c, x), Ready(h, x) # {}
  PROVE  Cardinality(Tries(h, Deeper(h, x))) + Cardinality(Tries(h, Further(h, x))) + 1
           <= Cardinality(Tries(h, x))
<1> DEFINE i == First(Ready(h, x))
           n == Len(x.order)
           a == Append(x.order, i)
           B == Tries(h, Deeper(h, x))
           C == Tries(h, Further(h, x))
           T == Tries(h, x)
<1>1. /\ x \in Place /\ Serial(h, c, x.order) /\ Recorded(h)
  BY DEF Reached, Playable
<1>2. x.order \in Seq(Nat) /\ n \in Nat /\ x.from \in Nat
  BY <1>1, PlaceFields
<1>3. i \in Ready(h, x) /\ i \in 1..Len(h) /\ i \in Nat
  <2>1. Len(h) \in Nat
    BY <1>1 DEF Recorded
  <2> QED
    BY <1>1, <2>1, FirstReady
<1>4. i \notin Placed(x.order) /\ x.from <= i
  BY <1>3 DEF Ready
<1>5. Deeper(h, x).order = a /\ Deeper(h, x).from = 1
  BY DEF Deeper
<1>6. Further(h, x).order = x.order /\ Further(h, x).from = i + 1
  BY StepsReach
<1>7. /\ a \in Seq(Nat) /\ Len(a) = n + 1 /\ a[n + 1] = i
      /\ \A k \in 1..n : a[k] = x.order[k]
  BY <1>2, <1>3, AppendProperties
<1> HIDE DEF i, n, a
<1>8. \A k \in 1..n + 1 : k \in 1..n \/ k = n + 1
  BY <1>2
<1>9. a \in T /\ a \notin B /\ a \notin C
  <2>1. \A k \in 1..n + 1 : a[k] \in 1..Len(h)
    <3>1. \A k \in 1..n : x.order[k] \in 1..Len(h)
      BY <1>1 DEF Serial, n
    <3> QED
      BY <1>3, <1>7, <1>8, <3>1
  <2>2. \A j, k \in 1..n + 1 : a[j] = a[k] => j = k
    <3>1. \A k \in 1..n : x.order[k] # i
      BY <1>2, <1>4, PlaceFields, <1>1 DEF Placed, n
    <3>2. \A j, k \in 1..n : x.order[j] = x.order[k] => j = k
      BY <1>1 DEF Serial, Injective, n
    <3> QED
      BY <1>7, <1>8, <3>1, <3>2
  <2>3. a \in NonEmptyLists(Len(h))
    <3>1. Injective(a) /\ \A k \in 1..Len(a) : a[k] \in 1..Len(h)
      BY <1>7, <2>1, <2>2 DEF Injective
    <3>2. Len(a) # 0
      BY <1>2, <1>7
    <3> QED
      BY <1>7, <3>1, <3>2 DEF NonEmptyLists, Lists
  <2>4. Continues(a, x.order)
    BY <1>7 DEF Continues, n
  <2>5. a \in T
    <3>1. Len(a) > n /\ a[n + 1] >= x.from
      BY <1>2, <1>3, <1>4, <1>7
    <3> QED
      BY <2>3, <2>4, <3>1 DEF Tries, n
  <2>6. a \notin B
    BY <1>5, <1>7, <1>2 DEF Tries
  <2>7. a \notin C
    BY <1>3, <1>6, <1>7 DEF Tries, n
  <2> QED
    BY <2>5, <2>6, <2>7
<1>10. ASSUME NEW q \in B
       PROVE  q \in T /\ q[n + 1] = i
  <2>1. /\ q \in NonEmptyLists(Len(h)) /\ Len(q) > n + 1 /\ Continues(q, a)
    BY <1>5, <1>7 DEF Tries
  <2>2. n + 1 \in 1..n + 1 /\ \A k \in 1..n : k \in 1..n + 1
    BY <1>2
  <2>3. q[n + 1] = i /\ \A k \in 1..n : q[k] = x.order[k]
    BY <1>7, <2>1, <2>2 DEF Continues
  <2>4. Continues(q, x.order)
    BY <2>3 DEF Continues, n
  <2>5. Len(q) \in Nat
    BY <2>1, LenProperties DEF NonEmptyLists, Lists
  <2>6. Len(q) > n /\ q[n + 1] >= x.from
    BY <1>2, <1>3, <1>4, <2>1, <2>3, <2>5
  <2> QED
    BY <2>1, <2>3, <2>4, <2>6 DEF Tries, n
<1>11. ASSUME NEW q \in C
       PROVE  q \in T /\ q[n + 1] # i
  <2>1. /\ q \in NonEmptyLists(Len(h)) /\ Len(q) > n /\ Continues(q, x.order)
        /\ q[n + 1] >= i + 1
    BY <1>6 DEF Tries, n
  <2>2. Len(q) \in Nat /\ q \in Lists(Len(h)) /\ q \in Seq(Nat)
    BY <2>1, LenProperties DEF NonEmptyLists, Lists
  <2>3. n + 1 \in 1..Len(q)
    BY <1>2, <2>1, <2>2
  <2>4. q[n + 1] \in Nat
    BY <2>2, <2>3, ElementOfSeq
  <2>5. q[n + 1] >= x.from /\ q[n + 1] # i
    BY <1>2, <1>3, <1>4, <2>1, <2>4
  <2> QED
    BY <2>1, <2>5 DEF Tries, n
<1>12. /\ IsFiniteSet(B) /\ Cardinality(B) \in Nat
       /\ IsFiniteSet(C) /\ Cardinality(C) \in Nat
       /\ IsFiniteSet(T) /\ Cardinality(T) \in Nat
  BY <1>1, TriesFinite
<1> HIDE DEF B, C, T
<1>13. B \cap C = {}
  BY <1>10, <1>11
<1>14. IsFiniteSet(B \cup C) /\ Cardinality(B \cup C) = Cardinality(B) + Cardinality(C)
  <2>1. /\ IsFiniteSet(B \cup C)
        /\ Cardinality(B \cup C) = Cardinality(B) + Cardinality(C) - Cardinality(B \cap C)
    BY <1>12, FS_Union
  <2>2. Cardinality(B \cap C) = 0
    BY <1>13, FS_EmptySet
  <2> QED
    BY <1>12, <2>1, <2>2
<1>15. /\ IsFiniteSet((B \cup C) \cup {a})
       /\ Cardinality((B \cup C) \cup {a}) = Cardinality(B) + Cardinality(C) + 1
  <2>1. a \notin B \cup C
    BY <1>9
  <2> QED
    BY <1>14, <2>1, FS_AddElement
<1>16. (B \cup C) \cup {a} \in SUBSET T
  BY <1>9, <1>10, <1>11
<1>17. Cardinality((B \cup C) \cup {a}) <= Cardinality(T)
  BY <1>12, <1>16, FS_Subset
<1> QED
  BY <1>15, <1>17 DEF B, C, T

\* One round of the search pays what it should if what it calls does.
LEMMA ExplorePaid ==
  ASSUME NEW h, Playable(h), NEW c, NEW left \in Nat, NEW s,
         \A k \in 0..left - 1 : s[k] \in [Place -> Result(k)],
         \A k \in 0..left - 1 : \A y : Reached(h, c, y) => Paid(h, y, k, s[k][y]),
         NEW x, Reached(h, c, x)
  PROVE  Paid(h, x, left, Explore(h, s, left, x))
<1> DEFINE r == Explore(h, s, left, x)
           n == Len(x.order)
           T == Cardinality(Tries(h, x))
<1>1. x \in Place /\ Recorded(h)
  BY DEF Reached, Playable
<1>2. T \in Nat
  BY <1>1, TriesFinite
<1>3. ASSUME NEW o, o \in {"found", "none"}, r = Ends(o, x.order, left)
      PROVE  Paid(h, x, left, r)
  <2> HIDE DEF r, T
  <2>1. r.outcome = o /\ left - r.left = 0 /\ o # "exhausted"
    BY <1>3 DEF Ends
  <2> QED
    BY <1>2, <2>1 DEF Paid, T
<1>4. CASE n = Len(h)
  <2>1. r = Ends("found", x.order, left)
    BY <1>4, ExploreCases
  <2> HIDE DEF r
  <2>2. Paid(h, x, left, r)
    BY <1>3, <2>1
  <2> QED
    BY <2>2 DEF r
<1>5. CASE n # Len(h) /\ Ready(h, x) = {}
  <2>1. r = Ends("none", x.order, left)
    BY <1>5, ExploreCases
  <2> HIDE DEF r
  <2>2. Paid(h, x, left, r)
    BY <1>3, <2>1
  <2> QED
    BY <2>2 DEF r
<1>6. CASE n # Len(h) /\ Ready(h, x) # {}
  <2> DEFINE i == First(Ready(h, x))
             t == Tried(h, s, left, x)
             y == Deeper(h, x)
             z == Further(h, x)
             B == Cardinality(Tries(h, y))
             C == Cardinality(Tries(h, z))
             hit == Apply(x.model, h[i].operation).reply = h[i].actual
  <2>1. B \in Nat /\ C \in Nat
    BY <1>1, TriesFinite
  <2>2. B + C + 1 <= T
    BY <1>6, TriesSplit
  <2>3. CASE left = 0
    <3>1. r = Ends("exhausted", x.order, left)
      BY <1>6, <2>3, ExploreCases
    <3> HIDE DEF r, T, B, C
    <3>2. r.outcome = "exhausted"
      BY <3>1 DEF Ends
    <3>3. left < T
      BY <1>2, <2>1, <2>2, <2>3
    <3>4. Paid(h, x, left, r)
      BY <3>2, <3>3 DEF Paid, T
    <3> QED
      BY <3>4 DEF r
  <2>4. CASE left # 0
    <3>1. r = IF t.outcome # "none" THEN t ELSE s[t.left][z]
      BY <1>6, <2>4, ExploreCases
    <3>2. /\ Reached(h, c, z)
          /\ hit => Reached(h, c, y)
      BY <1>6, StepsReach
    <3>3. t \in Result(left - 1)
      BY <1>1, <1>6, <2>4, TriedTyped
    <3>4. /\ hit => t = s[left - 1][y]
          /\ ~hit => t = Ends("none", x.order, left - 1)
      BY DEF Tried
    <3>5. z \in Place
      BY <3>2 DEF Reached
    <3> HIDE DEF i, t, y, z, r, T, B, C
    <3>6. t.left \in 0..left - 1 /\ t.outcome \in {"found", "none", "exhausted"}
      BY <3>3 DEF Result
    <3>7. /\ t.outcome \in {"found", "none"} => left - t.left <= B + 1
          /\ t.outcome = "exhausted" => left < B + 1
      <4>1. CASE hit
        <5>1. left - 1 \in 0..left - 1
          BY <2>4
        <5>2. Paid(h, y, left - 1, t)
          BY <3>2, <3>4, <4>1, <5>1
        <5> QED
          BY <2>1, <3>6, <5>2 DEF Paid, B
      <4>2. CASE ~hit
        <5>1. t.outcome = "none" /\ t.left = left - 1
          BY <3>4, <4>2 DEF Ends
        <5> QED
          BY <2>1, <5>1
      <4> QED
        BY <4>1, <4>2
    <3>8. CASE t.outcome # "none"
      <4>1. r = t
        BY <3>1, <3>8
      <4>2. /\ r.outcome \in {"found", "none"} => left - r.left <= T
            /\ r.outcome = "exhausted" => left < T
        BY <1>2, <2>1, <2>2, <3>6, <3>7, <4>1
      <4> QED
        BY <4>2 DEF Paid, T, r
    <3>9. CASE t.outcome = "none"
      <4>1. r = s[t.left][z]
        BY <3>1, <3>9
      <4>2. Paid(h, z, t.left, r)
        BY <3>2, <3>6, <4>1
      <4>3. r \in Result(t.left)
        BY <3>5, <3>6, <4>1
      <4>4. r.left \in 0..t.left
        BY <4>3 DEF Result
      <4>5. /\ r.outcome \in {"found", "none"} => t.left - r.left <= C
            /\ r.outcome = "exhausted" => t.left < C
        BY <4>2 DEF Paid, C
      <4>6. /\ r.outcome \in {"found", "none"} => left - r.left <= T
            /\ r.outcome = "exhausted" => left < T
        BY <1>2, <2>1, <2>2, <3>6, <3>7, <3>9, <4>4, <4>5
      <4> QED
        BY <4>6 DEF Paid, T, r
    <3> QED
      BY <3>8, <3>9
  <2> QED
    BY <2>3, <2>4
<1> QED
  BY <1>4, <1>5, <1>6

\* The search pays what it should wherever it is resumed.
LEMMA SearchPaid ==
  ASSUME NEW h, Playable(h), NEW c, NEW b \in Nat, NEW s, IsSearch(s, h, b), Answers(s, b)
  PROVE  \A left \in 0..b : \A x : Reached(h, c, x) => Paid(h, x, left, s[left][x])
<1> DEFINE S == {m \in Nat : m \in 0..b => \A x : Reached(h, c, x) => Paid(h, x, m, s[m][x])}
<1>1. ASSUME NEW m \in Nat, \A k \in 0..m - 1 : k \in S
      PROVE  m \in S
  <2> SUFFICES ASSUME m \in 0..b, NEW x, Reached(h, c, x)
               PROVE  Paid(h, x, m, s[m][x])
    OBVIOUS
  <2>1. \A k \in 0..m - 1 : k \in 0..b
    OBVIOUS
  <2>2. \A k \in 0..m - 1 : \A y : Reached(h, c, y) => Paid(h, y, k, s[k][y])
    BY <1>1, <2>1
  <2> HIDE DEF S
  <2>3. \A k \in 0..m - 1 : s[k] \in [Place -> Result(k)]
    BY <2>1 DEF Answers
  <2>4. s[m] = [y \in Place |-> Explore(h, s, m, y)]
    BY DEF IsSearch
  <2>5. x \in Place
    BY DEF Reached
  <2>6. s[m][x] = Explore(h, s, m, x)
    BY <2>4, <2>5
  <2>7. Paid(h, x, m, Explore(h, s, m, x))
    BY <2>2, <2>3, ExplorePaid
  <2> QED
    BY <2>6, <2>7
<1> HIDE DEF S
<1>2. \A k \in Nat : k \in S
  BY <1>1, Induction
<1> QED
  BY <1>2 DEF S

\* A budget of a transition for every list of calls is never exhausted.
LEMMA SearchAffords ==
  ASSUME NEW h, Playable(h), NEW c \in Nat, NEW b \in Nat,
         Search(h, NewModel(c), b).outcome = "exhausted"
  PROVE  b < Exhaustive(Len(h))
<1> DEFINE r == Search(h, NewModel(c), b)
           T == Tries(h, Start(c))
<1>1. PICK s : IsSearch(s, h, b) /\ Answers(s, b) /\ r = s[b][Start(c)]
  BY SearchIs
<1>2. b \in 0..b /\ Reached(h, c, Start(c))
  BY StartReached
<1> HIDE DEF r
<1>3. Paid(h, Start(c), b, r)
  BY <1>1, <1>2, SearchPaid
<1>4. b < Cardinality(T)
  BY <1>3 DEF Paid, r
<1>5. Recorded(h) /\ Len(h) \in Nat
  BY DEF Playable, Recorded
<1>6. T \in SUBSET NonEmptyLists(Len(h)) /\ Cardinality(T) \in Nat
  BY <1>5, TriesFinite DEF Tries
<1> HIDE DEF T
<1>7. /\ IsFiniteSet(NonEmptyLists(Len(h))) /\ Cardinality(NonEmptyLists(Len(h))) \in Nat
      /\ Cardinality(NonEmptyLists(Len(h))) <= Exhaustive(Len(h)) /\ Exhaustive(Len(h)) \in Nat
  BY <1>5, ListsAreBounded
<1>8. Cardinality(T) <= Cardinality(NonEmptyLists(Len(h)))
  BY <1>6, <1>7, FS_Subset
<1> QED
  BY <1>4, <1>6, <1>7, <1>8

-----------------------------------------------------------------------------
(***************************************************************************)
(* What a verdict of check_history means, for every history of typed       *)
(* events.                                                                 *)
(***************************************************************************)
\* The verdicts on a history that is complete and passes all checks.
LEMMA CheckWellFormed ==
  ASSUME NEW h, Playable(h), WellFormed(h), NEW c \in Nat, ValidCapacity(c), NEW b \in Nat
  PROVE  LET v == CheckHistory(c, h, Len(h), b)
         IN  /\ v.status \in {"pass", "fail", "inconclusive"}
             /\ v.status = "pass" =>
                  /\ Explainable(c, h)
                  /\ \E p \in Orders(Len(h)) :
                       /\ Explains(p, c, h)
                       /\ \A k \in DOMAIN p : v.witness[k] = h[p[k]].index
             /\ v.status = "fail" => ~Explainable(c, h)
             /\ v.status = "inconclusive" => b < Exhaustive(Len(h))
             /\ v.reason # "INVALID_CAPTURE"
<1> DEFINE r == Search(h, NewModel(c), b)
           v == CheckHistory(c, h, Len(h), b)
<1>1. v = Verdict(h, r, b)
  BY DEF CheckHistory, WellFormed
<1>2. /\ r \in Result(b)
      /\ r.outcome = "found" => r.order \in Orders(Len(h)) /\ Explains(r.order, c, h)
      /\ r.outcome = "none" => ~Explainable(c, h)
      /\ r.outcome = "exhausted" => b < Exhaustive(Len(h))
  BY SearchDecides, SearchAffords
<1> HIDE DEF r, v
<1>3. r.outcome \in {"found", "none", "exhausted"}
  BY <1>2 DEF Result
<1>4. CASE r.outcome = "exhausted"
  <2>1. v.status = "inconclusive" /\ v.reason = "search budget exhausted"
    BY <1>1, <1>4 DEF Verdict, Inconclusive
  <2> QED
    BY <1>2, <1>4, <2>1 DEF v
<1>5. CASE r.outcome = "none"
  <2>1. v.status = "fail" /\ v.reason = "no legal FIFO ordering"
    BY <1>1, <1>5 DEF Verdict
  <2> QED
    BY <1>2, <1>5, <2>1 DEF v
<1>6. CASE r.outcome = "found"
  <2>1. /\ v.status = "pass" /\ v.witness = [k \in DOMAIN r.order |-> h[r.order[k]].index]
        /\ v.reason = ""
    BY <1>1, <1>6 DEF Verdict
  <2>2. \A k \in DOMAIN r.order : v.witness[k] = h[r.order[k]].index
    BY <2>1
  <2>3. Explainable(c, h)
    BY <1>2, <1>6 DEF Explainable
  <2> QED
    BY <1>2, <1>6, <2>1, <2>2, <2>3 DEF v
<1> QED
  BY <1>3, <1>4, <1>5, <1>6

\* The ways out before the search.
LEMMA CheckCases ==
  ASSUME NEW h, NEW c, NEW n, NEW b
  PROVE  LET v == CheckHistory(c, h, n, b)
         IN  \/ /\ v.status = "inconclusive" /\ v.reason # "INVALID_CAPTURE"
                /\ Len(h) # n \/ Failed(h) # {}
             \/ /\ v.status = "invalid"
                /\ \/ Malformed(h)
                   \/ Len(h) = n /\ Failed(h) = {} /\ (Disordered(h) \/ ~ValidCapacity(c))
             \/ Len(h) = n /\ WellFormed(h) /\ ValidCapacity(c)
  BY DEF CheckHistory, Inconclusive, WellFormed

-----------------------------------------------------------------------------
(***************************************************************************)
(* The workers.  Busy workers have an event under way; what they have      *)
(* recorded so far is the first part of their share, in order.             *)
(***************************************************************************)
Busy == {"called", "returned", "finished"}

Resting == {"idle", "started", "waiting", "loop", "done", "raised"}

\* The operations of worker w in a plan.
Share(plan, w) == Ascending({i \in DOMAIN plan.operations : plan.worker_ids[i] = w})

\* How many operations a worker at l that has issued n has in the history.
Taken(l, n) == IF l \in Busy THEN n - 1 ELSE n

Fields ==
  {"index", "worker", "sequence", "operation", "started", "finished", "error", "actual"}

\* An event is about an operation of its worker, with its place in the share.
Owned(e, plan, now) ==
  /\ DOMAIN e = Fields
  /\ e.worker \in Worker
  /\ e.sequence \in Nat /\ e.sequence < Len(Share(plan, e.worker))
  /\ e.index = Share(plan, e.worker)[e.sequence + 1] - 1
  /\ e.operation = plan.operations[e.index + 1]
  /\ e.started \in Nat /\ e.started <= now
  /\ e.error \in BOOLEAN

Stamped(e, now) == e.finished \in Nat /\ e.started <= e.finished /\ e.finished <= now

\* Worker w at l, which has issued n operations and is filling in e.
WorkerOK(w, l, n, e, plan, now) ==
  /\ n <= Len(Share(plan, w))
  /\ l \in Busy => n > 0 /\ Owned(e, plan, now) /\ e.worker = w /\ e.sequence = n - 1
  /\ l = "called" => e.error = FALSE
  /\ l = "finished" => Stamped(e, now)

\* What is recorded, with the workers at at, n operations issued, events ev.
HistoryOK(h, plan, now, at, n, ev) ==
  /\ \A k \in DOMAIN h : /\ Owned(h[k], plan, now) /\ Stamped(h[k], now)
                         /\ h[k].sequence < Taken(at[h[k].worker], n[h[k].worker])
  /\ \A w \in Worker : \A s \in 0..Taken(at[w], n[w]) - 1 :
       \E k \in DOMAIN h : h[k].worker = w /\ h[k].sequence = s
  /\ \A j, k \in DOMAIN h :
       h[j].worker = h[k].worker /\ h[j].sequence = h[k].sequence => j = k
  /\ \A j, k \in DOMAIN h : SameWorkerBefore(h[j], h[k]) => h[j].finished <= h[k].started
  /\ \A k \in DOMAIN h : \A w \in Worker :
       h[k].worker = w /\ at[w] \in Busy => h[k].finished <= ev[w].started

PlanOK(plan) ==
  /\ plan.capacity \in Int
  /\ Len(plan.operations) \in Nat
  /\ DOMAIN plan.operations = 1..Len(plan.operations)
  /\ \A i \in DOMAIN plan.operations :
       plan.operations[i].op = "write" => plan.operations[i].data \in Seq(Nat)

TypeInv ==
  /\ phase \in {"validate", "open", "running", "ended"}
  /\ pc \in [Worker -> Busy \cup Resting]
  /\ next \in [Worker -> Nat]
  /\ DOMAIN event = Worker /\ event = [w \in Worker |-> event[w]]
  /\ clock \in Nat /\ errors \in Nat
  /\ history \in Seq({history[k] : k \in DOMAIN history})
  /\ PlanOK(scenario) /\ budget \in Nat \ {0}

\* Before the pool is started nobody works, afterwards nobody does either.
PhaseInv ==
  /\ phase \in {"open", "running"} => ValidWorkerPlan(scenario)
  /\ phase \in {"validate", "open"} => errors = 0 /\ \A w \in Worker : pc[w] = "idle"
  /\ phase = "ended" => \A w \in Worker : pc[w] \in {"idle", "done", "raised"}
  /\ phase # "ended" => verdict = NoVerdict

WorkersInv ==
  \A w \in Worker :
    /\ WorkerOK(w, pc[w], next[w], event[w], scenario, clock)
    /\ pc[w] = "done" => next[w] = Len(Share(scenario, w)) \/ Failed(history) # {}

HistoryInv == HistoryOK(history, scenario, clock, pc, next, event)

\* An error is on its way into the history, in it, or on its way out.
ErrorInv ==
  errors > 0 /\ phase = "running" =>
    \/ Raised
    \/ Failed(history) # {}
    \/ \E w \in Worker : pc[w] \in {"returned", "finished"} /\ event[w].error

CaptureInv == TypeInv /\ PhaseInv /\ WorkersInv /\ HistoryInv /\ ErrorInv

(***************************************************************************)
(* As long as a device keeps the contract and nothing raises, the order in *)
(* which it took the calls explains every reply it gave.  Answered are the *)
(* events of the calls it took.  A call is over, and stamped, at a time no *)
(* earlier than the start of every call the device took before.            *)
(***************************************************************************)
Listed(h) == {h[k] : k \in DOMAIN h}

Answered == Listed(history)
              \cup {event[w] : w \in {v \in Worker : pc[v] \in {"returned", "finished"}}}

Over == Listed(history) \cup {event[w] : w \in {v \in Worker : pc[v] = "finished"}}

\* The scenario as a list of requests, to be run in some order.
Asked(plan) == [i \in DOMAIN plan.operations |-> [operation |-> plan.operations[i]]]

RunOver(plan, q) == RunOf(Asked(plan), plan.capacity, q, Len(q))

DeviceOrder(q, plan, model, answered, over) ==
  /\ RunOver(plan, q)[Len(q)] = model
  /\ \A m \in 1..Len(q) : \E e \in answered : e.index + 1 = q[m]
  /\ \A e \in answered : \E m \in 1..Len(q) :
       q[m] = e.index + 1 /\ Apply(RunOver(plan, q)[m - 1], e.operation).reply = e.actual
  /\ \A e \in over, d \in answered : \A i, j \in 1..Len(q) :
       j < i /\ q[i] = e.index + 1 /\ q[j] = d.index + 1 => e.finished >= d.started
  /\ \A i, j \in 1..Len(q) :
       j < i /\ plan.worker_ids[q[i]] = plan.worker_ids[q[j]] => q[j] < q[i]

LawInv ==
  shadow.lawful /\ errors = 0 =>
    \E q \in Lists(Len(scenario.operations)) :
      DeviceOrder(q, scenario, shadow.model, Answered, Over)

-----------------------------------------------------------------------------
(***************************************************************************)
(* The shares of the workers.                                              *)
(***************************************************************************)
\* A set of positions is listed once each, in ascending order: the place of a
\* position is the number of members up to it.
LEMMA AscendingMeans ==
  ASSUME NEW S \in SUBSET Nat, IsFiniteSet(S)
  PROVE  /\ Len(Ascending(S)) \in Nat
         /\ \A k \in 1..Len(Ascending(S)) : Ascending(S)[k] \in S
         /\ \A j, k \in 1..Len(Ascending(S)) : j < k => Ascending(S)[j] < Ascending(S)[k]
         /\ \A i \in S : \E k \in 1..Len(Ascending(S)) : Ascending(S)[k] = i
<1> DEFINE Up(i) == {m \in S : m <= i}
           n == Cardinality(S)
           place == [i \in S |-> Cardinality(Up(i))]
           at(k) == CHOOSE i \in S : Cardinality(Up(i)) = k
           s == Ascending(S)
<1>1. n \in Nat
  BY FS_CardinalityType
<1>2. ASSUME NEW i \in S
      PROVE  Up(i) \in SUBSET S /\ IsFiniteSet(Up(i)) /\ Cardinality(Up(i)) \in 1..n
  <2>1. Up(i) \in SUBSET S /\ i \in Up(i)
    OBVIOUS
  <2> HIDE DEF Up
  <2>2. IsFiniteSet(Up(i)) /\ Cardinality(Up(i)) <= n
    BY <2>1, FS_Subset
  <2>3. Cardinality(Up(i)) \in Nat
    BY <2>2, FS_CardinalityType
  <2>4. Cardinality(Up(i)) # 0
    BY <2>1, <2>2, FS_EmptySet
  <2> QED
    BY <1>1, <2>1, <2>2, <2>3, <2>4
<1>3. ASSUME NEW i \in S, NEW j \in S, i < j
      PROVE  Cardinality(Up(i)) < Cardinality(Up(j))
  <2>1. i \in Nat /\ j \in Nat /\ ~(j <= i) /\ j <= j
    BY <1>3
  <2>2. \A m \in S : m \in Nat
    OBVIOUS
  <2>3. \A m \in S : m <= i => m <= j
    BY <1>3, <2>1, <2>2
  <2>4. Up(i) \in SUBSET Up(j) /\ j \in Up(j) /\ j \notin Up(i)
    BY <2>1, <2>3, Zenon
  <2>5. IsFiniteSet(Up(j)) /\ Cardinality(Up(i)) \in 1..n /\ Cardinality(Up(j)) \in 1..n
    BY <1>2
  <2> HIDE DEF Up
  <2>6. /\ Cardinality(Up(i)) <= Cardinality(Up(j))
        /\ Cardinality(Up(j)) = Cardinality(Up(i)) => Up(j) = Up(i)
    BY <2>4, <2>5, FS_Subset
  <2> QED
    BY <1>1, <2>4, <2>5, <2>6
<1>4. /\ place \in [S -> 1..n]
      /\ \A i \in S : place[i] = Cardinality(Up(i))
  BY <1>2
<1>5. \A i, j \in S : i < j => place[i] < place[j]
  BY <1>3, <1>4
<1> HIDE DEF place
<1>6. place \in Injection(S, 1..n)
  <2>1. ASSUME NEW i \in S, NEW j \in S, place[i] = place[j]
        PROVE  i = j
    <3>1. place[i] \in 1..n /\ place[j] \in 1..n /\ i \in Nat /\ j \in Nat
      BY <1>4
    <3> QED
      BY <1>1, <1>5, <2>1, <3>1
  <2> QED
    BY <1>4, <2>1 DEF Injection, IsInjective
<1>7. IsFiniteSet(1..n) /\ Cardinality(1..n) = n
  <2> HIDE DEF n
  <2> QED
    BY <1>1, FS_Interval
<1>8. place \in Surjection(S, 1..n)
  BY <1>6, <1>7, FS_Injection
<1>9. ASSUME NEW k \in 1..n
      PROVE  s[k] \in S /\ place[s[k]] = k
  <2>1. \E i \in S : place[i] = k
    BY <1>8 DEF Surjection
  <2>2. \E i \in S : Cardinality(Up(i)) = k
    BY <1>4, <2>1
  <2>3. s[k] = at(k)
    BY DEF Ascending
  <2>4. s[k] \in S /\ Cardinality(Up(s[k])) = k
    BY <2>2, <2>3
  <2> QED
    BY <1>4, <2>4
<1>10. s = [k \in 1..n |-> at(k)]
  BY DEF Ascending
<1> HIDE DEF s, n, Up, at
<1>11. Len(s) = n
  <2>1. s \in Seq(S)
    BY <1>1, <1>9, <1>10
  <2> QED
    BY <1>1, <1>10, <2>1
<1>12. ASSUME NEW j \in 1..n, NEW k \in 1..n, j < k
       PROVE  s[j] < s[k]
  <2>1. /\ s[j] \in S /\ s[k] \in S /\ place[s[j]] = j /\ place[s[k]] = k
        /\ s[j] \in Nat /\ s[k] \in Nat
    BY <1>9
  <2> QED
    BY <1>1, <1>5, <1>12, <2>1
<1>13. ASSUME NEW i \in S
       PROVE  \E k \in 1..n : s[k] = i
  <2>1. place[i] \in 1..n
    BY <1>4
  <2>2. s[place[i]] \in S /\ place[s[place[i]]] = place[i]
    BY <1>9, <2>1
  <2>3. s[place[i]] = i
    BY <1>6, <2>2 DEF Injection, IsInjective
  <2> QED
    BY <2>1, <2>3
<1> QED
  BY <1>1, <1>9, <1>11, <1>12, <1>13 DEF s

\* A share has the operations of its worker, in the scenario's order.
LEMMA ShareMeans ==
  ASSUME NEW plan, PlanOK(plan), NEW w
  PROVE  LET s == Share(plan, w)
         IN  /\ Len(s) \in Nat
             /\ \A k \in 1..Len(s) : s[k] \in 1..Len(plan.operations) /\ plan.worker_ids[s[k]] = w
             /\ \A j, k \in 1..Len(s) : j < k => s[j] < s[k]
             /\ \A i \in 1..Len(plan.operations) :
                  plan.worker_ids[i] = w => \E k \in 1..Len(s) : s[k] = i
<1> DEFINE S == {i \in DOMAIN plan.operations : plan.worker_ids[i] = w}
<1>1. DOMAIN plan.operations = 1..Len(plan.operations) /\ Len(plan.operations) \in Nat
  BY DEF PlanOK
<1>2. IsFiniteSet(1..Len(plan.operations))
  BY <1>1, FS_Interval
<1>3. S \in SUBSET (1..Len(plan.operations)) /\ S \in SUBSET Nat
  BY <1>1
<1>4. IsFiniteSet(S)
  BY <1>2, <1>3, FS_Subset
<1>5. Share(plan, w) = Ascending(S)
  BY DEF Share
<1>6. \A i \in 1..Len(plan.operations) : plan.worker_ids[i] = w <=> i \in S
  BY <1>1
<1> HIDE DEF S
<1>7. /\ Len(Ascending(S)) \in Nat
      /\ \A k \in 1..Len(Ascending(S)) : Ascending(S)[k] \in S
      /\ \A j, k \in 1..Len(Ascending(S)) : j < k => Ascending(S)[j] < Ascending(S)[k]
      /\ \A i \in S : \E k \in 1..Len(Ascending(S)) : Ascending(S)[k] = i
  BY <1>3, <1>4, AscendingMeans
<1> QED
  BY <1>3, <1>5, <1>6, <1>7

\* The number of an event's operation tells its worker and its sequence.
LEMMA OwnedMeans ==
  ASSUME NEW plan, PlanOK(plan), NEW now, NEW e, Owned(e, plan, now)
  PROVE  /\ e.index \in 0..Len(plan.operations) - 1 /\ e.index + 1 \in 1..Len(plan.operations)
         /\ plan.worker_ids[e.index + 1] = e.worker
         /\ \A d : Owned(d, plan, now) =>
              /\ d.index = e.index => d.worker = e.worker /\ d.sequence = e.sequence
              /\ d.worker = e.worker /\ d.sequence < e.sequence => d.index < e.index
              /\ d.worker = e.worker /\ d.index < e.index => d.sequence < e.sequence
<1> DEFINE s == Share(plan, e.worker)
           n == Len(plan.operations)
<1>1. /\ Len(s) \in Nat
      /\ \A k \in 1..Len(s) : s[k] \in 1..n /\ plan.worker_ids[s[k]] = e.worker
      /\ \A j, k \in 1..Len(s) : j < k => s[j] < s[k]
  BY ShareMeans
<1>2. e.sequence \in Nat /\ e.sequence < Len(s) /\ e.index = s[e.sequence + 1] - 1
  BY DEF Owned
<1>3. n \in Nat
  BY DEF PlanOK
<1> HIDE DEF s, n
<1>4. e.sequence + 1 \in 1..Len(s)
  BY <1>1, <1>2
<1>5. s[e.sequence + 1] \in 1..n /\ s[e.sequence + 1] = e.index + 1
  <2>1. s[e.sequence + 1] \in 1..n
    BY <1>1, <1>4
  <2> QED
    BY <1>2, <1>3, <2>1
<1>6. /\ e.index \in 0..n - 1 /\ e.index + 1 \in 1..n
      /\ plan.worker_ids[e.index + 1] = e.worker
  BY <1>1, <1>2, <1>3, <1>4, <1>5
<1>7. ASSUME NEW d, Owned(d, plan, now), d.worker = e.worker
      PROVE  /\ d.sequence \in Nat /\ d.sequence + 1 \in 1..Len(s)
             /\ d.index + 1 = s[d.sequence + 1] /\ d.index \in Int
  <2>1. d.sequence \in Nat /\ d.sequence < Len(s) /\ d.index = s[d.sequence + 1] - 1
    BY <1>7 DEF Owned, s
  <2>2. d.sequence + 1 \in 1..Len(s)
    BY <1>1, <2>1
  <2>3. s[d.sequence + 1] \in 1..n
    BY <1>1, <2>2
  <2> QED
    BY <1>3, <2>1, <2>2, <2>3
<1>8. ASSUME NEW d, Owned(d, plan, now), d.worker = e.worker
      PROVE  /\ d.sequence < e.sequence => d.index < e.index
             /\ d.index < e.index => d.sequence < e.sequence
             /\ d.index = e.index => d.sequence = e.sequence
  <2>1. /\ d.sequence \in Nat /\ d.sequence + 1 \in 1..Len(s)
        /\ d.index + 1 = s[d.sequence + 1] /\ d.index \in Int
    BY <1>7, <1>8
  <2>2. /\ d.sequence < e.sequence => s[d.sequence + 1] < s[e.sequence + 1]
        /\ e.sequence < d.sequence => s[e.sequence + 1] < s[d.sequence + 1]
    BY <1>1, <1>2, <1>4, <2>1
  <2> DEFINE a == s[d.sequence + 1]
             b == s[e.sequence + 1]
  <2>3. a = d.index + 1 /\ b = e.index + 1 /\ d.index \in Int /\ e.index \in Int
    BY <1>3, <1>5, <1>6, <2>1
  <2>4. d.sequence < e.sequence => a < b
    BY <2>2
  <2>5. e.sequence < d.sequence => b < a
    BY <2>2
  <2>6. d.sequence = e.sequence => a = b
    OBVIOUS
  <2> HIDE DEF a, b
  <2>7. d.sequence \in Nat /\ e.sequence \in Nat
    BY <1>2, <2>1
  <2>8. d.index < e.index <=> a < b
    BY <2>3
  <2>9. e.index < d.index <=> b < a
    BY <2>3
  <2>10. a \in Int /\ b \in Int /\ (d.index = e.index <=> a = b)
    BY <2>3
  <2> QED
    BY <2>4, <2>5, <2>6, <2>7, <2>8, <2>10
<1>9. ASSUME NEW d, Owned(d, plan, now), d.index = e.index
      PROVE  d.worker = e.worker
  <2> DEFINE t == Share(plan, d.worker)
  <2>1. /\ Len(t) \in Nat
        /\ \A k \in 1..Len(t) : t[k] \in 1..n /\ plan.worker_ids[t[k]] = d.worker
    BY ShareMeans DEF n
  <2>2. d.sequence \in Nat /\ d.sequence < Len(t) /\ d.index = t[d.sequence + 1] - 1
    BY <1>9 DEF Owned
  <2> HIDE DEF t
  <2>3. d.sequence + 1 \in 1..Len(t)
    BY <2>1, <2>2
  <2>4. t[d.sequence + 1] \in 1..n /\ plan.worker_ids[t[d.sequence + 1]] = d.worker
    BY <2>1, <2>3
  <2>5. t[d.sequence + 1] = e.index + 1
    BY <1>3, <1>9, <2>2, <2>4
  <2> QED
    BY <1>6, <2>4, <2>5
<1> QED
  BY <1>6, <1>8, <1>9 DEF n

(***************************************************************************)
(* The capture: what a step leaves as it was.                              *)
(***************************************************************************)
\* What was true of an event stays true as the clock goes on.
LEMMA EventStays ==
  ASSUME NEW e, NEW plan, NEW now \in Nat, NEW later \in Nat, now <= later
  PROVE  /\ Owned(e, plan, now) => Owned(e, plan, later)
         /\ Stamped(e, now) => Stamped(e, later)
BY DEF Owned, Stamped

LEMMA WorkerStays ==
  ASSUME NEW w, NEW l, NEW n, NEW e, NEW plan, NEW now \in Nat, NEW later \in Nat, now <= later,
         WorkerOK(w, l, n, e, plan, now)
  PROVE  WorkerOK(w, l, n, e, plan, later)
BY EventStays DEF WorkerOK

\* A step that records nothing: a worker may become busy, with a call that
\* starts now or later.
LEMMA HistoryStays ==
  ASSUME NEW h, NEW plan, NEW now \in Nat, NEW later \in Nat, now <= later,
         NEW at, NEW at2, NEW n, NEW n2, NEW ev, NEW ev2,
         HistoryOK(h, plan, now, at, n, ev),
         \A w \in Worker : Taken(at2[w], n2[w]) = Taken(at[w], n[w]),
         \A w \in Worker : at2[w] \in Busy =>
            \/ at[w] \in Busy /\ ev2[w].started = ev[w].started
            \/ ev2[w].started \in Nat /\ now <= ev2[w].started
  PROVE  HistoryOK(h, plan, later, at2, n2, ev2)
<1>1. /\ \A k \in DOMAIN h : /\ Owned(h[k], plan, now) /\ Stamped(h[k], now)
                             /\ h[k].sequence < Taken(at[h[k].worker], n[h[k].worker])
      /\ \A w \in Worker : \A s \in 0..Taken(at[w], n[w]) - 1 :
           \E k \in DOMAIN h : h[k].worker = w /\ h[k].sequence = s
      /\ \A j, k \in DOMAIN h :
           h[j].worker = h[k].worker /\ h[j].sequence = h[k].sequence => j = k
      /\ \A j, k \in DOMAIN h : SameWorkerBefore(h[j], h[k]) => h[j].finished <= h[k].started
      /\ \A k \in DOMAIN h : \A w \in Worker :
           h[k].worker = w /\ at[w] \in Busy => h[k].finished <= ev[w].started
  BY DEF HistoryOK
<1>2. ASSUME NEW k \in DOMAIN h
      PROVE  /\ Owned(h[k], plan, later) /\ Stamped(h[k], later)
             /\ h[k].sequence < Taken(at2[h[k].worker], n2[h[k].worker])
  <2>1. h[k].worker \in Worker
    BY <1>1 DEF Owned
  <2>2. Taken(at2[h[k].worker], n2[h[k].worker]) = Taken(at[h[k].worker], n[h[k].worker])
    BY <2>1
  <2> QED
    BY <1>1, <2>2, EventStays
<1>3. \A w \in Worker : \A s \in 0..Taken(at2[w], n2[w]) - 1 :
        \E k \in DOMAIN h : h[k].worker = w /\ h[k].sequence = s
  <2> SUFFICES ASSUME NEW w \in Worker
               PROVE  \A s \in 0..Taken(at2[w], n2[w]) - 1 :
                        \E k \in DOMAIN h : h[k].worker = w /\ h[k].sequence = s
    OBVIOUS
  <2>1. Taken(at2[w], n2[w]) = Taken(at[w], n[w])
    OBVIOUS
  <2>2. \A s \in 0..Taken(at[w], n[w]) - 1 :
           \E k \in DOMAIN h : h[k].worker = w /\ h[k].sequence = s
    BY <1>1
  <2> QED
    BY <2>1, <2>2, Zenon
<1>4. ASSUME NEW k \in DOMAIN h, NEW w \in Worker, h[k].worker = w, at2[w] \in Busy
      PROVE  h[k].finished <= ev2[w].started
  <2>1. CASE at[w] \in Busy /\ ev2[w].started = ev[w].started
    BY <1>1, <1>4, <2>1
  <2>2. CASE ev2[w].started \in Nat /\ now <= ev2[w].started
    <3>1. h[k].finished \in Nat /\ h[k].finished <= now
      BY <1>1 DEF Stamped
    <3> QED
      BY <2>2, <3>1
  <2> QED
    BY <1>4, <2>1, <2>2
<1> QED
  BY <1>1, <1>2, <1>3, <1>4 DEF HistoryOK

LEMMA AppendMeans ==
  ASSUME NEW h, h \in Seq({h[k] : k \in DOMAIN h}), NEW e
  PROVE  LET g == Append(h, e)
         IN  /\ Len(h) \in Nat /\ DOMAIN h = 1..Len(h)
             /\ Len(g) = Len(h) + 1 /\ DOMAIN g = 1..Len(h) + 1
             /\ \A k \in DOMAIN h : k \in DOMAIN g /\ g[k] = h[k]
             /\ g[Len(h) + 1] = e /\ Len(h) + 1 \in DOMAIN g
             /\ g \in Seq({g[k] : k \in DOMAIN g})
             /\ \A k \in DOMAIN g : k \in DOMAIN h \/ k = Len(h) + 1
<1> DEFINE S == {h[k] : k \in DOMAIN h}
           T == S \cup {e}
           g == Append(h, e)
<1>1. Len(h) \in Nat /\ DOMAIN h = 1..Len(h)
  BY LenProperties
<1>2. h \in Seq(T)
  <2>1. S \subseteq T
    OBVIOUS
  <2> HIDE DEF S, T
  <2>2. h \in Seq(S)
    BY DEF S
  <2> QED
    BY <2>1, <2>2
<1>3. e \in T
  OBVIOUS
<1> HIDE DEF T
<1>4. /\ g \in Seq(T) /\ Len(g) = Len(h) + 1
      /\ \A k \in 1..Len(h) : g[k] = h[k]
      /\ g[Len(h) + 1] = e
  BY <1>2, <1>3, AppendProperties
<1>5. DOMAIN g = 1..Len(h) + 1 /\ Len(g) \in Nat /\ g = [k \in 1..Len(g) |-> g[k]]
  BY <1>4, LenProperties
<1> HIDE DEF g
<1>6. g \in Seq({g[k] : k \in DOMAIN g})
  <2> DEFINE U == {g[k] : k \in DOMAIN g}
  <2>1. \A k \in 1..Len(g) : g[k] \in U
    BY <1>1, <1>4, <1>5
  <2> HIDE DEF U
  <2>2. g \in Seq(U)
    BY <1>5, <2>1
  <2> QED
    BY <2>2 DEF U
<1> QED
  BY <1>1, <1>4, <1>5, <1>6 DEF g

\* What a worker records is the next event of its share, after the others.
LEMMA HistoryGrows ==
  ASSUME NEW h, h \in Seq({h[k] : k \in DOMAIN h}), NEW plan, NEW now \in Nat,
         NEW at, NEW at2, NEW n, NEW ev, NEW ev2, NEW w \in Worker,
         HistoryOK(h, plan, now, at, n, ev),
         at[w] = "finished", n[w] \in Nat, WorkerOK(w, at[w], n[w], ev[w], plan, now),
         at2[w] \notin Busy, \A v \in Worker : v # w => at2[v] = at[v] /\ ev2[v] = ev[v]
  PROVE  HistoryOK(Append(h, ev[w]), plan, now, at2, n, ev2)
<1> DEFINE e == ev[w]
           g == Append(h, e)
           last == Len(h) + 1
<1>1. /\ \A k \in DOMAIN h : /\ Owned(h[k], plan, now) /\ Stamped(h[k], now)
                             /\ h[k].sequence < Taken(at[h[k].worker], n[h[k].worker])
      /\ \A v \in Worker : \A s \in 0..Taken(at[v], n[v]) - 1 :
           \E k \in DOMAIN h : h[k].worker = v /\ h[k].sequence = s
      /\ \A j, k \in DOMAIN h :
           h[j].worker = h[k].worker /\ h[j].sequence = h[k].sequence => j = k
      /\ \A j, k \in DOMAIN h : SameWorkerBefore(h[j], h[k]) => h[j].finished <= h[k].started
      /\ \A k \in DOMAIN h : \A v \in Worker :
           h[k].worker = v /\ at[v] \in Busy => h[k].finished <= ev[v].started
  BY DEF HistoryOK
<1>2. /\ Len(h) \in Nat /\ DOMAIN h = 1..Len(h)
      /\ \A k \in DOMAIN h : k \in DOMAIN g /\ g[k] = h[k]
      /\ g[last] = e /\ last \in DOMAIN g
      /\ \A k \in DOMAIN g : k \in DOMAIN h \/ k = last
  BY AppendMeans
<1> HIDE DEF g
<1>3. /\ Owned(e, plan, now) /\ Stamped(e, now) /\ e.worker = w /\ e.sequence = n[w] - 1
      /\ n[w] > 0 /\ at[w] \in Busy
  BY DEF WorkerOK, Busy
<1>4. Taken(at2[w], n[w]) = n[w] /\ Taken(at[w], n[w]) = n[w] - 1
  BY <1>3 DEF Taken
<1>5. \A v \in Worker : v # w => Taken(at2[v], n[v]) = Taken(at[v], n[v])
  OBVIOUS
<1> HIDE DEF e, last
<1>6. ASSUME NEW k \in DOMAIN h
      PROVE  /\ h[k].worker \in Worker /\ h[k].sequence \in Nat
             /\ h[k].worker = w => h[k].sequence < e.sequence /\ h[k].finished <= e.started
  <2>1. h[k].worker \in Worker /\ h[k].sequence \in Nat
    BY <1>1 DEF Owned
  <2>2. ASSUME h[k].worker = w
        PROVE  h[k].sequence < e.sequence /\ h[k].finished <= e.started
    <3>1. h[k].sequence < Taken(at[w], n[w])
      BY <1>1, <2>2
    <3>2. h[k].finished <= ev[w].started
      BY <1>1, <1>3, <2>2
    <3> QED
      BY <1>3, <1>4, <3>1, <3>2 DEF e
  <2> QED
    BY <2>1, <2>2
<1>7. ASSUME NEW k \in DOMAIN g
      PROVE  /\ Owned(g[k], plan, now) /\ Stamped(g[k], now)
             /\ g[k].sequence < Taken(at2[g[k].worker], n[g[k].worker])
  <2>1. CASE k \in DOMAIN h
    <3>1. g[k] = h[k]
      BY <1>2, <2>1
    <3>2. h[k].sequence < Taken(at2[h[k].worker], n[h[k].worker])
      <4>1. CASE h[k].worker = w
        BY <1>3, <1>4, <1>6, <2>1, <4>1
      <4>2. CASE h[k].worker # w
        BY <1>1, <1>5, <1>6, <2>1, <4>2
      <4> QED
        BY <4>1, <4>2
    <3> QED
      BY <1>1, <2>1, <3>1, <3>2
  <2>2. CASE k = last
    <3>1. n[w] - 1 < n[w]
      OBVIOUS
    <3> QED
      BY <1>2, <1>3, <1>4, <2>2, <3>1
  <2> QED
    BY <1>2, <2>1, <2>2
<1>8. ASSUME NEW v \in Worker, NEW s \in 0..Taken(at2[v], n[v]) - 1
      PROVE  \E k \in DOMAIN g : g[k].worker = v /\ g[k].sequence = s
  <2>1. CASE s \in 0..Taken(at[v], n[v]) - 1
    <3>1. PICK k \in DOMAIN h : h[k].worker = v /\ h[k].sequence = s
      BY <1>1, <2>1
    <3> QED
      BY <1>2, <3>1
  <2>2. CASE v = w /\ s = n[w] - 1
    BY <1>2, <1>3, <2>2
  <2>3. CASE v = w /\ s # n[w] - 1
    <3>1. s \in 0..n[w] - 1
      BY <1>4, <2>3
    <3>2. s \in 0..(n[w] - 1) - 1
      BY <2>3, <3>1, SMTT(40)
    <3> QED
      BY <1>4, <2>1, <2>3, <3>2
  <2>4. CASE v # w
    BY <1>5, <2>1, <2>4
  <2> QED
    BY <2>2, <2>3, <2>4
<1>9. ASSUME NEW j \in DOMAIN g, NEW k \in DOMAIN g
      PROVE  /\ g[j].worker = g[k].worker /\ g[j].sequence = g[k].sequence => j = k
             /\ SameWorkerBefore(g[j], g[k]) => g[j].finished <= g[k].started
  <2>1. CASE j \in DOMAIN h /\ k \in DOMAIN h
    BY <1>1, <1>2, <2>1
  <2>2. CASE j \in DOMAIN h /\ k = last
    <3>1. g[j] = h[j] /\ g[k] = e
      BY <1>2, <2>2
    <3>2. h[j].worker = w => h[j].sequence < e.sequence /\ h[j].finished <= e.started
      BY <1>6, <2>2
    <3>3. h[j].sequence \in Nat /\ e.sequence \in Nat /\ e.worker = w
      BY <1>3, <1>6, <2>2
    <3> QED
      BY <3>1, <3>2, <3>3 DEF SameWorkerBefore
  <2>3. CASE k \in DOMAIN h /\ j = last
    <3>1. g[k] = h[k] /\ g[j] = e
      BY <1>2, <2>3
    <3>2. h[k].worker = w => h[k].sequence < e.sequence
      BY <1>6, <2>3
    <3>3. h[k].sequence \in Nat /\ e.sequence \in Nat /\ e.worker = w
      BY <1>3, <1>6, <2>3
    <3> QED
      BY <3>1, <3>2, <3>3 DEF SameWorkerBefore
  <2>4. CASE j = last /\ k = last
    <3>1. e.sequence \in Nat
      BY <1>3
    <3> QED
      BY <1>2, <2>4, <3>1 DEF SameWorkerBefore
  <2> QED
    BY <1>2, <2>1, <2>2, <2>3, <2>4
<1>10. ASSUME NEW k \in DOMAIN g, NEW v \in Worker, g[k].worker = v, at2[v] \in Busy
       PROVE  g[k].finished <= ev2[v].started
  <2>1. v # w /\ at[v] \in Busy /\ ev2[v] = ev[v]
    BY <1>10
  <2>2. k \in DOMAIN h /\ g[k] = h[k]
    BY <1>2, <1>3, <1>10, <2>1
  <2> QED
    BY <1>1, <1>10, <2>1, <2>2
<1> QED
  BY <1>7, <1>8, <1>9, <1>10 DEF HistoryOK, g, e

-----------------------------------------------------------------------------
(***************************************************************************)
(* Every step keeps the invariant of the capture.                          *)
(***************************************************************************)
\* Only a running pool has workers under way.
LEMMA Working ==
  ASSUME CaptureInv, NEW w \in Worker, pc[w] \notin {"idle", "done", "raised"}
  PROVE  phase = "running" /\ ValidWorkerPlan(scenario) /\ verdict = NoVerdict
<1>1. phase \in {"validate", "open", "running", "ended"}
  BY DEF CaptureInv, TypeInv
<1>2. phase # "ended" /\ phase \notin {"validate", "open"}
  BY DEF CaptureInv, PhaseInv
<1> QED
  BY <1>1, <1>2 DEF CaptureInv, PhaseInv

\* Workers that go on between calls disturb nothing that is recorded.
LEMMA RestingStep ==
  ASSUME CaptureInv, UNCHANGED <<scenario, next, event, clock, history>>,
         \A w \in Worker : pc'[w] # pc[w] =>
            pc[w] \in Resting /\ pc'[w] \in Resting \ {"done"}
  PROVE  WorkersInv' /\ HistoryInv'
<1>1. clock \in Nat /\ pc \in [Worker -> Busy \cup Resting]
  BY DEF CaptureInv, TypeInv
<1>2. \A w \in Worker : Taken(pc'[w], next[w]) = Taken(pc[w], next[w])
  BY DEF Taken, Busy, Resting
<1>3. \A w \in Worker : pc'[w] \in Busy => pc[w] = pc'[w]
  BY DEF Busy, Resting
<1>4. HistoryOK(history, scenario, clock, pc, next, event)
  BY DEF CaptureInv, HistoryInv
<1>5. HistoryOK(history, scenario, clock, pc', next, event)
  BY <1>1, <1>2, <1>3, <1>4, HistoryStays
<1>6. ASSUME NEW w \in Worker
      PROVE  /\ WorkerOK(w, pc'[w], next[w], event[w], scenario, clock)
             /\ pc'[w] = "done" => next[w] = Len(Share(scenario, w)) \/ Failed(history) # {}
  <2>1. /\ WorkerOK(w, pc[w], next[w], event[w], scenario, clock)
        /\ pc[w] = "done" => next[w] = Len(Share(scenario, w)) \/ Failed(history) # {}
    BY DEF CaptureInv, WorkersInv
  <2>2. CASE pc'[w] = pc[w]
    BY <2>1, <2>2
  <2>3. CASE pc'[w] # pc[w]
    <3>1. pc'[w] \notin Busy /\ pc'[w] # "done" /\ pc'[w] # "called" /\ pc'[w] # "finished"
      BY <2>3 DEF Busy, Resting
    <3> QED
      BY <2>1, <3>1 DEF WorkerOK
  <2> QED
    BY <2>2, <2>3
<1> QED
  BY <1>5, <1>6 DEF WorkersInv, HistoryInv

LEMMA CaptureInit == Init => CaptureInv
<1> SUFFICES ASSUME Init PROVE CaptureInv
  OBVIOUS
<1>1. PICK c \in Cases : scenario = c.scenario /\ budget = c.budget
  BY DEF Init
<1>2. PlanOK(scenario) /\ budget \in Nat \ {0}
  BY <1>1, PlansAssumption, BudgetsAssumption DEF PlanOK
<1>3. /\ pc = [w \in Worker |-> "idle"] /\ next = [w \in Worker |-> 0]
      /\ event = [w \in Worker |-> NoEvent] /\ clock = 0 /\ history = << >>
      /\ errors = 0 /\ phase = "validate" /\ verdict = NoVerdict
  BY DEF Init
<1>4. history \in Seq({history[k] : k \in DOMAIN history}) /\ DOMAIN history = {}
  <2>1. DOMAIN history = {} /\ \A S : history \in Seq(S)
    BY <1>3, EmptySeq
  <2> QED
    BY <2>1
<1>5. TypeInv
  BY <1>2, <1>3, <1>4 DEF TypeInv, Resting
<1>6. PhaseInv
  BY <1>3 DEF PhaseInv
<1>7. WorkersInv
  <2> SUFFICES ASSUME NEW w \in Worker
               PROVE  /\ WorkerOK(w, "idle", 0, NoEvent, scenario, clock)
    BY <1>3 DEF WorkersInv
  <2>1. 0 <= Len(Share(scenario, w))
    BY <1>2, ShareMeans
  <2> QED
    BY <2>1 DEF WorkerOK, Busy
<1>8. HistoryInv
  <2>1. \A w \in Worker : 0..Taken(pc[w], next[w]) - 1 = {}
    BY <1>3 DEF Taken, Busy
  <2> QED
    BY <1>4, <2>1 DEF HistoryInv, HistoryOK
<1>9. ErrorInv
  BY <1>3 DEF ErrorInv
<1> QED
  BY <1>5, <1>6, <1>7, <1>8, <1>9 DEF CaptureInv

LEMMA CaptureValidate == CaptureInv /\ Validate => CaptureInv'
<1> SUFFICES ASSUME CaptureInv, Validate PROVE CaptureInv'
  OBVIOUS
<1>1. /\ UNCHANGED <<scenario, budget, pc, next, event, clock, history, errors>>
      /\ phase' \in {"open", "ended"}
      /\ phase' = "open" => ValidWorkerPlan(scenario) /\ verdict' = verdict
      /\ phase = "validate"
  BY DEF Validate
<1>2. TypeInv'
  BY <1>1 DEF CaptureInv, TypeInv
<1>3. PhaseInv'
  <2>1. ValidWorkerPlan(scenario)' = ValidWorkerPlan(scenario)
    BY <1>1
  <2> QED
    BY <1>1, <2>1 DEF CaptureInv, PhaseInv
<1>4. WorkersInv' /\ HistoryInv'
  BY <1>1, RestingStep
<1>5. ErrorInv'
  BY <1>1 DEF ErrorInv
<1> QED
  BY <1>2, <1>3, <1>4, <1>5 DEF CaptureInv

LEMMA CaptureOpen == CaptureInv /\ Open => CaptureInv'
<1> SUFFICES ASSUME CaptureInv, Open PROVE CaptureInv'
  OBVIOUS
<1>1. /\ UNCHANGED <<scenario, budget, next, event, clock, history>>
      /\ phase = "open" /\ errors = 0 /\ ValidWorkerPlan(scenario)
      /\ \A w \in Worker : pc[w] = "idle"
      /\ pc \in [Worker -> Busy \cup Resting]
  BY DEF Open, CaptureInv, PhaseInv, TypeInv
<1>2. \/ /\ phase' = "running" /\ errors' = errors /\ verdict' = verdict
         /\ pc' = [w \in Worker |-> "started"]
      \/ phase' = "ended" /\ errors' = errors + 1 /\ pc' = pc
  BY DEF Open, MayRaise
<1>3. TypeInv'
  BY <1>1, <1>2 DEF CaptureInv, TypeInv, Resting
<1>4. PhaseInv'
  <2>1. ValidWorkerPlan(scenario)'
    BY <1>1
  <2> QED
    BY <1>1, <1>2, <2>1 DEF CaptureInv, PhaseInv
<1>5. WorkersInv' /\ HistoryInv'
  BY <1>1, <1>2, RestingStep DEF Resting
<1>6. ErrorInv'
  BY <1>1, <1>2 DEF ErrorInv
<1> QED
  BY <1>3, <1>4, <1>5, <1>6 DEF CaptureInv

LEMMA CaptureLeave == CaptureInv /\ Leave => CaptureInv'
<1> SUFFICES ASSUME CaptureInv, Leave PROVE CaptureInv'
  OBVIOUS
<1>1. /\ UNCHANGED <<scenario, budget, pc, next, event, clock, history>>
      /\ phase' = "ended" /\ Joined /\ errors' \in {errors, errors + 1}
  BY DEF Leave, MayRaise
<1>2. TypeInv'
  BY <1>1 DEF CaptureInv, TypeInv
<1>3. PhaseInv'
  BY <1>1 DEF CaptureInv, PhaseInv, Joined
<1>4. WorkersInv' /\ HistoryInv'
  BY <1>1, RestingStep
<1>5. ErrorInv'
  BY <1>1 DEF ErrorInv
<1> QED
  BY <1>2, <1>3, <1>4, <1>5 DEF CaptureInv

LEMMA CaptureArrive ==
  ASSUME NEW w \in Worker
  PROVE  CaptureInv /\ Arrive(w) => CaptureInv'
<1> SUFFICES ASSUME CaptureInv, Arrive(w) PROVE CaptureInv'
  OBVIOUS
<1>1. /\ UNCHANGED <<scenario, budget, phase, next, event, clock, history, errors, verdict>>
      /\ pc[w] = "started" /\ pc \in [Worker -> Busy \cup Resting]
  BY DEF Arrive, CaptureInv, TypeInv
<1>2. phase = "running" /\ ValidWorkerPlan(scenario) /\ verdict = NoVerdict
  BY <1>1, Working
<1>3. \/ pc' = [pc EXCEPT ![w] = "raised"]
      \/ /\ pc' = [v \in Worker |-> "loop"]
         /\ \A v \in Worker : v = w \/ pc[v] = "waiting"
      \/ pc' = [pc EXCEPT ![w] = "waiting"]
  BY DEF Arrive, Waiting
<1>4. \A v \in Worker : pc'[v] # pc[v] =>
        pc[v] \in {"started", "waiting"} /\ pc'[v] \in {"raised", "loop", "waiting"}
  BY <1>1, <1>3
<1>5. pc' \in [Worker -> Busy \cup Resting]
  BY <1>1, <1>3 DEF Resting
<1>6. TypeInv'
  BY <1>1, <1>5 DEF CaptureInv, TypeInv
<1>7. PhaseInv'
  <2>1. ValidWorkerPlan(scenario)'
    BY <1>1, <1>2
  <2> QED
    BY <1>1, <1>2, <2>1 DEF PhaseInv
<1>8. WorkersInv' /\ HistoryInv'
  BY <1>1, <1>4, RestingStep DEF Resting
<1>9. ErrorInv'
  <2>1. \A v \in Worker : pc[v] \in {"raised", "returned", "finished"} => pc'[v] = pc[v]
    BY <1>4
  <2>2. errors > 0 => \/ Raised \/ Failed(history) # {}
                      \/ \E v \in Worker : pc[v] \in {"returned", "finished"} /\ event[v].error
    BY <1>2 DEF CaptureInv, ErrorInv
  <2>3. Raised => Raised'
    BY <2>1 DEF Raised
  <2> QED
    BY <1>1, <2>1, <2>2, <2>3 DEF ErrorInv
<1> QED
  BY <1>6, <1>7, <1>8, <1>9 DEF CaptureInv

LEMMA CaptureTimeout == CaptureInv /\ Timeout => CaptureInv'
<1> SUFFICES ASSUME CaptureInv, Timeout PROVE CaptureInv'
  OBVIOUS
<1>1. /\ UNCHANGED <<scenario, budget, phase, next, event, clock, history, verdict>>
      /\ errors' = errors + 1 /\ pc \in [Worker -> Busy \cup Resting]
      /\ pc' = [w \in Worker |-> IF w \in Waiting THEN "raised" ELSE pc[w]]
  BY DEF Timeout, MayRaise, CaptureInv, TypeInv
<1>2. PICK w \in Worker : pc[w] = "waiting"
  BY DEF Timeout, Waiting
<1>3. phase = "running" /\ ValidWorkerPlan(scenario) /\ verdict = NoVerdict
  BY <1>2, Working
<1>4. \A v \in Worker : pc'[v] # pc[v] => pc[v] = "waiting" /\ pc'[v] = "raised"
  BY <1>1 DEF Waiting
<1>5. pc' \in [Worker -> Busy \cup Resting] /\ pc'[w] = "raised"
  BY <1>1, <1>2 DEF Resting, Waiting
<1>6. TypeInv'
  BY <1>1, <1>5 DEF CaptureInv, TypeInv
<1>7. PhaseInv'
  <2>1. ValidWorkerPlan(scenario)'
    BY <1>1, <1>3
  <2> QED
    BY <1>1, <1>3, <2>1 DEF PhaseInv
<1>8. WorkersInv' /\ HistoryInv'
  BY <1>1, <1>4, RestingStep DEF Resting
<1>9. ErrorInv'
  BY <1>5 DEF ErrorInv, Raised
<1> QED
  BY <1>6, <1>7, <1>8, <1>9 DEF CaptureInv

\* A worker whose share is not all issued notes the start of the next call.
LEMMA IssueCalls ==
  ASSUME NEW w \in Worker, CaptureInv, Issue(w), pc'[w] # "done"
  PROVE  /\ UNCHANGED <<scenario, budget, dev, phase, history, errors, shadow, verdict>>
         /\ clock' \in Nat /\ clock <= clock'
         /\ pc[w] = "loop" /\ pc' = [pc EXCEPT ![w] = "called"]
         /\ next' = [next EXCEPT ![w] = @ + 1]
         /\ \E e : /\ event' = [event EXCEPT ![w] = e]
                   /\ Owned(e, scenario, clock') /\ e.worker = w /\ e.sequence = next[w]
                   /\ e.error = FALSE /\ e.started = clock'
<1> DEFINE s == Share(scenario, w)
           i == s[next[w] + 1]
           e(t) == [index |-> i - 1, worker |-> w, sequence |-> next[w],
                    operation |-> scenario.operations[i], started |-> t,
                    finished |-> -1, error |-> FALSE, actual |-> Failure(0)]
<1>1. Indexes(w) = s
  BY DEF Indexes, Share
<1>2. /\ pc \in [Worker -> Busy \cup Resting] /\ clock \in Nat /\ next[w] \in Nat
      /\ PlanOK(scenario) /\ next[w] <= Len(s)
  BY DEF CaptureInv, TypeInv, WorkersInv, WorkerOK
<1>3. /\ Len(s) \in Nat /\ \A k \in 1..Len(s) : s[k] \in 1..Len(scenario.operations)
      /\ Len(scenario.operations) \in Nat
  BY <1>2, ShareMeans DEF PlanOK
<1> HIDE DEF s
<1>4. next[w] # Len(s)
  <2>1. SUFFICES ASSUME next[w] = Len(s) PROVE FALSE
    OBVIOUS
  <2>2. Goto(w, "done")
    BY <1>1, <2>1 DEF Issue
  <2> QED
    BY <1>2, <2>2 DEF Goto
<1>5. /\ UNCHANGED <<scenario, budget, dev, phase, history, errors, shadow, verdict>>
      /\ pc[w] = "loop" /\ pc' = [pc EXCEPT ![w] = "called"]
      /\ next' = [next EXCEPT ![w] = @ + 1]
      /\ \E t \in 0..MaxClock : ReadClock(t) /\ event' = [event EXCEPT ![w] = e(t)]
  BY <1>1, <1>4 DEF Issue, Goto, Sequence
<1>6. PICK t \in 0..MaxClock : ReadClock(t) /\ event' = [event EXCEPT ![w] = e(t)]
  BY <1>5
<1>7. clock' = t /\ clock' \in Nat /\ clock <= clock'
  BY <1>2, <1>6 DEF ReadClock
<1>8. next[w] + 1 \in 1..Len(s) /\ i \in Int /\ next[w] < Len(s)
  <2>1. next[w] + 1 \in 1..Len(s)
    BY <1>2, <1>3, <1>4
  <2>2. i \in 1..Len(scenario.operations)
    BY <1>3, <2>1
  <2> QED
    BY <1>2, <1>3, <2>1, <2>2
<1>9. /\ e(t).index = i - 1 /\ e(t).worker = w /\ e(t).sequence = next[w]
      /\ e(t).operation = scenario.operations[i] /\ e(t).started = t /\ e(t).error = FALSE
      /\ DOMAIN e(t) = Fields
  BY DEF Fields
<1> HIDE DEF e
<1>10. Owned(e(t), scenario, clock')
  <2>1. (i - 1) + 1 = i
    BY <1>8
  <2> HIDE DEF i
  <2>2. e(t).operation = scenario.operations[e(t).index + 1]
    BY <1>9, <2>1
  <2>3. e(t).index = Share(scenario, e(t).worker)[e(t).sequence + 1] - 1
    BY <1>9 DEF s, i
  <2>4. e(t).sequence \in Nat /\ e(t).sequence < Len(Share(scenario, e(t).worker))
    BY <1>2, <1>8, <1>9 DEF s
  <2>5. e(t).started \in Nat /\ e(t).started <= clock'
    BY <1>7, <1>9
  <2> QED
    BY <1>9, <2>2, <2>3, <2>4, <2>5, Zenon DEF Owned
<1> QED
  BY <1>5, <1>6, <1>7, <1>9, <1>10

LEMMA CaptureIssue ==
  ASSUME NEW w \in Worker
  PROVE  CaptureInv /\ Issue(w) => CaptureInv'
<1> SUFFICES ASSUME CaptureInv, Issue(w) PROVE CaptureInv'
  OBVIOUS
<1>1. /\ pc \in [Worker -> Busy \cup Resting] /\ clock \in Nat /\ next \in [Worker -> Nat]
      /\ DOMAIN event = Worker /\ event = [v \in Worker |-> event[v]]
      /\ HistoryOK(history, scenario, clock, pc, next, event)
      /\ \A v \in Worker : /\ WorkerOK(v, pc[v], next[v], event[v], scenario, clock)
                           /\ pc[v] = "done" => \/ next[v] = Len(Share(scenario, v))
                                                \/ Failed(history) # {}
  BY DEF CaptureInv, TypeInv, WorkersInv, HistoryInv
<1>2. phase = "running" /\ ValidWorkerPlan(scenario) /\ verdict = NoVerdict /\ pc[w] = "loop"
  BY Working DEF Issue
<1>3. errors > 0 => \/ Raised \/ Failed(history) # {}
                    \/ \E v \in Worker : pc[v] \in {"returned", "finished"} /\ event[v].error
  BY <1>2 DEF CaptureInv, ErrorInv
<1>4. UNCHANGED <<scenario, budget, phase, history, errors, verdict>>
  BY DEF Issue
<1>5. ValidWorkerPlan(scenario)'
  BY <1>2, <1>4
<1>6. CASE pc'[w] = "done"
  <2>1. /\ next[w] = Len(Share(scenario, w)) /\ pc' = [pc EXCEPT ![w] = "done"]
        /\ UNCHANGED <<next, event, clock>>
    BY <1>1, <1>6 DEF Issue, Goto, Indexes, Share
  <2>2. TypeInv'
    BY <1>1, <1>4, <2>1 DEF CaptureInv, TypeInv, Resting
  <2>3. PhaseInv'
    BY <1>2, <1>4, <1>5 DEF PhaseInv
  <2>4. WorkersInv'
    BY <1>1, <1>4, <2>1 DEF WorkersInv, WorkerOK, Busy
  <2>5. HistoryInv'
    <3>1. \A v \in Worker : Taken(pc'[v], next[v]) = Taken(pc[v], next[v])
      BY <1>1, <1>2, <2>1 DEF Taken, Busy
    <3>2. \A v \in Worker : pc'[v] \in Busy => pc[v] \in Busy
      BY <1>1, <2>1 DEF Busy
    <3>3. HistoryOK(history, scenario, clock, pc', next, event)
      BY <1>1, <3>1, <3>2, HistoryStays
    <3> QED
      BY <1>4, <2>1, <3>3 DEF HistoryInv
  <2>6. ErrorInv'
    BY <1>1, <1>2, <1>3, <1>4, <2>1 DEF ErrorInv, Raised
  <2> QED
    BY <2>2, <2>3, <2>4, <2>5, <2>6 DEF CaptureInv
<1>7. CASE pc'[w] # "done"
  <2>1. /\ clock' \in Nat /\ clock <= clock' /\ pc' = [pc EXCEPT ![w] = "called"]
        /\ next' = [next EXCEPT ![w] = @ + 1]
        /\ \E e : /\ event' = [event EXCEPT ![w] = e]
                  /\ Owned(e, scenario, clock') /\ e.worker = w /\ e.sequence = next[w]
                  /\ e.error = FALSE /\ e.started = clock'
    BY <1>7, IssueCalls
  <2>2. PICK e : /\ event' = [event EXCEPT ![w] = e]
                 /\ Owned(e, scenario, clock') /\ e.worker = w /\ e.sequence = next[w]
                 /\ e.error = FALSE /\ e.started = clock'
    BY <2>1
  <2>3. /\ pc'[w] = "called" /\ next'[w] = next[w] + 1 /\ event'[w] = e
        /\ \A v \in Worker : v # w => /\ pc'[v] = pc[v] /\ next'[v] = next[v]
                                      /\ event'[v] = event[v]
        /\ pc' \in [Worker -> Busy \cup Resting] /\ next' \in [Worker -> Nat]
        /\ DOMAIN event' = Worker /\ event' = [v \in Worker |-> event'[v]]
    BY <1>1, <2>1, <2>2 DEF Busy
  <2>4. TypeInv'
    BY <1>4, <2>1, <2>3 DEF CaptureInv, TypeInv
  <2>5. PhaseInv'
    BY <1>2, <1>4, <1>5 DEF PhaseInv
  <2>6. WorkersInv'
    <3>1. ASSUME NEW v \in Worker, v # w
          PROVE  WorkerOK(v, pc[v], next[v], event[v], scenario, clock')
      BY <1>1, <2>1, WorkerStays
    <3>2. WorkerOK(w, "called", next[w] + 1, e, scenario, clock')
      <4>1. next[w] \in Nat /\ Len(Share(scenario, w)) \in Nat /\ e.sequence < Len(Share(scenario, w))
        BY <1>1, <2>2, ShareMeans DEF CaptureInv, TypeInv, Owned
      <4> QED
        BY <2>2, <4>1 DEF WorkerOK, Busy
    <3> QED
      BY <1>1, <1>4, <2>3, <3>1, <3>2 DEF WorkersInv
  <2>7. HistoryInv'
    <3>1. \A v \in Worker : Taken(pc'[v], next'[v]) = Taken(pc[v], next[v])
      <4>1. next[w] \in Nat /\ (next[w] + 1) - 1 = next[w]
        BY <1>1
      <4>2. Taken(pc'[w], next'[w]) = Taken(pc[w], next[w])
        BY <1>2, <2>3, <4>1 DEF Taken, Busy
      <4> QED
        BY <2>3, <4>2
    <3>2. \A v \in Worker : pc'[v] \in Busy =>
            \/ pc[v] \in Busy /\ event'[v].started = event[v].started
            \/ event'[v].started \in Nat /\ clock <= event'[v].started
      BY <2>1, <2>2, <2>3
    <3>3. HistoryOK(history, scenario, clock, pc, next, event) /\ clock \in Nat
      BY <1>1
    <3>4. clock' \in Nat /\ clock <= clock'
      BY <2>1
    <3>5. HistoryOK(history, scenario, clock', pc', next', event')
      BY ONLY <3>1, <3>2, <3>3, <3>4, HistoryStays
    <3> QED
      BY <1>4, <3>5 DEF HistoryInv
  <2>8. ErrorInv'
    BY <1>2, <1>3, <1>4, <2>3 DEF ErrorInv, Raised
  <2> QED
    BY <2>4, <2>5, <2>6, <2>7, <2>8 DEF CaptureInv
<1> QED
  BY <1>6, <1>7

LEMMA CaptureCall ==
  ASSUME NEW w \in Worker
  PROVE  CaptureInv /\ Call(w) => CaptureInv'
<1> SUFFICES ASSUME CaptureInv, Call(w) PROVE CaptureInv'
  OBVIOUS
<1>1. /\ pc \in [Worker -> Busy \cup Resting] /\ clock \in Nat /\ next \in [Worker -> Nat]
      /\ DOMAIN event = Worker /\ event = [v \in Worker |-> event[v]] /\ errors \in Nat
      /\ HistoryOK(history, scenario, clock, pc, next, event)
      /\ \A v \in Worker : /\ WorkerOK(v, pc[v], next[v], event[v], scenario, clock)
                           /\ pc[v] = "done" => \/ next[v] = Len(Share(scenario, v))
                                                \/ Failed(history) # {}
  BY DEF CaptureInv, TypeInv, WorkersInv, HistoryInv
<1>2. phase = "running" /\ ValidWorkerPlan(scenario) /\ verdict = NoVerdict /\ pc[w] = "called"
  BY Working DEF Call
<1>3. errors > 0 => \/ Raised \/ Failed(history) # {}
                    \/ \E v \in Worker : pc[v] \in {"returned", "finished"} /\ event[v].error
  BY <1>2 DEF CaptureInv, ErrorInv
<1>4. UNCHANGED <<scenario, budget, phase, next, clock, history, verdict>>
  BY DEF Call
<1>5. ValidWorkerPlan(scenario)'
  BY <1>2, <1>4
<1>6. /\ Owned(event[w], scenario, clock) /\ event[w].worker = w /\ event[w].error = FALSE
      /\ event[w].sequence = next[w] - 1 /\ next[w] > 0 /\ next[w] <= Len(Share(scenario, w))
  BY <1>1, <1>2 DEF WorkerOK, Busy
<1>7. /\ pc' = [pc EXCEPT ![w] = "returned"]
      /\ \/ errors' = errors /\ \E r : event' = [event EXCEPT ![w].actual = r]
         \/ errors' = errors + 1 /\ event' = [event EXCEPT ![w].error = TRUE]
  BY DEF Call, Goto, MayRaise
<1>8. /\ pc'[w] = "returned" /\ pc' \in [Worker -> Busy \cup Resting]
      /\ \A v \in Worker : v # w => pc'[v] = pc[v] /\ event'[v] = event[v]
      /\ DOMAIN event' = Worker /\ event' = [v \in Worker |-> event'[v]]
  BY <1>1, <1>7 DEF Busy
<1>9. /\ DOMAIN event'[w] = Fields
      /\ event'[w].worker = event[w].worker /\ event'[w].sequence = event[w].sequence
      /\ event'[w].index = event[w].index /\ event'[w].operation = event[w].operation
      /\ event'[w].started = event[w].started /\ event'[w].error \in BOOLEAN
      /\ errors' = errors \/ (event'[w].error = TRUE /\ errors' = errors + 1)
  <2>1. DOMAIN event[w] = Fields /\ event[w].error = FALSE
    BY <1>6 DEF Owned
  <2>2. CASE errors' = errors /\ \E r : event' = [event EXCEPT ![w].actual = r]
    <3>1. PICK r : event' = [event EXCEPT ![w].actual = r]
      BY <2>2
    <3>2. event'[w] = [event[w] EXCEPT !.actual = r]
      BY <1>1, <3>1
    <3> QED
      BY <2>1, <2>2, <3>2 DEF Fields
  <2>3. CASE errors' = errors + 1 /\ event' = [event EXCEPT ![w].error = TRUE]
    BY <1>1, <2>1, <2>3 DEF Fields
  <2> QED
    BY <1>7, <2>2, <2>3
<1>10. TypeInv'
  BY <1>1, <1>4, <1>8, <1>9 DEF CaptureInv, TypeInv
<1>11. PhaseInv'
  BY <1>2, <1>4, <1>5 DEF PhaseInv
<1>12. WorkersInv'
  <2>1. Owned(event'[w], scenario, clock)
    BY <1>6, <1>9, Zenon DEF Owned
  <2>2. WorkerOK(w, pc'[w], next[w], event'[w], scenario, clock)
    BY <1>6, <1>8, <1>9, <2>1 DEF WorkerOK
  <2> QED
    BY <1>1, <1>4, <1>8, <2>2 DEF WorkersInv
<1>13. HistoryInv'
  <2>1. \A v \in Worker : Taken(pc'[v], next[v]) = Taken(pc[v], next[v])
    BY <1>2, <1>8 DEF Taken, Busy
  <2>2. \A v \in Worker : pc'[v] \in Busy => pc[v] \in Busy /\ event'[v].started = event[v].started
    BY <1>2, <1>8, <1>9 DEF Busy
  <2>3. HistoryOK(history, scenario, clock, pc', next, event')
    BY <1>1, <2>1, <2>2, HistoryStays
  <2> QED
    BY <1>4, <2>3 DEF HistoryInv
<1>14. ErrorInv'
  BY <1>2, <1>3, <1>4, <1>6, <1>8, <1>9 DEF ErrorInv, Raised
<1> QED
  BY <1>10, <1>11, <1>12, <1>13, <1>14 DEF CaptureInv

LEMMA CaptureFinish ==
  ASSUME NEW w \in Worker
  PROVE  CaptureInv /\ Finish(w) => CaptureInv'
<1> SUFFICES ASSUME CaptureInv, Finish(w) PROVE CaptureInv'
  OBVIOUS
<1>1. /\ pc \in [Worker -> Busy \cup Resting] /\ clock \in Nat /\ next \in [Worker -> Nat]
      /\ DOMAIN event = Worker /\ event = [v \in Worker |-> event[v]] /\ errors \in Nat
      /\ HistoryOK(history, scenario, clock, pc, next, event)
      /\ \A v \in Worker : /\ WorkerOK(v, pc[v], next[v], event[v], scenario, clock)
                           /\ pc[v] = "done" => \/ next[v] = Len(Share(scenario, v))
                                                \/ Failed(history) # {}
  BY DEF CaptureInv, TypeInv, WorkersInv, HistoryInv
<1>2. phase = "running" /\ ValidWorkerPlan(scenario) /\ verdict = NoVerdict /\ pc[w] = "returned"
  BY Working DEF Finish
<1>3. errors > 0 => \/ Raised \/ Failed(history) # {}
                    \/ \E v \in Worker : pc[v] \in {"returned", "finished"} /\ event[v].error
  BY <1>2 DEF CaptureInv, ErrorInv
<1>4. UNCHANGED <<scenario, budget, phase, next, history, errors, verdict>>
  BY DEF Finish
<1>5. ValidWorkerPlan(scenario)'
  BY <1>2, <1>4
<1>6. PICK t \in 0..MaxClock : ReadClock(t) /\ event' = [event EXCEPT ![w].finished = t]
  BY DEF Finish
<1>7. t = clock' /\ clock' \in Nat /\ clock <= clock'
  BY <1>1, <1>6 DEF ReadClock
<1>8. /\ Owned(event[w], scenario, clock) /\ event[w].worker = w
      /\ event[w].sequence = next[w] - 1 /\ next[w] > 0 /\ next[w] <= Len(Share(scenario, w))
  BY <1>1, <1>2 DEF WorkerOK, Busy
<1>9. /\ pc' = [pc EXCEPT ![w] = "finished"]
      /\ pc'[w] = "finished" /\ pc' \in [Worker -> Busy \cup Resting]
      /\ \A v \in Worker : v # w => pc'[v] = pc[v] /\ event'[v] = event[v]
      /\ DOMAIN event' = Worker /\ event' = [v \in Worker |-> event'[v]]
  BY <1>1, <1>6 DEF Busy, Finish, Goto
<1>10. /\ DOMAIN event'[w] = Fields
       /\ event'[w].worker = event[w].worker /\ event'[w].sequence = event[w].sequence
       /\ event'[w].index = event[w].index /\ event'[w].operation = event[w].operation
       /\ event'[w].started = event[w].started /\ event'[w].error = event[w].error
       /\ event'[w].finished = t
  <2>1. DOMAIN event[w] = Fields
    BY <1>8 DEF Owned
  <2> QED
    BY <1>1, <1>6, <2>1 DEF Fields
<1>11. TypeInv'
  <2>1. TypeInv
    BY DEF CaptureInv
  <2>2. clock' \in Nat
    BY <1>7
  <2> QED
    BY <1>4, <1>9, <2>1, <2>2 DEF TypeInv
<1>12. PhaseInv'
  BY <1>2, <1>4, <1>5 DEF PhaseInv
<1>13. WorkersInv'
  <2>1. Owned(event'[w], scenario, clock)
    BY <1>8, <1>10, Zenon DEF Owned
  <2>2. Owned(event'[w], scenario, clock')
    BY <1>1, <1>7, <2>1, EventStays
  <2>3. Stamped(event'[w], clock')
    BY <1>1, <1>7, <1>10, <2>1 DEF Stamped, Owned
  <2>4. WorkerOK(w, pc'[w], next[w], event'[w], scenario, clock')
    BY <1>8, <1>9, <1>10, <2>2, <2>3 DEF WorkerOK
  <2>5. ASSUME NEW v \in Worker, v # w
        PROVE  WorkerOK(v, pc[v], next[v], event[v], scenario, clock')
    BY <1>1, <1>7, WorkerStays
  <2> QED
    BY <1>1, <1>4, <1>9, <2>4, <2>5 DEF WorkersInv
<1>14. HistoryInv'
  <2>1. \A v \in Worker : Taken(pc'[v], next[v]) = Taken(pc[v], next[v])
    BY <1>2, <1>9 DEF Taken, Busy
  <2>2. \A v \in Worker : pc'[v] \in Busy => pc[v] \in Busy /\ event'[v].started = event[v].started
    BY <1>2, <1>9, <1>10 DEF Busy
  <2>3. HistoryOK(history, scenario, clock', pc', next, event')
    BY <1>1, <1>7, <2>1, <2>2, HistoryStays
  <2> QED
    BY <1>4, <2>3 DEF HistoryInv
<1>15. ErrorInv'
  BY <1>2, <1>3, <1>4, <1>9, <1>10 DEF ErrorInv, Raised
<1> QED
  BY <1>11, <1>12, <1>13, <1>14, <1>15 DEF CaptureInv

LEMMA CaptureRecord ==
  ASSUME NEW w \in Worker
  PROVE  CaptureInv /\ Record(w) => CaptureInv'
<1> SUFFICES ASSUME CaptureInv, Record(w) PROVE CaptureInv'
  OBVIOUS
<1>1. /\ pc \in [Worker -> Busy \cup Resting] /\ clock \in Nat /\ next \in [Worker -> Nat]
      /\ DOMAIN event = Worker /\ event = [v \in Worker |-> event[v]] /\ errors \in Nat
      /\ HistoryOK(history, scenario, clock, pc, next, event)
      /\ \A v \in Worker : /\ WorkerOK(v, pc[v], next[v], event[v], scenario, clock)
                           /\ pc[v] = "done" => \/ next[v] = Len(Share(scenario, v))
                                                \/ Failed(history) # {}
      /\ history \in Seq({history[k] : k \in DOMAIN history})
  BY DEF CaptureInv, TypeInv, WorkersInv, HistoryInv
<1>2. phase = "running" /\ ValidWorkerPlan(scenario) /\ verdict = NoVerdict /\ pc[w] = "finished"
  BY Working DEF Record
<1>3. errors > 0 => \/ Raised \/ Failed(history) # {}
                    \/ \E v \in Worker : pc[v] \in {"returned", "finished"} /\ event[v].error
  BY <1>2 DEF CaptureInv, ErrorInv
<1>4. /\ UNCHANGED <<scenario, budget, phase, next, clock, verdict>>
      /\ history' = Append(history, event[w])
      /\ event' = [event EXCEPT ![w] = NoEvent]
  BY DEF Record
<1>5. ValidWorkerPlan(scenario)'
  BY <1>2, <1>4
<1>6. \/ /\ pc' = [pc EXCEPT ![w] = IF event[w].error THEN "done" ELSE "loop"]
         /\ errors' = errors
      \/ pc' = [pc EXCEPT ![w] = "raised"] /\ errors' = errors + 1
  BY DEF Record, Goto, MayRaise
<1>7. /\ pc'[w] \in {"done", "loop", "raised"} /\ pc' \in [Worker -> Busy \cup Resting]
      /\ pc'[w] = "done" => event[w].error
      /\ pc'[w] = "raised" \/ errors' = errors
      /\ pc'[w] # "done" => pc'[w] = "raised" \/ ~event[w].error
      /\ errors' \in Nat
      /\ \A v \in Worker : v # w => pc'[v] = pc[v] /\ event'[v] = event[v]
      /\ DOMAIN event' = Worker /\ event' = [v \in Worker |-> event'[v]]
  <2>1. \A v \in Worker : v # w => pc'[v] = pc[v] /\ event'[v] = event[v]
    BY <1>1, <1>4, <1>6
  <2>2. DOMAIN event' = Worker /\ event' = [v \in Worker |-> event'[v]]
    BY <1>1, <1>4
  <2>3. CASE /\ pc' = [pc EXCEPT ![w] = IF event[w].error THEN "done" ELSE "loop"]
             /\ errors' = errors
    <3>1. pc'[w] = IF event[w].error THEN "done" ELSE "loop"
      BY <1>1, <2>3
    <3>2. pc' \in [Worker -> Busy \cup Resting]
      BY <1>1, <2>3 DEF Resting
    <3> QED
      BY <1>1, <2>1, <2>2, <2>3, <3>1, <3>2
  <2>4. CASE pc' = [pc EXCEPT ![w] = "raised"] /\ errors' = errors + 1
    <3>1. pc'[w] = "raised" /\ pc' \in [Worker -> Busy \cup Resting]
      BY <1>1, <2>4 DEF Resting
    <3> QED
      BY <1>1, <2>1, <2>2, <2>4, <3>1
  <2> QED
    BY <1>6, <2>3, <2>4
<1>8. /\ \A k \in DOMAIN history : k \in DOMAIN history' /\ history'[k] = history[k]
      /\ history'[Len(history) + 1] = event[w] /\ Len(history) + 1 \in DOMAIN history'
      /\ history' \in Seq({history'[k] : k \in DOMAIN history'})
  <2>1. LET g == Append(history, event[w])
        IN  /\ \A k \in DOMAIN history : k \in DOMAIN g /\ g[k] = history[k]
            /\ g[Len(history) + 1] = event[w] /\ Len(history) + 1 \in DOMAIN g
            /\ g \in Seq({g[k] : k \in DOMAIN g})
    <3>1. history \in Seq({history[k] : k \in DOMAIN history})
      BY <1>1
    <3> QED
      BY ONLY <3>1, AppendMeans, ZenonT(60)
  <2> QED
    BY <1>4, <2>1, Zenon
<1>9. /\ Failed(history) # {} => Failed(history') # {}
      /\ event[w].error => Failed(history') # {}
  BY <1>8 DEF Failed
<1>10. TypeInv'
  BY <1>1, <1>4, <1>7, <1>8 DEF CaptureInv, TypeInv
<1>11. PhaseInv'
  BY <1>2, <1>4, <1>5 DEF PhaseInv
<1>12. WorkersInv'
  <2>1. WorkerOK(w, pc'[w], next[w], event'[w], scenario, clock)
    <3>1. next[w] <= Len(Share(scenario, w))
      BY <1>1 DEF WorkerOK
    <3> QED
      BY <1>7, <3>1 DEF WorkerOK, Busy
  <2> QED
    BY <1>1, <1>4, <1>7, <1>9, <2>1 DEF WorkersInv
<1>13. HistoryInv'
  <2>1. pc'[w] \notin Busy /\ next[w] \in Nat
    BY <1>1, <1>7 DEF Busy
  <2>2. HistoryOK(Append(history, event[w]), scenario, clock, pc', next, event')
    BY <1>1, <1>2, <1>7, <2>1, HistoryGrows, ZenonT(60)
  <2> QED
    BY <1>4, <2>2 DEF HistoryInv
<1>14. ErrorInv'
  <2>1. ASSUME errors' > 0
        PROVE  \/ Raised' \/ Failed(history') # {}
               \/ \E v \in Worker : pc'[v] \in {"returned", "finished"} /\ event'[v].error
    <3>1. CASE pc'[w] = "raised"
      BY <3>1 DEF Raised
    <3>2. CASE pc'[w] # "raised"
      <4>1. errors > 0
        BY <1>7, <2>1, <3>2
      <4>2. CASE Raised
        BY <1>2, <1>7, <4>2 DEF Raised
      <4>3. CASE Failed(history) # {}
        BY <1>9, <4>3
      <4>4. CASE \E v \in Worker : pc[v] \in {"returned", "finished"} /\ event[v].error
        BY <1>7, <1>9, <4>4
      <4> QED
        BY <1>3, <4>1, <4>2, <4>3, <4>4
    <3> QED
      BY <3>1, <3>2
  <2> QED
    BY <2>1 DEF ErrorInv
<1> QED
  BY <1>10, <1>11, <1>12, <1>13, <1>14 DEF CaptureInv

LEMMA CaptureKept == CaptureInv /\ UNCHANGED vars => CaptureInv'
<1> SUFFICES ASSUME CaptureInv, UNCHANGED vars PROVE CaptureInv'
  OBVIOUS
<1>1. UNCHANGED <<scenario, budget, dev, phase, pc, next, event, clock, history, errors, shadow,
                  verdict>>
  BY DEF vars
<1> QED
  BY <1>1 DEF CaptureInv, TypeInv, PhaseInv, WorkersInv, HistoryInv, ErrorInv, Raised

LEMMA CaptureStep == CaptureInv /\ [Next]_vars => CaptureInv'
<1> SUFFICES ASSUME CaptureInv, [Next]_vars PROVE CaptureInv'
  OBVIOUS
<1>1. CASE Validate
  BY <1>1, CaptureValidate
<1>2. CASE Open
  BY <1>2, CaptureOpen
<1>3. CASE Leave
  BY <1>3, CaptureLeave
<1>4. ASSUME NEW w \in Worker, WorkerStep(w)
      PROVE  CaptureInv'
  BY <1>4, CaptureArrive, CaptureIssue, CaptureCall, CaptureFinish, CaptureRecord DEF WorkerStep
<1>5. CASE Timeout
  BY <1>5, CaptureTimeout
<1>6. CASE Ended
  BY <1>6, CaptureKept DEF Ended
<1>7. CASE UNCHANGED vars
  BY <1>7, CaptureKept
<1> QED
  BY <1>1, <1>2, <1>3, <1>4, <1>5, <1>6, <1>7 DEF Next

-----------------------------------------------------------------------------
(***************************************************************************)
(* What evaluate_concurrent hands to check_history.                        *)
(***************************************************************************)
LEMMA Shift ==
  ASSUME NEW a \in Int
  PROVE  /\ \A b \in Int : a + 1 = b + 1 => a = b
         /\ \A i \in Int : a + 1 = i => a = i - 1
OBVIOUS

\* Events of the workers' shares, none twice, can be judged; if as many are
\* there as the scenario has operations, they are all of them.
LEMMA CapturedMeans ==
  ASSUME NEW h, h \in Seq({h[k] : k \in DOMAIN h}), NEW plan, PlanOK(plan), ValidWorkerPlan(plan),
         NEW now \in Nat, NEW at, NEW n, \A w \in Worker : n[w] \in Nat,
         \A w \in Worker : at[w] \notin Busy, NEW ev, HistoryOK(h, plan, now, at, n, ev)
  PROVE  /\ Playable(h) /\ ~Malformed(h)
         /\ \A j, k \in 1..Len(h) : h[j].index = h[k].index => j = k
         /\ \A k \in 1..Len(h) : /\ h[k].index + 1 \in 1..Len(plan.operations)
                                 /\ h[k].operation = plan.operations[h[k].index + 1]
                                 /\ h[k].worker = plan.worker_ids[h[k].index + 1]
         /\ Len(h) = Len(plan.operations) /\ Failed(h) = {} =>
              /\ WellFormed(h)
              /\ \A i \in 1..Len(plan.operations) : \E k \in 1..Len(h) : h[k].index = i - 1
<1> DEFINE N == Len(plan.operations)
           H == Len(h)
<1>1. /\ \A k \in DOMAIN h : /\ Owned(h[k], plan, now) /\ Stamped(h[k], now)
                             /\ h[k].sequence < Taken(at[h[k].worker], n[h[k].worker])
      /\ \A w \in Worker : \A s \in 0..Taken(at[w], n[w]) - 1 :
           \E k \in DOMAIN h : h[k].worker = w /\ h[k].sequence = s
      /\ \A j, k \in DOMAIN h :
           h[j].worker = h[k].worker /\ h[j].sequence = h[k].sequence => j = k
      /\ \A j, k \in DOMAIN h : SameWorkerBefore(h[j], h[k]) => h[j].finished <= h[k].started
  BY DEF HistoryOK
<1>2. H \in Nat /\ DOMAIN h = 1..H
  BY LenProperties
<1>3. N \in Nat /\ DOMAIN plan.operations = 1..N
  BY DEF PlanOK
<1> HIDE DEF N, H
<1>4. ASSUME NEW k \in 1..H
      PROVE  /\ h[k].index \in 0..N - 1 /\ h[k].index + 1 \in 1..N
             /\ h[k].worker = plan.worker_ids[h[k].index + 1]
             /\ h[k].operation = plan.operations[h[k].index + 1]
             /\ h[k].worker \in Worker /\ h[k].sequence \in Nat
             /\ h[k].started \in Nat /\ h[k].finished \in Nat
             /\ h[k].started <= h[k].finished
  <2>1. Owned(h[k], plan, now) /\ Stamped(h[k], now)
    BY <1>1, <1>2
  <2>2. /\ h[k].index \in 0..N - 1 /\ h[k].index + 1 \in 1..N
        /\ h[k].worker = plan.worker_ids[h[k].index + 1]
    BY <2>1, OwnedMeans DEF N
  <2> QED
    BY <2>1, <2>2 DEF Owned, Stamped
<1>5. ASSUME NEW i \in 1..N
      PROVE  Request(plan.operations[i])
  BY <1>3 DEF ValidWorkerPlan, ValidScenario, PlanOK, Request
<1>6. Playable(h)
  <2>1. ASSUME NEW k \in 1..H PROVE Event(h[k]) /\ Request(h[k].operation)
    <3>1. h[k].worker \in Int
      BY <1>4, WorkersAssumption DEF Worker
    <3>2. h[k].index \in Int
      BY <1>3, <1>4
    <3> QED
      BY <1>4, <1>5, <3>1, <3>2 DEF Event
  <2> QED
    BY <1>2, <2>1 DEF Playable, Recorded, H
<1>7. ASSUME NEW j \in 1..H, NEW k \in 1..H, h[j].index = h[k].index
      PROVE  j = k
  <2>1. Owned(h[k], plan, now) /\ Owned(h[j], plan, now)
    BY <1>1, <1>2
  <2>2. h[j].worker = h[k].worker /\ h[j].sequence = h[k].sequence
    BY <1>7, <2>1, OwnedMeans, SMTT(40)
  <2> QED
    BY <1>1, <1>2, <2>2
<1>8. ~Malformed(h)
  <2> SUFFICES ASSUME NEW k \in Scanned(h)
               PROVE  /\ ~(h[k].finished < h[k].started)
                      /\ \A j \in 1..k - 1 :
                           /\ h[j].index # h[k].index
                           /\ ~(h[j].worker = h[k].worker /\ h[j].sequence = h[k].sequence)
    BY DEF Malformed
  <2>1. k \in 1..H
    BY <1>2 DEF Scanned
  <2>2. ~(h[k].finished < h[k].started)
    BY <1>4, <2>1
  <2>3. ASSUME NEW j \in 1..k - 1
        PROVE  /\ h[j].index # h[k].index
               /\ ~(h[j].worker = h[k].worker /\ h[j].sequence = h[k].sequence)
    <3>1. j \in 1..H /\ j # k
      BY <1>2, <2>1
    <3> QED
      BY <1>1, <1>2, <1>7, <2>1, <3>1
  <2> QED
    BY <2>2, <2>3
<1>9. ASSUME H = N
      PROVE  \A i \in 1..N : \E k \in 1..H : h[k].index = i - 1
  <2> DEFINE place == [k \in 1..H |-> h[k].index + 1]
  <2>1. place \in [1..H -> 1..N] /\ \A k \in 1..H : place[k] = h[k].index + 1
    BY <1>4
  <2>2. IsFiniteSet(1..N) /\ Cardinality(1..N) = N /\ Cardinality(1..H) = N
    BY <1>3, <1>9, FS_Interval
  <2> HIDE DEF place
  <2>3. place \in Injection(1..H, 1..N)
    <3>1. ASSUME NEW j \in 1..H, NEW k \in 1..H, place[j] = place[k]
          PROVE  j = k
      <4>1. h[j].index \in 0..N - 1 /\ h[k].index \in 0..N - 1
        BY <1>4
      <4>2. h[j].index \in Int /\ h[k].index \in Int /\ h[j].index + 1 = h[k].index + 1
        BY <1>3, <2>1, <3>1, <4>1, SMTT(40)
      <4>3. h[j].index = h[k].index
        BY <4>2, Shift
      <4> QED
        BY <1>7, <4>3
    <3> QED
      BY <2>1, <3>1 DEF Injection, IsInjective
  <2>4. place \in Surjection(1..H, 1..N)
    BY <2>2, <2>3, FS_Injection
  <2>5. ASSUME NEW i \in 1..N
        PROVE  \E k \in 1..H : h[k].index = i - 1
    <3>1. PICK k \in 1..H : place[k] = i
      BY <2>4 DEF Surjection
    <3>2. h[k].index \in 0..N - 1 /\ h[k].index + 1 = i
      BY <1>4, <2>1, <3>1
    <3>3. h[k].index \in Int /\ i \in Int
      BY <1>3, <3>2
    <3> QED
      BY <3>2, <3>3, Shift
  <2> QED
    BY <2>5
<1>10. ASSUME H = N, Failed(h) = {}
       PROVE  WellFormed(h)
  <2>1. {h[k].index : k \in DOMAIN h} = 0..H - 1
    <3>1. ASSUME NEW x \in 0..H - 1
          PROVE  \E k \in 1..H : h[k].index = x
      <4>1. x + 1 \in 1..N /\ (x + 1) - 1 = x
        BY <1>3, <1>10
      <4> QED
        BY <1>9, <1>10, <4>1
    <3>2. \A k \in 1..H : h[k].index \in 0..H - 1
      BY <1>4, <1>10
    <3> QED
      BY <1>2, <3>1, <3>2
  <2>2. ASSUME NEW k \in DOMAIN h, NEW s \in 0..h[k].sequence
        PROVE  \E j \in DOMAIN h : h[j].worker = h[k].worker /\ h[j].sequence = s
    <3>1. h[k].worker \in Worker /\ h[k].sequence \in Nat
      BY <1>2, <1>4
    <3>2. Taken(at[h[k].worker], n[h[k].worker]) = n[h[k].worker]
      BY <3>1 DEF Taken
    <3>3. h[k].sequence < n[h[k].worker] /\ n[h[k].worker] \in Nat
      BY <1>1, <3>1, <3>2
    <3>4. s \in 0..n[h[k].worker] - 1
      BY <3>1, <3>3
    <3>5. s \in 0..Taken(at[h[k].worker], n[h[k].worker]) - 1
      BY <3>2, <3>4
    <3> QED
      BY <1>1, <3>1, <3>5, SMTT(40)
  <2>3. \A k \in DOMAIN h : ValidOperation(h[k].operation)
    BY <1>2, <1>4, <1>5 DEF Request
  <2>4. ASSUME NEW j \in DOMAIN h, NEW k \in DOMAIN h, SameWorkerBefore(h[j], h[k])
        PROVE  ~(h[j].finished > h[k].started)
    <3>1. h[j].finished <= h[k].started
      BY <1>1, <2>4
    <3> QED
      BY <1>2, <1>4, <3>1
  <2>5. ~Disordered(h)
    BY <2>1, <2>2, <2>3, <2>4 DEF Disordered, H
  <2> QED
    BY <1>8, <1>10, <2>5 DEF WellFormed
<1> QED
  BY <1>4, <1>6, <1>7, <1>8, <1>9, <1>10 DEF N, H

\* A judgement of workers of which none raised.
LEMMA JudgedMeans ==
  ASSUME CaptureInv, Leave, ~Raised
  PROVE  /\ Judgement # InvalidCapture /\ Judgement.status # "invalid"
         /\ Judgement.status = "inconclusive" =>
              \/ Len(history) # Len(scenario.operations) \/ Failed(history) # {}
              \/ budget < Exhaustive(Len(history))
         /\ errors > 0 => Judgement.status = "inconclusive"
         /\ Judgement.status \in {"pass", "fail"} =>
              /\ Len(history) = Len(scenario.operations) /\ WellFormed(history)
              /\ Playable(history)
         /\ Judgement.status = "pass" =>
              /\ Explainable(scenario.capacity, history)
              /\ \E p \in Orders(Len(history)) :
                   /\ Explains(p, scenario.capacity, history)
                   /\ \A k \in DOMAIN p : Judgement.witness[k] = history[p[k]].index
         /\ Judgement.status = "fail" => ~Explainable(scenario.capacity, history)
<1> DEFINE c == scenario.capacity
           N == Len(scenario.operations)
           result == CheckHistory(c, history, N, budget)
<1>1. /\ phase = "running" /\ Joined /\ ValidWorkerPlan(scenario)
      /\ PlanOK(scenario) /\ clock \in Nat /\ budget \in Nat
      /\ \A w \in Worker : next[w] \in Nat
      /\ history \in Seq({history[k] : k \in DOMAIN history})
      /\ HistoryOK(history, scenario, clock, pc, next, event)
  BY DEF Leave, CaptureInv, TypeInv, PhaseInv, HistoryInv
<1>2. \A w \in Worker : pc[w] \notin Busy
  BY <1>1 DEF Joined, Busy
<1>3. /\ Playable(history) /\ ~Malformed(history)
      /\ Len(history) = N /\ Failed(history) = {} => WellFormed(history)
  BY <1>1, <1>2, CapturedMeans
<1>4. ValidCapacity(c) /\ c \in Nat
  <2>1. ValidCapacity(c)
    BY <1>1 DEF ValidWorkerPlan, ValidScenario
  <2> QED
    BY <1>1, <2>1, BoundsAssumption DEF ValidCapacity, PlanOK
<1>5. errors > 0 => Failed(history) # {}
  <2>1. \A w \in Worker : pc[w] \notin {"returned", "finished"}
    BY <1>1 DEF Joined
  <2> QED
    BY <1>1, <2>1 DEF CaptureInv, ErrorInv
<1>6. \/ /\ result.status = "inconclusive" /\ result.reason # "INVALID_CAPTURE"
         /\ Len(history) # N \/ Failed(history) # {}
      \/ Len(history) = N /\ WellFormed(history)
  <2>1. Disordered(history) => ~WellFormed(history)
    BY DEF WellFormed
  <2> HIDE DEF N, result
  <2>2. \/ /\ result.status = "inconclusive" /\ result.reason # "INVALID_CAPTURE"
           /\ Len(history) # N \/ Failed(history) # {}
        \/ /\ result.status = "invalid"
           /\ \/ Malformed(history)
              \/ Len(history) = N /\ Failed(history) = {} /\ (Disordered(history) \/ ~ValidCapacity(c))
        \/ Len(history) = N /\ WellFormed(history) /\ ValidCapacity(c)
    BY CheckCases DEF N, result
  <2> QED
    BY <1>3, <1>4, <2>1, <2>2
<1>7. Judgement = IF result.status = "invalid" THEN InvalidCapture ELSE result
  BY DEF Judgement
<1>8. InvalidCapture.reason = "INVALID_CAPTURE"
  BY DEF InvalidCapture
<1> HIDE DEF result, N
<1>9. CASE /\ result.status = "inconclusive" /\ result.reason # "INVALID_CAPTURE"
           /\ Len(history) # N \/ Failed(history) # {}
  <2>1. Judgement = result
    BY <1>7, <1>9
  <2>2. Judgement # InvalidCapture
    BY <1>8, <1>9, <2>1
  <2> QED
    BY <1>9, <2>1, <2>2 DEF N
<1>10. CASE Len(history) = N /\ WellFormed(history)
  <2>1. result = CheckHistory(c, history, Len(history), budget)
    BY <1>10 DEF result, N
  <2> HIDE DEF c
  <2>2. /\ result.status \in {"pass", "fail", "inconclusive"}
        /\ result.status = "pass" =>
             /\ Explainable(c, history)
             /\ \E p \in Orders(Len(history)) :
                  /\ Explains(p, c, history)
                  /\ \A k \in DOMAIN p : result.witness[k] = history[p[k]].index
        /\ result.status = "fail" => ~Explainable(c, history)
        /\ result.status = "inconclusive" => budget < Exhaustive(Len(history))
        /\ result.reason # "INVALID_CAPTURE"
    BY <1>1, <1>3, <1>4, <1>10, <2>1, CheckWellFormed
  <2>3. Judgement = result
    BY <1>7, <2>2
  <2>4. Judgement # InvalidCapture
    BY <1>8, <2>2, <2>3
  <2>5. ~(errors > 0)
    BY <1>5, <1>10 DEF WellFormed
  <2> QED
    BY <1>3, <1>10, <2>2, <2>3, <2>4, <2>5 DEF c, N
<1> QED
  BY <1>6, <1>9, <1>10

\* How a run may come to its end.
LEMMA Endings ==
  ASSUME CaptureInv, [Next]_vars, phase' = "ended"
  PROVE  /\ UNCHANGED <<scenario, budget, history, shadow>>
         /\ \/ phase = "ended" /\ verdict' = verdict /\ errors' = errors
            \/ verdict'.status = "ValueError" /\ errors = 0 /\ errors' = errors
            \/ errors' = errors + 1 /\ verdict' = ExecutionError
            \/ Leave /\ Raised /\ errors' = errors /\ verdict' = ExecutionError
            \/ Leave /\ ~Raised /\ errors' = errors /\ verdict' = Judgement
<1>1. CASE Validate
  <2>1. /\ UNCHANGED <<scenario, budget, history, errors, shadow>>
        /\ verdict' = [status |-> "ValueError", reason |-> ""] /\ phase = "validate"
    BY <1>1 DEF Validate
  <2> QED
    BY <2>1 DEF CaptureInv, PhaseInv
<1>2. CASE Open
  BY <1>2 DEF Open, MayRaise
<1>3. CASE Leave
  BY <1>3 DEF Leave, MayRaise
<1>4. ASSUME NEW w \in Worker, WorkerStep(w)
      PROVE  FALSE
  <2>1. pc[w] \notin {"idle", "done", "raised"} /\ phase' = phase
    BY <1>4 DEF WorkerStep, Arrive, Issue, Call, Finish, Record
  <2> QED
    BY <2>1, Working
<1>5. CASE Timeout
  <2>1. PICK w \in Worker : pc[w] = "waiting"
    BY <1>5 DEF Timeout, Waiting
  <2>2. phase' = phase
    BY <1>5 DEF Timeout
  <2> QED
    BY <2>1, <2>2, Working
<1>6. CASE UNCHANGED vars
  BY <1>6 DEF vars
<1> QED
  BY <1>1, <1>2, <1>3, <1>4, <1>5, <1>6 DEF Next, Ended

EndedInv == VerdictIsCorrect /\ CaptureIsWhole

\* Before the end nothing is claimed.
LEMMA NoClaim ==
  ASSUME CaptureInv, phase # "ended"
  PROVE  EndedInv
<1>1. verdict = NoVerdict
  BY DEF CaptureInv, PhaseInv
<1>2. verdict.status = "none" /\ verdict # InvalidCapture
  BY <1>1 DEF NoVerdict, InvalidCapture
<1> QED
  BY <1>2 DEF EndedInv, VerdictIsCorrect, CaptureIsWhole, ErrorsAreInconclusive,
              ConclusiveMeansComplete

LEMMA EndedStep == CaptureInv /\ EndedInv /\ [Next]_vars => EndedInv'
<1> SUFFICES ASSUME CaptureInv, EndedInv, [Next]_vars PROVE EndedInv'
  OBVIOUS
<1>1. CaptureInv'
  BY CaptureStep
<1>2. CASE phase' # "ended"
  <2> DEFINE P == CaptureInv
  <2>1. verdict' = NoVerdict
    BY <1>1, <1>2 DEF CaptureInv, PhaseInv
  <2>2. verdict'.status = "none" /\ verdict' # InvalidCapture
    BY <2>1 DEF NoVerdict, InvalidCapture
  <2> QED
    BY <1>2, <2>2 DEF EndedInv, VerdictIsCorrect, CaptureIsWhole, ErrorsAreInconclusive,
                ConclusiveMeansComplete
<1>3. CASE phase' = "ended"
  <2>1. /\ UNCHANGED <<scenario, budget, history, shadow>>
        /\ \/ phase = "ended" /\ verdict' = verdict /\ errors' = errors
           \/ verdict'.status = "ValueError" /\ errors = 0 /\ errors' = errors
           \/ errors' = errors + 1 /\ verdict' = ExecutionError
           \/ Leave /\ Raised /\ errors' = errors /\ verdict' = ExecutionError
           \/ Leave /\ ~Raised /\ errors' = errors /\ verdict' = Judgement
    BY <1>3, Endings
  <2>2. CASE phase = "ended" /\ verdict' = verdict /\ errors' = errors
    BY <2>1, <2>2 DEF EndedInv, VerdictIsCorrect, CaptureIsWhole, ErrorsAreInconclusive,
                      ConclusiveMeansComplete
  <2>3. CASE verdict'.status = "ValueError" /\ errors = 0 /\ errors' = errors
    <3>1. verdict' # InvalidCapture
      BY <2>3 DEF InvalidCapture
    <3> QED
      BY <2>3, <3>1 DEF EndedInv, VerdictIsCorrect, CaptureIsWhole, ErrorsAreInconclusive,
                        ConclusiveMeansComplete
  <2>4. CASE verdict' = ExecutionError
    <3>1. verdict'.status = "inconclusive" /\ verdict' # InvalidCapture
      BY <2>4 DEF ExecutionError, InvalidCapture
    <3> QED
      BY <3>1 DEF EndedInv, VerdictIsCorrect, CaptureIsWhole, ErrorsAreInconclusive,
                  ConclusiveMeansComplete
  <2>5. CASE Leave /\ ~Raised /\ errors' = errors /\ verdict' = Judgement
    <3>1. VerdictIsCorrect'
      BY <2>1, <2>5, JudgedMeans DEF VerdictIsCorrect
    <3>2. verdict' # InvalidCapture /\ ErrorsAreInconclusive'
      BY <2>5, JudgedMeans DEF ErrorsAreInconclusive
    <3>3. ConclusiveMeansComplete'
      <4> SUFFICES ASSUME verdict'.status \in {"pass", "fail"},
                          NEW i \in DOMAIN scenario.operations
                   PROVE  Cardinality({k \in DOMAIN history :
                            /\ history[k].index = i - 1
                            /\ history[k].worker = scenario.worker_ids[i]
                            /\ history[k].operation = scenario.operations[i]}) = 1
        BY <2>1 DEF ConclusiveMeansComplete
      <4>1. Len(history) = Len(scenario.operations) /\ Failed(history) = {}
        BY <2>5, JudgedMeans DEF WellFormed
      <4>2. /\ ValidWorkerPlan(scenario) /\ PlanOK(scenario) /\ clock \in Nat
            /\ \A w \in Worker : next[w] \in Nat
            /\ \A w \in Worker : pc[w] \notin Busy
            /\ history \in Seq({history[k] : k \in DOMAIN history})
            /\ HistoryOK(history, scenario, clock, pc, next, event)
        BY <2>5 DEF Leave, CaptureInv, TypeInv, PhaseInv, HistoryInv, Joined, Busy
      <4>3. /\ \A j, k \in 1..Len(history) : history[j].index = history[k].index => j = k
            /\ \A k \in 1..Len(history) :
                 /\ history[k].operation = scenario.operations[history[k].index + 1]
                 /\ history[k].worker = scenario.worker_ids[history[k].index + 1]
            /\ \A l \in 1..Len(scenario.operations) :
                 \E k \in 1..Len(history) : history[k].index = l - 1
        <5>1. Len(history) = Len(scenario.operations) /\ Failed(history) = {} =>
                \A l \in 1..Len(scenario.operations) :
                  \E k \in 1..Len(history) : history[k].index = l - 1
          BY ONLY <4>2, CapturedMeans
        <5>2. \A j, k \in 1..Len(history) : history[j].index = history[k].index => j = k
          BY ONLY <4>2, CapturedMeans
        <5>3. \A k \in 1..Len(history) :
                /\ history[k].operation = scenario.operations[history[k].index + 1]
                /\ history[k].worker = scenario.worker_ids[history[k].index + 1]
          BY ONLY <4>2, CapturedMeans, SMTT(40)
        <5> QED
          BY <4>1, <5>1, <5>2, <5>3
      <4>4. i \in 1..Len(scenario.operations) /\ (i - 1) + 1 = i
        BY <4>2 DEF PlanOK
      <4>5. PICK k \in 1..Len(history) : history[k].index = i - 1
        BY <4>3, <4>4
      <4>6. DOMAIN history = 1..Len(history)
        BY <4>2, LenProperties
      <4>7. {j \in DOMAIN history :
               /\ history[j].index = i - 1
               /\ history[j].worker = scenario.worker_ids[i]
               /\ history[j].operation = scenario.operations[i]} = {k}
        BY <4>3, <4>4, <4>5, <4>6
      <4> QED
        BY <4>7, FS_Singleton
    <3> QED
      BY <3>1, <3>2, <3>3 DEF EndedInv, CaptureIsWhole
  <2> QED
    BY <2>1, <2>2, <2>3, <2>4, <2>5
<1> QED
  BY <1>2, <1>3

\* The workers' invariant holds throughout, and with it what is said of
\* the verdict.
THEOREM Invariants == Spec => [](CaptureInv /\ EndedInv)
<1>1. Init => CaptureInv /\ EndedInv
  <2>1. Init => phase # "ended"
    BY DEF Init
  <2> QED
    BY <2>1, CaptureInit, NoClaim
<1>2. CaptureInv /\ EndedInv /\ [Next]_vars => CaptureInv' /\ EndedInv'
  BY CaptureStep, EndedStep
<1> QED
  BY <1>1, <1>2, PTL DEF Spec

\* Whatever the workers, the device and the clock do, a witness of
\* check_history explains the captured history, and when it says that no
\* legal order exists none does.
THEOREM Correct == Spec => []VerdictIsCorrect
<1>1. CaptureInv /\ EndedInv => VerdictIsCorrect
  BY DEF EndedInv
<1> QED
  BY <1>1, Invariants, PTL

\* A history that is judged is the whole run, each operation once and by its
\* owner; check_history never refuses what the workers recorded.
THEOREM Whole == Spec => []CaptureIsWhole
<1>1. CaptureInv /\ EndedInv => CaptureIsWhole
  BY DEF EndedInv
<1> QED
  BY <1>1, Invariants, PTL

-----------------------------------------------------------------------------
(***************************************************************************)
(* The order in which the device took the calls.                           *)
(***************************************************************************)
\* Stamping the end of a call adds nothing but a time at which every call
\* that the device took before had started.
LEMMA StampKeepsOrder ==
  ASSUME NEW q, NEW plan, NEW model, NEW answered, NEW over, NEW answered2, NEW over2, NEW e, NEW e2,
         DeviceOrder(q, plan, model, answered, over), e \in answered,
         e2.index = e.index, e2.operation = e.operation, e2.actual = e.actual,
         e2.started = e.started, e2 \in answered2, answered2 \subseteq answered \cup {e2},
         answered \subseteq answered2 \cup {e}, over2 \subseteq over \cup {e2},
         \A d \in answered : e2.finished >= d.started
  PROVE  DeviceOrder(q, plan, model, answered2, over2)
<1>1. /\ RunOver(plan, q)[Len(q)] = model
      /\ \A m \in 1..Len(q) : \E d \in answered : d.index + 1 = q[m]
      /\ \A d \in answered : \E m \in 1..Len(q) :
           q[m] = d.index + 1 /\ Apply(RunOver(plan, q)[m - 1], d.operation).reply = d.actual
      /\ \A f \in over, d \in answered : \A i, j \in 1..Len(q) :
           j < i /\ q[i] = f.index + 1 /\ q[j] = d.index + 1 => f.finished >= d.started
      /\ \A i, j \in 1..Len(q) :
           j < i /\ plan.worker_ids[q[i]] = plan.worker_ids[q[j]] => q[j] < q[i]
  BY DEF DeviceOrder
<1>2. ASSUME NEW m \in 1..Len(q)
      PROVE  \E d \in answered2 : d.index + 1 = q[m]
  BY <1>1
<1>3. ASSUME NEW d \in answered2
      PROVE  \E m \in 1..Len(q) :
               q[m] = d.index + 1 /\ Apply(RunOver(plan, q)[m - 1], d.operation).reply = d.actual
  <2>1. CASE d \in answered
    BY <1>1, <2>1
  <2>2. CASE d = e2
    <3>1. PICK m \in 1..Len(q) :
            q[m] = e.index + 1 /\ Apply(RunOver(plan, q)[m - 1], e.operation).reply = e.actual
      BY <1>1
    <3> QED
      BY <2>2, <3>1
  <2> QED
    BY <2>1, <2>2
<1>4. ASSUME NEW f \in over2, NEW d \in answered2, NEW i \in 1..Len(q), NEW j \in 1..Len(q),
             j < i, q[i] = f.index + 1, q[j] = d.index + 1
      PROVE  f.finished >= d.started
  <2>1. PICK d0 \in answered : d0.index = d.index /\ d0.started = d.started
    BY Zenon
  <2>2. CASE f \in over
    BY <1>1, <1>4, <2>1, <2>2, ZenonT(60)
  <2>3. CASE f = e2
    <3>1. e2.finished >= d0.started
      OBVIOUS
    <3> QED
      BY <2>1, <2>3, <3>1
  <2> QED
    BY <2>2, <2>3
<1> QED
  BY <1>1, <1>2, <1>3, <1>4 DEF DeviceOrder

\* The next call the device takes is the last of the order.
LEMMA CallExtendsOrder ==
  ASSUME NEW plan, PlanOK(plan), NEW q \in Lists(Len(plan.operations)),
         NEW model, NEW answered, NEW over, NEW over2, NEW e,
         DeviceOrder(q, plan, model, answered, over), over2 \subseteq over, over \subseteq answered,
         e.index + 1 \in 1..Len(plan.operations), e.operation = plan.operations[e.index + 1],
         \A d \in answered : d.index + 1 # e.index + 1,
         \A d \in answered :
           plan.worker_ids[d.index + 1] = plan.worker_ids[e.index + 1] => d.index + 1 < e.index + 1,
         Apply(model, e.operation).reply = e.actual
  PROVE  /\ Append(q, e.index + 1) \in Lists(Len(plan.operations))
         /\ DeviceOrder(Append(q, e.index + 1), plan, Apply(model, e.operation).model,
                        answered \cup {e}, over2)
<1> DEFINE n == Len(plan.operations)
           at == e.index + 1
           r == Append(q, at)
           h == Asked(plan)
           f == RunOver(plan, q)
           g == RunOver(plan, r)
<1>1. /\ q \in Seq(Nat) /\ Injective(q) /\ Len(q) \in Nat
      /\ \A k \in 1..Len(q) : q[k] \in 1..n
  BY LenProperties DEF Lists
<1>2. at \in 1..n /\ at \in Nat
  OBVIOUS
<1>3. /\ r \in Seq(Nat) /\ Len(r) = Len(q) + 1 /\ r[Len(q) + 1] = at
      /\ \A k \in 1..Len(q) : r[k] = q[k]
  BY <1>1, <1>2, AppendProperties
<1>4. /\ f[Len(q)] = model
      /\ \A m \in 1..Len(q) : \E d \in answered : d.index + 1 = q[m]
      /\ \A d \in answered : \E m \in 1..Len(q) :
           q[m] = d.index + 1 /\ Apply(f[m - 1], d.operation).reply = d.actual
      /\ \A b \in over, d \in answered : \A i, j \in 1..Len(q) :
           j < i /\ q[i] = b.index + 1 /\ q[j] = d.index + 1 => b.finished >= d.started
      /\ \A i, j \in 1..Len(q) :
           j < i /\ plan.worker_ids[q[i]] = plan.worker_ids[q[j]] => q[j] < q[i]
  BY DEF DeviceOrder
<1>5. \A m \in 1..Len(q) : q[m] # at
  BY <1>4
<1>6. h[at].operation = e.operation
  BY DEF Asked, PlanOK
<1> HIDE DEF r, n, h
<1>7. /\ \A k \in 0..Len(q) : g[k] = f[k]
      /\ g[Len(q) + 1] = Apply(model, e.operation).model
  <2>1. SameFront(q, r, Len(q))
    BY <1>3 DEF SameFront
  <2>2. Len(r) \in Nat /\ Len(q) <= Len(r)
    BY <1>1, <1>3
  <2>3. \A k \in 0..Len(q) : RunOf(h, plan.capacity, q, Len(q))[k] = RunOf(h, plan.capacity, r, Len(r))[k]
    BY <1>1, <2>1, <2>2, RunPrefix
  <2>4. Len(r) \in 1..Len(r) /\ Len(r) - 1 = Len(q)
    BY <1>1, <1>3
  <2>5. RunOf(h, plan.capacity, r, Len(r))[Len(r)]
          = Apply(RunOf(h, plan.capacity, r, Len(r))[Len(r) - 1], h[r[Len(r)]].operation).model
    BY <2>2, <2>4, RunSteps
  <2>6. f = RunOf(h, plan.capacity, q, Len(q)) /\ g = RunOf(h, plan.capacity, r, Len(r))
    BY DEF RunOver, h
  <2> HIDE DEF f, g, at
  <2>7. Len(q) \in 0..Len(q)
    BY <1>1
  <2>8. g[Len(q)] = model
    BY <1>4, <2>3, <2>6, <2>7
  <2>9. r[Len(r)] = at
    BY <1>3
  <2> QED
    BY <1>3, <1>6, <2>3, <2>4, <2>5, <2>6, <2>8, <2>9
<1> HIDE DEF f, g, at
<1>8. r \in Lists(n)
  <2>1. \A k \in 1..Len(r) : k \in 1..Len(q) \/ k = Len(q) + 1
    BY <1>1, <1>3
  <2>2. \A k \in 1..Len(r) : r[k] \in 1..n
    BY <1>1, <1>2, <1>3, <2>1
  <2>3. Injective(r)
    BY <1>1, <1>3, <1>5, <2>1 DEF Injective
  <2> QED
    BY <1>3, <2>2, <2>3 DEF Lists
<1>9. \A k \in 1..Len(r) : k \in 1..Len(q) \/ k = Len(q) + 1
  BY <1>1, <1>3
<1>10. \A k \in 1..Len(q) : k \in 1..Len(r) /\ k - 1 \in 0..Len(q) /\ r[k] = q[k]
  BY <1>1, <1>3
<1>11. Len(q) + 1 \in 1..Len(r) /\ (Len(q) + 1) - 1 = Len(q) /\ Len(q) \in 0..Len(q)
  BY <1>1, <1>3
<1>12. ASSUME NEW m \in 1..Len(r)
       PROVE  \E d \in answered \cup {e} : d.index + 1 = r[m]
  BY <1>3, <1>4, <1>9 DEF at
<1>13. ASSUME NEW d \in answered \cup {e}
       PROVE  \E m \in 1..Len(r) :
                r[m] = d.index + 1 /\ Apply(g[m - 1], d.operation).reply = d.actual
  <2>1. CASE d \in answered
    <3>1. PICK m \in 1..Len(q) :
            q[m] = d.index + 1 /\ Apply(f[m - 1], d.operation).reply = d.actual
      BY <1>4, <2>1
    <3> QED
      BY <1>7, <1>10, <3>1
  <2>2. CASE d = e
    <3> DEFINE last == Len(q)
    <3>0. g[last] = model /\ (last + 1) - 1 = last
      BY <1>4, <1>7, <1>11
    <3>1. g[(last + 1) - 1] = model
      BY ONLY <3>0
    <3>2. Apply(g[(Len(q) + 1) - 1], d.operation).reply = d.actual
      BY <2>2, <3>1
    <3> QED
      BY <1>3, <1>11, <2>2, <3>2 DEF at
  <2> QED
    BY <2>1, <2>2
<1>14. ASSUME NEW b \in over2, NEW d \in answered \cup {e}, NEW i \in 1..Len(r), NEW j \in 1..Len(r),
              j < i, r[i] = b.index + 1, r[j] = d.index + 1
       PROVE  b.finished >= d.started
  <2>1. b \in over /\ b \in answered /\ b.index + 1 # at
    BY DEF at
  <2>2. i \in 1..Len(q)
    BY <1>3, <1>9, <1>14, <2>1
  <2>3. j \in 1..Len(q)
    BY <1>1, <1>14, <2>2
  <2>4. d \in answered
    BY <1>5, <1>10, <1>14, <2>3 DEF at
  <2> QED
    BY <1>4, <1>10, <1>14, <2>1, <2>2, <2>3, <2>4
<1>15. ASSUME NEW i \in 1..Len(r), NEW j \in 1..Len(r), j < i,
              plan.worker_ids[r[i]] = plan.worker_ids[r[j]]
       PROVE  r[j] < r[i]
  <2>1. j \in 1..Len(q)
    BY <1>1, <1>3, <1>15
  <2>2. CASE i \in 1..Len(q)
    BY <1>4, <1>10, <1>15, <2>1, <2>2
  <2>3. CASE i = Len(q) + 1
    <3>1. PICK d \in answered : d.index + 1 = q[j]
      BY <1>4, <2>1
    <3>2. r[i] = at /\ r[j] = q[j]
      BY <1>3, <1>10, <2>1, <2>3
    <3>3. plan.worker_ids[d.index + 1] = plan.worker_ids[at]
      BY <1>15, <3>1, <3>2
    <3>4. d.index + 1 < at
      BY <3>3 DEF at
    <3> QED
      BY <3>1, <3>2, <3>4
  <2> QED
    BY <1>9, <2>2, <2>3
<1>16. g[Len(r)] = Apply(model, e.operation).model
  BY <1>3, <1>7
<1>17. DeviceOrder(r, plan, Apply(model, e.operation).model, answered \cup {e}, over2)
  BY <1>12, <1>13, <1>14, <1>15, <1>16 DEF DeviceOrder, g
<1> QED
  BY <1>8, <1>17 DEF r, at, n

\* Without an error nothing failed and nobody was stopped.
QuietInv ==
  errors = 0 => /\ Failed(history) = {} /\ ~Raised
                /\ \A w \in Worker : pc[w] \in Busy => event[w].error = FALSE

LEMMA QuietInit == Init => QuietInv
<1> SUFFICES ASSUME Init PROVE QuietInv
  OBVIOUS
<1>1. DOMAIN history = {} /\ \A w \in Worker : pc[w] = "idle"
  BY EmptySeq DEF Init
<1> QED
  BY <1>1 DEF QuietInv, Failed, Raised, Busy

LEMMA QuietStep == CaptureInv /\ QuietInv /\ [Next]_vars => QuietInv'
<1> SUFFICES ASSUME CaptureInv, QuietInv, [Next]_vars, errors' = 0
             PROVE  /\ Failed(history') = {} /\ ~Raised'
                    /\ \A w \in Worker : pc'[w] \in Busy => event'[w].error = FALSE
  BY DEF QuietInv
<1>1. /\ pc \in [Worker -> Busy \cup Resting] /\ errors \in Nat /\ errors + 1 # 0
      /\ DOMAIN event = Worker /\ event = [v \in Worker |-> event[v]]
      /\ history \in Seq({history[k] : k \in DOMAIN history})
  BY DEF CaptureInv, TypeInv
<1>2. ASSUME errors' = errors
      PROVE  /\ Failed(history) = {} /\ \A w \in Worker : pc[w] # "raised"
             /\ \A w \in Worker : pc[w] \in Busy => event[w].error = FALSE
  BY <1>2 DEF QuietInv, Raised
<1>3. CASE Validate
  BY <1>2, <1>3 DEF Validate, Raised
<1>4. CASE Open
  BY <1>1, <1>2, <1>4 DEF Open, Raised, MayRaise, Busy
<1>5. CASE Leave
  BY <1>1, <1>2, <1>5 DEF Leave, Raised, MayRaise
<1>6. CASE Timeout
  BY <1>1, <1>6 DEF Timeout, MayRaise
<1>7. CASE UNCHANGED vars
  BY <1>2, <1>7 DEF vars, Raised
<1>8. ASSUME NEW w \in Worker, Arrive(w)
      PROVE  /\ Failed(history') = {} /\ ~Raised'
             /\ \A v \in Worker : pc'[v] \in Busy => event'[v].error = FALSE
  <2>1. UNCHANGED <<history, errors, event>>
    BY <1>8 DEF Arrive
  <2>2. ~Broken
    BY <1>2, <2>1 DEF Broken
  <2>3. \/ pc' = [v \in Worker |-> "loop"] \/ pc' = [pc EXCEPT ![w] = "waiting"]
    BY <1>8, <2>2 DEF Arrive
  <2> QED
    BY <1>1, <1>2, <2>1, <2>3 DEF Raised, Busy
<1>9. ASSUME NEW w \in Worker, Issue(w)
      PROVE  /\ Failed(history') = {} /\ ~Raised'
             /\ \A v \in Worker : pc'[v] \in Busy => event'[v].error = FALSE
  <2>1. UNCHANGED <<history, errors>>
    BY <1>9 DEF Issue
  <2>2. CASE pc'[w] = "done"
    <3>1. event' = event /\ pc' = [pc EXCEPT ![w] = "done"]
      BY <1>1, <1>9, <2>2 DEF Issue, Goto
    <3> QED
      BY <1>1, <1>2, <2>1, <3>1 DEF Raised, Busy
  <2>3. CASE pc'[w] # "done"
    <3>1. PICK e : event' = [event EXCEPT ![w] = e] /\ e.error = FALSE
      BY <1>9, <2>3, IssueCalls
    <3>2. pc' = [pc EXCEPT ![w] = "called"]
      BY <1>9, <2>3, IssueCalls
    <3> QED
      BY <1>1, <1>2, <2>1, <3>1, <3>2 DEF Raised
  <2> QED
    BY <2>2, <2>3
<1>10. ASSUME NEW w \in Worker, Call(w)
       PROVE  /\ Failed(history') = {} /\ ~Raised'
              /\ \A v \in Worker : pc'[v] \in Busy => event'[v].error = FALSE
  <2>1. /\ UNCHANGED <<history, errors>> /\ pc[w] = "called"
        /\ pc' = [pc EXCEPT ![w] = "returned"]
        /\ \E r : event' = [event EXCEPT ![w].actual = r]
    BY <1>1, <1>10 DEF Call, MayRaise, Goto
  <2>2. PICK r : event' = [event EXCEPT ![w].actual = r]
    BY <2>1
  <2>3. event'[w] = [event[w] EXCEPT !.actual = r]
    BY <1>1, <2>2
  <2>4. DOMAIN event[w] = Fields /\ event[w].error = FALSE
    BY <2>1 DEF CaptureInv, WorkersInv, WorkerOK, Owned, Busy
  <2>5. event'[w].error = FALSE
    BY <2>3, <2>4 DEF Fields
  <2> QED
    BY <1>1, <1>2, <2>1, <2>2, <2>5 DEF Raised
<1>11. ASSUME NEW w \in Worker, Finish(w)
       PROVE  /\ Failed(history') = {} /\ ~Raised'
              /\ \A v \in Worker : pc'[v] \in Busy => event'[v].error = FALSE
  <2>1. /\ UNCHANGED <<history, errors>> /\ pc[w] = "returned"
        /\ pc' = [pc EXCEPT ![w] = "finished"]
        /\ \E t : event' = [event EXCEPT ![w].finished = t]
    BY <1>11 DEF Finish, Goto
  <2>2. PICK t : event' = [event EXCEPT ![w].finished = t]
    BY <2>1
  <2>3. event'[w] = [event[w] EXCEPT !.finished = t]
    BY <1>1, <2>2
  <2>4. DOMAIN event[w] = Fields /\ event[w].error = FALSE
    BY <1>2, <2>1 DEF CaptureInv, WorkersInv, WorkerOK, Owned, Busy
  <2>5. event'[w].error = FALSE
    BY <2>3, <2>4 DEF Fields
  <2> QED
    BY <1>1, <1>2, <2>1, <2>2, <2>5 DEF Raised, Busy
<1>12. ASSUME NEW w \in Worker, Record(w)
       PROVE  /\ Failed(history') = {} /\ ~Raised'
              /\ \A v \in Worker : pc'[v] \in Busy => event'[v].error = FALSE
  <2>1. /\ errors' = errors /\ history' = Append(history, event[w]) /\ pc[w] = "finished"
        /\ event' = [event EXCEPT ![w] = NoEvent]
        /\ pc' = [pc EXCEPT ![w] = IF event[w].error THEN "done" ELSE "loop"]
    BY <1>1, <1>12 DEF Record, Goto, MayRaise
  <2>2. event[w].error = FALSE
    BY <1>2, <2>1 DEF Busy
  <2>3. Failed(history') = {}
    <3> DEFINE g == Append(history, event[w])
    <3>1. /\ \A k \in DOMAIN history : g[k] = history[k]
          /\ g[Len(history) + 1] = event[w]
          /\ \A k \in DOMAIN g : k \in DOMAIN history \/ k = Len(history) + 1
      BY <1>1, AppendMeans
    <3>2. history' = g
      BY <2>1
    <3> HIDE DEF g
    <3> QED
      BY <1>2, <2>1, <2>2, <3>1, <3>2 DEF Failed
  <2> QED
    BY <1>1, <1>2, <2>1, <2>2, <2>3 DEF Raised, Busy
<1> QED
  BY <1>3, <1>4, <1>5, <1>6, <1>7, <1>8, <1>9, <1>10, <1>11, <1>12 DEF Next, WorkerStep, Ended

\* The events of the calls that the device took.
LEMMA AnsweredMeans ==
  ASSUME CaptureInv
  PROVE  /\ Over \subseteq Answered
         /\ \A d \in Answered : Owned(d, scenario, clock)
         /\ \A w \in Worker : pc[w] = "called" =>
              \A d \in Answered : d.worker = w => d.sequence < event[w].sequence
<1>1. /\ HistoryOK(history, scenario, clock, pc, next, event)
      /\ \A w \in Worker : WorkerOK(w, pc[w], next[w], event[w], scenario, clock)
  BY DEF CaptureInv, HistoryInv, WorkersInv
<1>2. ASSUME NEW d \in Answered
      PROVE  \/ \E k \in DOMAIN history : d = history[k]
             \/ \E w \in Worker : pc[w] \in {"returned", "finished"} /\ d = event[w]
  BY DEF Answered, Listed
<1>3. ASSUME NEW d \in Answered
      PROVE  Owned(d, scenario, clock)
  BY <1>1, <1>2 DEF HistoryOK, WorkerOK, Busy
<1>4. ASSUME NEW w \in Worker, pc[w] = "called", NEW d \in Answered, d.worker = w
      PROVE  d.sequence < event[w].sequence
  <2>1. Taken(pc[w], next[w]) = event[w].sequence
    BY <1>1, <1>4 DEF Taken, WorkerOK, Busy
  <2>2. CASE \E k \in DOMAIN history : d = history[k]
    BY <1>1, <1>4, <2>1, <2>2 DEF HistoryOK
  <2>3. CASE \E v \in Worker : pc[v] \in {"returned", "finished"} /\ d = event[v]
    BY <1>1, <1>4, <2>3 DEF WorkerOK, Busy
  <2> QED
    BY <1>2, <1>4, <2>2, <2>3
<1>5. Over \subseteq Answered
  BY DEF Over, Answered
<1> QED
  BY <1>3, <1>4, <1>5

\* A step that leaves what the device did as it was.
LEMMA LawStays ==
  ASSUME LawInv, scenario' = scenario, shadow' = shadow, errors' = 0 => errors = 0,
         Answered' = Answered, Over' = Over
  PROVE  LawInv'
<1>1. CASE shadow.lawful /\ errors' = 0
  <2>1. PICK q \in Lists(Len(scenario.operations)) :
          DeviceOrder(q, scenario, shadow.model, Answered, Over)
    BY <1>1 DEF LawInv
  <2>2. DeviceOrder(q, scenario', shadow'.model, Answered', Over')
    BY <2>1
  <2> QED
    BY <2>1, <2>2 DEF LawInv
<1> QED
  BY <1>1 DEF LawInv

LEMMA LawInit == Init => LawInv
<1> SUFFICES ASSUME Init PROVE LawInv
  OBVIOUS
<1> DEFINE q == << >>
<1>1. /\ \A w \in Worker : pc[w] = "idle"
      /\ DOMAIN history = {} /\ shadow.model = NewModel(scenario.capacity)
  BY EmptySeq DEF Init
<1>2. Answered = {} /\ Over = {}
  BY <1>1 DEF Answered, Over, Listed
<1>3. q \in Seq(Nat) /\ Len(q) = 0 /\ 1..Len(q) = {}
  BY EmptySeq
<1> HIDE DEF q
<1>4. q \in Lists(Len(scenario.operations))
  BY <1>3 DEF Lists, Injective
<1>5. RunOver(scenario, q)[Len(q)] = shadow.model
  BY <1>1, <1>3, RunSteps DEF RunOver
<1>6. DeviceOrder(q, scenario, shadow.model, Answered, Over)
  BY <1>2, <1>3, <1>5 DEF DeviceOrder
<1> QED
  BY <1>4, <1>6 DEF LawInv

LEMMA LawCall ==
  ASSUME NEW w \in Worker
  PROVE  CaptureInv /\ LawInv /\ Call(w) => LawInv'
<1> SUFFICES ASSUME CaptureInv, LawInv, Call(w), shadow'.lawful, errors' = 0
             PROVE  \E q \in Lists(Len(scenario'.operations)) :
                      DeviceOrder(q, scenario', shadow'.model, Answered', Over')
  BY DEF LawInv
<1> DEFINE n == Len(scenario.operations)
           op == event[w].operation
           e == event'[w]
           result == ResearchApply(dev, op)
           promised == Apply(shadow.model, op)
<1>1. /\ pc \in [Worker -> Busy \cup Resting] /\ errors \in Nat /\ errors + 1 # 0
      /\ DOMAIN event = Worker /\ event = [v \in Worker |-> event[v]] /\ PlanOK(scenario)
      /\ WorkerOK(w, pc[w], next[w], event[w], scenario, clock)
  BY DEF CaptureInv, TypeInv, WorkersInv
<1>2. /\ UNCHANGED <<scenario, history>> /\ pc[w] = "called" /\ pc' = [pc EXCEPT ![w] = "returned"]
      /\ event' = [event EXCEPT ![w].actual = result.reply]
      /\ shadow' = [model |-> promised.model,
                    lawful |-> shadow.lawful /\ promised.reply = result.reply]
      /\ errors' = errors
  BY <1>1 DEF Call, Goto, MayRaise
<1> HIDE DEF result, promised
<1>3. Owned(event[w], scenario, clock) /\ event[w].worker = w
  BY <1>1, <1>2 DEF WorkerOK, Busy
<1>4. /\ e.worker = w /\ e.index = event[w].index /\ e.operation = op
      /\ e.sequence = event[w].sequence /\ e.actual = result.reply
  <2>1. DOMAIN event[w] = Fields
    BY <1>3 DEF Owned
  <2>2. event'[w] = [event[w] EXCEPT !.actual = result.reply]
    BY <1>1, <1>2
  <2> HIDE DEF e, op
  <2>3. e = [event[w] EXCEPT !.actual = result.reply]
    BY <2>2 DEF e
  <2> QED
    BY <1>3, <2>1, <2>3 DEF Fields, op
<1>5. \A v \in Worker : v # w => pc'[v] = pc[v] /\ event'[v] = event[v]
  BY <1>1, <1>2
<1>6. pc'[w] = "returned"
  BY <1>1, <1>2
<1>7. Answered' = Answered \cup {e} /\ Over' = Over
  <2>1. \A d : (\E v \in Worker : pc'[v] \in {"returned", "finished"} /\ d = event'[v])
                 <=> \/ d = e
                     \/ \E v \in Worker : pc[v] \in {"returned", "finished"} /\ d = event[v]
    BY <1>2, <1>5, <1>6
  <2>2. \A d : (\E v \in Worker : pc'[v] = "finished" /\ d = event'[v])
                 <=> (\E v \in Worker : pc[v] = "finished" /\ d = event[v])
    BY <1>2, <1>5, <1>6
  <2> HIDE DEF e
  <2>3. Answered' = Answered \cup {e}
    BY <1>2, <2>1 DEF Answered, Listed
  <2>4. Over' = Over
    BY <1>2, <2>2 DEF Over, Listed
  <2> QED
    BY <2>3, <2>4
<1> HIDE DEF e
<1>8. /\ event[w].index + 1 \in 1..n
      /\ scenario.worker_ids[event[w].index + 1] = w
      /\ op = scenario.operations[event[w].index + 1]
  <2>1. /\ event[w].index + 1 \in 1..n
        /\ scenario.worker_ids[event[w].index + 1] = event[w].worker
    BY <1>1, <1>3, OwnedMeans
  <2>2. op = scenario.operations[event[w].index + 1]
    BY <1>3 DEF Owned
  <2> QED
    BY <1>3, <2>1, <2>2
<1>9. shadow.lawful /\ promised.reply = result.reply /\ shadow'.model = promised.model
  BY <1>2
<1>10. PICK q \in Lists(n) : DeviceOrder(q, scenario, shadow.model, Answered, Over)
  BY <1>2, <1>9 DEF LawInv
<1>11. ASSUME NEW d \in Answered
       PROVE  /\ d.index + 1 # event[w].index + 1
              /\ scenario.worker_ids[d.index + 1] = w => d.index + 1 < event[w].index + 1
  <2>1. Owned(d, scenario, clock) /\ (d.worker = w => d.sequence < event[w].sequence)
    BY <1>2, AnsweredMeans
  <2>2. /\ d.index \in 0..n - 1 /\ scenario.worker_ids[d.index + 1] = d.worker
        /\ event[w].index \in 0..n - 1
    BY <1>1, <1>3, <2>1, OwnedMeans
  <2>3. /\ d.index = event[w].index => d.worker = w /\ d.sequence = event[w].sequence
        /\ d.worker = w /\ d.sequence < event[w].sequence => d.index < event[w].index
    BY <1>1, <1>3, <2>1, OwnedMeans
  <2>4. n \in Nat /\ d.sequence \in Nat /\ event[w].sequence \in Nat
    BY <1>1, <1>3, <2>1 DEF PlanOK, Owned
  <2> DEFINE a == d.index
             b == event[w].index
  <2>5. a \in Int /\ b \in Int
    BY <2>2, <2>4
  <2>6. a # b
    BY <2>1, <2>3, <2>4
  <2>7. scenario.worker_ids[a + 1] = w => a < b
    BY <2>1, <2>2, <2>3
  <2> HIDE DEF a, b
  <2>8. a + 1 # b + 1 /\ (a < b => a + 1 < b + 1)
    BY <2>5, <2>6
  <2>9. a + 1 # b + 1 /\ (scenario.worker_ids[a + 1] = w => a + 1 < b + 1)
    BY <2>7, <2>8
  <2> QED
    BY <2>9 DEF a, b
<1>12. Apply(shadow.model, e.operation).reply = e.actual
  BY <1>4, <1>9 DEF promised
<1>13. Over \subseteq Answered
  BY AnsweredMeans
<1>14. /\ e.index + 1 \in 1..n /\ e.operation = scenario.operations[e.index + 1]
       /\ \A d \in Answered : d.index + 1 # e.index + 1
       /\ \A d \in Answered :
            scenario.worker_ids[d.index + 1] = scenario.worker_ids[e.index + 1] =>
              d.index + 1 < e.index + 1
  BY <1>4, <1>8, <1>11
<1>15. /\ Append(q, e.index + 1) \in Lists(n)
       /\ DeviceOrder(Append(q, e.index + 1), scenario, Apply(shadow.model, e.operation).model,
                      Answered \cup {e}, Over)
  BY <1>1, <1>10, <1>12, <1>13, <1>14, CallExtendsOrder
<1>16. shadow'.model = Apply(shadow.model, e.operation).model
  BY <1>4, <1>9 DEF promised
<1> QED
  BY <1>2, <1>7, <1>15, <1>16

LEMMA LawFinish ==
  ASSUME NEW w \in Worker
  PROVE  CaptureInv /\ LawInv /\ Finish(w) => LawInv'
<1> SUFFICES ASSUME CaptureInv, LawInv, Finish(w), shadow'.lawful, errors' = 0
             PROVE  \E q \in Lists(Len(scenario'.operations)) :
                      DeviceOrder(q, scenario', shadow'.model, Answered', Over')
  BY DEF LawInv
<1> DEFINE e == event[w]
           e2 == event'[w]
<1>1. /\ pc \in [Worker -> Busy \cup Resting] /\ clock \in Nat
      /\ DOMAIN event = Worker /\ event = [v \in Worker |-> event[v]]
      /\ WorkerOK(w, pc[w], next[w], event[w], scenario, clock)
  BY DEF CaptureInv, TypeInv, WorkersInv
<1>2. /\ UNCHANGED <<scenario, history, shadow, errors>> /\ pc[w] = "returned"
      /\ pc' = [pc EXCEPT ![w] = "finished"]
  BY DEF Finish, Goto
<1>3. PICK t \in 0..MaxClock : ReadClock(t) /\ event' = [event EXCEPT ![w].finished = t]
  BY DEF Finish
<1>4. /\ e2.index = e.index /\ e2.operation = e.operation /\ e2.actual = e.actual
      /\ e2.started = e.started /\ e2.finished = t
  <2>1. DOMAIN event[w] = Fields
    BY <1>1, <1>2 DEF WorkerOK, Busy, Owned
  <2>2. e2 = [event[w] EXCEPT !.finished = t]
    BY <1>1, <1>3
  <2> HIDE DEF e2
  <2> QED
    BY <2>1, <2>2 DEF Fields
<1>5. \A v \in Worker : v # w => pc'[v] = pc[v] /\ event'[v] = event[v]
  BY <1>1, <1>2, <1>3
<1>6. pc'[w] = "finished"
  BY <1>1, <1>2
<1>7. /\ e \in Answered /\ e2 \in Answered' /\ Answered' \subseteq Answered \cup {e2}
      /\ Answered \subseteq Answered' \cup {e} /\ Over' \subseteq Over \cup {e2}
  <2>1. \A d : (\E v \in Worker : pc'[v] \in {"returned", "finished"} /\ d = event'[v])
                 => \/ d = e2
                    \/ \E v \in Worker : pc[v] \in {"returned", "finished"} /\ d = event[v]
    BY <1>5
  <2>2. \A d : (\E v \in Worker : pc[v] \in {"returned", "finished"} /\ d = event[v])
                 => \/ d = e
                    \/ \E v \in Worker : pc'[v] \in {"returned", "finished"} /\ d = event'[v]
    BY <1>5
  <2>3. \A d : (\E v \in Worker : pc'[v] = "finished" /\ d = event'[v])
                 => d = e2 \/ \E v \in Worker : pc[v] = "finished" /\ d = event[v]
    BY <1>5
  <2>4. e \in Answered /\ e2 \in Answered'
    BY <1>2, <1>6 DEF Answered
  <2> HIDE DEF e, e2
  <2>5. Answered' \subseteq Answered \cup {e2}
    BY <1>2, <2>1 DEF Answered, Listed
  <2>6. Answered \subseteq Answered' \cup {e}
    BY <1>2, <2>2 DEF Answered, Listed
  <2>7. Over' \subseteq Over \cup {e2}
    BY <1>2, <2>3 DEF Over, Listed
  <2> QED
    BY <2>4, <2>5, <2>6, <2>7
<1> HIDE DEF e, e2
<1>8. ASSUME NEW d \in Answered
      PROVE  e2.finished >= d.started
  <2>1. d.started \in Nat /\ d.started <= clock
    BY AnsweredMeans DEF Owned
  <2>2. clock <= t /\ t \in Nat
    BY <1>1, <1>3 DEF ReadClock
  <2> QED
    BY <1>1, <1>4, <2>1, <2>2
<1>9. PICK q \in Lists(Len(scenario.operations)) :
        DeviceOrder(q, scenario, shadow.model, Answered, Over)
  BY <1>2 DEF LawInv
<1>10. DeviceOrder(q, scenario, shadow.model, Answered', Over')
  BY <1>4, <1>7, <1>8, <1>9, StampKeepsOrder
<1> QED
  BY <1>2, <1>9, <1>10

LEMMA LawRecord ==
  ASSUME NEW w \in Worker
  PROVE  CaptureInv /\ LawInv /\ Record(w) => LawInv'
<1> SUFFICES ASSUME CaptureInv, LawInv, Record(w) PROVE LawInv'
  OBVIOUS
<1>1. /\ pc \in [Worker -> Busy \cup Resting] /\ errors \in Nat /\ errors + 1 # 0
      /\ DOMAIN event = Worker /\ event = [v \in Worker |-> event[v]]
      /\ history \in Seq({history[k] : k \in DOMAIN history})
  BY DEF CaptureInv, TypeInv
<1>2. /\ UNCHANGED <<scenario, shadow>> /\ pc[w] = "finished"
      /\ history' = Append(history, event[w])
      /\ event' = [event EXCEPT ![w] = NoEvent]
      /\ \E l \in {"done", "loop", "raised"} : pc' = [pc EXCEPT ![w] = l]
      /\ errors' = errors \/ errors' = errors + 1
  BY DEF Record, Goto, MayRaise
<1>3. /\ pc'[w] \notin {"returned", "finished"}
      /\ \A v \in Worker : v # w => pc'[v] = pc[v] /\ event'[v] = event[v]
  BY <1>1, <1>2
<1>4. Listed(history') = Listed(history) \cup {event[w]}
  <2> DEFINE g == Append(history, event[w])
  <2>1. /\ \A k \in DOMAIN history : k \in DOMAIN g /\ g[k] = history[k]
        /\ g[Len(history) + 1] = event[w] /\ Len(history) + 1 \in DOMAIN g
        /\ \A k \in DOMAIN g : k \in DOMAIN history \/ k = Len(history) + 1
    BY <1>1, AppendMeans
  <2> HIDE DEF g
  <2>2. Listed(g) = Listed(history) \cup {event[w]}
    BY <2>1 DEF Listed
  <2> QED
    BY <1>2, <2>2 DEF g
<1>5. Answered' = Answered
  <2>1. \A d : d = event[w] \/ (\E v \in Worker : pc'[v] \in {"returned", "finished"} /\ d = event'[v])
                 <=> \E v \in Worker : pc[v] \in {"returned", "finished"} /\ d = event[v]
    BY <1>2, <1>3
  <2> QED
    BY <1>4, <2>1 DEF Answered
<1>6. Over' = Over
  <2>1. \A d : d = event[w] \/ (\E v \in Worker : pc'[v] = "finished" /\ d = event'[v])
                 <=> \E v \in Worker : pc[v] = "finished" /\ d = event[v]
    BY <1>2, <1>3
  <2> QED
    BY <1>4, <2>1 DEF Over
<1> QED
  BY <1>1, <1>2, <1>5, <1>6, LawStays

\* Steps at which no worker comes or goes between its call and the history.
LEMMA LawElsewhere ==
  ASSUME LawInv, UNCHANGED <<scenario, shadow, history>>, errors' = 0 => errors = 0,
         \A v \in Worker : \/ pc'[v] = pc[v] /\ event'[v] = event[v]
                           \/ /\ pc[v] \notin {"returned", "finished"}
                              /\ pc'[v] \notin {"returned", "finished"}
  PROVE  LawInv'
<1>1. \A d : (\E v \in Worker : pc'[v] \in {"returned", "finished"} /\ d = event'[v])
               <=> \E v \in Worker : pc[v] \in {"returned", "finished"} /\ d = event[v]
  OBVIOUS
<1>2. \A d : (\E v \in Worker : pc'[v] = "finished" /\ d = event'[v])
               <=> \E v \in Worker : pc[v] = "finished" /\ d = event[v]
  OBVIOUS
<1>3. Answered' = Answered
  BY <1>1 DEF Answered, Listed
<1>4. Over' = Over
  BY <1>2 DEF Over, Listed
<1> QED
  BY <1>3, <1>4, LawStays

LEMMA LawStep == CaptureInv /\ LawInv /\ [Next]_vars => LawInv'
<1> SUFFICES ASSUME CaptureInv, LawInv, [Next]_vars PROVE LawInv'
  OBVIOUS
<1>1. /\ pc \in [Worker -> Busy \cup Resting] /\ errors \in Nat /\ errors + 1 # 0
      /\ DOMAIN event = Worker /\ event = [v \in Worker |-> event[v]]
  BY DEF CaptureInv, TypeInv
<1>2. CASE Validate
  BY <1>2, LawElsewhere DEF Validate
<1>3. CASE Open
  <2>1. /\ UNCHANGED <<scenario, shadow, history, event>> /\ (errors' = 0 => errors = 0)
        /\ pc' = pc \/ pc' = [w \in Worker |-> "started"]
    BY <1>1, <1>3 DEF Open, MayRaise
  <2>2. \A v \in Worker : pc[v] = "idle"
    BY <1>3 DEF Open, CaptureInv, PhaseInv
  <2>3. \A v \in Worker : /\ pc[v] \notin {"returned", "finished"}
                          /\ pc'[v] \notin {"returned", "finished"}
    BY <2>1, <2>2
  <2> QED
    BY <2>1, <2>3, LawElsewhere
<1>4. CASE Leave
  BY <1>1, <1>4, LawElsewhere DEF Leave, MayRaise
<1>5. CASE Timeout
  <2>1. /\ UNCHANGED <<scenario, shadow, history, event>> /\ (errors' = 0 => errors = 0)
        /\ \A v \in Worker : pc'[v] = pc[v] \/ (pc[v] = "waiting" /\ pc'[v] = "raised")
    BY <1>1, <1>5 DEF Timeout, MayRaise, Waiting
  <2>2. \A v \in Worker : \/ pc'[v] = pc[v] /\ event'[v] = event[v]
                          \/ /\ pc[v] \notin {"returned", "finished"}
                             /\ pc'[v] \notin {"returned", "finished"}
    BY <2>1
  <2> QED
    BY <2>1, <2>2, LawElsewhere
<1>6. CASE UNCHANGED vars
  BY <1>6, LawElsewhere DEF vars
<1>7. ASSUME NEW w \in Worker, Arrive(w)
      PROVE  LawInv'
  <2>1. /\ UNCHANGED <<scenario, shadow, history, event, errors>>
        /\ \A v \in Worker : \/ pc'[v] = pc[v]
                             \/ /\ pc[v] \in {"started", "waiting"}
                                /\ pc'[v] \in {"raised", "loop", "waiting"}
    BY <1>1, <1>7 DEF Arrive, Waiting
  <2> QED
    BY <2>1, LawElsewhere
<1>8. ASSUME NEW w \in Worker, Issue(w)
      PROVE  LawInv'
  <2>1. /\ UNCHANGED <<scenario, shadow, history, errors>> /\ pc[w] = "loop"
        /\ \/ pc' = [pc EXCEPT ![w] = "done"] \/ pc' = [pc EXCEPT ![w] = "called"]
        /\ \/ event' = event \/ \E e : event' = [event EXCEPT ![w] = e]
    BY <1>8 DEF Issue, Goto
  <2>2. /\ pc'[w] \notin {"returned", "finished"} /\ pc[w] \notin {"returned", "finished"}
        /\ \A v \in Worker : v # w => pc'[v] = pc[v] /\ event'[v] = event[v]
    BY <1>1, <2>1
  <2> QED
    BY <2>1, <2>2, LawElsewhere
<1> QED
  BY <1>2, <1>3, <1>4, <1>5, <1>6, <1>7, <1>8, LawCall, LawFinish, LawRecord
     DEF Next, WorkerStep, Ended

\* When nothing raised, the order of the device is one of all operations,
\* and it explains the history.
LEMMA DeviceOrderExplains ==
  ASSUME NEW h, h \in Seq({h[k] : k \in DOMAIN h}), NEW plan, PlanOK(plan), NEW now \in Nat,
         \A k \in 1..Len(h) : Owned(h[k], plan, now),
         Len(h) = Len(plan.operations),
         \A i \in 1..Len(plan.operations) : \E k \in 1..Len(h) : h[k].index = i - 1,
         \A j, k \in 1..Len(h) : h[j].index = h[k].index => j = k,
         NEW q \in Lists(Len(plan.operations)), NEW model,
         DeviceOrder(q, plan, model, Listed(h), Listed(h))
  PROVE  Explainable(plan.capacity, h)
<1> DEFINE n == Len(plan.operations)
           c == plan.capacity
           f == RunOver(plan, q)
           p == [m \in 1..n |-> CHOOSE k \in 1..n : h[k].index + 1 = q[m]]
           g == RunOf(h, c, p, n)
<1>1. /\ n \in Nat /\ Len(h) = n /\ DOMAIN h = 1..n /\ DOMAIN plan.operations = 1..n
  BY LenProperties DEF PlanOK
<1>2. /\ q \in Seq(Nat) /\ Injective(q) /\ Len(q) \in Nat
      /\ \A k \in 1..Len(q) : q[k] \in 1..n
  BY LenProperties DEF Lists
<1>3. ASSUME NEW k \in 1..n
      PROVE  /\ h[k].index + 1 \in 1..n /\ h[k].index \in Int
             /\ h[k].operation = plan.operations[h[k].index + 1]
             /\ plan.worker_ids[h[k].index + 1] = h[k].worker /\ h[k] \in Listed(h)
  <2> DEFINE e == h[k]
  <2>1. Owned(e, plan, now)
    BY <1>1
  <2> HIDE DEF e
  <2>2. /\ e.index \in 0..n - 1 /\ e.index + 1 \in 1..n
        /\ plan.worker_ids[e.index + 1] = e.worker
    BY <2>1, OwnedMeans
  <2>3. e.index \in Int
    BY <1>1, <2>2
  <2>4. e.operation = plan.operations[e.index + 1]
    BY <2>1 DEF Owned
  <2>5. h[k] \in Listed(h)
    BY <1>1 DEF Listed
  <2> QED
    BY <2>2, <2>3, <2>4, <2>5 DEF e
<1>4. /\ \A m \in 1..Len(q) : \E d \in Listed(h) : d.index + 1 = q[m]
      /\ \A d \in Listed(h) : \E m \in 1..Len(q) :
           q[m] = d.index + 1 /\ Apply(f[m - 1], d.operation).reply = d.actual
      /\ \A b \in Listed(h), d \in Listed(h) : \A i, j \in 1..Len(q) :
           j < i /\ q[i] = b.index + 1 /\ q[j] = d.index + 1 => b.finished >= d.started
      /\ \A i, j \in 1..Len(q) :
           j < i /\ plan.worker_ids[q[i]] = plan.worker_ids[q[j]] => q[j] < q[i]
  BY DEF DeviceOrder
<1>5. ASSUME NEW i \in 1..n
      PROVE  \E k \in 1..n : h[k].index + 1 = i
  <2>1. PICK k \in 1..n : h[k].index = i - 1
    BY <1>1
  <2>2. h[k].index + 1 = (i - 1) + 1
    BY <2>1
  <2>3. (i - 1) + 1 = i
    BY <1>1
  <2> QED
    BY <2>2, <2>3
<1> HIDE DEF n, f
<1>6. Len(q) = n
  <2>1. q \in Injection(1..Len(q), 1..n)
    <3>1. q \in [1..Len(q) -> 1..n]
      BY <1>2, LenProperties
    <3> QED
      BY <1>2, <3>1 DEF Injection, IsInjective, Injective
  <2>2. q \in Surjection(1..Len(q), 1..n)
    <3>1. ASSUME NEW i \in 1..n PROVE \E m \in 1..Len(q) : q[m] = i
      <4>1. PICK k \in 1..n : h[k].index + 1 = i
        BY <1>5
      <4>2. PICK m \in 1..Len(q) : q[m] = h[k].index + 1
        BY <1>3, <1>4
      <4> QED
        BY <4>1, <4>2
    <3>2. q \in [1..Len(q) -> 1..n]
      BY <2>1 DEF Injection
    <3> QED
      BY <3>1, <3>2 DEF Surjection
  <2>3. IsFiniteSet(1..n) /\ Cardinality(1..n) = n
    BY <1>1, FS_Interval
  <2>4. Cardinality(1..Len(q)) = Len(q)
    <3> DEFINE m == Len(q)
    <3>1. m \in Nat
      BY <1>2
    <3> HIDE DEF m
    <3>2. Cardinality(1..m) = m
      BY ONLY <3>1, FS_Interval
    <3> QED
      BY <3>2 DEF m
  <2> QED
    BY <2>1, <2>2, <2>3, <2>4, FS_Injection
<1>7. ASSUME NEW m \in 1..n
      PROVE  p[m] \in 1..n /\ h[p[m]].index + 1 = q[m]
  <2>1. q[m] \in 1..n
    BY <1>2, <1>6
  <2>2. \E k \in 1..n : h[k].index + 1 = q[m]
    BY <1>5, <2>1
  <2> QED
    BY <2>2
<1>8. p = [m \in 1..n |-> p[m]]
  OBVIOUS
<1> HIDE DEF p
<1>9. p \in Orders(n)
  <2>1. ASSUME NEW i \in 1..n, NEW j \in 1..n, p[i] = p[j]
        PROVE  i = j
    <3>1. q[i] = q[j]
      BY <1>7, <2>1
    <3> QED
      BY <1>2, <1>6, <3>1 DEF Injective
  <2>2. p \in [1..n -> 1..n]
    BY <1>7, <1>8
  <2> QED
    BY <2>1, <2>2 DEF Orders
<1>10. \A k \in 0..n : f[k] = g[k]
  <2> DEFINE a == Asked(plan)
  <2>1. f = RunOf(a, c, q, n)
    BY <1>6 DEF f, RunOver
  <2>2. ASSUME NEW k \in 1..n
        PROVE  h[p[k]].operation = a[q[k]].operation
    <3>1. q[k] \in 1..n /\ q[k] = h[p[k]].index + 1 /\ p[k] \in 1..n
      BY <1>2, <1>6, <1>7
    <3>2. a[q[k]].operation = plan.operations[q[k]]
      BY <1>1, <3>1 DEF Asked
    <3> QED
      BY <1>3, <3>1, <3>2
  <2> HIDE DEF a, g
  <2>3. g = RunOf(h, c, p, n)
    BY DEF g
  <2>4. f[0] = g[0]
    BY <1>1, <2>1, <2>3, RunSteps
  <2>5. ASSUME NEW k \in 1..n
        PROVE  \E op : f[k] = Apply(f[k - 1], op).model /\ g[k] = Apply(g[k - 1], op).model
    <3>1. f[k] = Apply(f[k - 1], a[q[k]].operation).model
      BY <1>1, <2>1, RunSteps
    <3>2. g[k] = Apply(g[k - 1], h[p[k]].operation).model
      <4>1. \A l \in 1..n : RunOf(h, c, p, n)[l] =
              Apply(RunOf(h, c, p, n)[l - 1], h[p[l]].operation).model
        BY ONLY <1>1, RunSteps
      <4> QED
        BY <2>3, <4>1
    <3> QED
      BY <2>2, <3>1, <3>2
  <2>6. SameCalls(f, g, n)
    BY <2>4, <2>5 DEF SameCalls
  <2> QED
    BY <1>1, <2>6, RunsAgree
<1> HIDE DEF g
<1>11. ASSUME NEW k \in 1..n
       PROVE  Apply(g[k - 1], h[p[k]].operation).reply = h[p[k]].actual
  <2> DEFINE d == h[p[k]]
  <2>1. d \in Listed(h) /\ d.index + 1 = q[k]
    BY <1>3, <1>7
  <2> HIDE DEF d
  <2>2. PICK m \in 1..Len(q) :
          q[m] = d.index + 1 /\ Apply(f[m - 1], d.operation).reply = d.actual
    BY <1>4, <2>1
  <2>3. m = k
    BY <1>2, <1>6, <2>1, <2>2 DEF Injective
  <2>4. k - 1 \in 0..n
    BY <1>1
  <2>5. f[k - 1] = g[k - 1]
    BY <1>10, <2>4
  <2> QED
    BY <2>2, <2>3, <2>5 DEF d
<1>12. ASSUME NEW i \in 1..n, NEW j \in 1..(i - 1)
       PROVE  /\ h[p[i]].finished >= h[p[j]].started
              /\ h[p[i]].worker = h[p[j]].worker => h[p[j]].sequence < h[p[i]].sequence
  <2>1. j \in 1..n /\ j < i
    BY <1>1
  <2>2. /\ p[i] \in 1..n /\ h[p[i]].index + 1 = q[i]
        /\ p[j] \in 1..n /\ h[p[j]].index + 1 = q[j]
    BY <1>7, <2>1
  <2>3. h[p[i]].finished >= h[p[j]].started
    BY <1>3, <1>4, <1>6, <2>1, <2>2
  <2>4. ASSUME h[p[i]].worker = h[p[j]].worker
        PROVE  h[p[j]].sequence < h[p[i]].sequence
    <3> DEFINE a == h[p[j]]
               b == h[p[i]]
    <3>1. a.index \in Int /\ b.index \in Int
      BY <1>3, <2>2
    <3>2. plan.worker_ids[q[i]] = plan.worker_ids[q[j]]
      BY <1>3, <2>2, <2>4
    <3>3. q[j] < q[i]
      BY <1>4, <1>6, <2>1, <3>2
    <3>4. Owned(a, plan, now) /\ Owned(b, plan, now)
      BY <1>1, <2>2
    <3>5. a.index + 1 < b.index + 1 /\ a.worker = b.worker
      BY <2>2, <2>4, <3>3
    <3> HIDE DEF a, b
    <3>6. a.index < b.index
      BY <3>1, <3>5
    <3>7. a.sequence < b.sequence
      BY <3>4, <3>5, <3>6, OwnedMeans
    <3> QED
      BY <3>7 DEF a, b
  <2> QED
    BY <2>3, <2>4
<1>13. Explains(p, c, h)
  BY <1>1, <1>11, <1>12, ExplainsMeans DEF g
<1> QED
  BY <1>1, <1>9, <1>13 DEF Explainable

\* As many events as operations, each for another one.
LEMMA WholeLength ==
  ASSUME NEW h, NEW n \in Nat, Len(h) \in Nat,
         \A k \in 1..Len(h) : h[k].index \in 0..n - 1 /\ h[k].index + 1 \in 1..n,
         \A j, k \in 1..Len(h) : h[j].index = h[k].index => j = k,
         \A i \in 1..n : \E k \in 1..Len(h) : h[k].index + 1 = i
  PROVE  Len(h) = n
<1> DEFINE H == Len(h)
           place == [k \in 1..H |-> h[k].index + 1]
<1>1. place \in [1..H -> 1..n] /\ \A k \in 1..H : place[k] = h[k].index + 1
  OBVIOUS
<1> HIDE DEF place
<1>2. ASSUME NEW j \in 1..H, NEW k \in 1..H, place[j] = place[k]
      PROVE  j = k
  <2>1. h[j].index \in Int /\ h[k].index \in Int /\ h[j].index + 1 = h[k].index + 1
    BY <1>1, <1>2
  <2> QED
    BY <2>1, Shift
<1>3. place \in Injection(1..H, 1..n)
  BY <1>1, <1>2 DEF Injection, IsInjective
<1>4. ASSUME NEW i \in 1..n
      PROVE  \E k \in 1..H : place[k] = i
  BY <1>1
<1>5. place \in Surjection(1..H, 1..n)
  BY <1>1, <1>4 DEF Surjection
<1>6. H \in Nat
  OBVIOUS
<1> HIDE DEF H
<1>7. IsFiniteSet(1..n) /\ Cardinality(1..n) = n
  BY FS_Interval, SMTT(40)
<1>8. Cardinality(1..H) = H
  BY ONLY <1>6, FS_Interval
<1>9. H = n
  BY <1>3, <1>5, <1>7, <1>8, FS_Injection
<1> QED
  BY <1>9 DEF H

\* The judgement of a run on which nothing raised and the device kept the
\* contract.
LEMMA LawfulJudged ==
  ASSUME CaptureInv, QuietInv, LawInv, Leave, shadow.lawful, errors = 0
  PROVE  /\ ~Raised /\ Judgement.status # "fail"
         /\ Judgement.status = "inconclusive" => budget < Exhaustive(Len(scenario.operations))
<1> DEFINE n == Len(scenario.operations)
           h == history
<1>1. Failed(h) = {} /\ ~Raised
  BY DEF QuietInv
<1>2. /\ phase = "running" /\ Joined /\ ValidWorkerPlan(scenario)
      /\ PlanOK(scenario) /\ clock \in Nat
      /\ \A w \in Worker : next[w] \in Nat
      /\ h \in Seq({h[k] : k \in DOMAIN h})
      /\ HistoryOK(h, scenario, clock, pc, next, event)
      /\ Len(h) \in Nat /\ DOMAIN h = 1..Len(h)
  BY LenProperties DEF Leave, CaptureInv, TypeInv, PhaseInv, HistoryInv
<1>3. \A w \in Worker : pc[w] = "done"
  BY <1>1, <1>2 DEF Joined, Raised
<1>4. \A w \in Worker : pc[w] \notin Busy /\ next[w] = Len(Share(scenario, w))
  BY <1>1, <1>3 DEF CaptureInv, WorkersInv, Busy
<1>5. n \in Nat /\ DOMAIN scenario.operations = 1..n
  BY <1>2 DEF PlanOK
<1>6. \A k \in 1..Len(h) : Owned(h[k], scenario, clock)
  BY <1>2 DEF HistoryOK
<1>7. \A j, k \in 1..Len(h) : h[j].index = h[k].index => j = k
  <2>1. \A w \in Worker : pc[w] \notin Busy
    BY <1>4
  <2> QED
    BY ONLY <1>2, <2>1, CapturedMeans
<1> HIDE DEF n, h
<1>8. ASSUME NEW k \in 1..Len(h)
      PROVE  h[k].index \in 0..n - 1 /\ h[k].index + 1 \in 1..n
  <2> DEFINE e == h[k]
  <2>1. Owned(e, scenario, clock)
    BY <1>6
  <2> HIDE DEF e
  <2>2. e.index \in 0..n - 1 /\ e.index + 1 \in 1..n
    BY <1>2, <2>1, OwnedMeans DEF n
  <2> QED
    BY <2>2 DEF e
<1>9. ASSUME NEW i \in 1..n
      PROVE  \E k \in 1..Len(h) : h[k].index + 1 = i
  <2> DEFINE w == scenario.worker_ids[i]
             s == Share(scenario, w)
  <2>1. w \in Worker
    BY <1>2, <1>5 DEF ValidWorkerPlan
  <2>2. /\ Len(s) \in Nat /\ \A j \in 1..Len(s) : s[j] \in 1..n
        /\ \E j \in 1..Len(s) : s[j] = i
    BY <1>2, ShareMeans DEF n
  <2> HIDE DEF w
  <2>3. PICK j \in 1..Len(s) : s[j] = i
    BY <2>2
  <2>4. Taken(pc[w], next[w]) = Len(s)
    BY <1>4, <2>1 DEF Taken
  <2> HIDE DEF s
  <2>5. j - 1 \in 0..Taken(pc[w], next[w]) - 1 /\ (j - 1) + 1 = j
    BY <2>2, <2>4
  <2>6. PICK k \in DOMAIN h : h[k].worker = w /\ h[k].sequence = j - 1
    BY <1>2, <2>1, <2>5 DEF HistoryOK
  <2>7. k \in 1..Len(h)
    BY <1>2, <2>6
  <2>8. h[k].index = s[(j - 1) + 1] - 1
    BY <1>6, <2>6, <2>7 DEF Owned, s
  <2>9. h[k].index = i - 1 /\ i \in Int
    BY <1>5, <2>3, <2>5, <2>8
  <2>10. h[k].index + 1 = (i - 1) + 1 /\ (i - 1) + 1 = i
    BY <2>9
  <2>11. h[k].index + 1 = i
    BY <2>10
  <2> QED
    BY <2>7, <2>11
<1>10. Len(h) = n
  BY <1>2, <1>5, <1>7, <1>8, <1>9, WholeLength
<1>11. \A i \in 1..n : \E k \in 1..Len(h) : h[k].index = i - 1
  <2>1. ASSUME NEW i \in 1..n
        PROVE  \E k \in 1..Len(h) : h[k].index = i - 1
    <3>1. PICK k \in 1..Len(h) : h[k].index + 1 = i
      BY <1>9
    <3>2. h[k].index \in Int /\ i \in Int
      BY <1>5, <1>8
    <3> QED
      BY <3>1, <3>2, Shift
  <2> QED
    BY <2>1
<1>12. Answered = Listed(h) /\ Over = Listed(h)
  <2>1. \A w \in Worker : pc[w] \notin {"returned", "finished"} /\ pc[w] # "finished"
    BY <1>3
  <2> QED
    BY <2>1 DEF Answered, Over, h
<1>13. Explainable(scenario.capacity, h)
  <2>1. PICK q \in Lists(n) : DeviceOrder(q, scenario, shadow.model, Answered, Over)
    BY DEF LawInv, n
  <2>2. DeviceOrder(q, scenario, shadow.model, Listed(h), Listed(h))
    BY <1>12, <2>1
  <2> QED
    BY <1>2, <1>6, <1>7, <1>10, <1>11, <2>1, <2>2, DeviceOrderExplains DEF n
<1>14. Judgement.status # "fail"
  BY <1>1, <1>13, JudgedMeans DEF h
<1>15. Judgement.status = "inconclusive" => budget < Exhaustive(n)
  <2>1. Judgement.status = "inconclusive" =>
          \/ Len(h) # n \/ Failed(h) # {} \/ budget < Exhaustive(Len(h))
    BY <1>1, JudgedMeans DEF h, n
  <2> QED
    BY <1>1, <1>10, <2>1 DEF h
<1> QED
  BY <1>1, <1>14, <1>15 DEF n

LEMMA LawfulStep == CaptureInv /\ QuietInv /\ LawInv /\ LawfulPasses /\ [Next]_vars => LawfulPasses'
<1> SUFFICES ASSUME CaptureInv, QuietInv, LawInv, LawfulPasses, [Next]_vars, shadow'.lawful
             PROVE  /\ verdict'.status # "fail"
                    /\ verdict'.status = "inconclusive" =>
                         errors' > 0 \/ budget' < Exhaustive(Len(scenario'.operations))
  BY DEF LawfulPasses
<1>1. CaptureInv' /\ errors \in Nat
  BY CaptureStep DEF CaptureInv, TypeInv
<1>2. CASE phase' # "ended"
  <2>1. verdict' = NoVerdict
    BY <1>1, <1>2 DEF CaptureInv, PhaseInv
  <2> QED
    BY <2>1 DEF NoVerdict
<1>3. CASE phase' = "ended"
  <2>1. /\ UNCHANGED <<scenario, budget, history, shadow>>
        /\ \/ phase = "ended" /\ verdict' = verdict /\ errors' = errors
           \/ verdict'.status = "ValueError" /\ errors = 0 /\ errors' = errors
           \/ errors' = errors + 1 /\ verdict' = ExecutionError
           \/ Leave /\ Raised /\ errors' = errors /\ verdict' = ExecutionError
           \/ Leave /\ ~Raised /\ errors' = errors /\ verdict' = Judgement
    BY <1>3, Endings
  <2>2. CASE phase = "ended" /\ verdict' = verdict /\ errors' = errors
    BY <2>1, <2>2 DEF LawfulPasses
  <2>3. CASE verdict'.status = "ValueError"
    BY <2>3
  <2>4. CASE errors' = errors + 1 /\ verdict' = ExecutionError
    BY <1>1, <2>4 DEF ExecutionError
  <2>5. CASE Leave /\ Raised /\ errors' = errors /\ verdict' = ExecutionError
    <3>1. errors # 0
      BY <2>5 DEF QuietInv
    <3> QED
      BY <1>1, <2>5, <3>1 DEF ExecutionError
  <2>6. CASE Leave /\ ~Raised /\ errors' = errors /\ verdict' = Judgement
    <3>1. CASE errors = 0
      BY <2>1, <2>6, <3>1, LawfulJudged
    <3>2. CASE errors > 0
      BY <2>6, <3>2, JudgedMeans
    <3> QED
      BY <1>1, <3>1, <3>2
  <2> QED
    BY <2>1, <2>2, <2>3, <2>4, <2>5, <2>6
<1> QED
  BY <1>2, <1>3

\* A device that kept the contract in the order in which it took the calls
\* is never accused, and passes when nothing raised and the budget allows
\* the whole search: the stamps are taken around each call, so the order of
\* the device is among those that check_history may choose.
THEOREM Lawful == Spec => []LawfulPasses
<1>1. Init => CaptureInv /\ QuietInv /\ LawInv /\ LawfulPasses
  <2>1. Init => verdict.status = "none"
    <3>1. Init => verdict = NoVerdict
      BY DEF Init
    <3>2. NoVerdict.status = "none"
      BY DEF NoVerdict
    <3> QED
      BY <3>1, <3>2
  <2>2. verdict.status = "none" => LawfulPasses
    BY DEF LawfulPasses
  <2> QED
    BY <2>1, <2>2, CaptureInit, QuietInit, LawInit
<1>2. CaptureInv /\ QuietInv /\ LawInv /\ LawfulPasses /\ [Next]_vars
        => CaptureInv' /\ QuietInv' /\ LawInv' /\ LawfulPasses'
  BY CaptureStep, QuietStep, LawStep, LawfulStep
<1> QED
  BY <1>1, <1>2, PTL DEF Spec

-----------------------------------------------------------------------------
(***************************************************************************)
(* reduce_history_prefix: the events in the order of their starts.         *)
(***************************************************************************)
LEMMA EarlierIsOrder ==
  ASSUME NEW a, NEW b, NEW d, Event(a), Event(b), Event(d)
  PROVE  /\ ~StartedEarlier(a, a)
         /\ StartedEarlier(a, b) /\ StartedEarlier(b, d) => StartedEarlier(a, d)
         /\ \/ StartedEarlier(a, b) \/ StartedEarlier(b, a)
            \/ a.worker = b.worker /\ a.sequence = b.sequence
BY DEF StartedEarlier, Event

\* sorted() is a permutation that puts what started earlier first.
LEMMA OrderedMeans ==
  ASSUME NEW h, Recorded(h), WellFormed(h)
  PROVE  \E p \in Orders(Len(h)) :
           /\ Ordered(h) = [k \in 1..Len(h) |-> h[p[k]]]
           /\ \A j, k \in 1..Len(h) : j < k => StartedEarlier(h[p[j]], h[p[k]])
<1> DEFINE n == Len(h)
           Up(i) == {j \in 1..n : StartedEarlier(h[j], h[i])}
           place == [i \in 1..n |-> Cardinality(Up(i)) + 1]
           at(k) == CHOOSE i \in 1..n : Cardinality(Up(i)) = k - 1
           p == [k \in 1..n |-> at(k)]
<1>1. n \in Nat /\ DOMAIN h = 1..n /\ \A k \in 1..n : Event(h[k])
  BY DEF Recorded
<1>2. \A j, k \in 1..n : h[j].worker = h[k].worker /\ h[j].sequence = h[k].sequence => j = k
  BY WellFormedMeans
<1>3. Ordered(h) = [k \in 1..n |-> h[at(k)]]
  BY <1>1 DEF Ordered
<1> HIDE DEF n
<1>4. IsFiniteSet(1..n) /\ Cardinality(1..n) = n
  BY <1>1, FS_Interval
<1>5. ASSUME NEW i \in 1..n
      PROVE  /\ ~StartedEarlier(h[i], h[i])
             /\ \A j \in 1..n : \/ StartedEarlier(h[i], h[j]) \/ StartedEarlier(h[j], h[i])
                                \/ i = j
             /\ \A j, k \in 1..n : StartedEarlier(h[i], h[j]) /\ StartedEarlier(h[j], h[k])
                                     => StartedEarlier(h[i], h[k])
  BY <1>1, <1>2, EarlierIsOrder
<1>6. ASSUME NEW i \in 1..n
      PROVE  Up(i) \in SUBSET (1..n) /\ IsFiniteSet(Up(i)) /\ Cardinality(Up(i)) \in 0..n - 1
  <2>1. Up(i) \in SUBSET (1..n) /\ i \notin Up(i)
    BY <1>5
  <2> HIDE DEF Up
  <2>2. /\ IsFiniteSet(Up(i)) /\ Cardinality(Up(i)) <= n
        /\ Cardinality(Up(i)) = n => Up(i) = 1..n
    BY <1>4, <2>1, FS_Subset
  <2>3. Cardinality(Up(i)) \in Nat
    BY <2>2, FS_CardinalityType
  <2> QED
    BY <1>1, <2>1, <2>2, <2>3
<1>7. ASSUME NEW i \in 1..n, NEW j \in 1..n, StartedEarlier(h[i], h[j])
      PROVE  Cardinality(Up(i)) < Cardinality(Up(j))
  <2>1. Up(i) \in SUBSET Up(j) /\ i \in Up(j) /\ i \notin Up(i)
    BY <1>5, <1>7
  <2>2. IsFiniteSet(Up(j)) /\ Cardinality(Up(i)) \in 0..n - 1 /\ Cardinality(Up(j)) \in 0..n - 1
    BY <1>6
  <2> HIDE DEF Up
  <2>3. /\ Cardinality(Up(i)) <= Cardinality(Up(j))
        /\ Cardinality(Up(j)) = Cardinality(Up(i)) => Up(j) = Up(i)
    BY <2>1, <2>2, FS_Subset
  <2> QED
    BY <1>1, <2>1, <2>2, <2>3
<1> HIDE DEF Up
<1>8. place \in [1..n -> 1..n] /\ \A i \in 1..n : place[i] = Cardinality(Up(i)) + 1
  <2>1. \A i \in 1..n : Cardinality(Up(i)) + 1 \in 1..n
    BY <1>1, <1>6
  <2> QED
    BY <2>1
<1>9. ASSUME NEW i \in 1..n, NEW j \in 1..n, StartedEarlier(h[i], h[j])
      PROVE  place[i] < place[j]
  BY <1>1, <1>6, <1>7, <1>8, <1>9
<1> HIDE DEF place
<1>10. place \in Injection(1..n, 1..n)
  <2>1. ASSUME NEW i \in 1..n, NEW j \in 1..n, place[i] = place[j]
        PROVE  i = j
    <3>1. place[i] \in 1..n /\ place[j] \in 1..n
      BY <1>8
    <3>2. ~(place[i] < place[j]) /\ ~(place[j] < place[i])
      BY <1>1, <2>1, <3>1
    <3> QED
      BY <1>5, <1>9, <3>2
  <2> QED
    BY <1>8, <2>1 DEF Injection, IsInjective
<1>11. place \in Surjection(1..n, 1..n)
  BY <1>4, <1>10, FS_Injection
<1>12. ASSUME NEW k \in 1..n
       PROVE  p[k] = at(k) /\ p[k] \in 1..n /\ place[p[k]] = k
  <2>1. PICK i \in 1..n : place[i] = k
    BY <1>11 DEF Surjection
  <2>2. Cardinality(Up(i)) = k - 1
    <3>1. Cardinality(Up(i)) \in Int /\ k \in Int /\ Cardinality(Up(i)) + 1 = k
      BY <1>1, <1>6, <1>8, <2>1
    <3> QED
      BY <3>1, Shift
  <2>3. at(k) \in 1..n /\ Cardinality(Up(at(k))) = k - 1
    BY <2>2
  <2>4. p[k] = at(k)
    OBVIOUS
  <2>5. (k - 1) + 1 = k
    BY <1>1
  <2> HIDE DEF at, p
  <2> QED
    BY <1>8, <2>3, <2>4, <2>5
<1>13. Ordered(h) = [k \in 1..n |-> h[p[k]]]
  BY <1>3, <1>12
<1>14. p = [k \in 1..n |-> p[k]]
  OBVIOUS
<1> HIDE DEF p, at
<1>15. p \in Orders(n)
  <2>1. p \in [1..n -> 1..n]
    BY <1>12, <1>14
  <2>2. \A i, j \in 1..n : p[i] = p[j] => i = j
    BY <1>12
  <2> QED
    BY <2>1, <2>2 DEF Orders
<1>16. ASSUME NEW j \in 1..n, NEW k \in 1..n, j < k
       PROVE  StartedEarlier(h[p[j]], h[p[k]])
  <2>1. p[j] \in 1..n /\ p[k] \in 1..n /\ place[p[j]] = j /\ place[p[k]] = k
    BY <1>12
  <2>2. ~(k < j) /\ j # k
    BY <1>1, <1>16
  <2>3. ~StartedEarlier(h[p[k]], h[p[j]])
    BY <1>9, <2>1, <2>2
  <2>4. p[j] # p[k]
    BY <2>1, <2>2
  <2> QED
    BY <1>5, <2>1, <2>3, <2>4
<1> QED
  BY <1>13, <1>15, <1>16 DEF n

\* What reduce_history_prefix keeps are the first events, numbered anew.
SameButIndex(a, b) ==
  /\ a.worker = b.worker /\ a.sequence = b.sequence /\ a.operation = b.operation
  /\ a.started = b.started /\ a.finished = b.finished /\ a.error = b.error /\ a.actual = b.actual

LEMMA PrefixIs ==
  ASSUME NEW o, NEW n \in Nat, DOMAIN o = 1..n,
         \A k \in 1..n : DOMAIN o[k] = Fields, NEW size \in 0..n
  PROVE  LET P == Reindexed(SubSeq(o, 1, size))
         IN  /\ Len(P) = size /\ DOMAIN P = 1..size
             /\ \A k \in 1..size : SameButIndex(P[k], o[k]) /\ P[k].index = k - 1
<1> DEFINE S == {o[k] : k \in 1..n}
           s == SubSeq(o, 1, size)
           P == Reindexed(s)
<1>1. \A i \in 1..size : o[i] \in S
  OBVIOUS
<1> HIDE DEF S
<1>2. /\ s \in Seq(S) /\ Len(s) = IF 1 <= size THEN size - 1 + 1 ELSE 0
      /\ \A i \in 1..size - 1 + 1 : s[i] = o[1 + i - 1]
  BY <1>1, SubSeqProperties
<1>3. size - 1 + 1 = size /\ (\A i \in 1..size : 1 + i - 1 = i) /\ (~(1 <= size) => size = 0)
  OBVIOUS
<1>4. Len(s) = size /\ \A i \in 1..size : s[i] = o[i]
  BY <1>2, <1>3
<1>5. DOMAIN s = 1..size
  BY <1>2, <1>4, LenProperties
<1> HIDE DEF s
<1>6. P = [k \in 1..size |-> [s[k] EXCEPT !.index = k - 1]]
  BY <1>5 DEF Reindexed
<1>7. DOMAIN P = 1..size /\ Len(P) = size
  <2>1. DOMAIN P = 1..size /\ P = [k \in 1..size |-> P[k]]
    BY <1>6
  <2> HIDE DEF P
  <2>2. P \in Seq({P[k] : k \in 1..size})
    <3> DEFINE U == {P[k] : k \in 1..size}
    <3>1. \A k \in 1..size : P[k] \in U
      OBVIOUS
    <3> HIDE DEF U
    <3>2. P \in Seq(U)
      BY <2>1, <3>1
    <3> QED
      BY <3>2 DEF U
  <2>3. DOMAIN P = 1..Len(P) /\ Len(P) \in Nat
    BY <2>2, LenProperties
  <2> QED
    BY <2>1, <2>3
<1>8. ASSUME NEW k \in 1..size
      PROVE  SameButIndex(P[k], o[k]) /\ P[k].index = k - 1
  <2>1. P[k] = [o[k] EXCEPT !.index = k - 1]
    BY <1>4, <1>6
  <2>2. DOMAIN o[k] = Fields
    OBVIOUS
  <2> HIDE DEF P
  <2> QED
    BY <2>1, <2>2 DEF SameButIndex, Fields
<1> QED
  BY <1>7, <1>8 DEF P, s

\* A worker's earlier call also started earlier.
LEMMA EarlierCall ==
  ASSUME NEW a, NEW b, Event(a), Event(b), SameWorkerBefore(a, b),
         ~(a.finished > b.started), a.started <= a.finished
  PROVE  ~StartedEarlier(b, a)
BY DEF StartedEarlier, SameWorkerBefore, Event

\* A prefix has all earlier calls of its workers, so it can be judged.
LEMMA PrefixWellFormed ==
  ASSUME NEW h, Playable(h), WellFormed(h), NEW p \in Orders(Len(h)),
         \A j, k \in 1..Len(h) : j < k => StartedEarlier(h[p[j]], h[p[k]]),
         NEW size \in 0..Len(h), NEW P, Len(P) = size, DOMAIN P = 1..size,
         \A k \in 1..size : SameButIndex(P[k], h[p[k]]) /\ P[k].index = k - 1
  PROVE  Playable(P) /\ WellFormed(P)
<1> DEFINE n == Len(h)
<1>1. /\ n \in Nat /\ DOMAIN h = 1..n
      /\ \A k \in 1..n : Event(h[k]) /\ Request(h[k].operation)
  BY DEF Playable, Recorded
<1>2. /\ \A k \in 1..n : h[k].started <= h[k].finished
      /\ \A j, k \in 1..n : h[j].worker = h[k].worker /\ h[j].sequence = h[k].sequence => j = k
  BY WellFormedMeans DEF Playable
<1>3. /\ \A k \in 1..n : ~h[k].error
      /\ \A k \in 1..n : \A s \in 0..h[k].sequence :
           \E j \in 1..n : h[j].worker = h[k].worker /\ h[j].sequence = s
      /\ \A k \in 1..n : ValidOperation(h[k].operation)
      /\ \A j, k \in 1..n : SameWorkerBefore(h[j], h[k]) => ~(h[j].finished > h[k].started)
  <2>1. Failed(h) = {} /\ ~Disordered(h) /\ DOMAIN h = 1..n
    BY <1>1 DEF WellFormed
  <2>2. \A k \in 1..n : ~h[k].error
    BY ONLY <2>1 DEF Failed
  <2>3. \A k \in 1..n : \A s \in 0..h[k].sequence :
          \E j \in 1..n : h[j].worker = h[k].worker /\ h[j].sequence = s
    <3>1. ~\E k \in DOMAIN h : \E s \in 0..h[k].sequence :
             \A j \in DOMAIN h : ~(h[j].worker = h[k].worker /\ h[j].sequence = s)
      BY <2>1 DEF Disordered
    <3>2. DOMAIN h = 1..n
      BY <2>1
    <3> HIDE DEF n
    <3> QED
      BY ONLY <3>1, <3>2
  <2>4. \A k \in 1..n : ValidOperation(h[k].operation)
    BY ONLY <2>1, Zenon DEF Disordered
  <2>5. \A j, k \in 1..n : SameWorkerBefore(h[j], h[k]) => ~(h[j].finished > h[k].started)
    BY ONLY <2>1, Zenon DEF Disordered
  <2> QED
    BY <2>2, <2>3, <2>4, <2>5
<1> HIDE DEF n
<1>4. p \in [1..n -> 1..n] /\ \A i, j \in 1..n : p[i] = p[j] => i = j
  BY DEF Orders, n
<1>5. \A i \in 1..n : \E k \in 1..n : p[k] = i
  <2>1. IsFiniteSet(1..n)
    BY <1>1, FS_Interval
  <2>2. p \in Injection(1..n, 1..n)
    BY <1>4 DEF Injection, IsInjective
  <2>3. p \in Surjection(1..n, 1..n)
    BY <2>1, <2>2, FS_Injection
  <2> QED
    BY <2>3 DEF Surjection
<1>6. ASSUME NEW k \in 1..size
      PROVE  /\ k \in 1..n /\ p[k] \in 1..n
             /\ P[k].worker = h[p[k]].worker /\ P[k].sequence = h[p[k]].sequence
             /\ P[k].operation = h[p[k]].operation /\ P[k].error = h[p[k]].error
             /\ P[k].started = h[p[k]].started /\ P[k].finished = h[p[k]].finished
             /\ P[k].index = k - 1
  <2>1. k \in 1..n
    BY <1>1 DEF n
  <2> QED
    BY <1>4, <2>1 DEF SameButIndex
<1>7. Playable(P)
  <2>1. ASSUME NEW k \in 1..size
        PROVE  Event(P[k]) /\ Request(P[k].operation)
    <3>1. Event(h[p[k]]) /\ Request(h[p[k]].operation)
      BY <1>1, <1>6
    <3>2. P[k].index \in Int
      BY <1>6
    <3> QED
      BY <1>6, <3>1, <3>2 DEF Event
  <2>2. size \in Nat
    OBVIOUS
  <2> QED
    BY <2>1, <2>2 DEF Playable, Recorded
<1>8. Failed(P) = {}
  BY <1>3, <1>6 DEF Failed
<1>9. ASSUME NEW j \in 1..size, NEW k \in 1..size, P[j].worker = P[k].worker,
             P[j].sequence = P[k].sequence
      PROVE  j = k
  <2>1. /\ p[j] \in 1..n /\ p[k] \in 1..n /\ j \in 1..n /\ k \in 1..n
        /\ h[p[j]].worker = h[p[k]].worker /\ h[p[j]].sequence = h[p[k]].sequence
    BY <1>6, <1>9
  <2>2. p[j] = p[k]
    BY ONLY <1>2, <2>1
  <2> QED
    BY ONLY <1>4, <2>1, <2>2
<1>10. ~Malformed(P)
  <2> SUFFICES ASSUME NEW k \in Scanned(P)
               PROVE  /\ ~(P[k].finished < P[k].started)
                      /\ \A j \in 1..k - 1 :
                           /\ P[j].index # P[k].index
                           /\ ~(P[j].worker = P[k].worker /\ P[j].sequence = P[k].sequence)
    BY DEF Malformed
  <2>1. k \in 1..size
    BY DEF Scanned
  <2>2. ~(P[k].finished < P[k].started)
    <3>1. Event(h[p[k]]) /\ h[p[k]].started <= h[p[k]].finished
      BY <1>1, <1>2, <1>6, <2>1
    <3> QED
      BY <1>6, <2>1, <3>1 DEF Event
  <2>3. ASSUME NEW j \in 1..k - 1
        PROVE  /\ P[j].index # P[k].index
               /\ ~(P[j].worker = P[k].worker /\ P[j].sequence = P[k].sequence)
    <3>1. j \in 1..size /\ j # k /\ j - 1 # k - 1
      BY <2>1
    <3> QED
      BY <1>6, <1>9, <2>1, <3>1
  <2> QED
    BY <2>2, <2>3
<1>11. {P[k].index : k \in DOMAIN P} = 0..size - 1
  <2>1. \A k \in 1..size : P[k].index \in 0..size - 1
    BY <1>6
  <2>2. ASSUME NEW x \in 0..size - 1
        PROVE  \E k \in 1..size : P[k].index = x
    <3>1. x + 1 \in 1..size /\ (x + 1) - 1 = x
      OBVIOUS
    <3> QED
      BY <1>6, <3>1
  <2>3. DOMAIN P = 1..size
    OBVIOUS
  <2> QED
    BY ONLY <2>1, <2>2, <2>3, Zenon
<1>12. ASSUME NEW k \in 1..size, NEW s \in 0..P[k].sequence
       PROVE  \E j \in 1..size : P[j].worker = P[k].worker /\ P[j].sequence = s
  <2>1. s \in 0..h[p[k]].sequence /\ p[k] \in 1..n /\ k \in 1..n
    BY <1>6
  <2>2. PICK i \in 1..n : h[i].worker = h[p[k]].worker /\ h[i].sequence = s
    BY <1>3, <2>1
  <2>3. PICK j \in 1..n : p[j] = i
    BY <1>5
  <2>4. ASSUME ~(j <= k)
        PROVE  FALSE
    <3>1. k < j
      BY <1>1, <2>1, <2>4
    <3>2. StartedEarlier(h[p[k]], h[i])
      BY <2>1, <2>3, <3>1 DEF n
    <3>3. Event(h[p[k]]) /\ Event(h[i])
      BY <1>1, <2>1
    <3>4. i # p[k]
      BY <1>1, <1>4, <2>1, <2>3, <2>4
    <3>5. s \in Nat /\ (s < h[p[k]].sequence \/ s = h[p[k]].sequence)
      <4> DEFINE last == h[p[k]].sequence
      <4>1. last \in Nat /\ s \in 0..last
        BY <2>1, <3>3 DEF Event
      <4> HIDE DEF last
      <4>2. s \in Nat /\ (s < last \/ s = last)
        BY ONLY <4>1
      <4> QED
        BY <4>2 DEF last
    <3>6. s # h[p[k]].sequence
      BY ONLY <1>2, <2>1, <2>2, <3>4
    <3>7. SameWorkerBefore(h[i], h[p[k]])
      BY ONLY <2>2, <3>5, <3>6 DEF SameWorkerBefore
    <3>8. ~(h[i].finished > h[p[k]].started) /\ h[i].started <= h[i].finished
      BY ONLY <1>2, <1>3, <2>1, <3>7
    <3> QED
      BY ONLY <3>2, <3>3, <3>7, <3>8, EarlierCall
  <2>5. j \in 1..size
    BY <1>1, <2>4
  <2> QED
    BY <1>6, <2>2, <2>3, <2>5
<1>13. \A k \in 1..size : ValidOperation(P[k].operation)
  BY <1>3, <1>6
<1>14. ASSUME NEW j \in 1..size, NEW k \in 1..size, SameWorkerBefore(P[j], P[k])
       PROVE  ~(P[j].finished > P[k].started)
  <2>1. SameWorkerBefore(h[p[j]], h[p[k]])
    BY <1>6, <1>14 DEF SameWorkerBefore
  <2>2. ~(h[p[j]].finished > h[p[k]].started)
    BY <1>3, <1>6, <2>1
  <2> QED
    BY <1>6, <2>2
<1>15. ~Disordered(P)
  <2>1. DOMAIN P = 1..size /\ Len(P) = size
    OBVIOUS
  <2>2. {P[k].index : k \in DOMAIN P} = 0..(Len(P) - 1)
    BY ONLY <1>11, <2>1
  <2>3. ~\E k \in DOMAIN P : \E s \in 0..P[k].sequence :
           \A j \in DOMAIN P : ~(P[j].worker = P[k].worker /\ P[j].sequence = s)
    <3>1. ASSUME NEW k \in DOMAIN P, NEW s \in 0..P[k].sequence
          PROVE  \E j \in DOMAIN P : P[j].worker = P[k].worker /\ P[j].sequence = s
      <4>1. k \in 1..size
        BY <2>1
      <4>2. PICK j \in 1..size : P[j].worker = P[k].worker /\ P[j].sequence = s
        BY <1>12, <4>1
      <4>3. j \in DOMAIN P
        BY <2>1
      <4> QED
        BY <4>2, <4>3
    <3> QED
      BY ONLY <3>1, Zenon
  <2>4. ~\E k \in DOMAIN P : ~ValidOperation(P[k].operation)
    BY ONLY <1>13, <2>1
  <2>5. ~\E j, k \in DOMAIN P : SameWorkerBefore(P[j], P[k]) /\ P[j].finished > P[k].started
    BY ONLY <1>14, <2>1
  <2> QED
    BY ONLY <2>2, <2>3, <2>4, <2>5, Zenon DEF Disordered
<1> QED
  BY <1>7, <1>8, <1>10, <1>15 DEF WellFormed

\* Whatever order the events are listed in, the same orders explain them.
LEMMA ReorderExplains ==
  ASSUME NEW h, Len(h) \in Nat, NEW p \in Orders(Len(h)), NEW P, Len(P) = Len(h),
         \A k \in 1..Len(h) : SameButIndex(P[k], h[p[k]]), NEW c, Explainable(c, P)
  PROVE  Explainable(c, h)
<1> DEFINE n == Len(h)
<1>1. n \in Nat /\ Len(P) = n /\ \A k \in 1..n : SameButIndex(P[k], h[p[k]])
  OBVIOUS
<1>2. p \in [1..n -> 1..n] /\ \A i, j \in 1..n : p[i] = p[j] => i = j
  BY DEF Orders
<1>3. PICK r \in Orders(n) : Explains(r, c, P)
  BY <1>1 DEF Explainable
<1>4. Explainable(c, h) <=> \E q \in Orders(n) : Explains(q, c, h)
  BY DEF Explainable
<1> HIDE DEF n
<1>5. r \in [1..n -> 1..n] /\ \A i, j \in 1..n : r[i] = r[j] => i = j
  BY <1>3 DEF Orders
<1> DEFINE q == [k \in 1..n |-> p[r[k]]]
           f == RunOf(P, c, r, n)
           g == RunOf(h, c, q, n)
<1>6. /\ \A k \in 1..n : Apply(f[k - 1], P[r[k]].operation).reply = P[r[k]].actual
      /\ \A i \in 1..n : \A j \in 1..(i - 1) :
           /\ P[r[i]].finished >= P[r[j]].started
           /\ P[r[i]].worker = P[r[j]].worker => P[r[j]].sequence < P[r[i]].sequence
  BY <1>1, <1>3, ExplainsMeans
<1>7. q = [k \in 1..n |-> q[k]] /\ \A k \in 1..n : q[k] = p[r[k]] /\ q[k] \in 1..n
  BY <1>2, <1>5
<1> HIDE DEF q
<1>8. q \in Orders(n)
  <2>1. q \in [1..n -> 1..n]
    BY <1>7
  <2>2. ASSUME NEW i \in 1..n, NEW j \in 1..n, q[i] = q[j]
        PROVE  i = j
    BY <1>2, <1>5, <1>7, <2>2
  <2> QED
    BY <2>1, <2>2 DEF Orders
<1>9. ASSUME NEW k \in 1..n
      PROVE  /\ P[r[k]].operation = h[q[k]].operation /\ P[r[k]].actual = h[q[k]].actual
             /\ P[r[k]].worker = h[q[k]].worker /\ P[r[k]].sequence = h[q[k]].sequence
             /\ P[r[k]].started = h[q[k]].started /\ P[r[k]].finished = h[q[k]].finished
  <2>1. r[k] \in 1..n
    BY <1>5
  <2>2. SameButIndex(P[r[k]], h[p[r[k]]])
    BY <1>1, <2>1
  <2>3. q[k] = p[r[k]]
    BY <1>7
  <2> QED
    BY <2>2, <2>3 DEF SameButIndex
<1>10. \A k \in 0..n : f[k] = g[k]
  <2>1. f[0] = g[0]
    BY <1>1, RunSteps
  <2>2. ASSUME NEW k \in 1..n
        PROVE  \E op : f[k] = Apply(f[k - 1], op).model /\ g[k] = Apply(g[k - 1], op).model
    <3>1. f[k] = Apply(f[k - 1], P[r[k]].operation).model
      BY <1>1, RunSteps, SMTT(40)
    <3>2. g[k] = Apply(g[k - 1], h[q[k]].operation).model
      BY <1>1, RunSteps
    <3> QED
      BY <1>9, <3>1, <3>2
  <2> HIDE DEF f, g
  <2>3. SameCalls(f, g, n)
    BY <2>1, <2>2 DEF SameCalls
  <2> QED
    BY <1>1, <2>3, RunsAgree
<1> HIDE DEF f, g
<1>11. ASSUME NEW k \in 1..n
       PROVE  Apply(g[k - 1], h[q[k]].operation).reply = h[q[k]].actual
  <2>1. k - 1 \in 0..n
    BY <1>1
  <2>2. f[k - 1] = g[k - 1]
    BY <1>10, <2>1
  <2> QED
    BY <1>6, <1>9, <2>2
<1>12. ASSUME NEW i \in 1..n, NEW j \in 1..(i - 1)
       PROVE  /\ h[q[i]].finished >= h[q[j]].started
              /\ h[q[i]].worker = h[q[j]].worker => h[q[j]].sequence < h[q[i]].sequence
  <2>1. j \in 1..n
    BY <1>1
  <2>2. /\ P[r[i]].worker = h[q[i]].worker /\ P[r[i]].sequence = h[q[i]].sequence
        /\ P[r[i]].finished = h[q[i]].finished
        /\ P[r[j]].worker = h[q[j]].worker /\ P[r[j]].sequence = h[q[j]].sequence
        /\ P[r[j]].started = h[q[j]].started
    BY <1>9, <2>1
  <2>3. /\ P[r[i]].finished >= P[r[j]].started
        /\ P[r[i]].worker = P[r[j]].worker => P[r[j]].sequence < P[r[i]].sequence
    BY <1>6
  <2> QED
    BY ONLY <2>2, <2>3
<1>13. Explains(q, c, h)
  BY <1>11, <1>12, ExplainsMeans DEF g, n
<1> QED
  BY <1>4, <1>8, <1>13

\* A history of no calls is explained.
LEMMA EmptyExplained ==
  ASSUME NEW h, Len(h) = 0, NEW c
  PROVE  Explainable(c, h)
<1> DEFINE p == [k \in 1..0 |-> 1]
<1>1. p \in Orders(0)
  BY DEF Orders
<1>2. Explains(p, c, h)
  BY DEF Explains
<1> QED
  BY <1>1, <1>2 DEF Explainable

\* What reduce_history_prefix owes a history that failed.
Reduced(c, h, b) ==
  LET r == ReduceHistoryPrefix(c, h, b)
      n == Len(r.history)
      ordered == Ordered(h)
  IN  IF r.classification = "HISTORY_COUNTEREXAMPLE"
      THEN /\ ~Explainable(c, r.history)
           /\ \A k \in 1..n, l \in (n + 1)..Len(h) :
                ordered[k].finished < ordered[l].started
      ELSE r.classification = "INCONCLUSIVE" /\ b < Exhaustive(Len(h))

\* reduce_history_prefix on a history that can be judged and that nothing
\* explains.
LEMMA Reduces ==
  ASSUME NEW h, Playable(h), WellFormed(h), \A k \in 1..Len(h) : DOMAIN h[k] = Fields,
         NEW c \in Nat, ValidCapacity(c), NEW b \in Nat, ~Explainable(c, h)
  PROVE  Reduced(c, h, b)
<1> DEFINE N == Len(h)
           o == Ordered(h)
           original == CheckHistory(c, h, N, b).status
           Prefix(size) == Reindexed(SubSeq(o, 1, size))
           Checked(size) == CheckHistory(c, Prefix(size), size, b).status
           ends == {size \in DOMAIN o : QuiescentCut(o, size) /\ Checked(size) \in {"fail", "invalid"}}
           first == CHOOSE s \in ends : \A t \in ends : s <= t
           r == ReduceHistoryPrefix(c, h, b)
<1>1. N \in Nat /\ DOMAIN h = 1..N /\ \A k \in 1..N : Event(h[k])
  BY DEF Playable, Recorded
<1>2. PICK p \in Orders(N) :
        /\ o = [k \in 1..N |-> h[p[k]]]
        /\ \A j, k \in 1..N : j < k => StartedEarlier(h[p[j]], h[p[k]])
  BY OrderedMeans DEF Playable
<1>3. p \in [1..N -> 1..N]
  BY <1>2 DEF Orders
<1>4. r = CASE original = "invalid"      -> [classification |-> "ValueError", history |-> h]
            [] original = "inconclusive" -> [classification |-> "INCONCLUSIVE", history |-> h]
            [] original = "pass"         -> [classification |-> "NO_COUNTEREXAMPLE", history |-> h]
            [] original = "fail" ->
                 IF ends = {} THEN [classification |-> "INCONCLUSIVE", history |-> h]
                 ELSE IF Checked(first) = "invalid"
                      THEN [classification |-> "ValueError", history |-> h]
                 ELSE [classification |-> "HISTORY_COUNTEREXAMPLE", history |-> Prefix(first)]
  BY DEF ReduceHistoryPrefix
<1>5. original \in {"fail", "inconclusive"} /\ (original = "inconclusive" => b < Exhaustive(N))
  BY CheckWellFormed
<1>6. DOMAIN o = 1..N /\ \A k \in 1..N : o[k] = h[p[k]] /\ DOMAIN o[k] = Fields
  <2>1. \A k \in 1..N : p[k] \in 1..N
    BY <1>3
  <2> QED
    BY <1>2, <2>1
<1> HIDE DEF N, o
<1>7. ASSUME NEW size \in 0..N
      PROVE  /\ Len(Prefix(size)) = size /\ Playable(Prefix(size)) /\ WellFormed(Prefix(size))
             /\ \A k \in 1..size : SameButIndex(Prefix(size)[k], h[p[k]])
  <2> DEFINE P == Prefix(size)
  <2>1. /\ Len(P) = size /\ DOMAIN P = 1..size
        /\ \A k \in 1..size : SameButIndex(P[k], o[k]) /\ P[k].index = k - 1
    BY <1>1, <1>6, PrefixIs
  <2>2. \A k \in 1..size : k \in 1..N
    BY <1>1
  <2>3. \A k \in 1..size : SameButIndex(P[k], h[p[k]]) /\ P[k].index = k - 1
    BY <1>6, <2>1, <2>2
  <2> HIDE DEF P
  <2>4. Playable(P) /\ WellFormed(P)
    BY <1>2, <2>1, <2>3, PrefixWellFormed DEF N
  <2> QED
    BY <2>1, <2>3, <2>4 DEF P
<1> HIDE DEF Prefix
<1>8. ASSUME NEW size \in 0..N
      PROVE  /\ Checked(size) \in {"pass", "fail", "inconclusive"}
             /\ Checked(size) = "pass" => Explainable(c, Prefix(size))
             /\ Checked(size) = "fail" => ~Explainable(c, Prefix(size))
             /\ Checked(size) = "inconclusive" => b < Exhaustive(size)
  <2> DEFINE P == Prefix(size)
  <2>1. Len(P) = size /\ Playable(P) /\ WellFormed(P)
    BY <1>7
  <2> HIDE DEF P
  <2>2. LET v == CheckHistory(c, P, Len(P), b)
        IN  /\ v.status \in {"pass", "fail", "inconclusive"}
            /\ v.status = "pass" => Explainable(c, P)
            /\ v.status = "fail" => ~Explainable(c, P)
            /\ v.status = "inconclusive" => b < Exhaustive(Len(P))
    BY <2>1, CheckWellFormed
  <2> QED
    BY <2>1, <2>2 DEF P
<1> HIDE DEF Checked, first, r, original
<1>9. CASE original = "inconclusive"
  <2>1. r = [classification |-> "INCONCLUSIVE", history |-> h]
    BY <1>4, <1>9
  <2>2. r.classification = "INCONCLUSIVE"
    BY <2>1
  <2> QED
    BY <1>5, <1>9, <2>2 DEF Reduced, r, N
<1>10. CASE original = "fail" /\ ends = {}
  <2>1. r = [classification |-> "INCONCLUSIVE", history |-> h]
    BY <1>4, <1>10
  <2>2. r.classification = "INCONCLUSIVE"
    BY <2>1
  <2>3. N \in 1..N /\ N \in 0..N
    BY <1>1, EmptyExplained DEF N
  <2>4. QuiescentCut(o, N)
    <3>1. o \in Seq({o[k] : k \in DOMAIN o})
      <4> DEFINE S == {o[k] : k \in DOMAIN o}
      <4>1. \A k \in 1..N : o[k] \in S
        BY <1>6
      <4>2. o = [k \in 1..N |-> o[k]]
        BY <1>2, <1>6
      <4> HIDE DEF S
      <4>3. o \in Seq(S)
        BY <1>1, <4>1, <4>2
      <4> QED
        BY <4>3 DEF S
    <3>2. DOMAIN o = 1..Len(o) /\ Len(o) \in Nat
      BY <3>1, LenProperties
    <3>3. Len(o) = N
      BY <1>1, <1>6, <3>2
    <3> QED
      BY <1>1, <3>3 DEF QuiescentCut
  <2>5. Checked(N) # "fail"
    BY <1>6, <1>10, <2>3, <2>4
  <2>6. Checked(N) # "pass"
    <3>1. SUFFICES ASSUME Checked(N) = "pass" PROVE FALSE
      OBVIOUS
    <3>2. Explainable(c, Prefix(N))
      BY <1>8, <2>3, <3>1
    <3>3. Len(Prefix(N)) = N /\ \A k \in 1..N : SameButIndex(Prefix(N)[k], h[p[k]])
      BY <1>7, <2>3
    <3>4. Explainable(c, h)
      BY <1>1, <1>2, <3>2, <3>3, ReorderExplains DEF N
    <3> QED
      BY <3>4
  <2>7. b < Exhaustive(N)
    BY <1>8, <2>3, <2>5, <2>6
  <2> QED
    BY <2>2, <2>7 DEF Reduced, r, N
<1>11. CASE original = "fail" /\ ends # {}
  <2>1. first \in ends
    <3>1. ends \in SUBSET Nat
      BY <1>6
    <3>2. \E s \in ends : \A t \in ends : s <= t
      BY <1>11, <3>1, LeastNatural
    <3> HIDE DEF ends
    <3> QED
      BY <3>2 DEF first
  <2>2. first \in 1..N /\ first \in 0..N /\ QuiescentCut(o, first)
        /\ Checked(first) \in {"fail", "invalid"}
    BY <1>1, <1>6, <2>1
  <2>3. Checked(first) = "fail" /\ ~Explainable(c, Prefix(first)) /\ Len(Prefix(first)) = first
    BY <1>7, <1>8, <2>2
  <2>4. r = [classification |-> "HISTORY_COUNTEREXAMPLE", history |-> Prefix(first)]
    <3> HIDE DEF ends
    <3> QED
      BY <1>4, <1>11, <2>3
  <2>5. /\ r.classification = "HISTORY_COUNTEREXAMPLE" /\ r.history = Prefix(first)
    BY <2>4
  <2>6. ASSUME NEW k \in 1..first, NEW l \in (first + 1)..N
        PROVE  o[k].finished < o[l].started
    <3>1. /\ k \in 1..N /\ l \in 1..N /\ first + 1 \in 1..N
          /\ first + 1 = l \/ first + 1 < l
      BY <1>1, <2>2
    <3>2. Len(o) = N
      <4> DEFINE S == {o[i] : i \in DOMAIN o}
      <4>1. \A i \in 1..N : o[i] \in S
        BY <1>6
      <4>2. o = [i \in 1..N |-> o[i]]
        BY <1>2, <1>6
      <4> HIDE DEF S
      <4>3. o \in Seq(S)
        BY <1>1, <4>1, <4>2
      <4> QED
        BY <1>1, <1>6, <4>3, LenProperties
    <3>3. first < Len(o)
      BY <1>1, <2>2, <3>1, <3>2
    <3>4. o[k].finished < o[first + 1].started
      BY <2>2, <3>3 DEF QuiescentCut
    <3>5. first + 1 < l => StartedEarlier(o[first + 1], o[l])
      BY <1>2, <1>6, <3>1
    <3>6. Event(o[k]) /\ Event(o[first + 1]) /\ Event(o[l])
      BY <1>1, <1>3, <1>6, <3>1
    <3> DEFINE x == o[k]
               y == o[first + 1]
               z == o[l]
    <3>7. y = z \/ StartedEarlier(y, z)
      BY <3>1, <3>5
    <3> HIDE DEF x, y, z
    <3>8. x.finished < y.started /\ Event(x) /\ Event(y) /\ Event(z)
      BY <3>4, <3>6 DEF x, y, z
    <3>9. x.finished < z.started
      BY ONLY <3>7, <3>8 DEF Event, StartedEarlier
    <3> QED
      BY ONLY <3>9 DEF x, z
  <2> QED
    BY <2>3, <2>5, <2>6 DEF Reduced, r, o, N
<1> QED
  BY <1>5, <1>9, <1>10, <1>11

\* A history that failed is reduced when the run ends, and kept from then on.
LEMMA ReduceStep ==
  CaptureInv /\ CounterexampleReduces /\ [Next]_vars => CounterexampleReduces'
<1> SUFFICES ASSUME CaptureInv, CounterexampleReduces, [Next]_vars, verdict'.status = "fail"
             PROVE  Reduced(scenario'.capacity, history', budget')
  BY DEF CounterexampleReduces, Reduced
<1>1. phase' = "ended"
  <2>1. CaptureInv'
    BY CaptureStep
  <2>2. phase' # "ended" => verdict' = NoVerdict
    BY <2>1 DEF CaptureInv, PhaseInv
  <2>3. NoVerdict.status # "fail"
    BY DEF NoVerdict
  <2> QED
    BY <2>2, <2>3
<1>2. /\ UNCHANGED <<scenario, budget, history, shadow>>
      /\ \/ phase = "ended" /\ verdict' = verdict /\ errors' = errors
         \/ verdict'.status = "ValueError" /\ errors = 0 /\ errors' = errors
         \/ errors' = errors + 1 /\ verdict' = ExecutionError
         \/ Leave /\ Raised /\ errors' = errors /\ verdict' = ExecutionError
         \/ Leave /\ ~Raised /\ errors' = errors /\ verdict' = Judgement
  BY <1>1, Endings
<1>3. ExecutionError.status # "fail"
  BY DEF ExecutionError
<1>4. Reduced(scenario.capacity, history, budget)
  <2>1. CASE verdict' = verdict
    BY <2>1 DEF CounterexampleReduces, Reduced
  <2>2. CASE Leave /\ ~Raised /\ verdict' = Judgement
    <3>1. /\ ValidWorkerPlan(scenario) /\ PlanOK(scenario) /\ budget \in Nat
          /\ HistoryOK(history, scenario, clock, pc, next, event)
      BY <2>2 DEF Leave, CaptureInv, TypeInv, PhaseInv, HistoryInv
    <3>2. ValidCapacity(scenario.capacity) /\ scenario.capacity \in Nat
      <4>1. ValidCapacity(scenario.capacity)
        BY <3>1 DEF ValidWorkerPlan, ValidScenario
      <4> QED
        BY <3>1, <4>1, BoundsAssumption DEF ValidCapacity, PlanOK
    <3>3. /\ Playable(history) /\ WellFormed(history)
          /\ ~Explainable(scenario.capacity, history)
      BY <2>2, JudgedMeans
    <3>4. \A k \in 1..Len(history) : DOMAIN history[k] = Fields
      BY <3>1, <3>3 DEF HistoryOK, Owned, Playable, Recorded
    <3> QED
      BY <3>1, <3>2, <3>3, <3>4, Reduces
  <2> QED
    BY <1>2, <1>3, <2>1, <2>2
<1> QED
  BY <1>2, <1>4

\* Whatever history fails, reduce_history_prefix finds a prefix of it that
\* nothing explains either and that ends where no call is open, unless the
\* search budget is too small for its calls in their new order.
THEOREM Reducible == Spec => []CounterexampleReduces
<1>1. Init => CaptureInv /\ CounterexampleReduces
  <2>1. Init => verdict = NoVerdict
    BY DEF Init
  <2>2. verdict = NoVerdict => CounterexampleReduces
    <3>1. NoVerdict.status # "fail"
      BY DEF NoVerdict
    <3> QED
      BY <3>1 DEF CounterexampleReduces
  <2> QED
    BY <2>1, <2>2, CaptureInit
<1>2. CaptureInv /\ CounterexampleReduces /\ [Next]_vars => CaptureInv' /\ CounterexampleReduces'
  BY CaptureStep, ReduceStep
<1> QED
  BY <1>1, <1>2, PTL DEF Spec

=============================================================================
