--------------------------- MODULE MCConcurrentRun ---------------------------
(***************************************************************************)
(* Small plans for two workers.  Each fault has a plan on which it shows;  *)
(* one plan gives an operation to a worker that does not exist.            *)
(***************************************************************************)
EXTENDS ConcurrentRun

W(payload) == [op |-> "write", data |-> payload]
R(n)       == [op |-> "read", count |-> n]
Resize(n)  == [op |-> "resize", capacity |-> n]
Clear      == [op |-> "clear"]
Capacity   == [op |-> "capacity"]

Plan(operations, owners) ==
  [capacity |-> MinCapacity, operations |-> operations, worker_ids |-> owners]

SmallPlans ==
  { Plan(<<W(<<1, 2>>), R(2), R(1)>>, <<0, 1, 0>>),
    Plan(<<W(<<1, 2>>), Resize(3), R(2)>>, <<0, 0, 1>>),
    Plan(<<W(<<1>>), Clear, R(1)>>, <<0, 1, 1>>),
    Plan(<<Capacity, W(<<1, 2>>), Resize(1)>>, <<1, 0, 1>>),
    Plan(<<R(1), R(1)>>, <<0, 2>>) }

LargePlans ==
  { Plan(<<W(<<1, 2>>), R(1), W(<<2>>), R(2)>>, <<0, 1, 0, 1>>),
    Plan(<<W(<<1>>), W(<<2>>), R(2), R(1)>>, <<0, 1, 0, 1>>) }

AllFaults == {"none", "false-eof", "reverse-read", "resize-loss", "wrong-eagain",
              "short-write", "capacity-corruption", "clear-noop", "intermittent-eof"}

Case(s, f, b) == [scenario |-> s, fault |-> f, budget |-> b]

AllCases ==
  {Case(s, f, b) : s \in SmallPlans, f \in AllFaults, b \in {3, 100}}
    \cup {Case(s, f, 100) : s \in LargePlans, f \in {"none", "reverse-read"}}

=============================================================================
