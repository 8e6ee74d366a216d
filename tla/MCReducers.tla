----------------------------- MODULE MCReducers -----------------------------
(***************************************************************************)
(* The laboratory's three reducers, one of which is called: the two of     *)
(* Reduction on a scenario of Size operations, and reduce() of Dradd.      *)
(* They are loops of the same shape and share the variables they have in   *)
(* common; the others are Unused in the calls of the other module.         *)
(*                                                                         *)
(* Dradd is run on all workloads of three operations and two workers with  *)
(* required edges, also those the constructor refuses, and on some of four *)
(* and five in which a prerequisite has dependents of its own.             *)
(***************************************************************************)
EXTENDS Dradd

CONSTANTS Size, Workers, ReplayTrials, MaxBudget, Unused

ASSUME ReductionAssumption ==
  Size \in Nat \ {0} /\ ReplayTrials \in 1..20 /\ MaxBudget \in 1..100

VARIABLES mode, budget, operations, worker_ids, start, groups

reductionVars == <<budget, operations, worker_ids, start, groups>>
draddVars == <<source, config, current, offset, invalid, executions, exhausted, stats, log>>

Delta == INSTANCE Reduction WITH Trials <- ReplayTrials

Edge(a, b, k) == [op |-> a, requires |-> b, kind |-> k]

SmallWorkloads ==
  {[owners |-> o, edges |-> {Edge(p[1], p[2], "CONTRACT_REQUIRED") : p \in E}] :
     o \in [1..3 -> 0..1], E \in SUBSET {<<1, 2>>, <<2, 1>>, <<3, 1>>, <<1, 3>>, <<3, 2>>}}

LargeWorkloads ==
  {[owners |-> <<0, 1, 0, 1, 0>>,
    edges |-> {Edge(i + 1, i, "CONTRACT_REQUIRED") : i \in chain}
                \cup {Edge(1, 5, "OPTIONAL_HEURISTIC")}] : chain \in {{}, {2, 3}, {1, 3}}}
    \cup {[owners |-> <<0, 1, 1, 0>>, edges |-> {Edge(1, 3, "HARD_STRUCTURAL")}]}

AllStrategies == {"single", "chunk", "dependency", "reproduction", "dradd"}

Call(w, s, trials, most, candidates, lower) ==
  [workload |-> w, strategy |-> s,
   config |-> [trials |-> trials, max_executions |-> most, max_candidates |-> candidates,
               threshold |-> <<1, 2>>, lower |-> lower]]

AllCalls ==
  {Call(w, s, 2, 11, 5, 2) : w \in SmallWorkloads, s \in AllStrategies}
    \cup {Call(w, s, 1, 9, 8, 0) : w \in LargeWorkloads, s \in AllStrategies}

-----------------------------------------------------------------------------
AnyInit ==
  \/ /\ mode = "dradd" /\ Init
     /\ budget = Unused /\ operations = Unused /\ worker_ids = Unused /\ start = Unused
     /\ groups = Unused
  \/ /\ Delta!Init
     /\ source = Unused /\ config = Unused /\ current = Unused /\ offset = Unused
     /\ invalid = Unused /\ executions = Unused /\ exhausted = Unused /\ stats = Unused
     /\ log = Unused

AnyNext ==
  \/ mode = "dradd" /\ Next /\ UNCHANGED <<mode, reductionVars>>
  \/ mode # "dradd" /\ Delta!Next /\ UNCHANGED draddVars

AnySpec == AnyInit /\ [][AnyNext]_<<vars, mode, reductionVars>>

-----------------------------------------------------------------------------
\* prune, candidate and reduce of dradd.py: what is run and what is reported
\* are workloads.  A candidate has all prerequisites of its operations,
\* pruning takes away no more than it must, and the result, its edges
\* renumbered, could be reduced again.
DraddIsLawful == mode = "dradd" => CandidatesAreLawful

\* reduce of dradd.py: trials for the confirmation are left whenever it is
\* reached, success rests on that group alone, and verify() of research.py
\* accepts every result.
DraddIsConfirmed == mode = "dradd" => ResultIsConfirmed

\* reduce of dradd.py: a search that ends within its budgets has tried and
\* rejected every single deletion from the result.
DraddIsMinimal == mode = "dradd" => NoDeletionUntried

\* reduce_scenario of runner.py and reduce_concurrent of replay.py: the
\* budget holds, and a reproducer is a part of the scenario, with the owners
\* of its operations, that failed again in runs of its own.
ReductionIsSound == mode # "dradd" => Delta!ReproducerIsSound

\* reduce_scenario and reduce_concurrent: unless the budget cut the search
\* off, no operation of the result could be dropped.
ReductionIsMinimal == mode # "dradd" => Delta!OneMinimal

=============================================================================
