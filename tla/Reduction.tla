------------------------------ MODULE Reduction ------------------------------
(***************************************************************************)
(* The two delta-debugging loops of the laboratory: reduce_scenario of     *)
(* lab/runner.py for sequential runs, and reduce_concurrent of             *)
(* lab/replay.py, which replays every candidate several times.  The loops  *)
(* are the same; they differ in how they start and how often they run a    *)
(* candidate.  What a run shows is up to the device: an intermittent fault *)
(* may show in one run of a candidate and not in the next.                 *)
(***************************************************************************)
EXTENDS Integers, Sequences, FiniteSets

CONSTANTS Size,        \* bound: operations of the scenario
          Workers,     \* how many workers own them
          Trials,      \* fresh runs of every candidate of reduce_concurrent
          MaxBudget    \* bound: candidate budgets 1..MaxBudget

VARIABLES
  mode,          \* which of the two functions
  strategy, budget,   \* its arguments
  operations,    \* current["operations"], as positions in the scenario
  worker_ids,    \* current["worker_ids"]
  granularity, start, changed, attempts,   \* the loop
  phase,         \* where the function is
  outcome,       \* what it reports
  rejected,      \* candidates rejected since current last changed, for the properties
  groups         \* the groups run, for the properties: how many, the last candidate
                 \* and whether all its runs failed alike

vars == <<mode, strategy, budget, operations, worker_ids, granularity, start, changed,
          attempts, phase, outcome, rejected, groups>>
loop == <<granularity, start, changed, attempts>>
current == <<operations, worker_ids>>

Owner(i) == i % Workers

Least(a, b)    == IF a <= b THEN a ELSE b
Greatest(a, b) == IF a >= b THEN a ELSE b

\* How the runs of one candidate may end; "other" is a failure with another
\* signature, which only the sequential runner tells apart.
Results == IF mode = "scenario"
           THEN [1..1 -> {"pass", "fail", "other", "inconclusive"}]
           ELSE [1..Trials -> {"pass", "fail", "inconclusive"}]

Matched(results) == \A t \in DOMAIN results : results[t] = "fail"

Ran(ops, results) ==
  groups' = [count |-> groups.count + 1, last |-> ops, matched |-> Matched(results)]

Init ==
  /\ mode \in {"scenario", "concurrent"}
  /\ strategy \in IF mode = "scenario" THEN {"chunk"} ELSE {"single", "chunk"}
  /\ budget \in 1..MaxBudget
  /\ operations = [i \in 1..Size |-> i]
  /\ worker_ids = [i \in 1..Size |-> Owner(i)]
  /\ granularity = 2 /\ start = 0 /\ changed = FALSE /\ attempts = 0
  /\ phase = "initial"
  /\ outcome = "none"
  /\ rejected = {}
  /\ groups = [count |-> 0, last |-> << >>, matched |-> FALSE]

Ends(what) == phase' = "ended" /\ outcome' = what

Unreproduced(results) ==
  IF \E t \in DOMAIN results : results[t] = "inconclusive"
  THEN "INCONCLUSIVE" ELSE "REPRODUCTION_FAILED"

(***************************************************************************)
(* The first run.  reduce_scenario drops what follows the failing          *)
(* operation and refuses a scenario that does not fail; reduce_concurrent  *)
(* reports one that does not fail in every trial.                          *)
(***************************************************************************)
InitialScenario ==
  /\ phase = "initial" /\ mode = "scenario"
  /\ \E results \in Results \ {<<"other">>} :
       /\ Ran(operations, results)
       /\ IF Matched(results)
          THEN \E failure_index \in 1..Size :
                 /\ operations' = SubSeq(operations, 1, failure_index)
                 /\ worker_ids' = SubSeq(worker_ids, 1, failure_index)
                 /\ phase' = "while" /\ outcome' = outcome
          ELSE Ends("ValueError") /\ UNCHANGED current
  /\ UNCHANGED <<mode, strategy, budget, loop, rejected>>

InitialReplay ==
  /\ phase = "initial" /\ mode = "concurrent"
  /\ \E results \in Results :
       /\ Ran(operations, results)
       /\ IF Matched(results)
          THEN phase' = "while" /\ outcome' = outcome
          ELSE Ends(Unreproduced(results))
  /\ UNCHANGED <<mode, strategy, budget, current, loop, rejected>>

-----------------------------------------------------------------------------
Chunk == IF strategy = "single" THEN 1
         ELSE (Len(operations) + granularity - 1) \div granularity

WithinBudget == attempts < budget

While ==
  /\ phase = "while"
  /\ IF Len(operations) > 1 /\ attempts < budget
     THEN phase' = "for" /\ start' = 0 /\ changed' = FALSE
     ELSE phase' = "confirm" /\ UNCHANGED <<start, changed>>
  /\ UNCHANGED <<mode, strategy, budget, current, granularity, attempts, outcome, rejected, groups>>

Without(seq) ==
  SubSeq(seq, 1, start) \o SubSeq(seq, start + Chunk + 1, Len(seq))

Owners == Without(worker_ids)

\* One candidate of the for loop: the operations without one chunk.
Candidate ==
  /\ phase = "for" /\ ~changed
  /\ start < Len(operations) /\ WithinBudget
  /\ Without(operations) # << >>
  /\ attempts' = attempts + 1
  /\ \E results \in Results :
       /\ Ran(Without(operations), results)
       /\ IF Matched(results)
          THEN /\ operations' = Without(operations) /\ worker_ids' = Owners
               /\ granularity' = Greatest(2, granularity - 1)
               /\ changed' = TRUE
               /\ rejected' = {}
               /\ start' = start
          ELSE /\ rejected' = rejected \cup {Without(operations)}
               /\ start' = start + Chunk
               /\ UNCHANGED <<current, granularity, changed>>
  /\ UNCHANGED <<mode, strategy, budget, phase, outcome>>

\* Mutant: a chunk of one operation is never tried when two would do.
Finest_Halfway == strategy = "single" \/ granularity * 2 >= Len(operations)

Finest == strategy = "single" \/ granularity >= Len(operations)

\* The for loop is over: accepted, out of budget, or out of chunks.
Round ==
  /\ phase = "for"
  /\ changed \/ start >= Len(operations) \/ ~WithinBudget
  /\ IF changed
     THEN phase' = "while" /\ granularity' = granularity
     ELSE IF Finest THEN phase' = "confirm" /\ granularity' = granularity
     ELSE phase' = "while" /\ granularity' = Least(Len(operations), granularity * 2)
  /\ UNCHANGED <<mode, strategy, budget, current, start, changed, attempts, outcome, rejected, groups>>

\* Mutant: the group that accepted the candidate serves as its confirmation.
Confirm_Reused ==
  /\ phase = "confirm"
  /\ Ends("EXECUTABLE_REPRODUCER_FOUND")
  /\ UNCHANGED <<mode, strategy, budget, current, loop, rejected, groups>>

\* The result is run once more, whatever ended the search.  For
\* reduce_scenario a reproducer is the field "confirmed".
Confirm ==
  /\ phase = "confirm"
  /\ \E results \in Results :
       /\ Ran(operations, results)
       /\ Ends(IF Matched(results) THEN "EXECUTABLE_REPRODUCER_FOUND" ELSE Unreproduced(results))
  /\ UNCHANGED <<mode, strategy, budget, current, loop, rejected>>

Ended == phase = "ended" /\ UNCHANGED vars

Step == InitialScenario \/ InitialReplay \/ While \/ Candidate \/ Round \/ Confirm

Next == Step \/ Ended

Spec == Init /\ [][Next]_vars

-----------------------------------------------------------------------------
\* The candidate budget is never exceeded, and the runs outside it are the
\* first one and at most one confirmation.
BudgetKept ==
  /\ attempts <= budget
  /\ groups.count <= attempts + 2

\* What is reported as a reproducer has just failed in every run of a group
\* of its own, after the search.
ReproducerConfirmed ==
  outcome = "EXECUTABLE_REPRODUCER_FOUND" =>
    /\ groups.last = operations /\ groups.matched
    /\ groups.count = attempts + 2

\* The result is a part of the scenario in its order, and every operation
\* is still owned by the worker it belonged to.
OrderAndOwnersKept ==
  /\ Len(worker_ids) = Len(operations) /\ operations # << >>
  /\ \A k \in DOMAIN operations : /\ worker_ids[k] = Owner(operations[k])
                                  /\ k > 1 => operations[k - 1] < operations[k]

Remove(seq, k) == SubSeq(seq, 1, k - 1) \o SubSeq(seq, k + 1, Len(seq))

\* A search that was not cut off by its budget ends with a result from which
\* no single operation could be dropped: each deletion was run since the
\* last change and did not reproduce the failure.
OneMinimal ==
  phase \in {"confirm", "ended"} /\ groups.count > 1 /\ attempts < budget /\ Len(operations) > 1 =>
    \A k \in DOMAIN operations : Remove(operations, k) \in rejected

\* What is reported keeps the order and the owners of the scenario, was
\* confirmed by runs of its own, and cost no more than the budget.
ReproducerIsSound == BudgetKept /\ ReproducerConfirmed /\ OrderAndOwnersKept

=============================================================================
