-------------------------------- MODULE Dradd --------------------------------
(***************************************************************************)
(* lab/dradd.py: dependency-guided, reproduction-aware delta debugging.    *)
(* A workload is a list of operations, each owned by a worker, and edges   *)
(* saying that an operation may be kept only if another one is.  Groups of *)
(* fresh trials decide whether a deletion is accepted, under a budget of   *)
(* trials of which the last group is reserved for a confirmation.          *)
(***************************************************************************)
EXTENDS Integers, Sequences, FiniteSets

CONSTANTS Calls   \* the calls of reduce(): workload (owners, a sequence, and edges
                  \* [op, requires, kind]), strategy and config, which is
                  \*   trials          trials of a group
                  \*   max_executions  budget of trials
                  \*   max_candidates  budget of candidates
                  \*   threshold       <<p, q>>: the frequency p/q that a group must reach
                  \*   lower           how many trials must match for the Wilson bound to hold

ASSUME CallsAssumption ==
  \A c \in Calls :
    /\ c.workload.owners \in Seq(Nat)
    /\ c.config.trials \in 1..20 /\ c.config.lower \in 0..c.config.trials
    /\ c.config.max_executions \in Nat /\ 2 * c.config.trials <= c.config.max_executions
    /\ c.config.max_candidates \in 1..1000
    /\ 0 < c.config.threshold[1] /\ c.config.threshold[1] <= c.config.threshold[2]

VARIABLES
  source, strategy, config,   \* the arguments
  current,             \* the operations kept, by their original position
  granularity, offset, changed, attempts, invalid, executions, exhausted,
  phase,
  outcome,             \* "none" until the function returns
  stats,               \* final: the statistics the result reports
  rejected,            \* for the properties: candidates rejected since current changed
  log                  \* for the properties: the groups, as far as verify() recomputes them

vars == <<source, strategy, config, current, granularity, offset, changed, attempts, invalid,
          executions, exhausted, phase, outcome, stats, rejected, log>>
arguments == <<source, strategy, config>>
search == <<granularity, offset, changed, attempts, invalid, exhausted>>

Trials        == config.trials
MaxExecutions == config.max_executions
MaxCandidates == config.max_candidates
Threshold     == config.threshold
LowerTargets  == config.lower

-----------------------------------------------------------------------------
\* Workload: required edges, the checks of the constructor, projections.

Required == {"HARD_STRUCTURAL", "CONTRACT_REQUIRED"}

Prerequisites(w, i) == {e.requires : e \in {d \in w.edges : d.op = i /\ d.kind \in Required}}

\* Required edges and, for each operation, the one before it by its worker.
Graph(w, i) ==
  Prerequisites(w, i) \cup
    {j \in 1..(i - 1) : /\ w.owners[j] = w.owners[i]
                        /\ \A k \in (j + 1)..(i - 1) : w.owners[k] # w.owners[i]}

\* A finite graph has a cycle if some operations all lead back among themselves.
Cyclic(w) ==
  \E S \in SUBSET DOMAIN w.owners \ {{}} : \A i \in S : Graph(w, i) \cap S # {}

Acceptable(w) ==
  /\ Len(w.owners) \in 1..12
  /\ \A e \in w.edges : /\ e.op # e.requires
                        /\ {e.op, e.requires} \subseteq DOMAIN w.owners
  /\ \A i \in DOMAIN w.owners : \A j \in Prerequisites(w, i) :
       w.owners[i] = w.owners[j] => j < i
  /\ ~Cyclic(w)

Kept(keep) == {keep[k] : k \in DOMAIN keep}

Valid(w, keep) ==
  /\ keep # << >>
  /\ \A i \in Kept(keep) : Prerequisites(w, i) \subseteq Kept(keep)

\* sorted(ids): the k-th member has k members up to it.
Sorted(ids) ==
  [k \in 1..Cardinality(ids) |-> CHOOSE i \in ids : Cardinality({j \in ids : j <= i}) = k]

\* Mutant: dependents are deleted once, their own dependents are not.
Prune_Once(w, keep) ==
  Sorted({i \in Kept(keep) : Prerequisites(w, i) \subseteq Kept(keep)})

\* Delete dependents of missing prerequisites to a fixed point, which a list
\* reaches after at most as many rounds as it has members.
Prune(w, keep) ==
  LET ids[n \in 0..Len(keep)] ==
        IF n = 0 THEN Kept(keep)
        ELSE {i \in ids[n - 1] : Prerequisites(w, i) \subseteq ids[n - 1]}
  IN  Sorted(ids[Len(keep)])

\* candidate(keep): the projection, with its edges renumbered.
Candidate(w, keep) ==
  LET mapping == [i \in Kept(keep) |-> CHOOSE k \in DOMAIN keep : keep[k] = i]
  IN  [owners |-> [k \in DOMAIN keep |-> w.owners[keep[k]]],
       edges |-> {[op |-> mapping[e.op], requires |-> mapping[e.requires], kind |-> e.kind] :
                    e \in {d \in w.edges : {d.op, d.requires} \subseteq Kept(keep)}}]

-----------------------------------------------------------------------------
\* Groups of trials.

TrialEnds == {"target", "pass", "different", "timeout", "incomplete", "environment"}

Count(trials, end) == Cardinality({t \in DOMAIN trials : trials[t] = end})

TrialSummary(trials) == [end \in TrialEnds |-> Count(trials, end)]

\* The trials that were completed, whatever they showed.
ValidTrials(s) == s["target"] + s["pass"] + s["different"]

Summaries(n) == {TrialSummary(trials) : trials \in [1..n -> TrialEnds]}

Accepted(s, n, rate, lower) ==
  /\ ValidTrials(s) = n /\ s["target"] > 0
  /\ s["target"] * rate[2] >= rate[1] * ValidTrials(s)
  /\ s["target"] >= lower

Rejection(s) ==
  IF s["environment"] > 0 THEN "ENVIRONMENT_ERROR"
  ELSE IF s["timeout"] > 0 \/ s["incomplete"] > 0 THEN "INCOMPLETE_EXECUTION"
  ELSE IF s["different"] > 0 THEN "DIFFERENT_FAILURE"
  ELSE "TARGET_FAILURE_NOT_REPRODUCED"

Guided   == strategy \in {"dependency", "dradd"}
Repeated == strategy \in {"reproduction", "dradd"}
CandidateTrials == IF strategy = "dependency" THEN 1 ELSE Trials
DecisionThreshold == IF Repeated THEN Threshold ELSE <<1, 1>>
Lower == IF Repeated THEN LowerTargets ELSE 0

NoStats == [end \in TrialEnds |-> 0]

\* For the properties: what is kept has what it requires.
Closed(w, S) == \A e \in w.edges : e.kind \in Required /\ e.op \in S => e.requires \in S

\* replay(keep, phase, n, rate): n fresh trials of the projection.  The statistics of a
\* candidate decide and are then not looked at again.
Replay(keep, what, n, s) ==
  /\ executions' = executions + n
  /\ log' = [trials |-> log.trials + n, lawful |-> log.lawful /\ Closed(source, Kept(keep)),
             phase |-> what, ids |-> keep, stats |-> s]

-----------------------------------------------------------------------------
Init ==
  /\ \E c \in Calls : source = c.workload /\ strategy = c.strategy /\ config = c.config
  /\ current = [i \in DOMAIN source.owners |-> i]
  /\ granularity = 2 /\ offset = 0 /\ changed = FALSE /\ exhausted = FALSE
  /\ attempts = 0 /\ invalid = 0 /\ executions = 0
  /\ phase = "construct" /\ outcome = "none" /\ stats = NoStats
  /\ rejected = {}
  /\ log = [trials |-> 0, lawful |-> TRUE, phase |-> "none", ids |-> << >>,
            stats |-> NoStats]

\* Workload(workload) and adapter.validate, before anything is run.
Construct ==
  /\ phase = "construct"
  /\ \/ Acceptable(source) /\ phase' = "initial" /\ outcome' = outcome
     \/ phase' = "ended" /\ outcome' = "ValueError"
  /\ UNCHANGED <<arguments, current, search, executions, stats, rejected, log>>

Initial ==
  /\ phase = "initial"
  /\ \E s \in Summaries(Trials) :
       /\ Replay(current, "initial", Trials, s) /\ stats' = s
       /\ IF Accepted(s, Trials, Threshold, Lower)
          THEN phase' = "while" /\ outcome' = outcome
          ELSE phase' = "ended" /\ outcome' = Rejection(s)
  /\ UNCHANGED <<arguments, current, search, rejected>>

While ==
  /\ phase = "while"
  /\ IF Len(current) > 1
     THEN phase' = "for" /\ offset' = 0 /\ changed' = FALSE
     ELSE phase' = "confirm" /\ UNCHANGED <<offset, changed>>
  /\ UNCHANGED <<arguments, current, granularity, attempts, invalid, exhausted,
                 executions, outcome, stats, rejected, log>>

Width == IF strategy = "single" THEN 1
         ELSE (Len(current) + granularity - 1) \div granularity

Rest == SubSeq(current, 1, offset) \o SubSeq(current, offset + Width + 1, Len(current))

Keep == IF Guided THEN Prune(source, Rest) ELSE Rest

InLoop == phase = "for" /\ ~changed /\ ~exhausted /\ offset < Len(current)

NoCandidateLeft ==
  /\ InLoop /\ attempts >= MaxCandidates
  /\ exhausted' = TRUE
  /\ UNCHANGED <<arguments, current, granularity, offset, changed, attempts, invalid,
                 executions, phase, outcome, stats, rejected, log>>

\* A candidate without its prerequisites, or one the adapter refuses.
Invalid ==
  /\ InLoop /\ attempts < MaxCandidates
  /\ attempts' = attempts + 1
  /\ invalid' = invalid + 1
  /\ rejected' = rejected \cup {Keep}
  /\ offset' = offset + Width
  /\ log' = [log EXCEPT !.phase = "invalid", !.stats = NoStats]
  /\ UNCHANGED <<arguments, current, granularity, changed, exhausted, executions,
                 phase, outcome, stats>>

\* Mutant: the confirmation is not reserved.
Affordable_Greedy == executions + CandidateTrials <= MaxExecutions

Affordable == executions + CandidateTrials + Trials <= MaxExecutions

Unaffordable ==
  /\ InLoop /\ attempts < MaxCandidates /\ Valid(source, Keep) /\ ~Affordable
  /\ attempts' = attempts + 1
  /\ exhausted' = TRUE
  /\ UNCHANGED <<arguments, current, granularity, offset, changed, invalid,
                 executions, phase, outcome, stats, rejected, log>>

Try ==
  /\ InLoop /\ attempts < MaxCandidates /\ Valid(source, Keep) /\ Affordable
  /\ attempts' = attempts + 1
  /\ Replay(Keep, "candidate", CandidateTrials, NoStats)
  /\ \E s \in Summaries(CandidateTrials) :
       IF Accepted(s, CandidateTrials, DecisionThreshold, Lower)
       THEN /\ current' = Keep
            /\ granularity' = IF granularity > 3 THEN granularity - 1 ELSE 2
            /\ changed' = TRUE
            /\ rejected' = {}
            /\ offset' = offset
       ELSE /\ rejected' = rejected \cup {Keep}
            /\ offset' = offset + Width
            /\ UNCHANGED <<current, granularity, changed>>
  /\ UNCHANGED <<arguments, invalid, exhausted, phase, outcome, stats>>

\* Mutant: the search stops a round before single deletions.
Finest_Halfway == strategy = "single" \/ granularity * 2 >= Len(current)

Finest == strategy = "single" \/ granularity >= Len(current)

Round ==
  /\ phase = "for" /\ ~InLoop
  /\ IF exhausted \/ (~changed /\ Finest)
     THEN phase' = "confirm" /\ granularity' = granularity
     ELSE /\ phase' = "while"
          /\ granularity' = IF changed THEN granularity
                            ELSE IF granularity * 2 < Len(current) THEN granularity * 2
                            ELSE Len(current)
  /\ UNCHANGED <<arguments, current, offset, changed, attempts, invalid, exhausted,
                 executions, outcome, stats, rejected, log>>

\* The group that is reserved, also when the search exhausted its budget.
Confirm ==
  /\ phase = "confirm"
  /\ \E s \in Summaries(Trials) :
       /\ Replay(current, "confirmation", Trials, s) /\ stats' = s
       /\ outcome' = IF Accepted(s, Trials, Threshold, Lower)
                     THEN "SUCCESS_REPRODUCER" ELSE Rejection(s)
  /\ phase' = "ended"
  /\ UNCHANGED <<arguments, current, search, rejected>>

Ended == phase = "ended" /\ UNCHANGED vars

Step == Construct \/ Initial \/ While \/ NoCandidateLeft \/ Invalid \/ Unaffordable \/ Try
          \/ Round \/ Confirm

Next == Step \/ Ended

Spec == Init /\ [][Next]_vars

-----------------------------------------------------------------------------
\* Neither budget is exceeded, and until the confirmation has run there are
\* trials left for it.
ConfirmationReserved ==
  /\ attempts <= MaxCandidates
  /\ executions <= MaxExecutions
  /\ phase \in {"while", "for", "confirm"} => executions + Trials <= MaxExecutions

\* No workload is ever run in which an operation lacks a prerequisite, and
\* what is left of a workload that was not refused is not empty.
NothingInvalidRuns ==
  /\ log.lawful
  /\ phase # "construct" /\ outcome # "ValueError" => current # << >>

\* prune() keeps as much as any set without dangling prerequisites could.
PruneIsLargest ==
  InLoop /\ Guided =>
    Kept(Keep) = UNION {S \in SUBSET Kept(Rest) : Closed(source, S)}

\* The workload that is reported is one reduce() would take: its edges refer
\* to its own operations, agree with the order of each worker and make no
\* cycle.
ReducedIsWorkload ==
  phase = "ended" /\ log.phase # "none" => Acceptable(Candidate(source, current))

\* Success means that the last trials run were of the result, that none of
\* them was discarded and that the declared share of them matched, whether
\* or not the search had exhausted its budget.
SuccessIsConfirmed ==
  outcome = "SUCCESS_REPRODUCER" =>
    /\ log.phase = "confirmation" /\ log.ids = current
    /\ stats["target"] * Threshold[2] >= Threshold[1] * Trials
    /\ stats["target"] + stats["pass"] + stats["different"] = Trials

\* Every result reduce() returns passes the checks that verify() of research.py repeats on it:
\* the trials of the groups add up to the executions, within the budget, only lawful candidates
\* were run, the last group is an executed one whose statistics the result reports, and a
\* confirmed result ends with a confirmation.
ResultVerifies ==
  phase = "ended" /\ outcome # "ValueError" =>
    /\ log.trials = executions /\ executions <= MaxExecutions /\ log.lawful
    /\ log.phase \in {"initial", "confirmation"} /\ log.stats = stats
    /\ outcome = "SUCCESS_REPRODUCER" => log.phase = "confirmation"

Remove(seq, k) == SubSeq(seq, 1, k - 1) \o SubSeq(seq, k + 1, Len(seq))

\* A search that finishes within its budgets has tried every deletion of one
\* operation, with its dependents where the strategy is guided, since the
\* last change, and rejected it.
NoDeletionUntried ==
  phase = "confirm" /\ ~exhausted /\ Len(current) > 1 =>
    \A k \in DOMAIN current :
      (IF Guided THEN Prune(source, Remove(current, k)) ELSE Remove(current, k)) \in rejected

\* What is run and what is reported are workloads: candidates have all their
\* prerequisites, pruning takes away no more than it must, and the result
\* can be reduced again.
CandidatesAreLawful == NothingInvalidRuns /\ PruneIsLargest /\ ReducedIsWorkload

\* The result rests on a group of its own within the budget, and verify() of
\* research.py accepts it.
ResultIsConfirmed == ConfirmationReserved /\ SuccessIsConfirmed /\ ResultVerifies

=============================================================================
