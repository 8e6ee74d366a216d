---------------------------- MODULE ConcurrentRun ----------------------------
(***************************************************************************)
(* evaluate_concurrent of lab/concurrency.py: a pool of workers meets at a *)
(* barrier, each issues its share of the scenario's operations to one      *)
(* device, notes when each call started and finished, and appends the      *)
(* event to a shared history.  The history is then judged by               *)
(* check_history.                                                          *)
(***************************************************************************)
EXTENDS History, SimulatedDevice

CONSTANTS Cases,          \* what to run: a scenario (capacity, operations, worker_ids), the
                          \* fault of the simulated device and the search budget
          Workers,        \* how many workers, 2..4
          MaxHistory,     \* MAX_HISTORY
          MaxClock,       \* bound: the clock shows at most this
          MaxErrors       \* bound: how many calls of the environment may raise

ASSUME WorkersAssumption == Workers \in 2..4
ASSUME BoundsAssumption ==
  MinCapacity \in Nat /\ MaxTransfer \in Nat /\ MaxOperations \in Nat
    /\ MaxClock \in Nat /\ MaxErrors \in Nat
ASSUME BudgetsAssumption == \A c \in Cases : c.budget \in Nat \ {0}

\* What is run was read from JSON by types: capacities and worker numbers
\* are integers, a payload is a list of bytes.
ASSUME PlansAssumption ==
  \A c \in Cases : LET s == c.scenario IN
    /\ s.capacity \in Int
    /\ DOMAIN s.operations = 1..Len(s.operations) /\ Len(s.operations) \in Nat
    /\ \A i \in DOMAIN s.operations :
         s.operations[i].op = "write" => s.operations[i].data \in Seq(Nat)

Worker == 0..(Workers - 1)

VARIABLES
  scenario,   \* the plan being run
  budget,     \* the search budget of the run
  dev,        \* the device
  phase,      \* where the calling thread is
  pc,         \* where each worker is
  next,       \* sequence: how many operations each worker has issued
  event,      \* the event each worker is filling in
  clock,      \* perf_counter_ns(), the same clock for every thread
  history,    \* the shared list, guarded by history_lock
  errors,     \* how many calls have raised so far
  shadow,     \* for the properties: the contract driven in the order the device
              \* took the calls, and whether every reply so far was the contract's
  verdict     \* what evaluate_concurrent returns

vars == <<scenario, budget, dev, phase, pc, next, event, clock, history, errors, shadow, verdict>>

NoEvent == [index |-> -1]
NoVerdict == [status |-> "none", reason |-> ""]

ExecutionError == [status |-> "inconclusive", reason |-> "EXECUTION_ERROR"]
InvalidCapture == [status |-> "inconclusive", reason |-> "INVALID_CAPTURE"]

ValidWorkerPlan(s) ==
  /\ ValidScenario(s)
  /\ Len(s.operations) <= MaxHistory
  /\ DOMAIN s.worker_ids = DOMAIN s.operations
  /\ \A i \in DOMAIN s.worker_ids : s.worker_ids[i] \in Worker

\* A set of positions as a list in ascending order.
Ascending(S) ==
  [k \in 1..Cardinality(S) |-> CHOOSE i \in S : Cardinality({j \in S : j <= i}) = k]

\* Mutant: the default assignment, whatever worker_ids says.
Indexes_RoundRobin(w) == Ascending({i \in DOMAIN scenario.operations : (i - 1) % Workers = w})

\* The operations of worker w in order, as positions in the scenario.
Indexes(w) == Ascending({i \in DOMAIN scenario.operations : scenario.worker_ids[i] = w})

Init ==
  /\ \E c \in Cases : /\ scenario = c.scenario /\ budget = c.budget
                       /\ dev = NewDevice(scenario.capacity, c.fault)
  /\ phase = "validate"
  /\ pc = [w \in Worker |-> "idle"]
  /\ next = [w \in Worker |-> 0]
  /\ event = [w \in Worker |-> NoEvent]
  /\ clock = 0
  /\ history = << >>
  /\ errors = 0
  /\ shadow = [model |-> NewModel(scenario.capacity), lawful |-> TRUE]
  /\ verdict = NoVerdict

MayRaise == errors < MaxErrors /\ errors' = errors + 1

Goto(w, l) == pc' = [pc EXCEPT ![w] = l]

-----------------------------------------------------------------------------
\* The calling thread.

\* validate_worker_plan, then the device is opened and the workers submitted.
Validate ==
  /\ phase = "validate"
  /\ IF ValidWorkerPlan(scenario)
     THEN phase' = "open" /\ verdict' = verdict
     ELSE phase' = "ended" /\ verdict' = [status |-> "ValueError", reason |-> ""]
  /\ UNCHANGED <<scenario, budget, dev, pc, next, event, clock, history, errors, shadow>>

Open ==
  /\ phase = "open"
  /\ \/ /\ phase' = "running"
        /\ pc' = [w \in Worker |-> "started"]
        /\ UNCHANGED <<errors, verdict>>
     \/ /\ MayRaise
        /\ phase' = "ended" /\ verdict' = ExecutionError
        /\ pc' = pc
  /\ UNCHANGED <<scenario, budget, dev, next, event, clock, history, shadow>>

\* The pool is joined before the device is left, whichever worker raised.
Joined == \A w \in Worker : pc[w] \in {"done", "raised"}

Raised == \E w \in Worker : pc[w] = "raised"

Judgement ==
  LET result == CheckHistory(scenario.capacity, history, Len(scenario.operations), budget)
  IN  IF result.status = "invalid" THEN InvalidCapture ELSE result

Leave ==
  /\ phase = "running" /\ Joined
  /\ phase' = "ended"
  /\ \/ /\ verdict' = IF Raised THEN ExecutionError ELSE Judgement
        /\ errors' = errors
     \/ MayRaise /\ verdict' = ExecutionError
  /\ UNCHANGED <<scenario, budget, dev, pc, next, event, clock, history, shadow>>

-----------------------------------------------------------------------------
\* The workers.

Waiting == {w \in Worker : pc[w] = "waiting"}

\* Mutant: a worker that comes to a broken barrier waits at it.
Broken_Unnoticed == FALSE

\* A worker raises before the calls only when the barrier is broken.
Broken == \E v \in Worker : pc[v] = "raised"

\* All workers are released together or none is: the last to arrive opens
\* the barrier, and one that waits too long breaks it for everybody.
Arrive(w) ==
  /\ pc[w] = "started"
  /\ pc' = IF Broken
           THEN [pc EXCEPT ![w] = "raised"]
           ELSE IF Waiting = Worker \ {w} THEN [v \in Worker |-> "loop"]
           ELSE [pc EXCEPT ![w] = "waiting"]
  /\ UNCHANGED <<scenario, budget, dev, phase, next, event, clock, history, errors, shadow, verdict>>

Timeout ==
  /\ Waiting # {}
  /\ MayRaise
  /\ pc' = [w \in Worker |-> IF w \in Waiting THEN "raised" ELSE pc[w]]
  /\ UNCHANGED <<scenario, budget, dev, phase, next, event, clock, history, shadow, verdict>>

\* A reading of the clock: it never goes back, and two may be equal.
ReadClock(t) == t \in {clock, clock + 1} /\ t <= MaxClock /\ clock' = t

Sequence(w) == next[w]

Issue(w) ==
  /\ pc[w] = "loop"
  /\ IF next[w] = Len(Indexes(w))
     THEN Goto(w, "done") /\ UNCHANGED <<next, event, clock>>
     ELSE LET i == Indexes(w)[next[w] + 1]
          IN  \E t \in 0..MaxClock :
                /\ ReadClock(t)
                /\ event' = [event EXCEPT ![w] =
                     [index |-> i - 1, worker |-> w, sequence |-> Sequence(w),
                      operation |-> scenario.operations[i], started |-> t,
                      finished |-> -1, error |-> FALSE, actual |-> Failure(0)]]
                /\ next' = [next EXCEPT ![w] = @ + 1]
                /\ Goto(w, "called")
  /\ UNCHANGED <<scenario, budget, dev, phase, history, errors, shadow, verdict>>

\* device.apply(op): the device takes one request at a time.
Call(w) ==
  /\ pc[w] = "called"
  /\ \/ LET result == ResearchApply(dev, event[w].operation)
        IN  /\ dev' = result.dev
            /\ event' = [event EXCEPT ![w].actual = result.reply]
            /\ LET promised == Apply(shadow.model, event[w].operation)
               IN  shadow' = [model |-> promised.model,
                              lawful |-> shadow.lawful /\ promised.reply = result.reply]
            /\ errors' = errors
     \/ /\ MayRaise
        /\ event' = [event EXCEPT ![w].error = TRUE]
        /\ UNCHANGED <<dev, shadow>>
  /\ Goto(w, "returned")
  /\ UNCHANGED <<scenario, budget, phase, next, clock, history, verdict>>

\* Mutant: the event is stamped once, when the call starts.
Finish_StampedOnce(w) ==
  /\ pc[w] = "returned"
  /\ event' = [event EXCEPT ![w].finished = event[w].started]
  /\ Goto(w, "finished")
  /\ UNCHANGED <<scenario, budget, dev, phase, next, clock, history, errors, shadow, verdict>>

Finish(w) ==
  /\ pc[w] = "returned"
  /\ \E t \in 0..MaxClock : ReadClock(t) /\ event' = [event EXCEPT ![w].finished = t]
  /\ Goto(w, "finished")
  /\ UNCHANGED <<scenario, budget, dev, phase, next, history, errors, shadow, verdict>>

\* Under history_lock: append, then record, which may raise out of the worker.
Record(w) ==
  /\ pc[w] = "finished"
  /\ history' = Append(history, event[w])
  /\ event' = [event EXCEPT ![w] = NoEvent]
  /\ \/ Goto(w, IF event[w].error THEN "done" ELSE "loop") /\ errors' = errors
     \/ MayRaise /\ Goto(w, "raised")
  /\ UNCHANGED <<scenario, budget, dev, phase, next, clock, shadow, verdict>>

WorkerStep(w) == Arrive(w) \/ Issue(w) \/ Call(w) \/ Finish(w) \/ Record(w)

Ended == phase = "ended" /\ UNCHANGED vars

Next ==
  \/ Validate \/ Open \/ Leave
  \/ \E w \in Worker : WorkerStep(w)
  \/ Timeout
  \/ Ended

Spec == Init /\ [][Next]_vars

-----------------------------------------------------------------------------
(***************************************************************************)
(* Reference definition: an order explains a history if it keeps real time *)
(* and the program of each worker, and the contract, run in that order,    *)
(* gives every recorded reply.                                             *)
(***************************************************************************)
Orders(n) == {p \in [1..n -> 1..n] : \A i, j \in 1..n : p[i] = p[j] => i = j}

Explains(p, capacity, h) ==
  LET at[k \in 0..Len(h)] ==
        IF k = 0 THEN NewModel(capacity) ELSE Apply(at[k - 1], h[p[k]].operation).model
  IN  /\ \A k \in 1..Len(h) : Apply(at[k - 1], h[p[k]].operation).reply = h[p[k]].actual
      /\ \A i \in 1..Len(h) : \A j \in 1..(i - 1) :
           /\ h[p[i]].finished >= h[p[j]].started
           /\ h[p[i]].worker = h[p[j]].worker => h[p[j]].sequence < h[p[i]].sequence

Explainable(capacity, h) == \E p \in Orders(Len(h)) : Explains(p, capacity, h)

-----------------------------------------------------------------------------
\* The verdict of check_history is the reference definition's: a witness it
\* returns does explain the history, and when it says that no legal order
\* exists none does, whatever the search budget cuts off.
VerdictIsCorrect ==
  /\ verdict.status = "pass" =>
       /\ Explainable(scenario.capacity, history)
       /\ \E p \in Orders(Len(history)) :
            /\ Explains(p, scenario.capacity, history)
            /\ \A k \in DOMAIN p : verdict.witness[k] = history[p[k]].index
  /\ verdict.status = "fail" => ~Explainable(scenario.capacity, history)

\* More transitions than any search of a history of n calls can try.
Exhaustive(n) == n * Cardinality(Orders(n))

\* A device that kept the contract in the order it took the calls is never
\* accused: the timestamps are taken outside the call, so the order of the
\* device is always one of those the checker may choose.  It passes if
\* nothing raised and the budget allows the whole search.
LawfulPasses ==
  shadow.lawful =>
    /\ verdict.status # "fail"
    /\ verdict.status = "inconclusive" =>
         errors > 0 \/ budget < Exhaustive(Len(scenario.operations))

\* Whatever raises in a worker, in the recording callback, at the barrier
\* or while the device is opened or left, the run is inconclusive: it is
\* not judged on the part that was captured.
ErrorsAreInconclusive ==
  phase = "ended" /\ errors > 0 => verdict.status = "inconclusive"

\* A conclusive verdict is about every operation of the scenario, each by
\* its owner and once.
ConclusiveMeansComplete ==
  verdict.status \in {"pass", "fail"} =>
    \A i \in DOMAIN scenario.operations :
      Cardinality({k \in DOMAIN history :
        /\ history[k].index = i - 1
        /\ history[k].worker = scenario.worker_ids[i]
        /\ history[k].operation = scenario.operations[i]}) = 1

\* The history that is judged is the whole run: nothing in it raised, and
\* what the workers record is never refused by check_history's own checks,
\* so INVALID_CAPTURE is not an outcome of evaluate_concurrent.
CaptureIsWhole ==
  ErrorsAreInconclusive /\ ConclusiveMeansComplete /\ verdict # InvalidCapture

\* reduce_history_prefix on a history that failed finds a prefix that
\* nothing explains either, and every event it leaves out started after all
\* events of the prefix had finished.  Only a search budget that is too
\* small for the calls in their new order may keep it from an answer.
CounterexampleReduces ==
  verdict.status = "fail" =>
    LET r == ReduceHistoryPrefix(scenario.capacity, history, budget)
        n == Len(r.history)
        ordered == Ordered(history)
    IN  IF r.classification = "HISTORY_COUNTEREXAMPLE"
        THEN /\ ~Explainable(scenario.capacity, r.history)
             /\ \A k \in 1..n, l \in (n + 1)..Len(history) :
                  ordered[k].finished < ordered[l].started
        ELSE r.classification = "INCONCLUSIVE" /\ budget < Exhaustive(Len(history))

\* As long as a worker is not finished some worker can go on: one that
\* raises, or never reaches the barrier, does not keep the others waiting
\* for ever.  Every step is one of finitely many, so every run ends.
NobodyWaitsForEver ==
  phase = "running" => Joined \/ \E w \in Worker : ENABLED WorkerStep(w)

=============================================================================
