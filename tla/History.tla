------------------------------- MODULE History -------------------------------
(***************************************************************************)
(* lab/history.py: is there an order of the recorded calls that respects   *)
(* what was observed of their times and explains every reply?  A history   *)
(* is a sequence of events in the order in which they were recorded.       *)
(***************************************************************************)
EXTENDS Scenario, FiniteSets

Inconclusive(reason, explored) ==
  [status |-> "inconclusive", reason |-> reason, explored |-> explored]

\* other was issued by event's worker before event.
SameWorkerBefore(other, event) ==
  event.worker = other.worker /\ other.sequence < event.sequence

\* Mutant: a call that starts when another finishes comes after it.
Precedes_Coarse(other, event) ==
  other.finished <= event.started \/ SameWorkerBefore(other, event)

\* Equal timestamps order nothing.
Precedes(other, event) ==
  other.finished < event.started \/ SameWorkerBefore(other, event)

Predecessors(history, i) == {j \in DOMAIN history \ {i} : Precedes(history[j], history[i])}

(***************************************************************************)
(* What check_history refuses with a ValueError.  The scan of the events   *)
(* stops at the first one that did not complete normally.                  *)
(***************************************************************************)
Failed(history) == {k \in DOMAIN history : history[k].error}

Scanned(history) ==
  {k \in DOMAIN history : \A j \in Failed(history) : k <= j}

Malformed(history) ==
  \E k \in Scanned(history) :
    \/ history[k].finished < history[k].started
    \/ \E j \in 1..(k - 1) : \/ history[j].index = history[k].index
                             \/ /\ history[j].worker = history[k].worker
                                /\ history[j].sequence = history[k].sequence

Disordered(history) ==
  \/ {history[k].index : k \in DOMAIN history} # 0..(Len(history) - 1)
  \/ \E k \in DOMAIN history : \E s \in 0..history[k].sequence :
       \A j \in DOMAIN history : ~(history[j].worker = history[k].worker /\ history[j].sequence = s)
  \/ \E k \in DOMAIN history : ~ValidOperation(history[k].operation)
  \/ \E j, k \in DOMAIN history : /\ SameWorkerBefore(history[j], history[k])
                                  /\ history[j].finished > history[k].started

(***************************************************************************)
(* search(mask, model, order), resumed at an event of its loop.  A place   *)
(* of the search is that event, the calls ordered so far, as positions in  *)
(* the history (the mask is the set of them), and the model they leave.    *)
(* left is how many more transitions the budget allows.                    *)
(***************************************************************************)
Model == {m \in [capacity : Nat, data : Seq(Nat)] : Len(m.data) <= m.capacity}

Place == [from : Nat, order : Seq(Nat), model : Model]

Placed(order) == {order[k] : k \in DOMAIN order}

\* The events the loop does not pass over.
Ready(history, x) ==
  {i \in DOMAIN history : /\ x.from <= i
                          /\ i \notin Placed(x.order)
                          /\ Predecessors(history, i) \subseteq Placed(x.order)}

First(S) == CHOOSE i \in S : \A j \in S : i <= j

Ends(outcome, order, left) == [outcome |-> outcome, order |-> order, left |-> left]

\* What is found from place x; search is what is found with less left.
Explore(history, search, left, x) ==
  IF Len(x.order) = Len(history) THEN Ends("found", x.order, left)
  ELSE IF Ready(history, x) = {} THEN Ends("none", x.order, left)
  ELSE IF left = 0 THEN Ends("exhausted", x.order, left)
  ELSE LET i == First(Ready(history, x))
           result == Apply(x.model, history[i].operation)
           below == search[left - 1][[from |-> 1, order |-> Append(x.order, i),
                                      model |-> result.model]]
           tried == IF result.reply = history[i].actual THEN below
                    ELSE Ends("none", x.order, left - 1)
       IN  IF tried.outcome # "none" THEN tried
           ELSE search[tried.left][[x EXCEPT !.from = i + 1]]

Search(history, model, budget) ==
  LET search[left \in 0..budget] == [x \in Place |-> Explore(history, search, left, x)]
  IN  search[budget][[from |-> 1, order |-> << >>, model |-> model]]

Verdict(history, found, budget) ==
  LET explored == budget - found.left
  IN  CASE found.outcome = "exhausted" -> Inconclusive("search budget exhausted", explored)
        [] found.outcome = "found"     ->
             [status |-> "pass", reason |-> "", explored |-> explored,
              witness |-> [k \in DOMAIN found.order |-> history[found.order[k]].index]]
        [] found.outcome = "none"      ->
             [status |-> "fail", reason |-> "no legal FIFO ordering", explored |-> explored]

CheckHistory(capacity, history, expected, budget) ==
  LET invalid == [status |-> "invalid", reason |-> "ValueError", explored |-> 0]
  IN  IF Len(history) # expected THEN Inconclusive("incomplete history", 0)
      ELSE IF Malformed(history) THEN invalid
      ELSE IF Failed(history) # {} THEN Inconclusive("worker did not complete normally", 0)
      ELSE IF Disordered(history) \/ ~ValidCapacity(capacity) THEN invalid
      ELSE Verdict(history, Search(history, NewModel(capacity), budget), budget)

(***************************************************************************)
(* reduce_history_prefix: the shortest prefix that ends where no call is   *)
(* under way and that is already impossible to explain.                    *)
(***************************************************************************)
StartedEarlier(a, b) ==
  \/ a.started < b.started
  \/ a.started = b.started /\ a.worker < b.worker
  \/ a.started = b.started /\ a.worker = b.worker /\ a.sequence < b.sequence

\* sorted(): the place of an event is the number of those that started earlier.
Ordered(history) ==
  LET earlier(i) == {j \in DOMAIN history : StartedEarlier(history[j], history[i])}
  IN  [k \in DOMAIN history |->
         history[CHOOSE i \in DOMAIN history : Cardinality(earlier(i)) = k - 1]]

\* Mutant: cut where the next call starts no earlier than the last finished.
QuiescentCut_Touching(ordered, size) ==
  size < Len(ordered) => \A k \in 1..size : ordered[k].finished <= ordered[size + 1].started

QuiescentCut(ordered, size) ==
  size < Len(ordered) => \A k \in 1..size : ordered[k].finished < ordered[size + 1].started

Reindexed(events) == [k \in DOMAIN events |-> [events[k] EXCEPT !.index = k - 1]]

ReduceHistoryPrefix(capacity, history, budget) ==
  LET original == CheckHistory(capacity, history, Len(history), budget).status
      ordered  == Ordered(history)
      Prefix(size) == Reindexed(SubSeq(ordered, 1, size))
      Checked(size) == CheckHistory(capacity, Prefix(size), size, budget).status
      ends     == {size \in DOMAIN ordered :
                     QuiescentCut(ordered, size) /\ Checked(size) \in {"fail", "invalid"}}
      first    == CHOOSE s \in ends : \A t \in ends : s <= t
  IN  CASE original = "invalid"      -> [classification |-> "ValueError", history |-> history]
        [] original = "inconclusive" -> [classification |-> "INCONCLUSIVE", history |-> history]
        [] original = "pass"         -> [classification |-> "NO_COUNTEREXAMPLE", history |-> history]
        [] original = "fail" ->
             IF ends = {} THEN [classification |-> "INCONCLUSIVE", history |-> history]
             ELSE IF Checked(first) = "invalid" THEN [classification |-> "ValueError", history |-> history]
             ELSE [classification |-> "HISTORY_COUNTEREXAMPLE", history |-> Prefix(first)]

=============================================================================
