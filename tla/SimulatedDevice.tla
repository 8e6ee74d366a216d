--------------------------- MODULE SimulatedDevice ---------------------------
(***************************************************************************)
(* The simulated backends of the laboratory as functions from a device and *)
(* a request to a device and a reply: SimulatedDevice of lab/backends.py,  *)
(* written independently of the reference model and with three faults to   *)
(* inject, and its research variant of lab/research_targets.py with six    *)
(* more.  Both apply one request at a time under a lock.                   *)
(***************************************************************************)
EXTENDS Contract

NewDevice(capacity, fault) ==
  [capacity |-> capacity, queue |-> << >>, fault |-> fault]

Reversed(s) == [i \in DOMAIN s |-> s[Len(s) + 1 - i]]

SimWrite(dev, payload) ==
  IF payload # << >> /\ Len(dev.queue) = dev.capacity
  THEN [dev |-> dev, reply |-> Failure(EAGAIN)]
  ELSE LET transferred == Lesser(Len(payload), dev.capacity - Len(dev.queue))
       IN  [dev |-> [dev EXCEPT !.queue = @ \o Front(payload, transferred)],
            reply |-> Success(transferred, << >>)]

SimRead(dev, count) ==
  IF count > 0 /\ dev.queue = << >>
  THEN [dev |-> dev,
        reply |-> IF dev.fault = "false-eof" THEN Success(0, << >>) ELSE Failure(EAGAIN)]
  ELSE LET n      == Lesser(count, Len(dev.queue))
           values == Front(dev.queue, n)
       IN  [dev |-> [dev EXCEPT !.queue = Rest(@, n)],
            reply |-> Success(n, IF dev.fault = "reverse-read" THEN Reversed(values) ELSE values)]

SimResize(dev, requested) ==
  CASE requested < MinCapacity \/ requested > MaxCapacity ->
         [dev |-> dev, reply |-> Failure(EINVAL)]
    [] ValidCapacity(requested) /\ requested < Len(dev.queue) ->
         [dev |-> dev, reply |-> Failure(EMSGSIZE)]
    [] OTHER ->
         [dev |-> [dev EXCEPT !.capacity = requested,
                              !.queue = IF dev.fault = "resize-loss" THEN << >> ELSE @],
          reply |-> Success(0, << >>)]

SimApply(dev, op) ==
  CASE op.op = "write"    -> SimWrite(dev, op.data)
    [] op.op = "read"     -> SimRead(dev, op.count)
    [] op.op = "resize"   -> SimResize(dev, op.capacity)
    [] op.op = "clear"    -> [dev |-> [dev EXCEPT !.queue = << >>], reply |-> Success(0, << >>)]
    [] op.op = "capacity" -> [dev |-> dev, reply |-> Success(dev.capacity, << >>)]

(***************************************************************************)
(* ResearchDevice: the injected fault answers first, everything else is    *)
(* the simulator's.  An intermittent fault that is not active in a trial   *)
(* is the device without a fault.                                          *)
(***************************************************************************)
ReadsNothing(dev, op) == op.op = "read" /\ op.count > 0 /\ dev.queue = << >>

ResearchApply(dev, op) ==
  CASE dev.fault = "wrong-eagain" /\ ReadsNothing(dev, op) ->
         [dev |-> dev, reply |-> Failure(EINVAL)]
    [] dev.fault = "short-write" /\ op.op = "write" /\ op.data # << >> ->
         SimWrite(dev, Front(op.data, Len(op.data) - 1))
    [] dev.fault = "capacity-corruption" /\ op.op = "capacity" ->
         [dev |-> dev, reply |-> Success(dev.capacity + 1, << >>)]
    [] dev.fault = "clear-noop" /\ op.op = "clear" ->
         [dev |-> dev, reply |-> Success(0, << >>)]
    [] dev.fault = "intermittent-eof" /\ ReadsNothing(dev, op) ->
         [dev |-> dev, reply |-> Success(0, << >>)]
    [] OTHER -> SimApply(dev, op)

=============================================================================
