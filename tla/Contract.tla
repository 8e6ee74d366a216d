------------------------------ MODULE Contract ------------------------------
(***************************************************************************)
(* lab/contract.py: the nonblocking byte-stream contract as a function     *)
(* from a model state and a request to a new state and a reply.  Every     *)
(* backend is judged against it: the sequential runner, the history        *)
(* checker and, as the state machine ByteFifo, the kernel buffer.          *)
(***************************************************************************)
EXTENDS Integers, Sequences

CONSTANTS MinCapacity,    \* MIN_CAPACITY
          MaxCapacity,    \* MAX_CAPACITY
          MaxTransfer     \* MAX_TRANSFER, the longest request validate() lets through

EAGAIN == 11
EINVAL == 22
EMSGSIZE == 90

Lesser(a, b) == IF a <= b THEN a ELSE b

\* The first n and all but the first n bytes of a stream.
Front(s, n) == SubSeq(s, 1, n)
Rest(s, n)  == SubSeq(s, n + 1, Len(s))

\* A reply.  The payload of a read is the bytes; the other replies carry none.
Success(count, payload) == [ret |-> count, errno |-> 0, data |-> payload]
Failure(code) == [ret |-> -1, errno |-> code, data |-> << >>]

ValidCapacity(c) == MinCapacity <= c /\ c <= MaxCapacity

(***************************************************************************)
(* ReferenceModel.apply(op), one definition per branch.                    *)
(***************************************************************************)
NewModel(capacity) == [capacity |-> capacity, data |-> << >>]

ApplyWrite(model, payload) ==
  LET count == Lesser(Len(payload), model.capacity - Len(model.data))
  IN  IF payload # << >> /\ count = 0
      THEN [model |-> model, reply |-> Failure(EAGAIN)]
      ELSE [model |-> [model EXCEPT !.data = @ \o Front(payload, count)],
            reply |-> Success(count, << >>)]

ApplyRead(model, request) ==
  LET count == Lesser(request, Len(model.data))
  IN  IF request > 0 /\ count = 0
      THEN [model |-> model, reply |-> Failure(EAGAIN)]
      ELSE [model |-> [model EXCEPT !.data = Rest(@, count)],
            reply |-> Success(count, Front(model.data, count))]

ApplyResize(model, request) ==
  CASE ~ValidCapacity(request) ->
         [model |-> model, reply |-> Failure(EINVAL)]
    [] ValidCapacity(request) /\ request < Len(model.data) ->
         [model |-> model, reply |-> Failure(EMSGSIZE)]
    [] OTHER ->
         [model |-> [model EXCEPT !.capacity = request], reply |-> Success(0, << >>)]

ApplyClear(model) ==
  [model |-> [model EXCEPT !.data = << >>], reply |-> Success(0, << >>)]

ApplyCapacity(model) ==
  [model |-> model, reply |-> Success(model.capacity, << >>)]

Apply(model, op) ==
  CASE op.op = "write"    -> ApplyWrite(model, op.data)
    [] op.op = "read"     -> ApplyRead(model, op.count)
    [] op.op = "resize"   -> ApplyResize(model, op.capacity)
    [] op.op = "clear"    -> ApplyClear(model)
    [] op.op = "capacity" -> ApplyCapacity(model)

=============================================================================
