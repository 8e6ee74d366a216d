------------------------------ MODULE ByteFifo ------------------------------
(***************************************************************************)
(* What the device promises: a bounded byte stream.  This is the contract  *)
(* of lab/contract.py as a state machine, one call of ReferenceModel's     *)
(* apply() per action.  The kernel's return values are the replies with    *)
(* the errno negated.                                                      *)
(***************************************************************************)
EXTENDS Contract

CONSTANT Byte      \* the byte values

VARIABLES capacity, data

fifoVars == <<capacity, data>>

Model == [capacity |-> capacity, data |-> data]

\* The call is answered by ret and leaves the state that result carries.
Answer(result, ret) ==
  /\ ret = IF result.reply.errno = 0 THEN result.reply.ret ELSE -result.reply.errno
  /\ capacity' = result.model.capacity
  /\ data' = result.model.data

Write(payload, ret) == Answer(ApplyWrite(Model, payload), ret)

Read(request, ret, out) ==
  LET result == ApplyRead(Model, request)
  IN  Answer(result, ret) /\ out = result.reply.data

Resize(request, ret) == Answer(ApplyResize(Model, request), ret)

Clear(ret) == Answer(ApplyClear(Model), ret)

GetCapacity(ret) == Answer(ApplyCapacity(Model), ret)

Init ==
  /\ capacity \in MinCapacity..MaxCapacity
  /\ data = << >>

(***************************************************************************)
(* The state changes of apply(), with the request and the reply hidden:    *)
(* what every implementation of the device may do to the stream.           *)
(***************************************************************************)
Next ==
  \/ \E n \in 1..MaxTransfer : \E payload \in [1..n -> Byte] :
       Write(payload, Lesser(n, capacity - Len(data)))
  \/ \E n \in 1..MaxTransfer : n <= Len(data) /\ Read(n, n, Front(data, n))
  \/ \E c \in MinCapacity..MaxCapacity : Resize(c, 0)
  \/ Clear(0)

Spec == Init /\ [][Next]_fifoVars

=============================================================================
