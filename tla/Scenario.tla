------------------------------ MODULE Scenario ------------------------------
(***************************************************************************)
(* The scenarios of lab/contract.py: what validate() lets through and what *)
(* generate() draws.  The shape of the JSON and the hex encoding of the    *)
(* bytes are left out.                                                     *)
(***************************************************************************)
EXTENDS Contract

CONSTANT MaxOperations    \* MAX_OPERATIONS

ValidOperation(op) ==
  \/ op.op \in {"clear", "capacity"}
  \/ op.op = "read" /\ op.count \in 0..MaxTransfer
  \/ op.op = "resize" /\ op.capacity \in Nat
  \/ op.op = "write" /\ Len(op.data) <= MaxTransfer

ValidScenario(scenario) ==
  /\ ValidCapacity(scenario.capacity)
  /\ Len(scenario.operations) \in 1..MaxOperations
  /\ \A i \in DOMAIN scenario.operations : ValidOperation(scenario.operations[i])

(***************************************************************************)
(* generate(seed, steps): requests of sizes around the smallest capacity,  *)
(* resizes around both ends of the valid range.  The bytes of a payload    *)
(* are told apart by their place in it.                                    *)
(***************************************************************************)
Sizes == {0, 1, MinCapacity - 1, MinCapacity, MinCapacity + 1, MaxTransfer}

Generated(steps) ==
  LET ops == {[op |-> "write", data |-> [i \in 1..n |-> i]] : n \in Sizes}
               \cup {[op |-> "read", count |-> n] : n \in Sizes}
               \cup {[op |-> "resize", capacity |-> c] :
                       c \in {0, MinCapacity - 1, MinCapacity, MaxCapacity, MaxCapacity + 1}}
               \cup {[op |-> "clear"], [op |-> "capacity"]}
  IN  {[capacity |-> MinCapacity, operations |-> s] : s \in [1..steps -> ops]}

=============================================================================
