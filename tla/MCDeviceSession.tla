--------------------------- MODULE MCDeviceSession ---------------------------
(***************************************************************************)
(* Every scenario generate() could draw with two operations, scaled to     *)
(* capacities 2 and 3, and some with three on which the faults show.       *)
(***************************************************************************)
EXTENDS DeviceSession

W(payload) == [op |-> "write", data |-> payload]
R(n)       == [op |-> "read", count |-> n]

Plans == Generated(2) \cup
  { [capacity |-> MaxCapacity, operations |-> <<W(<<1, 2>>), o, R(2)>>] :
      o \in {[op |-> "resize", capacity |-> 2], [op |-> "clear"], R(1)} }

Held == {<< >>, <<7, 7>>}

=============================================================================
