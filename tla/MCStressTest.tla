---------------------------- MODULE MCStressTest ----------------------------
(***************************************************************************)
(* Two writers and two readers on a device that holds less than a frame.   *)
(***************************************************************************)
EXTENDS StressTest

CONSTANTS w1, w2, r1, r2

\* A test in which nothing goes wrong.
Sound(messages) ==
  [messages |-> messages, leftover |-> << >>, faults |-> 0, failing |-> {}]

\* A device that misbehaves once and may hold the tail of a frame that an earlier test left
\* behind, and threads that cannot be started or get no memory.
Troubled(leftover) ==
  [messages |-> 1, leftover |-> leftover, faults |-> 1, failing |-> {w2, r2}]

AllTests == {Sound(2), Troubled(<< >>), Troubled(<<Unit(w1, 0, FrameSize)>>)}

=============================================================================
