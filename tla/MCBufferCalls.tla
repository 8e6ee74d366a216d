--------------------------- MODULE MCBufferCalls ---------------------------
(***************************************************************************)
(* BufferCalls on every capacity from 1 to 3 with transfers one byte       *)
(* longer than the smallest buffers, so that calls wrap, fill and drain.   *)
(***************************************************************************)
EXTENDS BufferCalls

=============================================================================
