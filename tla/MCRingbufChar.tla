--------------------------- MODULE MCRingbufChar ---------------------------
(***************************************************************************)
(* Instances of RingbufChar: what each of three tasks does, run by run.    *)
(***************************************************************************)
EXTENDS RingbufChar

CONSTANTS r, w, c,          \* the tasks
          a, b              \* the bytes

\* A reader, a writer, and a task that clears, resizes, changes the mode and polls.
ControlOps ==
  [t \in Threads |-> CASE t = r -> {"read"}
                       [] t = w -> {"write"}
                       [] t = c -> {"clear", "set_capacity", "set_mode", "pollin", "pollout"}]

\* Two readers that compete for what one writer writes.
ContentionOps ==
  [t \in Threads |-> IF t = w THEN {"write"} ELSE {"read"}]

\* A writer next to a task that makes every kind of ioctl, and reads.
CallOps ==
  [t \in Threads |-> IF t = w THEN {"write"} ELSE OpKinds \ {"write", "pollin", "pollout"}]

\* One reader, one writer, and a task that switches the mode and the capacity.
ServiceOps ==
  [t \in Threads |-> CASE t = r -> {"read"}
                       [] t = w -> {"write"}
                       [] t = c -> {"set_mode", "set_capacity"}]

PayloadA == {<<a>>}
PayloadAA == {<<a, a>>}
PayloadsAB == {<<a>>, <<a, b>>}

\* A run that is not about a counter lets it wrap at once.
NoCounters == [k \in Counter |-> 1]
ByteCounters ==
  [k \in Counter |-> IF k \in {"total_bytes_read", "total_bytes_written"} THEN 4 ELSE 1]

(***************************************************************************)
(* With one reader and no one to clear the buffer, stored bytes are        *)
(* delivered: a read call that finds or is woken by them returns.  With    *)
(* one writer and free space, so does a write call.                        *)
(***************************************************************************)
ReaderServed == call[r].op = "read" /\ len > 0 ~> call[r].op # "read"
WriterServed == call[w].op = "write" /\ capacity > len ~> call[w].op # "write"

=============================================================================
