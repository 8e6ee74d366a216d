-------------------------- MODULE ModuleLifecycle --------------------------
(***************************************************************************)
(* Loading and unloading the module: the six acquisitions of               *)
(* ringbuf_char_init, each of which may fail, the goto labels that undo    *)
(* them, ringbuf_char_exit, and the tasks that open and close the node     *)
(* meanwhile.  RingbufChar is the device while the module is loaded; its   *)
(* Unreferenced stands for the module core's reference count, here spelled *)
(* out from chrdev_open to the end of the last close.                      *)
(*                                                                         *)
(* A task reaches the device through the node device_create makes.         *)
(***************************************************************************)
EXTENDS Naturals, Sequences

CONSTANT Files      \* the tasks that open the device, one file each

VARIABLES
  pc,               \* where the loader, or rmmod, is
  at,               \* the resource it acquires or gives back next
  held,             \* the resources that exist
  ringbuf_dev,      \* the global pointer: "dev" or "NULL"
  file              \* what each task is doing with its file

vars == <<pc, at, held, ringbuf_dev, file>>

(***************************************************************************)
(* The order of ringbuf_char_init: kzalloc, kvmalloc, four registrations.  *)
(* The goto labels fall through in one order, exit gives back in another   *)
(* list of calls.                                                          *)
(***************************************************************************)
InitOrder == <<"dev", "buffer", "region", "cdev", "class", "device">>

UnwindOrder == <<"class", "cdev", "region", "buffer", "dev">>
ExitOrder == <<"device", "class", "cdev", "region", "buffer", "dev">>

Resource == {"dev", "buffer", "region", "cdev", "class", "device"}

\* The call, or the label, after the one for r.
Following(order, r) ==
  LET i == CHOOSE i \in 1..Len(order) : order[i] = r
  IN  IF i = Len(order) THEN "none" ELSE order[i + 1]

\* Mutant: every goto names the label after the right one.
UnwindFrom_NextLabel(r) ==
  CASE r = "buffer" -> "dev"  [] r = "region" -> "dev" [] r = "cdev" -> "buffer"
    [] r = "class" -> "region" [] r = "device" -> "cdev"

\* Mutant: a failing class_create jumps to err_class_destroy, the label above its own.
UnwindFrom_OwnLabel(r) ==
  CASE r = "buffer" -> "dev"  [] r = "region" -> "buffer" [] r = "cdev" -> "region"
    [] r \in {"class", "device"} -> "class"

\* What the label init jumps to gives back first when it could not get r.
UnwindFrom(r) ==
  CASE r = "buffer" -> "dev"        \* err_free_dev
    [] r = "region" -> "buffer"     \* err_buffer_cleanup
    [] r = "cdev"   -> "region"     \* err_unregister_region
    [] r = "class"  -> "cdev"       \* err_cdev_del
    [] r = "device" -> "class"      \* err_class_destroy

-----------------------------------------------------------------------------

Init ==
  /\ pc = "out" /\ at = "none" /\ held = {} /\ ringbuf_dev = "NULL"
  /\ file = [f \in Files |-> "closed"]

Load ==
  /\ pc = "out"
  /\ pc' = "init" /\ at' = "dev"
  /\ UNCHANGED <<held, ringbuf_dev, file>>

\* EINVAL for a buffer_capacity out of range, ENOMEM from kzalloc.
LoadRefused ==
  /\ pc = "init" /\ at = "dev"
  /\ pc' = "out" /\ at' = "none"
  /\ UNCHANGED <<held, ringbuf_dev, file>>

InitStep ==
  /\ pc = "init" /\ at # "none"
  /\ held' = held \cup {at}
  /\ at' = Following(InitOrder, at)
  /\ UNCHANGED <<pc, ringbuf_dev, file>>

InitFails ==
  /\ pc = "init" /\ at \notin {"dev", "none"}
  /\ pc' = "unwind" /\ at' = UnwindFrom(at)
  /\ UNCHANGED <<held, ringbuf_dev, file>>

\* The node is there before the pointer is.
InitEnd ==
  /\ pc = "init" /\ at = "none"
  /\ pc' = "loaded" /\ ringbuf_dev' = "dev"
  /\ UNCHANGED <<at, held, file>>

\* A label gives back whatever it names: that it is held is for NothingDangles to say.
UnwindStep ==
  /\ pc = "unwind"
  /\ held' = held \ {at}
  /\ at' = Following(UnwindOrder, at)
  /\ pc' = IF at = "dev" THEN "out" ELSE "unwind"
  /\ UNCHANGED <<ringbuf_dev, file>>

-----------------------------------------------------------------------------

\* chrdev_open finds the cdev and takes a reference on a module not going.
OpenStart(f) ==
  /\ file[f] = "closed"
  /\ "device" \in held /\ pc \in {"init", "loaded"}
  /\ file' = [file EXCEPT ![f] = "opening"]
  /\ UNCHANGED <<pc, at, held, ringbuf_dev>>

\* ringbuf_char_open and ringbuf_char_release.
Open(f) ==
  /\ file[f] = "opening"
  /\ file' = [file EXCEPT ![f] = "open"]
  /\ UNCHANGED <<pc, at, held, ringbuf_dev>>

Release(f) ==
  /\ file[f] = "open"
  /\ file' = [file EXCEPT ![f] = "released"]
  /\ UNCHANGED <<pc, at, held, ringbuf_dev>>

\* The end of __fput drops the reference.
Put(f) ==
  /\ file[f] = "released"
  /\ file' = [file EXCEPT ![f] = "closed"]
  /\ UNCHANGED <<pc, at, held, ringbuf_dev>>

\* Mutant: the reference is taken by the open handler and dropped by release.
Referenced_InHandlers == \E f \in Files : file[f] = "open"

\* The owner fields of the cdev and of the file operations.
Referenced == \E f \in Files : file[f] # "closed"

\* rmmod with no reference left: the module is going, exit runs.
ExitStart ==
  /\ pc = "loaded" /\ ~Referenced
  /\ pc' = "exit" /\ at' = "device"
  /\ UNCHANGED <<held, ringbuf_dev, file>>

ExitStep ==
  /\ pc = "exit" /\ at # "none"
  /\ held' = held \ {at}
  /\ at' = Following(ExitOrder, at)
  /\ UNCHANGED <<pc, ringbuf_dev, file>>

ExitEnd ==
  /\ pc = "exit" /\ at = "none"
  /\ pc' = "out" /\ ringbuf_dev' = "NULL"
  /\ UNCHANGED <<at, held, file>>

Next ==
  \/ Load \/ LoadRefused \/ InitStep \/ InitFails \/ InitEnd \/ UnwindStep
  \/ ExitStart \/ ExitStep \/ ExitEnd
  \/ \E f \in Files : OpenStart(f) \/ Open(f) \/ Release(f) \/ Put(f)

Spec == Init /\ [][Next]_vars

-----------------------------------------------------------------------------

\* What each resource is built on and must not outlive.
BuiltOn ==
  [dev |-> {}, buffer |-> {"dev"}, region |-> {"dev", "buffer"},
   cdev |-> {"dev", "buffer", "region"}, class |-> {"dev", "buffer", "region", "cdev"},
   device |-> {"dev", "buffer", "region", "cdev", "class"}]

(***************************************************************************)
(* Whatever step of init fails and however often the module is reloaded,   *)
(* a resource exists only while those it is built on do: no registration   *)
(* leads to freed memory (architecture.md: "Initialization unwinds in      *)
(* reverse order").  And what a label or a call of exit is about to give   *)
(* back is there to be given back: nothing is freed, unregistered or       *)
(* destroyed twice, or before it was made.                                 *)
(***************************************************************************)
NothingDangles ==
  /\ \A r \in held : BuiltOn[r] \subseteq held
  /\ pc \in {"unwind", "exit"} /\ at # "none" => at \in held

\* Once a load has failed or an unload is over nothing is left behind.
NothingLeaks == pc = "out" => held = {} /\ ringbuf_dev = "NULL"

(***************************************************************************)
(* A task on its way in, inside or on its way out finds the whole device:  *)
(* neither the unwinding nor exit starts under it.                         *)
(***************************************************************************)
FilesFindDevice ==
  (\E f \in Files : file[f] # "closed") => held = Resource /\ pc \in {"init", "loaded"}

=============================================================================
