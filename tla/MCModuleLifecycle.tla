------------------------- MODULE MCModuleLifecycle -------------------------
(***************************************************************************)
(* Loads, unloads and the tasks that open the device, under names of their *)
(* own: RingbufChar has a pc, an Init and a Next too, and one module of    *)
(* proofs is about both halves of ringbuf_char.c.                          *)
(***************************************************************************)
CONSTANT Openers    \* the tasks that open the device

VARIABLES
  loader,           \* where the loader, or rmmod, is
  acquiring,        \* the resource it acquires or gives back next
  resources,        \* the resources that exist
  pointer,          \* ringbuf_dev
  opened            \* what each task is doing with its file

Life == INSTANCE ModuleLifecycle WITH Files <- Openers, pc <- loader, at <- acquiring,
                                      held <- resources, ringbuf_dev <- pointer, file <- opened

LifeSpec == Life!Spec

\* Wherever init fails and whenever exit runs, no resource outlives what it
\* is built on and nothing is given back that is not there: the error labels
\* and exit undo, in reverse order, just what init has done.
NothingDangles == Life!NothingDangles

\* A load that failed and an unload that is over leave nothing behind.
NothingLeaks == Life!NothingLeaks

\* No task that opens, uses or closes the device meets the unwinding or exit.
FilesFindDevice == Life!FilesFindDevice

=============================================================================
