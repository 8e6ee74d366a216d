---------------------------- MODULE DeviceSession ----------------------------
(***************************************************************************)
(* A sequential run on the real device: evaluate() of lab/runner.py around *)
(* the context manager LinuxDevice of lab/backends.py.  Every system call  *)
(* is a step of its own and may raise.  The kernel side is the device of   *)
(* SimulatedDevice, so also one with a fault to be found, and it starts as *)
(* its last user left it.  Another thread of the process may open a file   *)
(* at any time and is given the lowest free descriptor number.             *)
(***************************************************************************)
EXTENDS Scenario, SimulatedDevice

CONSTANTS Scenarios,    \* the scenarios to run
          Leftovers,    \* what the device holds at first
          Faults,       \* the faults of the device
          MaxErrors     \* bound: how many system calls raise

ASSUME CapacityAssumption ==
  MinCapacity \in Nat \ {0} /\ MaxCapacity \in Nat /\ MinCapacity <= MaxCapacity

\* Only what validate() lets through is run; bytes are numbers.
ASSUME ScenarioAssumption ==
  /\ MaxTransfer \in Nat /\ MaxOperations \in Nat /\ MaxErrors \in Nat
  /\ Leftovers \subseteq Seq(Nat)
  /\ \A s \in Scenarios :
       /\ ValidScenario(s) /\ s.capacity \in Nat
       /\ \A i \in 1..Len(s.operations) :
            s.operations[i].op = "write" => s.operations[i].data \in Seq(Nat)

VARIABLES
  scenario,
  kernel,      \* the device
  table,       \* who owns the descriptor number: "free", "device" or "other"
  fd,          \* self.fd: whether it is set
  original,    \* self.original_capacity
  model, index,   \* the reference model and how many operations were compared
  pc,
  raised,      \* the exception on its way: "none", "enter", "body" or "cleanup"
  status,      \* result["status"]
  errors,      \* how many system calls raised
  bodyRaised, misused, found    \* for the properties; found: the capacity before the run

vars == <<scenario, kernel, table, fd, original, model, index, pc, raised, status, errors,
          bodyRaised, misused, found>>
session == <<scenario, original, model, index>>
checks == <<bodyRaised, misused, found>>

Init ==
  /\ scenario \in Scenarios
  /\ \E fault \in Faults, capacity \in MinCapacity..MaxCapacity, queue \in Leftovers :
       /\ Len(queue) <= capacity
       /\ kernel = [NewDevice(capacity, fault) EXCEPT !.queue = queue]
  /\ table = "free" /\ fd = FALSE
  /\ original = 0 /\ found = kernel.capacity
  /\ model = NewModel(scenario.capacity) /\ index = 0
  /\ pc = "open"
  /\ raised = "none" /\ status = "pass" /\ errors = 0
  /\ bodyRaised = FALSE /\ misused = FALSE

MayRaise == errors < MaxErrors /\ errors' = errors + 1

\* A system call on self.fd reaches the device only if the number is still ours.
OnDevice == misused' = (misused \/ ~fd \/ table # "device")

-----------------------------------------------------------------------------
\* __init__ and __enter__.

\* The ABI program may fail before the device is opened.
Open ==
  /\ pc = "open"
  /\ \/ /\ table = "free" /\ table' = "device" /\ fd' = TRUE /\ pc' = "fstat"
        /\ UNCHANGED <<raised, errors>>
     \/ /\ MayRaise /\ raised' = "enter" /\ pc' = "return"
        /\ UNCHANGED <<table, fd>>
  /\ UNCHANGED <<session, kernel, status, checks>>

EnterRaises == MayRaise /\ raised' = "enter" /\ pc' = "enter_close"

Fstat ==
  /\ pc = "fstat"
  /\ OnDevice
  /\ EnterRaises \/ (pc' = "get" /\ UNCHANGED <<raised, errors>>)
  /\ UNCHANGED <<session, kernel, table, fd, status, bodyRaised, found>>

GetOriginal ==
  /\ pc = "get"
  /\ OnDevice
  /\ \/ EnterRaises /\ original' = original
     \/ original' = kernel.capacity /\ pc' = "clear" /\ UNCHANGED <<raised, errors>>
  /\ UNCHANGED <<scenario, model, index, kernel, table, fd, status, bodyRaised, found>>

EnterClear ==
  /\ pc = "clear"
  /\ OnDevice
  /\ \/ EnterRaises /\ kernel' = kernel
     \/ /\ kernel' = SimApply(kernel, [op |-> "clear"]).dev
        /\ pc' = "set" /\ UNCHANGED <<raised, errors>>
  /\ UNCHANGED <<session, table, fd, status, bodyRaised, found>>

\* The device is empty by now and validate() has checked the capacity: only
\* the environment can make this fail.
EnterSet ==
  /\ pc = "set"
  /\ OnDevice
  /\ \/ EnterRaises /\ kernel' = kernel
     \/ /\ kernel' = SimApply(kernel, [op |-> "resize", capacity |-> scenario.capacity]).dev
        /\ pc' = "body" /\ UNCHANGED <<raised, errors>>
  /\ UNCHANGED <<session, table, fd, status, bodyRaised, found>>

-----------------------------------------------------------------------------
\* The body of evaluate(): one operation, compared with the reference model.

ENOMEM == 12
EINTR  == 4
ENODEV == 19
EIO    == 5

\* Mutant: an exhausted kernel or an interrupted call is a reply like any other.
EnvironmentErrors_Partial == {ENODEV, EIO}

\* The errors that say nothing about the contract: apply() raises them.
EnvironmentErrors == {ENOMEM, EINTR, ENODEV, EIO}

BodyRaises ==
  /\ raised' = "body" /\ bodyRaised' = TRUE /\ pc' = "exit_clear"
  /\ UNCHANGED <<model, index, status>>

Compare ==
  /\ pc = "body" /\ index < Len(scenario.operations)
  /\ OnDevice
  /\ LET op       == scenario.operations[index + 1]
         promised == Apply(model, op)
         result   == ResearchApply(kernel, op)
         Replied(reply) ==
           /\ model' = promised.model
           /\ index' = index + 1
           /\ status' = IF reply = promised.reply THEN status ELSE "fail"
           /\ pc' = IF reply = promised.reply THEN "body" ELSE "exit_clear"
           /\ UNCHANGED <<raised, bodyRaised>>
     IN  \/ kernel' = result.dev /\ errors' = errors /\ Replied(result.reply)
         \/ kernel' = result.dev /\ MayRaise /\ BodyRaises    \* record(event)
         \/ /\ kernel' = kernel /\ MayRaise
            /\ \E e \in {ENOMEM, EINTR, ENODEV, EIO} :
                 IF e \in EnvironmentErrors THEN BodyRaises ELSE Replied(Failure(e))
  /\ UNCHANGED <<scenario, original, table, fd, found>>

BodyEnds ==
  /\ pc = "body" /\ index = Len(scenario.operations)
  /\ pc' = "exit_clear"
  /\ UNCHANGED <<session, kernel, table, fd, status, raised, errors, checks>>

-----------------------------------------------------------------------------
\* __exit__ and _close.

\* Mutant: what goes wrong in the cleanup replaces the exception of the body.
CleanupRaises_Replaces == raised' = "cleanup"

\* An exception of the body survives what goes wrong in the cleanup.
CleanupRaises == raised' = IF raised = "body" THEN "body" ELSE "cleanup"

ExitClear ==
  /\ pc = "exit_clear"
  /\ OnDevice
  /\ \/ /\ kernel' = SimApply(kernel, [op |-> "clear"]).dev
        /\ pc' = "exit_set" /\ UNCHANGED <<raised, errors>>
     \/ MayRaise /\ CleanupRaises /\ pc' = "exit_close" /\ kernel' = kernel
  /\ UNCHANGED <<session, table, fd, status, bodyRaised, found>>

ExitSet ==
  /\ pc = "exit_set"
  /\ OnDevice
  /\ \/ /\ kernel' = SimApply(kernel, [op |-> "resize", capacity |-> original]).dev
        /\ UNCHANGED <<raised, errors>>
     \/ MayRaise /\ CleanupRaises /\ kernel' = kernel
  /\ pc' = "exit_close"
  /\ UNCHANGED <<session, table, fd, status, bodyRaised, found>>

Closing == pc \in {"enter_close", "exit_close"}

\* Mutant: the error of close() is retried on the same number.
CloseRaises_Retried == pc' = pc /\ fd' = fd /\ raised' = raised

CloseRaises ==
  /\ pc' = "return" /\ fd' = FALSE
  /\ raised' = IF pc = "enter_close" THEN "enter"
               ELSE IF raised = "body" THEN "body" ELSE "cleanup"

\* The number is given up by close() also when close() reports an error.
Close ==
  /\ Closing
  /\ misused' = (misused \/ table # "device")
  /\ table' = "free"
  /\ \/ pc' = "return" /\ fd' = FALSE /\ UNCHANGED <<raised, errors>>
     \/ MayRaise /\ CloseRaises
  /\ UNCHANGED <<session, kernel, status, bodyRaised, found>>

\* evaluate() turns any exception into an inconclusive result.
Return ==
  /\ pc = "return" /\ pc' = "ended"
  /\ status' = IF raised # "none" THEN "inconclusive" ELSE status
  /\ UNCHANGED <<session, kernel, table, fd, raised, errors, checks>>

OtherOpens ==
  /\ table = "free" /\ pc \notin {"open", "ended"}
  /\ table' = "other"
  /\ UNCHANGED <<session, kernel, fd, pc, raised, status, errors, checks>>

Ended == pc = "ended" /\ UNCHANGED vars

Next ==
  \/ Open \/ Fstat \/ GetOriginal \/ EnterClear \/ EnterSet \/ Compare \/ BodyEnds
  \/ ExitClear \/ ExitSet \/ Close \/ Return
  \/ OtherOpens \/ Ended

Spec == Init /\ [][Next]_vars

-----------------------------------------------------------------------------
\* A device that keeps the contract is not accused, whatever it held before
\* the run and whichever system calls raise.
LawfulNotAccused == kernel.fault = "none" => status # "fail"

\* The descriptor is not leaked on any path.
NothingLeaks == pc = "ended" => table # "device" /\ ~fd

\* No system call of the session reaches a descriptor that is not its own,
\* although the number may be reused as soon as it was closed.
NeverOthersDescriptor == ~misused

\* LinuxDevice._close and the except clause of __enter__: the descriptor is
\* closed on every path, once, and no call is made on a number that is
\* somebody else's by then.
DescriptorIsOwn == NothingLeaks /\ NeverOthersDescriptor

\* A conclusive result leaves the device as it was found, but empty: the
\* next run starts from the same capacity.
ConclusiveRestores ==
  pc = "ended" /\ status \in {"pass", "fail"} =>
    kernel.queue = << >> /\ kernel.capacity = found

\* The exception that is reported is the one of the body if that raised.
BodyErrorSurvives ==
  pc = "ended" /\ bodyRaised => raised = "body" /\ status = "inconclusive"

\* LinuxDevice.__exit__ and evaluate: a verdict is given only by a session
\* that restored the device, and an exception of the body is neither lost
\* nor replaced by what goes wrong in the cleanup.
ResultIsEarned == ConclusiveRestores /\ BodyErrorSurvives

=============================================================================
