------------------------------ MODULE StepRunner ------------------------------
(***************************************************************************)
(* run_step() of lab/validate_linux.py on POSIX: one command of a campaign *)
(* in a session of its own, waited for with a timeout, then terminated,    *)
(* killed and reaped.  The command's processes run next to it: they fork,  *)
(* exit, may catch SIGTERM and may move to a process group of their own,   *)
(* as timeout(1) in tests/run_all_tests.sh does.                           *)
(***************************************************************************)
EXTENDS Integers, FiniteSets

CONSTANTS Process,   \* the processes the command may come to consist of
          Leader     \* the one Popen starts

VARIABLES
  proc,       \* Process -> "none", "running" or "dead"
  group,      \* Process -> "step" (the leader's group) or "own"
  deaf,       \* the processes that survive SIGTERM
  exitCode,   \* the leader's, once it is dead
  pc,
  result      \* the status and exit code that are returned

vars == <<proc, group, deaf, exitCode, pc, result>>

Term == -15
Kill == -9
NoCode == 99     \* result has no "exit_code"

Init ==
  /\ proc = [p \in Process |-> "none"] /\ group = [p \in Process |-> "step"]
  /\ deaf \in SUBSET Process
  /\ exitCode = NoCode /\ pc = "popen"
  /\ result = [status |-> "failed", code |-> NoCode]

Running == {p \in Process : proc[p] = "running"}
InGroup == {p \in Running : group[p] = "step"}

\* A signal to set reaches all of its processes at once; none of them forks past it.
Dies(set, code) ==
  /\ proc' = [p \in Process |-> IF p \in set THEN "dead" ELSE proc[p]]
  /\ exitCode' = IF Leader \in set THEN code ELSE exitCode

-----------------------------------------------------------------------------
\* run_step.

\* Popen raises OSError for a command that cannot be started.
Popen ==
  /\ pc = "popen"
  /\ \/ /\ proc' = [proc EXCEPT ![Leader] = "running"] /\ pc' = "wait"
     \/ pc' = "returned" /\ UNCHANGED proc
  /\ UNCHANGED <<group, deaf, exitCode, result>>

Waited ==
  /\ pc = "wait" /\ Leader \notin Running
  /\ result' = [status |-> IF exitCode = 0 THEN "passed" ELSE "failed", code |-> exitCode]
  /\ pc' = "returned"
  /\ UNCHANGED <<proc, group, deaf, exitCode>>

TimeoutExpired ==
  /\ pc = "wait" /\ Leader \in Running
  /\ result' = [result EXCEPT !.status = "timeout"] /\ pc' = "terminate"
  /\ UNCHANGED <<proc, group, deaf, exitCode>>

\* killpg of a group that is empty raises ProcessLookupError, which is ignored.
Terminate ==
  /\ pc = "terminate"
  /\ Dies(InGroup \ deaf, Term)
  /\ pc' = "grace"
  /\ UNCHANGED <<group, deaf, result>>

\* Two seconds for the leader, then SIGKILL for it alone.
Grace ==
  /\ pc = "grace"
  /\ \/ Leader \notin Running /\ UNCHANGED <<proc, exitCode>>
     \/ Leader \in Running /\ Dies({Leader}, Kill)
  /\ pc' = "killpg"
  /\ UNCHANGED <<group, deaf, result>>

\* Mutant: the group is killed only if the leader had to be.
KillGroup_IfNeeded ==
  /\ pc = "killpg"
  /\ Dies(IF exitCode = Kill THEN InGroup ELSE {}, Kill)
  /\ pc' = "reap"
  /\ UNCHANGED <<group, deaf, result>>

KillGroup ==
  /\ pc = "killpg"
  /\ Dies(InGroup, Kill)
  /\ pc' = "reap"
  /\ UNCHANGED <<group, deaf, result>>

Reap ==
  /\ pc = "reap" /\ Leader \notin Running
  /\ result' = [result EXCEPT !.code = exitCode] /\ pc' = "returned"
  /\ UNCHANGED <<proc, group, deaf, exitCode>>

RunStep == Popen \/ Waited \/ TimeoutExpired \/ Terminate \/ Grace \/ KillGroup \/ Reap

-----------------------------------------------------------------------------
\* The command.

Fork(p, q) ==
  /\ p \in Running /\ proc[q] = "none" /\ q # Leader
  /\ proc' = [proc EXCEPT ![q] = "running"] /\ group' = [group EXCEPT ![q] = group[p]]
  /\ UNCHANGED <<deaf, exitCode, pc, result>>

Regroup(p) ==
  /\ p \in InGroup /\ p # Leader
  /\ group' = [group EXCEPT ![p] = "own"]
  /\ UNCHANGED <<proc, deaf, exitCode, pc, result>>

Exit(p, code) ==
  /\ p \in Running /\ Dies({p}, code)
  /\ UNCHANGED <<group, deaf, pc, result>>

Command ==
  \E p \in Process :
    \/ \E q \in Process : Fork(p, q)
    \/ Regroup(p)
    \/ \E code \in 0..1 : Exit(p, code)

Next == RunStep \/ Command

\* The timeouts of wait() make every step of run_step happen; the command need do nothing.
Spec == Init /\ [][Next]_vars /\ WF_vars(RunStep)

-----------------------------------------------------------------------------
(***************************************************************************)
(* run_step, lines 48 to 54: when a step that timed out returns, no        *)
(* process of its group is left, whichever of them ignored SIGTERM, exited *)
(* or forked in between.                                                   *)
(***************************************************************************)
GroupIsGone == pc = "returned" /\ result.status = "timeout" => InGroup = {}

(***************************************************************************)
(* run_step, lines 33 to 36 and 55: a step passed only if its leader ended *)
(* by itself with 0 before the timeout, and a leader that ends with 0      *)
(* after it, in the window before SIGTERM, does not make it pass.          *)
(***************************************************************************)
PassedMeansInTime ==
  result'.status = "passed" /\ result # result' =>
    pc = "wait" /\ Leader \notin Running /\ exitCode = 0 /\ result.status # "timeout"
=============================================================================
