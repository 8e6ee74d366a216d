----------------------------- MODULE MCLaboratory -----------------------------
(***************************************************************************)
(* The commands of the laboratory that run alone and leave evidence: one   *)
(* step of a campaign, the validation campaign, a run with its report and  *)
(* its demo, a study, and a benchmark.  A behaviour is one invocation of   *)
(* one of them: the others' variables stand still.  Variables of the same  *)
(* name (pc, code, errors, ...) are those of the command that was invoked. *)
(***************************************************************************)
EXTENDS JsonFile, Integers, Sequences, FiniteSets

CONSTANTS Process, Leader,                            \* StepRunner
          InitialLines, LogSize, MaxLines,            \* LinuxValidation
          Operations, Workers, RunErrors,             \* RunEvidence
          Jobs, MaxEdits, Edited,                     \* Study
          Size, Warmup, Iterations, Base, Marker,     \* RoundTrip
          Capacity, MaxLeft, Durations,
          Repeats, MaxErrors,                         \* of several
          Unused      \* the value of a variable of another command

ASSUME StepAssumption == Leader \in Process
ASSUME CampaignAssumption == LogSize \in Nat \ {0} /\ InitialLines \subseteq 0..LogSize
ASSUME EvidenceAssumption == Operations \in Nat \ {0} /\ Workers \in 2..4 /\ Repeats \in Nat \ {0}
ASSUME StudyAssumption == Jobs \in Nat \ {0}
ASSUME SizeAssumption ==
  /\ Capacity \in Nat /\ Size \in 1..Capacity /\ MaxLeft \in Nat
  /\ Base \in Nat /\ Base > 1 /\ Marker \in Nat \ {0}
ASSUME IndexAssumption == Warmup \in Nat /\ Iterations \in Nat \ {0}
ASSUME ClockAssumption == Durations \subseteq Nat

VARIABLES
  command,
  pc, code, errors, disk, result, manifest,
  proc, group, deaf, exitCode,
  integration, missing, foreign, loaded, binary, klog, lines, straggler, built, exc, verdict,
  before, after, saved, ok, tried, bugs,
  demo, concurrent, reduce, history, file, stopped,
  integrity, number, job, jobCode, status, jobs, results, edits, sealed,
  run, fault, queue, open, closes, resources, raised, index, offset, data, samples, rows, runs,
  first, stale, left

Step     == INSTANCE StepRunner
Validate == INSTANCE LinuxValidation
Run      == INSTANCE RunEvidence WITH MaxErrors <- RunErrors
Study    == INSTANCE Study
Bench    == INSTANCE RoundTrip

ofStep == <<proc, group, deaf, exitCode>>
ofCampaign ==
  <<integration, missing, foreign, loaded, binary, klog, lines, straggler, built, exc, verdict,
    before, after, saved, ok, tried, bugs>>
ofRun == <<demo, concurrent, reduce, history, file, stopped>>
ofStudy == <<integrity, number, job, jobCode, status, jobs, results, edits, sealed>>
ofBench ==
  <<run, fault, queue, open, closes, resources, raised, index, offset, data, samples, rows, runs,
    first, stale, left>>
vars == <<command, pc, code, errors, disk, result, manifest, ofStep, ofCampaign, ofRun, ofStudy,
          ofBench>>

-----------------------------------------------------------------------------
NoStep == proc = Unused /\ group = Unused /\ deaf = Unused /\ exitCode = Unused

NoCampaign ==
  /\ integration = Unused /\ missing = Unused /\ foreign = Unused /\ loaded = Unused
  /\ binary = Unused /\ klog = Unused /\ lines = Unused /\ straggler = Unused /\ built = Unused
  /\ exc = Unused /\ verdict = Unused /\ before = Unused /\ after = Unused /\ saved = Unused
  /\ ok = Unused /\ tried = Unused /\ bugs = Unused

NoRun ==
  /\ demo = Unused /\ concurrent = Unused /\ reduce = Unused
  /\ history = Unused /\ file = Unused /\ stopped = Unused

NoStudy ==
  /\ integrity = Unused /\ number = Unused /\ job = Unused /\ jobCode = Unused /\ status = Unused
  /\ jobs = Unused /\ results = Unused /\ edits = Unused /\ sealed = Unused

NoBench ==
  /\ run = Unused /\ fault = Unused /\ queue = Unused /\ open = Unused /\ closes = Unused
  /\ resources = Unused /\ raised = Unused /\ index = Unused /\ offset = Unused /\ data = Unused
  /\ samples = Unused /\ rows = Unused /\ runs = Unused /\ first = Unused /\ stale = Unused
  /\ left = Unused

Init ==
  \/ /\ command = "step" /\ Step!Init
     /\ NoCampaign /\ NoRun /\ NoStudy /\ NoBench
     /\ code = Unused /\ errors = Unused /\ disk = Unused /\ manifest = Unused
  \/ /\ command = "validate" /\ Validate!Init
     /\ NoStep /\ NoRun /\ NoStudy /\ NoBench
     /\ disk = Unused /\ result = Unused
  \/ /\ command = "run" /\ Run!Init
     /\ NoStep /\ NoCampaign /\ NoStudy /\ NoBench
     /\ manifest = Unused
  \/ /\ command = "study" /\ Study!Init
     /\ NoStep /\ NoCampaign /\ NoRun /\ NoBench
     /\ result = Unused /\ manifest = Unused
  \/ /\ command = "benchmark" /\ Bench!Init
     /\ NoStep /\ NoCampaign /\ NoRun /\ NoStudy
     /\ code = Unused /\ disk = Unused /\ result = Unused

InStep ==
  /\ command = "step"
  /\ UNCHANGED <<command, ofCampaign, ofRun, ofStudy, ofBench, code, errors, disk, manifest>>
InCampaign ==
  /\ command = "validate"
  /\ UNCHANGED <<command, ofStep, ofRun, ofStudy, ofBench, disk, result>>
InRun ==
  /\ command = "run"
  /\ UNCHANGED <<command, ofStep, ofCampaign, ofStudy, ofBench, manifest>>
InStudy ==
  /\ command = "study"
  /\ UNCHANGED <<command, ofStep, ofCampaign, ofRun, ofBench, result, manifest>>
InBench ==
  /\ command = "benchmark"
  /\ UNCHANGED <<command, ofStep, ofCampaign, ofRun, ofStudy, code, disk, result>>

Next ==
  \/ InStep /\ Step!Next
  \/ InCampaign /\ Validate!Next
  \/ InRun /\ Run!Next
  \/ InStudy /\ Study!Next
  \/ InBench /\ Bench!Next

\* What each component assumes: see Spec of StepRunner, LinuxValidation and RoundTrip.
Fairness ==
  /\ WF_vars(InStep /\ Step!RunStep)
  /\ WF_vars(InCampaign /\ Validate!Campaign)
  /\ WF_vars(InBench /\ Bench!Next)

Spec == Init /\ [][Next]_vars /\ Fairness

-----------------------------------------------------------------------------
(***************************************************************************)
(* run_step of validate_linux.py: a step that timed out leaves no process  *)
(* of its group, and one that passed ended with 0 before the timeout.      *)
(***************************************************************************)
StepIsContained ==
  /\ [](command = "step" => Step!GroupIsGone)
  /\ [][command = "step" => Step!PassedMeansInTime]_result

(***************************************************************************)
(* main of validate_linux.py: what the manifest of a campaign says holds   *)
(* of the guest, the cleanup is tried whenever the suite was started, and  *)
(* a module somebody else had loaded is left alone.                        *)
(***************************************************************************)
ValidationIsEarned ==
  command = "validate" =>
    /\ Validate!PassedMeansClean
    /\ Validate!CleanupIsTried
    /\ Validate!BlockedMeansUntouched

(***************************************************************************)
(* main of runner.py, load_run of report.py, main of history.py and main   *)
(* of demo.py: whatever failed or was killed on the way, what the readers  *)
(* of an evidence directory accept is what the run has observed.           *)
(***************************************************************************)
EvidenceIsTrue ==
  command = "run" =>
    /\ Run!FinalMeansFinished
    /\ Run!ReturnedLoads
    /\ Run!RecheckIsEarned
    /\ Run!KilledIsNotCounted
    /\ Run!CompleteMeansObserved

(***************************************************************************)
(* study, seal and verify of research.py: a complete study passes its own  *)
(* verification, and only a bundle nobody touched, of a study all of whose *)
(* jobs passed, is ever accepted.                                          *)
(***************************************************************************)
StudyIsVerified == command = "study" => Study!CompleteVerifies /\ Study!VerifiedMeansRan

(***************************************************************************)
(* exchange, Transport and main of benchmark.py: a repeat that completes   *)
(* has read back what it wrote, unless what somebody left in the transport *)
(* begins like the payloads and is long enough; its endpoints are closed   *)
(* once, the error that is saved is the first one, and the percentiles are *)
(* nearest ranks.                                                          *)
(***************************************************************************)
BenchmarkIsHonest ==
  command = "benchmark" =>
    /\ Bench!CompleteMeansFresh
    /\ Bench!EndpointsClosedOnce
    /\ Bench!FirstErrorKept
    /\ Bench!PercentilesAreRanks

(***************************************************************************)
(* run_step returns, even from a command that never ends and catches       *)
(* SIGTERM; so a campaign ends, whatever raises and whatever its suite     *)
(* leaves behind; and a benchmark ends, also on a transport that takes     *)
(* nothing or gives nothing back.                                          *)
(***************************************************************************)
CommandsEnd ==
  <>(CASE command = "step" -> pc = "returned"
       [] command \in {"validate", "benchmark"} -> pc = "ended"
       [] OTHER -> TRUE)
=============================================================================
