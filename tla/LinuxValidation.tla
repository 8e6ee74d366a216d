--------------------------- MODULE LinuxValidation ---------------------------
(***************************************************************************)
(* main() of lab/validate_linux.py: a campaign that builds the driver in a *)
(* disposable guest and, with --integration, loads it, runs the tests,     *)
(* unloads it and compares the kernel log before and after.  A step is the *)
(* run_step() of StepRunner seen from outside: it passes, fails or times   *)
(* out, and what it leaves behind runs on.  Next to the campaign the       *)
(* kernel writes to its log, which is a ring, and what a test that timed   *)
(* out has left behind may load the module again.                          *)
(***************************************************************************)
EXTENDS JsonFile, Integers, Sequences, FiniteSets

CONSTANTS InitialLines,  \* how many lines the kernel log may hold at first
          LogSize,       \* how many lines the log holds
          MaxLines,      \* bound: how many lines are logged
          MaxErrors      \* bound: how often the environment fails

VARIABLES
  integration, missing, foreign,   \* the invocation and the guest it finds
  loaded,        \* /sys/module/ringbuf_char exists
  binary,        \* which build of the module lies in the build directory
  klog, lines,   \* the kernel log and how many lines it was given
  straggler,     \* something of the suite is still running
  pc, built,     \* where the campaign is; how many build steps passed
  exc,           \* the exception on its way: "none", "error" or "interrupt"
  verdict,       \* what finish() was called with
  before, after, saved,   \* dmesg-before.log, dmesg-after.log, the copied module
  ok,            \* the steps of the integration that passed, and whether it is validated
  manifest,      \* manifest.json
  code, errors,
  tried, bugs    \* for the properties: the steps begun; an error was logged

vars == <<integration, missing, foreign, loaded, binary, klog, lines, straggler, pc, built, exc,
          verdict, before, after, saved, ok, manifest, code, errors, tried, bugs>>
guest == <<integration, missing, foreign>>
kernel == <<klog, lines, bugs>>
evidence == <<before, after, saved>>

Line(n, error) == [n |-> n, error |-> error]
Manifest(status, validated) == [status |-> status, validated |-> validated]
RunningManifest == Manifest("running", FALSE)

NotEnded == 99
Killed == -9
Interrupted == -2
Traceback == 1
Prerequisites == {"linux", "root", "tools", "headers"}
BuildSteps == 6

Init ==
  /\ integration \in BOOLEAN /\ foreign \in BOOLEAN
  /\ missing \in {{}} \cup {{p} : p \in Prerequisites}
  /\ loaded = foreign /\ binary = 1 /\ straggler = FALSE
  /\ lines \in InitialLines /\ bugs = FALSE
  /\ \E error \in BOOLEAN : klog = [n \in 1..lines |-> Line(n, error)]
  /\ pc = "mkdir" /\ built = 0 /\ exc = "none" /\ verdict = "none"
  /\ before = << >> /\ after = << >> /\ saved = 0
  /\ ok = {} /\ tried = {}
  /\ manifest = Absent /\ code = NotEnded /\ errors = 0

MayFail == errors < MaxErrors /\ errors' = errors + 1

Ends(exit) == pc' = "ended" /\ code' = exit

-----------------------------------------------------------------------------
\* finish().

ExitCode(status) == CASE status = "passed" -> 0 [] status = "blocked" -> 2 [] OTHER -> 1

Finishes(status) == verdict' = status

\* finish() outside the try, or in its except clause: a save that raises ends the campaign.
Finish ==
  /\ pc = "finish"
  /\ \E s \in SaveJson(manifest, Manifest(verdict, "validated" \in ok)) :
       /\ manifest' = s.content
       /\ IF s.ok THEN Ends(ExitCode(verdict)) /\ UNCHANGED errors
                  ELSE MayFail /\ Ends(Traceback)
  /\ UNCHANGED <<guest, loaded, binary, kernel, straggler, built, exc, verdict, evidence, ok, tried>>

\* finish() inside the try: a save that raises leads to finish("failed").
FinishInTry ==
  /\ pc = "finish in try"
  /\ \E s \in SaveJson(manifest, Manifest(verdict, "validated" \in ok)) :
       /\ manifest' = s.content
       /\ IF s.ok THEN Ends(ExitCode(verdict)) /\ UNCHANGED <<errors, verdict>>
                  ELSE MayFail /\ pc' = "finish" /\ Finishes("failed") /\ UNCHANGED code
  /\ UNCHANGED <<guest, loaded, binary, kernel, straggler, built, exc, evidence, ok, tried>>

-----------------------------------------------------------------------------
\* Before the try.

SaveRunning ==
  /\ pc = "mkdir"
  /\ \E s \in SaveJson(manifest, RunningManifest) :
       /\ manifest' = s.content
       /\ IF s.ok THEN pc' = "check" /\ UNCHANGED <<code, errors>>
                  ELSE MayFail /\ Ends(Traceback)
  /\ UNCHANGED <<guest, loaded, binary, kernel, straggler, built, exc, verdict, evidence, ok, tried>>

Blocked ==
  \/ missing \ (IF integration THEN {} ELSE {"root"}) # {}
  \/ integration /\ loaded

CheckGuest ==
  /\ pc = "check"
  /\ IF Blocked THEN pc' = "finish" /\ Finishes("blocked")
                ELSE pc' = (IF integration THEN "dmesg-before" ELSE "snapshot") /\ UNCHANGED verdict
  /\ UNCHANGED <<guest, loaded, binary, kernel, straggler, built, exc, evidence, ok, manifest, code,
                 errors, tried>>

DmesgBefore ==
  /\ pc = "dmesg-before"
  /\ \E s \in SaveJson(manifest, RunningManifest), passed \in BOOLEAN :
       /\ manifest' = s.content
       /\ IF s.ok /\ passed THEN UNCHANGED errors ELSE MayFail
       /\ before' = IF passed THEN klog ELSE before
       /\ CASE ~s.ok  -> Ends(Traceback) /\ UNCHANGED verdict
            [] s.ok /\ ~passed -> pc' = "finish" /\ Finishes("blocked") /\ UNCHANGED code
            [] OTHER -> pc' = "snapshot" /\ UNCHANGED <<code, verdict>>
  /\ UNCHANGED <<guest, loaded, binary, kernel, straggler, built, exc, after, saved, ok, tried>>

-----------------------------------------------------------------------------
\* Inside the try.

\* git, the snapshot, the archive, the configuration and the manifest may all raise.
Snapshot ==
  /\ pc = "snapshot"
  /\ \E s \in SaveJson(manifest, RunningManifest) :
       /\ manifest' = s.content
       /\ IF s.ok THEN pc' = "build" /\ UNCHANGED <<verdict, errors>>
                  ELSE MayFail /\ pc' = "finish" /\ Finishes("failed")
  /\ UNCHANGED <<guest, loaded, binary, kernel, straggler, built, exc, evidence, ok, code, tried>>

\* The compiler, the build of the tools and the module, its tests; the first failure ends it.
Build ==
  /\ pc = "build" /\ built < BuildSteps
  /\ \E s \in SaveJson(manifest, RunningManifest), passed \in BOOLEAN :
       /\ manifest' = s.content
       /\ IF s.ok /\ passed THEN UNCHANGED errors ELSE MayFail
       /\ CASE ~s.ok -> pc' = "finish" /\ Finishes("failed") /\ UNCHANGED built
            [] s.ok /\ ~passed -> pc' = "finish in try" /\ Finishes("failed") /\ UNCHANGED built
            [] OTHER -> built' = built + 1 /\ UNCHANGED <<pc, verdict>>
  /\ UNCHANGED <<guest, loaded, binary, kernel, straggler, exc, evidence, ok, code, tried>>

\* The version must match the kernel; the module is copied and hashed.
Identify ==
  /\ pc = "build" /\ built = BuildSteps
  /\ \/ /\ saved' = binary /\ UNCHANGED errors
        /\ IF integration THEN pc' = "suite" /\ UNCHANGED verdict
                          ELSE pc' = "finish in try" /\ Finishes("passed")
     \/ MayFail /\ pc' = "finish in try" /\ Finishes("failed") /\ UNCHANGED saved
  /\ UNCHANGED <<guest, loaded, binary, kernel, straggler, built, exc, before, after, ok, manifest,
                 code, tried>>

-----------------------------------------------------------------------------
\* The integration: the suite, and the finally clause.

\* The suite builds again, loads, tests and unloads; anything may fail on the way.  One that
\* passed has waited for all its tests (run_all_tests.sh:41); a test that was cut off by its own
\* timeout, or with the suite by that of run_step, may have left a process behind.
Suite ==
  /\ pc = "suite"
  /\ \E status \in {"passed", "failed", "timeout"} :
       /\ ok' = IF status = "passed" THEN ok \cup {"suite"} ELSE ok
       /\ loaded' \in BOOLEAN /\ binary' \in {binary, binary + 1}
       /\ straggler' \in (IF status = "passed" THEN {FALSE} ELSE BOOLEAN)
  /\ \E s \in SaveJson(manifest, RunningManifest) :
       /\ manifest' = s.content
       /\ IF s.ok THEN UNCHANGED <<exc, errors>> ELSE MayFail /\ exc' = "error"
  /\ pc' = "cleanup" /\ tried' = tried \cup {"suite"}
  /\ UNCHANGED <<guest, kernel, built, verdict, evidence, code>>

\* Ctrl-C while the suite runs: it has a session of its own and goes on.
InterruptSuite ==
  /\ pc = "suite" /\ MayFail
  /\ loaded' \in BOOLEAN /\ straggler' = TRUE
  /\ exc' = "interrupt" /\ pc' = "cleanup" /\ tried' = tried \cup {"suite"}
  /\ UNCHANGED <<guest, binary, kernel, built, verdict, evidence, ok, manifest, code>>

\* Mutant: the cleanup waits for whoever still uses the device.
Cleanup_Waits(next) ==
  /\ ~straggler
  /\ tried' = tried \cup {"cleanup"}
  /\ \/ loaded' = FALSE /\ ok' = ok \cup {"cleanup"}
     \/ loaded' \in {loaded, FALSE} /\ UNCHANGED ok
  /\ \E s \in SaveJson(manifest, RunningManifest) :
       /\ manifest' = s.content
       /\ IF s.ok THEN pc' = next /\ UNCHANGED <<exc, errors>>
                  ELSE MayFail /\ exc' = "error" /\ pc' = "raised"
  /\ UNCHANGED <<guest, binary, kernel, straggler, built, verdict, evidence, code>>

\* rmmod, unless the module is not loaded or is busy.  A step that raises is not followed by
\* the next one.
Cleanup(next) ==
  /\ tried' = tried \cup {"cleanup"}
  /\ \/ loaded' = FALSE /\ ok' = ok \cup {"cleanup"}
     \/ loaded' \in {loaded, FALSE} /\ UNCHANGED ok
  /\ \E s \in SaveJson(manifest, RunningManifest) :
       /\ manifest' = s.content
       /\ IF s.ok THEN pc' = next /\ UNCHANGED <<exc, errors>>
                  ELSE MayFail /\ exc' = "error" /\ pc' = "raised"
  /\ UNCHANGED <<guest, binary, kernel, straggler, built, verdict, evidence, code>>

DmesgAfter(next) ==
  /\ \/ after' = klog /\ ok' = ok \cup {"dmesg"}
     \/ UNCHANGED <<after, ok>>
  /\ \E s \in SaveJson(manifest, RunningManifest) :
       /\ manifest' = s.content
       /\ IF s.ok THEN pc' = next /\ UNCHANGED <<exc, errors>>
                  ELSE MayFail /\ exc' = "error" /\ pc' = "raised"
  /\ UNCHANGED <<guest, loaded, binary, kernel, straggler, built, verdict, before, saved, code, tried>>

AfterFinally == IF exc = "none" THEN "compare" ELSE "raised"

\* Mutant: the log is read before the module is unloaded.
Finally_LogFirst ==
  \/ pc = "cleanup" /\ DmesgAfter("dmesg-after")
  \/ pc = "dmesg-after" /\ Cleanup(AfterFinally)

Finally ==
  \/ pc = "cleanup" /\ Cleanup("dmesg-after")
  \/ pc = "dmesg-after" /\ DmesgAfter(AfterFinally)

Raised ==
  /\ pc = "raised"
  /\ IF exc = "error" THEN pc' = "finish" /\ Finishes("failed") /\ UNCHANGED code
                      ELSE Ends(Interrupted) /\ UNCHANGED verdict
  /\ UNCHANGED <<guest, loaded, binary, kernel, straggler, built, exc, evidence, ok, manifest,
                 errors, tried>>

NewKernelMessages(earlier, later) ==
  IF SubSeq(later, 1, Len(earlier)) # earlier THEN "inconclusive"
  ELSE IF \E i \in (Len(earlier) + 1)..Len(later) : later[i].error THEN "failed" ELSE "passed"

CleanedUp == "cleanup" \in ok /\ ~loaded

Compare ==
  /\ pc = "compare"
  /\ pc' = "finish in try"
  /\ IF /\ CleanedUp /\ "dmesg" \in ok /\ binary = saved
        /\ "suite" \in ok /\ NewKernelMessages(before, after) = "passed"
     THEN Finishes("passed") /\ ok' = ok \cup {"validated"}
     ELSE Finishes("failed") /\ UNCHANGED ok
  /\ UNCHANGED <<guest, loaded, binary, kernel, straggler, built, exc, evidence, manifest, code,
                 errors, tried>>

-----------------------------------------------------------------------------
\* Around the campaign.

\* A line is logged while somebody compares the log; the oldest one gives way.
Log(error) ==
  /\ pc \in {"snapshot", "suite", "cleanup", "dmesg-after"} /\ integration
  /\ lines < MaxLines /\ lines' = lines + 1
  /\ LET longer == Append(klog, Line(lines + 1, error))
     IN  klog' = IF Len(klog) < LogSize THEN longer ELSE Tail(longer)
  /\ bugs' = (bugs \/ error)
  /\ UNCHANGED <<guest, loaded, binary, straggler, pc, built, exc, verdict, evidence, ok, manifest,
                 code, errors, tried>>

\* What the suite left behind loads or unloads the module.
Straggle ==
  /\ straggler
  /\ loaded' = ~loaded
  /\ straggler' \in BOOLEAN
  /\ UNCHANGED <<guest, binary, kernel, pc, built, exc, verdict, evidence, ok, manifest, code,
                 errors, tried>>

Kill ==
  /\ pc # "ended" /\ MayFail /\ Ends(Killed)
  /\ UNCHANGED <<guest, loaded, binary, kernel, straggler, built, exc, verdict, evidence, ok,
                 manifest, tried>>

Campaign ==
  \/ SaveRunning \/ CheckGuest \/ DmesgBefore \/ Snapshot \/ Build \/ Identify
  \/ Suite \/ InterruptSuite \/ Finally \/ Raised \/ Compare
  \/ Finish \/ FinishInTry

Next == Campaign \/ (\E error \in BOOLEAN : Log(error)) \/ Straggle \/ Kill

Spec == Init /\ [][Next]_vars /\ WF_vars(Campaign)

-----------------------------------------------------------------------------
Says(status) == Readable(manifest) /\ manifest.status = status
SaysValidated == Readable(manifest) /\ manifest.validated

(***************************************************************************)
(* docs/linux-validation.md and lines 193 to 206: when the manifest of an  *)
(* integration says passed, or that the runtime is validated, the suite    *)
(* passed, the module that was tested is the one that was saved, it is not *)
(* loaded any more and nothing is left that could load it, and the kernel  *)
(* logged no error from the first reading of the log until the module was  *)
(* gone.                                                                   *)
(***************************************************************************)
PassedMeansClean ==
  integration /\ (Says("passed") \/ SaysValidated) =>
    /\ "suite" \in ok /\ binary = saved
    /\ ~loaded /\ ~straggler
    /\ ~bugs

(***************************************************************************)
(* The finally clause of lines 190 to 192: once the suite was started the  *)
(* campaign does not end, by an error, an interrupt or a verdict, without  *)
(* having tried to unload the module; only a kill gets past it.            *)
(***************************************************************************)
CleanupIsTried ==
  pc = "ended" /\ code # Killed /\ "suite" \in tried => "cleanup" \in tried

(***************************************************************************)
(* Lines 129 to 148: a campaign that finds somebody else's module loaded,  *)
(* or says it is blocked, has loaded and unloaded nothing.                 *)
(***************************************************************************)
BlockedMeansUntouched ==
  foreign \/ Says("blocked") => loaded = foreign /\ tried = {}

(***************************************************************************)
(* new_kernel_messages promises not to silently accept a rotated history,  *)
(* and docs/linux-validation.md that a log that rolls over does not pass.  *)
(* With an empty first reading, after dmesg --clear, every log begins with *)
(* it: an error that has rolled out of the ring is not seen.               *)
(***************************************************************************)
RolledOverDoesNotPass == integration /\ Says("passed") => ~bugs
=============================================================================
