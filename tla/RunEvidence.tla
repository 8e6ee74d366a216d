----------------------------- MODULE RunEvidence -----------------------------
(***************************************************************************)
(* The evidence directory of one run: main() of lab/runner.py writes it,   *)
(* load_run() of lab/report.py and main() of lab/history.py read it, and   *)
(* main() of lab/demo.py starts the runner several times under a watchdog  *)
(* and counts what it left behind.  Every write may fail or be cut off,    *)
(* and the runner may be killed between any two of them.                   *)
(*                                                                         *)
(* What an operation does is left to ConcurrentRun and DeviceSession: here *)
(* a call matches, mismatches or raises, and the checker gives a verdict   *)
(* on a complete history.                                                  *)
(***************************************************************************)
EXTENDS JsonFile, Integers, Sequences, FiniteSets

CONSTANTS Operations,   \* how many operations the scenario has
          Workers,      \* the workers of a concurrent run
          Repeats,      \* the repetitions of the demo
          MaxErrors     \* bound: how many writes and calls fail

VARIABLES
  demo,        \* the demo: where it is and what it counted
  concurrent, reduce,    \* --workers > 1 and --reduce
  pc, code,    \* the runner and its exit code
  disk,        \* the JSON files of the evidence directory
  history,     \* the events in memory
  file,        \* history.jsonl: how many of them are in it, and a cut-off line
  stopped,     \* the workers that take no further operation
  result,      \* what evaluate or evaluate_concurrent returned
  errors

vars == <<demo, concurrent, reduce, pc, code, disk, history, file, stopped, result, errors>>
invocation == <<concurrent, reduce>>
capture == <<history, file, stopped>>

Indexes == 0..(Operations - 1)
Owner(index) == index % Workers
Event(index, error) == [index |-> index, error |-> error]
NoResult == [status |-> "none", error |-> FALSE, reason |-> "none"]
Verdict(status, error, reason) == [status |-> status, error |-> error, reason |-> reason]

Traceback == 1      \* the exit code of an exception nobody catches
Killed == -9
NotEnded == 99

NewDirectory ==
  [scenario |-> Absent, manifest |-> Absent, reduced |-> Absent, reduction |-> Absent,
   result |-> Absent]

Started ==
  /\ pc = "mkdir" /\ code = NotEnded /\ disk = NewDirectory
  /\ history = << >> /\ file = [open |-> FALSE, lines |-> 0, torn |-> FALSE]
  /\ stopped = {} /\ result = NoResult

\* Either a user starts the runner, or the demo does, with several workers.
Init ==
  /\ Started /\ errors = 0
  /\ \/ /\ demo = [at |-> "none", runs |-> << >>, truth |-> << >>, status |-> "none"]
        /\ concurrent \in BOOLEAN /\ reduce \in BOOLEAN /\ ~(concurrent /\ reduce)
     \/ /\ demo = [at |-> "wait", runs |-> << >>, truth |-> << >>, status |-> "RUNNING"]
        /\ concurrent = TRUE /\ reduce = FALSE

MayFail == errors < MaxErrors /\ errors' = errors + 1

Ends(exit) == pc' = "ended" /\ code' = exit

-----------------------------------------------------------------------------
\* The runner's own files.

\* save_json outside every try: an exception, or the end of the process, in it ends the run.
Save(name, content, next) ==
  \E s \in SaveJson(disk[name], content) :
    /\ disk' = [disk EXCEPT ![name] = s.content]
    /\ IF s.ok THEN pc' = next /\ UNCHANGED <<code, errors>>
               ELSE MayFail /\ \E exit \in {Traceback, Killed} : Ends(exit)

\* An invalid scenario or a directory that cannot be made: parser.error, exit code 2.
MakeDirectory ==
  /\ pc = "mkdir"
  /\ \/ pc' = "scenario" /\ UNCHANGED <<code, errors>>
     \/ MayFail /\ Ends(2)
  /\ UNCHANGED <<demo, invocation, disk, capture, result>>

SaveScenario ==
  /\ pc = "scenario" /\ Save("scenario", "scenario", "manifest")
  /\ UNCHANGED <<demo, invocation, capture, result>>

SaveRunning ==
  /\ pc = "manifest"
  /\ Save("manifest", [status |-> "running", observed |-> 0], "open")
  /\ UNCHANGED <<demo, invocation, capture, result>>

OpenHistory ==
  /\ pc = "open"
  /\ \/ /\ pc' = "evaluate" /\ file' = [file EXCEPT !.open = TRUE]
        /\ UNCHANGED <<code, errors>>
     \/ MayFail /\ Ends(Traceback) /\ UNCHANGED file
  /\ UNCHANGED <<demo, invocation, disk, history, stopped, result>>

-----------------------------------------------------------------------------
\* evaluate and evaluate_concurrent, as far as the evidence shows them.

\* A flush that fails writes some of the lines it holds and keeps the others for the next one.
PartialFlush ==
  \E lines \in file.lines..Len(history'), torn \in BOOLEAN :
    /\ torn => lines < Len(history')
    /\ file' = [file EXCEPT !.lines = lines, !.torn = torn]

Flush == file' = [file EXCEPT !.lines = Len(history'), !.torn = FALSE]

\* One operation after the other, until one of them mismatches or raises.
Sequential(mismatch) ==
  /\ pc = "evaluate" /\ ~concurrent /\ Len(history) < Operations
  /\ history' = Append(history, Event(Len(history), FALSE))
  /\ \/ /\ Flush /\ UNCHANGED errors
        /\ IF mismatch
           THEN pc' = "close" /\ result' = Verdict("fail", FALSE, "none")
           ELSE UNCHANGED <<pc, result>>
     \/ /\ PartialFlush /\ MayFail
        /\ pc' = "close" /\ result' = Verdict("inconclusive", TRUE, "none")
  /\ UNCHANGED <<demo, invocation, code, disk, stopped>>

Done == {history[i].index : i \in DOMAIN history}

NextOf(worker) == {i \in Indexes \ Done :
                     Owner(i) = worker /\ \A j \in 0..(i - 1) : Owner(j) = worker => j \in Done}

\* A worker appends its event and records it, under the lock.  It stops at an event with an
\* error and at a record that raises.
Concurrent(worker, error) ==
  /\ pc = "evaluate" /\ concurrent /\ worker \notin stopped
  /\ \E i \in NextOf(worker) : history' = Append(history, Event(i, error))
  /\ \/ /\ Flush /\ UNCHANGED result
        /\ IF error THEN MayFail /\ stopped' = stopped \cup {worker}
                    ELSE UNCHANGED <<stopped, errors>>
     \/ /\ PartialFlush /\ MayFail /\ ~error
        /\ stopped' = stopped \cup {worker}
        /\ result' = Verdict("inconclusive", TRUE, "none")
  /\ UNCHANGED <<demo, invocation, pc, code, disk>>

Evaluated ==
  IF concurrent THEN \A w \in 0..(Workers - 1) : w \in stopped \/ NextOf(w) = {}
                ELSE Len(history) = Operations

\* The device raises: on the way in, on the way out and, in a sequential run, at a call.
Raise ==
  /\ pc = "evaluate" /\ MayFail
  /\ concurrent => history = << >> \/ Evaluated
  /\ pc' = "close" /\ result' = Verdict("inconclusive", TRUE, "none")
  /\ UNCHANGED <<demo, invocation, code, disk, capture>>

CompleteCapture == Done = Indexes /\ \A i \in DOMAIN history : ~history[i].error

\* The verdict: of the comparison, or of check_history, which may run out of its budget: the
\* reason "exhausted" stands for "search budget exhausted".
Judge ==
  /\ pc = "evaluate" /\ Evaluated
  /\ pc' = "close"
  /\ CASE result # NoResult -> UNCHANGED result
       [] result = NoResult /\ ~concurrent -> result' = Verdict("pass", FALSE, "none")
       [] result = NoResult /\ concurrent /\ ~CompleteCapture ->
            result' = Verdict("inconclusive", FALSE, "incomplete")
       [] OTHER ->
            result' \in {Verdict("pass", FALSE, "none"), Verdict("fail", FALSE, "none"),
                         Verdict("inconclusive", FALSE, "exhausted")}
  /\ UNCHANGED <<demo, invocation, code, disk, capture, errors>>

\* Leaving the with block flushes once more; an exception there is not caught.
CloseHistory ==
  /\ pc = "close" /\ UNCHANGED history
  /\ \/ /\ Flush /\ UNCHANGED <<code, errors>>
        /\ pc' = IF reduce /\ result.status = "fail" THEN "reduce" ELSE "result"
     \/ /\ file.lines < Len(history) /\ PartialFlush /\ MayFail /\ Ends(Traceback)
  /\ UNCHANGED <<demo, invocation, disk, stopped, result>>

-----------------------------------------------------------------------------
\* The reduction, the result and the final manifest.

SaveReduced ==
  /\ pc = "reduce" /\ Save("reduced", "reduced", "reduction")
  /\ UNCHANGED <<demo, invocation, capture, result>>

\* After reduced.json, or because the failure did not come back.
SaveReduction ==
  /\ pc \in {"reduce", "reduction"} /\ Save("reduction", "reduction", "result")
  /\ UNCHANGED <<demo, invocation, capture, result>>

SaveResult ==
  /\ pc = "result" /\ Save("result", result, "final")
  /\ UNCHANGED <<demo, invocation, capture, result>>

FinalManifest == [status |-> result.status, observed |-> Len(history)]

SaveFinal ==
  /\ pc = "final" /\ Save("manifest", FinalManifest, "exit")
  /\ UNCHANGED <<demo, invocation, capture, result>>

ExitCode(status) == CASE status = "pass" -> 0 [] status = "fail" -> 1 [] OTHER -> 2

Exit ==
  /\ pc = "exit" /\ Ends(ExitCode(result.status))
  /\ UNCHANGED <<demo, invocation, disk, capture, result, errors>>

\* The watchdog of the demo, or anybody, kills the runner between two steps.
Kill ==
  /\ pc # "ended" /\ MayFail /\ Ends(Killed)
  /\ UNCHANGED <<demo, invocation, disk, capture, result>>

Runner ==
  \/ MakeDirectory \/ SaveScenario \/ SaveRunning \/ OpenHistory
  \/ \E mismatch \in BOOLEAN : Sequential(mismatch)
  \/ \E worker \in 0..(Workers - 1), error \in BOOLEAN : Concurrent(worker, error)
  \/ Raise \/ Judge \/ CloseHistory
  \/ SaveReduced \/ SaveReduction \/ SaveResult \/ SaveFinal \/ Exit \/ Kill

-----------------------------------------------------------------------------
\* The readers.

Lines == SubSeq(history, 1, file.lines)
HistoryReads == file.open => ~file.torn

LoadedStatus == disk.manifest.status

\* load_run returns: the status it shows is LoadedStatus.
LoadRun ==
  /\ Readable(disk.manifest) /\ Readable(disk.scenario) /\ disk.result # Torn
  /\ LoadedStatus # "running" =>
       Readable(disk.result) /\ disk.result.status = LoadedStatus
  /\ HistoryReads
  /\ \A i, j \in DOMAIN Lines : Lines[i].index = Lines[j].index => i = j
  /\ LoadedStatus # "running" => disk.manifest.observed = Len(Lines)
  /\ LoadedStatus = "pass" => Len(Lines) = Operations
  /\ disk.reduction # Torn

\* Mutant: why the run was inconclusive is not looked at.
Inconclusive_Unexplained ==
  \/ disk.manifest.status = "running" \/ ~Exists(disk.result)
  \/ disk.result.status # disk.manifest.status
  \/ disk.manifest.observed # Operations

Inconclusive ==
  \/ disk.manifest.status = "running" \/ ~Exists(disk.result)
  \/ disk.result.error
  \/ disk.result.status # disk.manifest.status
  \/ disk.result.status = "inconclusive" /\ disk.result.reason # "exhausted"
  \/ disk.manifest.observed # Operations

\* What checking the saved history again leads to.
Recheck ==
  CASE ~Readable(disk.scenario) \/ ~Readable(disk.manifest) \/ disk.result = Torn -> "refused"
    [] ~concurrent -> "refused"
    [] Inconclusive -> "inconclusive"
    [] ~file.open \/ ~HistoryReads -> "refused"
    [] OTHER -> "judged"

-----------------------------------------------------------------------------
\* The demo.

Classification(status) ==
  CASE status = "pass" -> "CONTRACT_PASS" [] status = "fail" -> "CONTRACT_MISMATCH"
    [] OTHER -> "INCONCLUSIVE"

\* The run is not counted as an observation of the contract.
Harness == code \notin {0, 1, 2} \/ ~Exists(disk.result)

Count(classification) ==
  demo' = [demo EXCEPT !.at = "next", !.runs = Append(@, classification),
                       !.truth = Append(@, result.status)]

Crashes == demo' = [demo EXCEPT !.at = "crashed"]

Uncounted ==
  /\ demo.at = "wait" /\ pc = "ended" /\ Harness
  /\ Count("HARNESS_FAILURE")
  /\ UNCHANGED <<invocation, pc, code, disk, capture, result, errors>>

\* The result and the manifest are read, and the manifest is written again with the command.
Collect ==
  /\ demo.at = "wait" /\ pc = "ended" /\ ~Harness
  /\ IF ~Readable(disk.result) \/ ~Readable(disk.manifest)
     THEN Crashes /\ UNCHANGED <<disk, errors>>
     ELSE \E s \in SaveJson(disk.manifest, disk.manifest) :
            /\ disk' = [disk EXCEPT !.manifest = s.content]
            /\ IF s.ok THEN demo' = [demo EXCEPT !.at = "report"] /\ UNCHANGED errors
                       ELSE Crashes /\ MayFail
  /\ UNCHANGED <<invocation, pc, code, capture, result>>

\* A failure on the simulator is reduced, the report is rendered from what load_run returns,
\* and the run is counted.
Report ==
  /\ demo.at = "report"
  /\ \E s \in {[content |-> disk.reduction, ok |-> TRUE]} \cup
              IF disk.result.status = "fail" THEN SaveJson(disk.reduction, "reduction") ELSE {},
        rendered \in BOOLEAN :
       /\ disk' = [disk EXCEPT !.reduction = s.content]
       /\ IF s.ok /\ rendered THEN UNCHANGED errors ELSE MayFail
       /\ IF s.ok /\ rendered /\ LoadRun THEN Count(Classification(disk.result.status)) ELSE Crashes
  /\ UNCHANGED <<invocation, pc, code, capture, result>>

NextRun ==
  /\ demo.at = "next" /\ Len(demo.runs) < Repeats
  /\ demo' = [demo EXCEPT !.at = "wait"]
  /\ pc' = "mkdir" /\ code' = NotEnded /\ disk' = NewDirectory
  /\ history' = << >> /\ file' = [open |-> FALSE, lines |-> 0, torn |-> FALSE]
  /\ stopped' = {} /\ result' = NoResult
  /\ UNCHANGED <<invocation, errors>>

Observed(classification) == classification \in {"CONTRACT_PASS", "CONTRACT_MISMATCH"}

FinishDemo ==
  /\ demo.at = "next" /\ Len(demo.runs) = Repeats
  /\ demo' = [demo EXCEPT !.at = "done",
                !.status = IF \A i \in DOMAIN demo.runs : Observed(demo.runs[i])
                           THEN "COMPLETE" ELSE "INCONCLUSIVE"]
  /\ UNCHANGED <<invocation, pc, code, disk, capture, result, errors>>

Demo == Uncounted \/ Collect \/ Report \/ NextRun \/ FinishDemo

Next == Runner \/ Demo

Spec == Init /\ [][Next]_vars

-----------------------------------------------------------------------------
Conclusive == {"pass", "fail", "inconclusive"}

(***************************************************************************)
(* load_run of report.py: whatever a killed or failed runner left behind,  *)
(* a directory that loads with a final status belongs to a run that wrote  *)
(* its final manifest; the status is the one that was evaluated and the    *)
(* history holds every event that was observed.                            *)
(***************************************************************************)
FinalMeansFinished ==
  LoadRun /\ LoadedStatus \in Conclusive =>
    /\ pc \in {"exit", "ended"}
    /\ LoadedStatus = result.status
    /\ disk.manifest.status = result.status
    /\ Lines = history

(***************************************************************************)
(* main of runner.py: a run that returned, also one in which recording an  *)
(* event raised and was caught, leaves a directory that load_run accepts   *)
(* and that shows the verdict of the exit code.                            *)
(***************************************************************************)
ReturnedLoads ==
  pc = "exit" => LoadRun /\ LoadedStatus = result.status

(***************************************************************************)
(* main of history.py: a saved history is judged again only when the run   *)
(* was judged before, or ran out of search budget: nobody can turn a run   *)
(* with an execution error or a missing event into a verdict.              *)
(***************************************************************************)
RecheckIsEarned ==
  Recheck = "judged" =>
    /\ ~result.error /\ CompleteCapture /\ Lines = history
    /\ result.reason \in {"none", "exhausted"}

(***************************************************************************)
(* main of demo.py: a runner that was killed, at whatever point, is never  *)
(* counted as an observation of the contract, and one that is counted is   *)
(* counted with the verdict it reached.                                    *)
(***************************************************************************)
KilledIsNotCounted ==
  /\ demo.at = "report" => code # Killed
  /\ \A i \in DOMAIN demo.runs :
       Observed(demo.runs[i]) => demo.runs[i] = Classification(demo.truth[i])

(***************************************************************************)
(* main of demo.py: COMPLETE means that every repetition ended with a      *)
(* conclusive verdict.                                                     *)
(***************************************************************************)
CompleteMeansObserved ==
  demo.status = "COMPLETE" =>
    /\ Len(demo.truth) = Repeats
    /\ \A i \in DOMAIN demo.truth :
         /\ demo.truth[i] \in {"pass", "fail"}
         /\ demo.runs[i] = Classification(demo.truth[i])
=============================================================================
