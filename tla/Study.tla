-------------------------------- MODULE Study --------------------------------
(***************************************************************************)
(* study(), execute_job(), seal() and verify() of lab/research.py: a study *)
(* runs its jobs one after the other as processes with a timeout, counts   *)
(* the results of those that passed, and seals the bundle with the hashes  *)
(* of its files.  Saves may fail or be cut off, the study may be killed    *)
(* while a job is running, which goes on without it, and a bundle may be   *)
(* edited afterwards.  What reduce() computes is in Dradd: here a result   *)
(* is whole, cut off or missing.                                           *)
(***************************************************************************)
EXTENDS JsonFile, Integers, Sequences

CONSTANTS Jobs,        \* how many jobs the study has
          MaxErrors,   \* bound: how often something fails
          MaxEdits,    \* bound: how many files are edited afterwards
          Edited       \* content that is none of the study's

Name == {"configuration", "source", "manifest", "analysis", "report", "extra"} \X {0}
          \cup {"request", "log", "checkpoint", "result"} \X (1..Jobs)

VARIABLES
  disk,        \* Name -> content
  integrity,   \* integrity.json: the hashes of the files; a hash stands for the content
  pc, number,  \* the study and the job it is at
  job,         \* the job's process: "none", "reducing", "saved" or "ended"
  jobCode,     \* its exit code
  status,      \* what run_step returned for it
  jobs,        \* manifest["jobs"]: the status of each
  results,     \* the jobs whose results were read
  code, errors, edits,
  sealed       \* for the properties: the files when they were sealed

vars == <<disk, integrity, pc, number, job, jobCode, status, jobs, results, code, errors, edits,
          sealed>>
process == <<job, jobCode>>
progress == <<number, status, jobs, results>>

NotEnded == 99
Killed == -9

Init ==
  /\ disk = [name \in Name |-> Absent] /\ integrity = Absent
  /\ pc = "configuration" /\ number = 1
  /\ job = "none" /\ jobCode = NotEnded /\ status = "none"
  /\ jobs = << >> /\ results = {}
  /\ code = NotEnded /\ errors = 0 /\ edits = 0 /\ sealed = << >>

MayFail == errors < MaxErrors /\ errors' = errors + 1

Ends(exit) == pc' = "ended" /\ code' = exit

\* main() turns an exception in study() into exit code 2.
Save(name, content, next) ==
  \E s \in SaveJson(disk[name], content) :
    /\ disk' = [disk EXCEPT ![name] = s.content]
    /\ IF s.ok THEN pc' = next /\ UNCHANGED <<code, errors>>
               ELSE MayFail /\ Ends(2)

ManifestOf(state) == [status |-> state, jobs |-> jobs]

-----------------------------------------------------------------------------
\* study(): before, between and after the jobs.

SaveConfiguration ==
  /\ pc = "configuration" /\ Save(<<"configuration", 0>>, "configuration", "snapshot")
  /\ UNCHANGED <<integrity, process, progress, edits, sealed>>

TakeSnapshot ==
  /\ pc = "snapshot" /\ Save(<<"source", 0>>, "source", "running")
  /\ UNCHANGED <<integrity, process, progress, edits, sealed>>

SaveRunning ==
  /\ pc = "running" /\ Save(<<"manifest", 0>>, ManifestOf("running"), "request")
  /\ UNCHANGED <<integrity, process, progress, edits, sealed>>

SaveRequest ==
  /\ pc = "request" /\ Save(<<"request", number>>, "request", "spawn")
  /\ UNCHANGED <<integrity, process, progress, edits, sealed>>

Spawn ==
  /\ pc = "spawn" /\ pc' = "wait"
  /\ disk' = [disk EXCEPT ![<<"log", number>>] = "log"]
  /\ job' = "reducing" /\ jobCode' = NotEnded
  /\ UNCHANGED <<integrity, progress, code, errors, edits, sealed>>

Waited ==
  /\ pc = "wait" /\ job = "ended"
  /\ status' = (IF jobCode = 0 THEN "passed" ELSE "failed") /\ pc' = "record" /\ job' = "none"
  /\ UNCHANGED <<disk, integrity, jobCode, number, jobs, results, code, errors, edits, sealed>>

\* run_step kills the job wherever it is, also in the middle of a save.
TimeoutExpired ==
  /\ pc = "wait" /\ job # "ended" /\ MayFail
  /\ \/ UNCHANGED disk
     \/ job = "reducing" /\ \E kind \in {"checkpoint", "result"} :
                               disk' = [disk EXCEPT ![<<kind, number>>] = Torn]
  /\ status' = "timeout" /\ pc' = "record" /\ job' = "none"
  /\ UNCHANGED <<integrity, jobCode, number, jobs, results, code, edits, sealed>>

Record ==
  /\ pc = "record"
  /\ jobs' = Append(jobs, status)
  /\ \E s \in SaveJson(disk[<<"manifest", 0>>], [status |-> "running", jobs |-> jobs']) :
       /\ disk' = [disk EXCEPT ![<<"manifest", 0>>] = s.content]
       /\ IF s.ok THEN pc' = "count" /\ UNCHANGED <<code, errors>> ELSE MayFail /\ Ends(2)
  /\ UNCHANGED <<integrity, process, number, status, results, edits, sealed>>

\* Mutant: whatever left a result is counted.
Counted_Exists == Exists(disk[<<"result", number>>])

Counted == status = "passed" /\ Exists(disk[<<"result", number>>])

Count ==
  /\ pc = "count"
  /\ IF Counted /\ ~Readable(disk[<<"result", number>>])
     THEN Ends(2) /\ UNCHANGED <<results, number>>
     ELSE /\ results' = IF Counted THEN results \cup {number} ELSE results
          /\ number' = number + 1
          /\ pc' = IF number < Jobs THEN "request" ELSE "analyze"
          /\ UNCHANGED code
  /\ UNCHANGED <<disk, integrity, process, status, jobs, errors, edits, sealed>>

Analyze ==
  /\ pc = "analyze" /\ Save(<<"analysis", 0>>, results, "report")
  /\ UNCHANGED <<integrity, process, progress, edits, sealed>>

Report ==
  /\ pc = "report" /\ Save(<<"report", 0>>, results, "final")
  /\ UNCHANGED <<integrity, process, progress, edits, sealed>>

\* len(results) == len(jobs): a job adds its result once.
FinalStatus == IF results = 1..Jobs THEN "complete" ELSE "incomplete"

SaveFinal ==
  /\ pc = "final" /\ Save(<<"manifest", 0>>, ManifestOf(FinalStatus), "seal")
  /\ UNCHANGED <<integrity, process, progress, edits, sealed>>

Files == {name \in Name : Exists(disk[name])}

\* The hash of every file but integrity.json itself.
Sealed == [name \in Files |-> disk[name]]

Seal ==
  /\ pc = "seal"
  /\ \E s \in SaveJson(integrity, Sealed) :
       /\ integrity' = s.content
       /\ IF s.ok THEN UNCHANGED errors ELSE MayFail
       /\ IF s.ok /\ disk[<<"manifest", 0>>].status = "complete"
          THEN pc' = "verify" /\ UNCHANGED code ELSE Ends(2)
  /\ sealed' = disk
  /\ UNCHANGED <<disk, process, progress, edits>>

-----------------------------------------------------------------------------
\* execute_job(), in its own process.

\* reduce() calls checkpoint after every group of trials.
Checkpoint ==
  /\ job = "reducing"
  /\ \E s \in SaveJson(disk[<<"checkpoint", number>>], "checkpoint") :
       /\ disk' = [disk EXCEPT ![<<"checkpoint", number>>] = s.content]
       /\ IF s.ok THEN UNCHANGED <<process, errors>>
                  ELSE MayFail /\ job' = "ended" /\ jobCode' = 2
  /\ UNCHANGED <<integrity, pc, progress, code, edits, sealed>>

\* The result is saved after the holdout trials, once, over nothing.
SaveResult ==
  /\ job = "reducing" /\ Exists(disk[<<"checkpoint", number>>])
  /\ \E s \in SaveJson(disk[<<"result", number>>], "result") :
       /\ disk' = [disk EXCEPT ![<<"result", number>>] = s.content]
       /\ IF s.ok THEN job' = "saved" /\ UNCHANGED <<jobCode, errors>>
                  ELSE MayFail /\ job' = "ended" /\ jobCode' = 2
  /\ UNCHANGED <<integrity, pc, progress, code, edits, sealed>>

ExitJob ==
  /\ job = "saved" /\ job' = "ended" /\ jobCode' = 0
  /\ UNCHANGED <<disk, integrity, pc, progress, code, errors, edits, sealed>>

-----------------------------------------------------------------------------
\* verify().

\* verify() returns: the inventory and every hash agree, the study is complete, and every job
\* has a result that can be read.  That reduce() returns only results that pass the remaining
\* checks is ResultVerifies of Dradd.
Verify ==
  LET manifest == disk[<<"manifest", 0>>]
  IN  /\ Readable(integrity)
      /\ DOMAIN integrity = Files
      /\ \A name \in DOMAIN integrity : disk[name] = integrity[name]
      /\ Readable(manifest) /\ manifest.status = "complete"
      /\ \A j \in DOMAIN manifest.jobs :
           /\ <<"result", j>> \in DOMAIN integrity
           /\ Readable(disk[<<"result", j>>]) /\ Readable(disk[<<"request", j>>])

\* study() verifies what it has sealed.
VerifyOwn ==
  /\ pc = "verify" /\ Ends(IF Verify THEN 0 ELSE 2)
  /\ UNCHANGED <<disk, integrity, process, progress, errors, edits, sealed>>

-----------------------------------------------------------------------------
\* Around the study.

\* A job that is running has a session of its own and goes on.
Kill ==
  /\ pc # "ended" /\ MayFail /\ Ends(Killed)
  /\ UNCHANGED <<disk, integrity, process, progress, edits, sealed>>

\* Somebody deletes, changes or adds a file, or finishes the manifest by hand.
Edit(name) ==
  /\ pc = "ended" /\ edits < MaxEdits /\ edits' = edits + 1
  /\ \E content \in {Absent, Edited} \cup
                    (IF name[1] = "manifest" /\ Readable(disk[name]) /\ disk[name] # Edited
                     THEN {[disk[name] EXCEPT !.status = "complete"]} ELSE {}) :
       disk' = [disk EXCEPT ![name] = content]
  /\ UNCHANGED <<integrity, pc, process, progress, code, errors, sealed>>

StudySteps ==
  \/ SaveConfiguration \/ TakeSnapshot \/ SaveRunning \/ SaveRequest \/ Spawn \/ Waited
  \/ TimeoutExpired \/ Record \/ Count \/ Analyze \/ Report \/ SaveFinal \/ Seal \/ VerifyOwn

Job == Checkpoint \/ SaveResult \/ ExitJob

Next == StudySteps \/ Job \/ Kill \/ \E name \in Name : Edit(name)

Spec == Init /\ [][Next]_vars

-----------------------------------------------------------------------------
(***************************************************************************)
(* Lines 227 to 232: a study that is complete passes its own verification: *)
(* nothing is written between the seal and the verification, and the final *)
(* manifest, the logs and the checkpoints are in the seal.                 *)
(***************************************************************************)
CompleteVerifies == pc = "verify" => Verify

(***************************************************************************)
(* verify of research.py: a bundle that is accepted is one that a study    *)
(* sealed after every one of its jobs had passed and left its result, and  *)
(* no file was changed, lost or added since.  So neither a study that was  *)
(* killed, with a job still writing, nor one with a job that timed out     *)
(* just after it had saved its result, is ever accepted.                   *)
(***************************************************************************)
VerifiedMeansRan ==
  Verify =>
    /\ disk = sealed
    /\ Len(jobs) = Jobs /\ \A j \in 1..Jobs : jobs[j] = "passed"
    /\ disk[<<"analysis", 0>>] = 1..Jobs
=============================================================================
