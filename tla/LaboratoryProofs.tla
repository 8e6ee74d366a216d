-------------------------- MODULE LaboratoryProofs --------------------------
(***************************************************************************)
(* What the evidence of the laboratory's commands says is true, for every  *)
(* number of failures, kills, edits, jobs, operations and repetitions.     *)
(*                                                                         *)
(* A behaviour of MCLaboratory is one invocation of one command, so each   *)
(* invariant speaks of one command and only its own steps can disturb it.  *)
(***************************************************************************)
EXTENDS MCLaboratory, FiniteSetTheorems, NaturalsInduction, WellFoundedInduction, SequenceTheorems,
        TLAPS

(***************************************************************************)
(* The validation campaign.                                                *)
(***************************************************************************)
BeforeLog == {"mkdir", "check", "dmesg-before"}
Logging   == {"snapshot", "build", "suite", "cleanup", "dmesg-after"}
Deciding  == {"compare", "raised"}
Finishing == {"finish in try", "finish", "ended"}

Entry == [n : Nat, error : BOOLEAN]

CampaignTypeOK ==
  /\ integration \in BOOLEAN /\ foreign \in BOOLEAN
  /\ loaded \in BOOLEAN /\ straggler \in BOOLEAN /\ bugs \in BOOLEAN
  /\ lines \in Nat
  /\ klog \in Seq(Entry) /\ before \in Seq(Entry) /\ after \in Seq(Entry)
  /\ pc \in BeforeLog \cup Logging \cup Deciding \cup Finishing

\* The ring: line n is never before place n, and once line 1 has rolled out
\* it does not come back.  While it is there, an error since the first
\* reading is behind what that reading saw.
LogInv ==
  /\ 1 <= Len(klog) /\ Len(klog) <= lines /\ Len(klog) <= LogSize
  /\ \A i \in 1..Len(klog) : klog[i].n >= i
  /\ pc \in BeforeLog => klog[1].n = 1 /\ bugs = FALSE
  /\ Len(before) <= Len(klog)
  /\ bugs = TRUE /\ klog[1].n = 1 =>
       \E i \in Len(before) + 1..Len(klog) : klog[i].error = TRUE
  /\ integration = TRUE /\ pc \in Logging \cup Deciding =>
       1 <= Len(before) /\ before[1].n = 1

\* How far the integration has come.
ProgressInv ==
  /\ pc = "dmesg-before" => integration = TRUE
  /\ pc \in {"suite", "cleanup", "dmesg-after", "compare", "raised"} => integration = TRUE
  /\ integration = TRUE /\ pc \in {"dmesg-before"} \cup Logging \cup Deciding => foreign = FALSE
  /\ foreign = TRUE => tried = {}
  /\ pc \in BeforeLog \cup {"snapshot", "build", "suite"} => tried = {}
  /\ tried = {} => loaded = foreign /\ straggler = FALSE /\ "suite" \notin ok
  /\ "suite" \in ok => straggler = FALSE
  /\ "dmesg" \in ok => pc \in Deciding \cup Finishing /\ after = klog
  /\ "suite" \in tried => pc \notin BeforeLog \cup {"snapshot", "build", "suite"}
  /\ "suite" \in tried /\ pc # "cleanup" /\ ~(pc = "ended" /\ code = Validate!Killed) =>
       "cleanup" \in tried

\* What a passed integration has shown, once it is decided.
Clean ==
  /\ "suite" \in ok /\ binary = saved
  /\ loaded = FALSE /\ straggler = FALSE /\ bugs = FALSE
  /\ pc \in Finishing

DecisionInv ==
  /\ integration = TRUE /\ verdict = "passed" => Clean
  /\ integration = TRUE /\ "validated" \in ok => Clean
  /\ verdict = "blocked" => tried = {} /\ pc \in {"finish", "ended"}
  /\ pc \in BeforeLog \cup Logging \cup Deciding => verdict = "none"

ManifestInv ==
  Readable(manifest) =>
    /\ integration = TRUE /\ manifest.status = "passed" => Clean
    /\ integration = TRUE /\ manifest.validated = TRUE => Clean
    /\ manifest.validated \in BOOLEAN
    /\ manifest.status = "blocked" => tried = {} /\ pc = "ended"

CampaignInv == CampaignTypeOK /\ LogInv /\ ProgressInv /\ DecisionInv /\ ManifestInv

CampaignKept == command = "validate" => CampaignInv

-----------------------------------------------------------------------------
\* The ring after one entry more.
LEMMA LogGrows ==
  ASSUME NEW log \in Seq(Entry), NEW entry \in Entry, 1 <= Len(log)
  PROVE  /\ Append(log, entry) \in Seq(Entry) /\ Tail(Append(log, entry)) \in Seq(Entry)
         /\ Len(Append(log, entry)) = Len(log) + 1
         /\ Len(Tail(Append(log, entry))) = Len(log)
         /\ \A i \in 1..Len(log) : Append(log, entry)[i] = log[i]
         /\ Append(log, entry)[Len(log) + 1] = entry
         /\ \A i \in 1..Len(log) - 1 : Tail(Append(log, entry))[i] = log[i + 1]
         /\ Tail(Append(log, entry))[Len(log)] = entry
OBVIOUS

\* The log main() finds is not empty: see RolledOverDoesNotPass for one that is.
LEMMA CampaignInit ==
  ASSUME 0 \notin InitialLines
  PROVE  Init => CampaignKept
<1> SUFFICES ASSUME Init, command = "validate" PROVE CampaignInv
  BY DEF CampaignKept
<1>1. Validate!Init
  BY DEF Init
<1>2. PICK error \in BOOLEAN : klog = [n \in 1..lines |-> Validate!Line(n, error)]
  BY <1>1 DEF Validate!Init
<1>3. lines \in Nat /\ 1 <= lines /\ lines <= LogSize
  BY <1>1, CampaignAssumption DEF Validate!Init
<1>4. /\ klog \in Seq(Entry) /\ Len(klog) = lines
      /\ \A i \in 1..lines : klog[i].n = i
  BY <1>2, <1>3 DEF Entry, Validate!Line
<1>5. /\ integration \in BOOLEAN /\ foreign \in BOOLEAN /\ loaded = foreign /\ straggler = FALSE
      /\ bugs = FALSE /\ before = << >> /\ after = << >> /\ pc = "mkdir"
      /\ ok = {} /\ tried = {} /\ verdict = "none" /\ manifest = Absent
  BY <1>1, Zenon DEF Validate!Init
<1>6. CampaignTypeOK
  <2>1. before \in Seq(Entry) /\ after \in Seq(Entry)
    BY <1>5
  <2>2. loaded \in BOOLEAN /\ straggler \in BOOLEAN /\ bugs \in BOOLEAN
    BY <1>5
  <2>3. pc \in BeforeLog
    BY <1>5 DEF BeforeLog
  <2> QED
    BY <1>3, <1>4, <1>5, <2>1, <2>2, <2>3, Zenon DEF CampaignTypeOK
<1>7. LogInv
  BY <1>3, <1>4, <1>5 DEF LogInv, BeforeLog, Logging, Deciding
<1>8. ProgressInv
  BY <1>5 DEF ProgressInv, BeforeLog, Logging, Deciding
<1>9. DecisionInv /\ ManifestInv
  BY <1>5 DEF DecisionInv, ManifestInv, Readable, BeforeLog, Finishing
<1> QED
  BY <1>6, <1>7, <1>8, <1>9 DEF CampaignInv

\* A save leaves the old content, the new one or an unreadable file.
LEMMA SavedContent ==
  ASSUME NEW old, NEW new, NEW s \in SaveJson(old, new)
  PROVE  /\ s.content \in {old, new, Torn}
         /\ s.ok = TRUE => s.content = new
         /\ s.ok \in BOOLEAN
         /\ Readable(s.content) => s.content \in {old, new}
<1>1. \/ s = [content |-> new, ok |-> TRUE]
      \/ s = [content |-> old, ok |-> FALSE]
      \/ s = [content |-> Torn, ok |-> FALSE]
  BY DEF SaveJson
<1>2. \/ s.content = new /\ s.ok = TRUE
      \/ s.content \in {old, Torn} /\ s.ok = FALSE
  BY <1>1
<1> QED
  BY <1>2, Zenon DEF Readable

\* The running manifest says nothing: so nothing is claimed before the end.
LEMMA RunningKept ==
  ASSUME CampaignInv, pc \notin Finishing, integration' = integration,
         Readable(manifest)' => manifest' \in {manifest, Validate!RunningManifest}
  PROVE  ManifestInv'
<1> SUFFICES ASSUME Readable(manifest)'
    PROVE  /\ integration = TRUE => manifest'.status # "passed" /\ manifest'.validated # TRUE
           /\ manifest'.validated \in BOOLEAN
           /\ manifest'.status # "blocked"
  BY DEF ManifestInv
<1>1. CASE manifest' = manifest
  <2>1. Readable(manifest)
    BY <1>1 DEF Readable
  <2> QED
    BY <1>1, <2>1 DEF CampaignInv, ManifestInv, Clean, Finishing
<1>2. CASE manifest' = Validate!RunningManifest
  BY <1>2 DEF Validate!RunningManifest, Validate!Manifest
<1> QED
  BY <1>1, <1>2

\* The manifest before anything is done.
LEMMA CampaignSaveRunning == CampaignInv /\ Validate!SaveRunning => CampaignInv'
<1> SUFFICES ASSUME CampaignInv, Validate!SaveRunning PROVE CampaignInv'
  OBVIOUS
<1>1. /\ pc = "mkdir" /\ pc' \in {"check", "ended"}
      /\ UNCHANGED <<integration, foreign, loaded, binary, klog, lines, bugs, straggler, verdict, before, after, saved, ok, tried>>
      /\ Readable(manifest)' => manifest' \in {manifest, Validate!RunningManifest}
  <2>1. PICK s \in Validate!SaveJson(manifest, Validate!RunningManifest) :
          /\ manifest' = s.content
          /\ IF s.ok THEN pc' = "check" /\ UNCHANGED <<code, errors>>
                     ELSE Validate!MayFail /\ Validate!Ends(Validate!Traceback)
    BY Zenon DEF Validate!SaveRunning
  <2>2. Readable(manifest)' => manifest' \in {manifest, Validate!RunningManifest}
    BY <2>1, SavedContent DEF Validate!SaveJson, SaveJson, Readable
  <2>3. UNCHANGED <<integration, foreign, loaded, binary, klog, lines, bugs, straggler, verdict, before, after, saved, ok, tried>>
    BY Zenon DEF Validate!SaveRunning, Validate!MayFail, Validate!Ends, Validate!Finishes, Validate!guest, Validate!kernel, Validate!evidence
  <2> QED
    BY <2>1, <2>2, <2>3 DEF Validate!SaveRunning, Validate!MayFail, Validate!Ends, Validate!Finishes, Validate!guest, Validate!kernel, Validate!evidence
<1>2. CampaignTypeOK'
  BY <1>1 DEF CampaignInv, CampaignTypeOK, BeforeLog, Logging, Deciding, Finishing
<1>3. LogInv'
  BY <1>1 DEF CampaignInv, LogInv, BeforeLog, Logging, Deciding
<1>4. ProgressInv'
  BY <1>1 DEF CampaignInv, CampaignTypeOK, ProgressInv, BeforeLog, Logging, Deciding, Finishing
<1>5. DecisionInv'
  BY <1>1 DEF CampaignInv, ProgressInv, DecisionInv, Clean, BeforeLog, Logging, Deciding, Finishing
<1>n. pc \notin Finishing
  BY <1>1 DEF Finishing
<1>6. ManifestInv'
  BY <1>1, <1>n, RunningKept, Zenon
<1> QED
  BY <1>2, <1>3, <1>4, <1>5, <1>6, Zenon DEF CampaignInv

\* The guest is looked at; a module that is loaded blocks the integration.
LEMMA CampaignCheckGuest == CampaignInv /\ Validate!CheckGuest => CampaignInv'
<1> SUFFICES ASSUME CampaignInv, Validate!CheckGuest PROVE CampaignInv'
  OBVIOUS
<1>1. /\ pc = "check" /\ pc' \in {"finish", "dmesg-before", "snapshot"}
      /\ pc' = "finish" => verdict' = "blocked"
      /\ pc' # "finish" => verdict' = verdict
      /\ pc' = "dmesg-before" => integration = TRUE /\ loaded # TRUE
      /\ pc' = "snapshot" => integration # TRUE
      /\ UNCHANGED <<integration, foreign, loaded, binary, klog, lines, bugs, straggler, before, after, saved, ok, tried>>
      /\ Readable(manifest)' => manifest' \in {manifest, Validate!RunningManifest}
  <2>1. /\ pc = "check" /\ pc' \in {"finish", "dmesg-before", "snapshot"}
        /\ pc' = "finish" => verdict' = "blocked"
        /\ pc' # "finish" => verdict' = verdict
        /\ pc' = "dmesg-before" => integration = TRUE /\ loaded # TRUE
        /\ pc' = "snapshot" => integration # TRUE
        /\ UNCHANGED <<integration, foreign, loaded, binary, klog, lines, bugs, straggler, before, after, saved, ok, tried>>
        /\ manifest' = manifest
    BY Zenon DEF Validate!CheckGuest, Validate!MayFail, Validate!Ends, Validate!Finishes, Validate!guest, Validate!kernel, Validate!evidence, Validate!Blocked
  <2> QED
    BY <2>1 DEF Readable
<1>2. CampaignTypeOK'
  BY <1>1 DEF CampaignInv, CampaignTypeOK, BeforeLog, Logging, Deciding, Finishing
<1>3. LogInv'
  BY <1>1 DEF CampaignInv, LogInv, BeforeLog, Logging, Deciding
<1>4. ProgressInv'
  BY <1>1 DEF CampaignInv, CampaignTypeOK, ProgressInv, BeforeLog, Logging, Deciding, Finishing
<1>5. DecisionInv'
  BY <1>1 DEF CampaignInv, ProgressInv, DecisionInv, Clean, BeforeLog, Logging, Deciding, Finishing
<1>n. pc \notin Finishing
  BY <1>1 DEF Finishing
<1>6. ManifestInv'
  BY <1>1, <1>n, RunningKept, Zenon
<1> QED
  BY <1>2, <1>3, <1>4, <1>5, <1>6, Zenon DEF CampaignInv

\* The first reading of the log.
LEMMA CampaignDmesgBefore == CampaignInv /\ Validate!DmesgBefore => CampaignInv'
<1> SUFFICES ASSUME CampaignInv, Validate!DmesgBefore PROVE CampaignInv'
  OBVIOUS
<1>1. /\ pc = "dmesg-before" /\ pc' \in {"finish", "snapshot", "ended"}
      /\ pc' = "finish" => verdict' = "blocked"
      /\ pc' # "finish" => verdict' = verdict
      /\ pc' = "snapshot" => before' = klog
      /\ before' \in {before, klog}
      /\ UNCHANGED <<integration, foreign, loaded, binary, klog, lines, bugs, straggler, after, saved, ok, tried>>
      /\ Readable(manifest)' => manifest' \in {manifest, Validate!RunningManifest}
  <2>1. PICK s \in Validate!SaveJson(manifest, Validate!RunningManifest), passed \in BOOLEAN :
          /\ manifest' = s.content
          /\ before' = IF passed THEN klog ELSE before
          /\ CASE ~s.ok  -> Validate!Ends(Validate!Traceback) /\ UNCHANGED verdict
               [] s.ok /\ ~passed ->
                    pc' = "finish" /\ Validate!Finishes("blocked") /\ UNCHANGED code
               [] OTHER -> pc' = "snapshot" /\ UNCHANGED <<code, verdict>>
    BY Zenon DEF Validate!DmesgBefore
  <2>2. Readable(manifest)' => manifest' \in {manifest, Validate!RunningManifest}
    BY <2>1, SavedContent DEF Validate!SaveJson, SaveJson, Readable
  <2>3. UNCHANGED <<integration, foreign, loaded, binary, klog, lines, bugs, straggler, after, saved, ok, tried>>
    BY Zenon DEF Validate!DmesgBefore, Validate!MayFail, Validate!Ends, Validate!Finishes, Validate!guest, Validate!kernel, Validate!evidence
  <2> QED
    BY <2>1, <2>2, <2>3 DEF Validate!DmesgBefore, Validate!MayFail, Validate!Ends, Validate!Finishes, Validate!guest, Validate!kernel, Validate!evidence
<1>2. CampaignTypeOK'
  BY <1>1 DEF CampaignInv, CampaignTypeOK, BeforeLog, Logging, Deciding, Finishing
<1>3. LogInv'
  BY <1>1 DEF CampaignInv, LogInv, BeforeLog, Logging, Deciding
<1>4. ProgressInv'
  BY <1>1 DEF CampaignInv, CampaignTypeOK, ProgressInv, BeforeLog, Logging, Deciding, Finishing
<1>5. DecisionInv'
  BY <1>1 DEF CampaignInv, ProgressInv, DecisionInv, Clean, BeforeLog, Logging, Deciding, Finishing
<1>n. pc \notin Finishing
  BY <1>1 DEF Finishing
<1>6. ManifestInv'
  BY <1>1, <1>n, RunningKept, Zenon
<1> QED
  BY <1>2, <1>3, <1>4, <1>5, <1>6, Zenon DEF CampaignInv

\* The snapshot of the source.
LEMMA CampaignSnapshot == CampaignInv /\ Validate!Snapshot => CampaignInv'
<1> SUFFICES ASSUME CampaignInv, Validate!Snapshot PROVE CampaignInv'
  OBVIOUS
<1>1. /\ pc = "snapshot" /\ pc' \in {"finish", "build"}
      /\ pc' = "finish" => verdict' = "failed"
      /\ pc' # "finish" => verdict' = verdict
      /\ UNCHANGED <<integration, foreign, loaded, binary, klog, lines, bugs, straggler, before, after, saved, ok, tried>>
      /\ Readable(manifest)' => manifest' \in {manifest, Validate!RunningManifest}
  <2>1. PICK s \in Validate!SaveJson(manifest, Validate!RunningManifest) :
          /\ manifest' = s.content
          /\ IF s.ok THEN pc' = "build" /\ UNCHANGED <<verdict, errors>>
                     ELSE Validate!MayFail /\ pc' = "finish" /\ Validate!Finishes("failed")
    BY Zenon DEF Validate!Snapshot
  <2>2. Readable(manifest)' => manifest' \in {manifest, Validate!RunningManifest}
    BY <2>1, SavedContent DEF Validate!SaveJson, SaveJson, Readable
  <2>3. UNCHANGED <<integration, foreign, loaded, binary, klog, lines, bugs, straggler, before, after, saved, ok, tried>>
    BY Zenon DEF Validate!Snapshot, Validate!MayFail, Validate!Ends, Validate!Finishes, Validate!guest, Validate!kernel, Validate!evidence
  <2> QED
    BY <2>1, <2>2, <2>3 DEF Validate!Snapshot, Validate!MayFail, Validate!Ends, Validate!Finishes, Validate!guest, Validate!kernel, Validate!evidence
<1>2. CampaignTypeOK'
  BY <1>1 DEF CampaignInv, CampaignTypeOK, BeforeLog, Logging, Deciding, Finishing
<1>3. LogInv'
  BY <1>1 DEF CampaignInv, LogInv, BeforeLog, Logging, Deciding
<1>4. ProgressInv'
  BY <1>1 DEF CampaignInv, CampaignTypeOK, ProgressInv, BeforeLog, Logging, Deciding, Finishing
<1>5. DecisionInv'
  BY <1>1 DEF CampaignInv, ProgressInv, DecisionInv, Clean, BeforeLog, Logging, Deciding, Finishing
<1>n. pc \notin Finishing
  BY <1>1 DEF Finishing
<1>6. ManifestInv'
  BY <1>1, <1>n, RunningKept, Zenon
<1> QED
  BY <1>2, <1>3, <1>4, <1>5, <1>6, Zenon DEF CampaignInv

\* A step of the build.
LEMMA CampaignBuild == CampaignInv /\ Validate!Build => CampaignInv'
<1> SUFFICES ASSUME CampaignInv, Validate!Build PROVE CampaignInv'
  OBVIOUS
<1>1. /\ pc = "build" /\ pc' \in {"finish", "finish in try", "build"}
      /\ pc' # "build" => verdict' = "failed"
      /\ pc' = "build" => verdict' = verdict
      /\ UNCHANGED <<integration, foreign, loaded, binary, klog, lines, bugs, straggler, before, after, saved, ok, tried>>
      /\ Readable(manifest)' => manifest' \in {manifest, Validate!RunningManifest}
  <2>1. PICK s \in Validate!SaveJson(manifest, Validate!RunningManifest), passed \in BOOLEAN :
          /\ manifest' = s.content
          /\ CASE ~s.ok ->
                    pc' = "finish" /\ Validate!Finishes("failed") /\ UNCHANGED built
               [] s.ok /\ ~passed ->
                    pc' = "finish in try" /\ Validate!Finishes("failed") /\ UNCHANGED built
               [] OTHER -> built' = built + 1 /\ UNCHANGED <<pc, verdict>>
    BY Zenon DEF Validate!Build
  <2>2. Readable(manifest)' => manifest' \in {manifest, Validate!RunningManifest}
    BY <2>1, SavedContent DEF Validate!SaveJson, SaveJson, Readable
  <2>3. UNCHANGED <<integration, foreign, loaded, binary, klog, lines, bugs, straggler, before, after, saved, ok, tried>>
    BY Zenon DEF Validate!Build, Validate!MayFail, Validate!Ends, Validate!Finishes, Validate!guest, Validate!kernel, Validate!evidence
  <2> QED
    BY <2>1, <2>2, <2>3 DEF Validate!Build, Validate!MayFail, Validate!Ends, Validate!Finishes, Validate!guest, Validate!kernel, Validate!evidence
<1>2. CampaignTypeOK'
  BY <1>1 DEF CampaignInv, CampaignTypeOK, BeforeLog, Logging, Deciding, Finishing
<1>3. LogInv'
  BY <1>1 DEF CampaignInv, LogInv, BeforeLog, Logging, Deciding
<1>4. ProgressInv'
  BY <1>1 DEF CampaignInv, CampaignTypeOK, ProgressInv, BeforeLog, Logging, Deciding, Finishing
<1>5. DecisionInv'
  BY <1>1 DEF CampaignInv, ProgressInv, DecisionInv, Clean, BeforeLog, Logging, Deciding, Finishing
<1>n. pc \notin Finishing
  BY <1>1 DEF Finishing
<1>6. ManifestInv'
  BY <1>1, <1>n, RunningKept, Zenon
<1> QED
  BY <1>2, <1>3, <1>4, <1>5, <1>6, Zenon DEF CampaignInv

\* The module is copied and hashed.
LEMMA CampaignIdentify == CampaignInv /\ Validate!Identify => CampaignInv'
<1> SUFFICES ASSUME CampaignInv, Validate!Identify PROVE CampaignInv'
  OBVIOUS
<1>1. /\ pc = "build" /\ pc' \in {"finish in try", "suite"}
      /\ pc' = "suite" => verdict' = verdict /\ integration = TRUE
      /\ pc' = "finish in try" => verdict' = "failed" \/ (verdict' = "passed" /\ integration # TRUE)
      /\ UNCHANGED <<integration, foreign, loaded, binary, klog, lines, bugs, straggler, before, after, ok, tried>>
      /\ Readable(manifest)' => manifest' \in {manifest, Validate!RunningManifest}
  <2>1. /\ pc = "build" /\ pc' \in {"finish in try", "suite"}
        /\ pc' = "suite" => verdict' = verdict /\ integration = TRUE
        /\ pc' = "finish in try" => verdict' = "failed" \/ (verdict' = "passed" /\ integration # TRUE)
        /\ UNCHANGED <<integration, foreign, loaded, binary, klog, lines, bugs, straggler, before, after, ok, tried>>
        /\ manifest' = manifest
    BY Zenon DEF Validate!Identify, Validate!MayFail, Validate!Ends, Validate!Finishes, Validate!guest, Validate!kernel, Validate!evidence
  <2> QED
    BY <2>1 DEF Readable
<1>2. CampaignTypeOK'
  BY <1>1 DEF CampaignInv, CampaignTypeOK, BeforeLog, Logging, Deciding, Finishing
<1>3. LogInv'
  BY <1>1 DEF CampaignInv, LogInv, BeforeLog, Logging, Deciding
<1>4. ProgressInv'
  BY <1>1 DEF CampaignInv, CampaignTypeOK, ProgressInv, BeforeLog, Logging, Deciding, Finishing
<1>5. DecisionInv'
  BY <1>1 DEF CampaignInv, ProgressInv, DecisionInv, Clean, BeforeLog, Logging, Deciding, Finishing
<1>n. pc \notin Finishing
  BY <1>1 DEF Finishing
<1>6. ManifestInv'
  BY <1>1, <1>n, RunningKept, Zenon
<1> QED
  BY <1>2, <1>3, <1>4, <1>5, <1>6, Zenon DEF CampaignInv

\* The suite, which may leave the module loaded and something running.
LEMMA CampaignSuite == CampaignInv /\ Validate!Suite => CampaignInv'
<1> SUFFICES ASSUME CampaignInv, Validate!Suite PROVE CampaignInv'
  OBVIOUS
<1>1. /\ pc = "suite" /\ pc' = "cleanup" /\ tried' = tried \cup {"suite"}
      /\ loaded' \in BOOLEAN /\ straggler' \in BOOLEAN
      /\ \/ ok' = ok \cup {"suite"} /\ straggler' = FALSE
         \/ ok' = ok
      /\ UNCHANGED <<integration, foreign, klog, lines, bugs, verdict, before, after, saved>>
      /\ Readable(manifest)' => manifest' \in {manifest, Validate!RunningManifest}
  <2>1. PICK s \in Validate!SaveJson(manifest, Validate!RunningManifest) :
          /\ manifest' = s.content
          /\ IF s.ok THEN UNCHANGED <<exc, errors>> ELSE Validate!MayFail /\ exc' = "error"
    BY Zenon DEF Validate!Suite
  <2>2. Readable(manifest)' => manifest' \in {manifest, Validate!RunningManifest}
    BY <2>1, SavedContent DEF Validate!SaveJson, SaveJson, Readable
  <2>3. UNCHANGED <<integration, foreign, klog, lines, bugs, verdict, before, after, saved>>
    BY Zenon DEF Validate!Suite, Validate!MayFail, Validate!Ends, Validate!Finishes, Validate!guest, Validate!kernel, Validate!evidence
  <2> QED
    BY <2>1, <2>2, <2>3 DEF Validate!Suite, Validate!MayFail, Validate!Ends, Validate!Finishes, Validate!guest, Validate!kernel, Validate!evidence
<1>2. CampaignTypeOK'
  BY <1>1 DEF CampaignInv, CampaignTypeOK, BeforeLog, Logging, Deciding, Finishing
<1>3. LogInv'
  BY <1>1 DEF CampaignInv, LogInv, BeforeLog, Logging, Deciding
<1>4. ProgressInv'
  BY <1>1 DEF CampaignInv, CampaignTypeOK, ProgressInv, BeforeLog, Logging, Deciding, Finishing
<1>5. DecisionInv'
  BY <1>1 DEF CampaignInv, ProgressInv, DecisionInv, Clean, BeforeLog, Logging, Deciding, Finishing
<1>n. pc \notin Finishing
  BY <1>1 DEF Finishing
<1>6. ManifestInv'
  BY <1>1, <1>n, RunningKept, Zenon
<1> QED
  BY <1>2, <1>3, <1>4, <1>5, <1>6, Zenon DEF CampaignInv

\* At the end the manifest keeps what it said, or says what finish() was called with.
LEMMA FinalKept ==
  ASSUME CampaignInv, Clean => Clean', UNCHANGED <<integration, tried>>,
         Readable(manifest)' =>
           \/ manifest' = manifest
           \/ pc \in Finishing /\ manifest' = Validate!Manifest(verdict, "validated" \in ok),
         verdict = "blocked" /\ pc \in Finishing => pc' = "ended",
         pc = "ended" => pc' = "ended"
  PROVE  ManifestInv'
<1> DEFINE said == Validate!Manifest(verdict, "validated" \in ok)
<1>1. /\ said.status = verdict /\ said.validated = ("validated" \in ok)
      /\ said.validated \in BOOLEAN
  BY DEF Validate!Manifest
<1> SUFFICES ASSUME Readable(manifest)'
    PROVE  /\ integration = TRUE /\ manifest'.status = "passed" => Clean'
           /\ integration = TRUE /\ manifest'.validated = TRUE => Clean'
           /\ manifest'.validated \in BOOLEAN
           /\ manifest'.status = "blocked" => tried = {} /\ pc' = "ended"
  BY DEF ManifestInv
<1>2. CASE manifest' = manifest
  <2>1. Readable(manifest)
    BY <1>2 DEF Readable
  <2>2. ManifestInv
    BY DEF CampaignInv
  <2> QED
    BY <1>2, <2>1, <2>2, Zenon DEF ManifestInv
<1>3. CASE pc \in Finishing /\ manifest' = said
  <2>1. DecisionInv
    BY DEF CampaignInv
  <2>2. said.validated = TRUE => "validated" \in ok
    BY <1>1, Zenon
  <2> HIDE DEF said
  <2> QED
    BY <1>1, <1>3, <2>1, <2>2, Zenon DEF DecisionInv
<1> QED
  BY <1>2, <1>3

\* Ctrl-C while the suite runs: it goes on.
LEMMA CampaignInterruptSuite == CampaignInv /\ Validate!InterruptSuite => CampaignInv'
<1> SUFFICES ASSUME CampaignInv, Validate!InterruptSuite PROVE CampaignInv'
  OBVIOUS
<1>1. /\ pc = "suite" /\ pc' = "cleanup" /\ tried' = tried \cup {"suite"}
      /\ loaded' \in BOOLEAN /\ straggler' = TRUE
      /\ UNCHANGED <<integration, foreign, binary, klog, lines, bugs, verdict, before, after, saved, ok>>
      /\ Readable(manifest)' => manifest' \in {manifest, Validate!RunningManifest}
  <2>1. /\ pc = "suite" /\ pc' = "cleanup" /\ tried' = tried \cup {"suite"}
        /\ loaded' \in BOOLEAN /\ straggler' = TRUE
        /\ UNCHANGED <<integration, foreign, binary, klog, lines, bugs, verdict, before, after, saved, ok>>
        /\ manifest' = manifest
    BY Zenon DEF Validate!InterruptSuite, Validate!MayFail, Validate!Ends, Validate!Finishes, Validate!guest, Validate!kernel, Validate!evidence
  <2> QED
    BY <2>1 DEF Readable
<1>2. CampaignTypeOK'
  BY <1>1 DEF CampaignInv, CampaignTypeOK, BeforeLog, Logging, Deciding, Finishing
<1>3. LogInv'
  BY <1>1 DEF CampaignInv, LogInv, BeforeLog, Logging, Deciding
<1>4. ProgressInv'
  BY <1>1 DEF CampaignInv, CampaignTypeOK, ProgressInv, BeforeLog, Logging, Deciding, Finishing
<1>5. DecisionInv'
  BY <1>1 DEF CampaignInv, ProgressInv, DecisionInv, Clean, BeforeLog, Logging, Deciding, Finishing
<1>n. pc \notin Finishing
  BY <1>1 DEF Finishing
<1>6. ManifestInv'
  BY <1>1, <1>n, RunningKept, Zenon
<1> QED
  BY <1>2, <1>3, <1>4, <1>5, <1>6, Zenon DEF CampaignInv

\* The module is unloaded, if it can be.
LEMMA CampaignCleanup == CampaignInv /\ pc = "cleanup" /\ Validate!Cleanup("dmesg-after") => CampaignInv'
<1> SUFFICES ASSUME CampaignInv, pc = "cleanup" /\ Validate!Cleanup("dmesg-after") PROVE CampaignInv'
  OBVIOUS
<1>1. /\ pc = "cleanup" /\ pc' \in {"dmesg-after", "raised"} /\ tried' = tried \cup {"cleanup"}
      /\ loaded' \in {loaded, FALSE} /\ ok' \in {ok, ok \cup {"cleanup"}}
      /\ UNCHANGED <<integration, foreign, binary, klog, lines, bugs, straggler, verdict, before, after, saved>>
      /\ Readable(manifest)' => manifest' \in {manifest, Validate!RunningManifest}
  <2>1. PICK s \in Validate!SaveJson(manifest, Validate!RunningManifest) :
          /\ manifest' = s.content
          /\ IF s.ok THEN pc' = "dmesg-after" /\ UNCHANGED <<exc, errors>>
                     ELSE Validate!MayFail /\ exc' = "error" /\ pc' = "raised"
    BY Zenon DEF Validate!Cleanup
  <2>2. Readable(manifest)' => manifest' \in {manifest, Validate!RunningManifest}
    BY <2>1, SavedContent DEF Validate!SaveJson, SaveJson, Readable
  <2>3. UNCHANGED <<integration, foreign, binary, klog, lines, bugs, straggler, verdict, before, after, saved>>
    BY Zenon DEF Validate!Cleanup, Validate!MayFail, Validate!Ends, Validate!Finishes, Validate!guest, Validate!kernel, Validate!evidence
  <2> QED
    BY <2>1, <2>2, <2>3 DEF Validate!Cleanup, Validate!MayFail, Validate!Ends, Validate!Finishes, Validate!guest, Validate!kernel, Validate!evidence
<1>2. CampaignTypeOK'
  BY <1>1 DEF CampaignInv, CampaignTypeOK, BeforeLog, Logging, Deciding, Finishing
<1>3. LogInv'
  BY <1>1 DEF CampaignInv, LogInv, BeforeLog, Logging, Deciding
<1>4. ProgressInv'
  BY <1>1 DEF CampaignInv, CampaignTypeOK, ProgressInv, BeforeLog, Logging, Deciding, Finishing
<1>5. DecisionInv'
  BY <1>1 DEF CampaignInv, ProgressInv, DecisionInv, Clean, BeforeLog, Logging, Deciding, Finishing
<1>n. pc \notin Finishing
  BY <1>1 DEF Finishing
<1>6. ManifestInv'
  BY <1>1, <1>n, RunningKept, Zenon
<1> QED
  BY <1>2, <1>3, <1>4, <1>5, <1>6, Zenon DEF CampaignInv

\* The second reading of the log.
LEMMA CampaignDmesgAfter == CampaignInv /\ pc = "dmesg-after" /\ Validate!DmesgAfter(Validate!AfterFinally) => CampaignInv'
<1> SUFFICES ASSUME CampaignInv, pc = "dmesg-after" /\ Validate!DmesgAfter(Validate!AfterFinally) PROVE CampaignInv'
  OBVIOUS
<1>1. /\ pc = "dmesg-after" /\ pc' \in {"compare", "raised"}
      /\ \/ after' = klog /\ ok' = ok \cup {"dmesg"}
         \/ after' = after /\ ok' = ok
      /\ UNCHANGED <<integration, foreign, loaded, binary, klog, lines, bugs, straggler, verdict, before, saved, tried>>
      /\ Readable(manifest)' => manifest' \in {manifest, Validate!RunningManifest}
  <2>1. PICK s \in Validate!SaveJson(manifest, Validate!RunningManifest) :
          /\ manifest' = s.content
          /\ IF s.ok THEN pc' = Validate!AfterFinally /\ UNCHANGED <<exc, errors>>
                     ELSE Validate!MayFail /\ exc' = "error" /\ pc' = "raised"
    BY Zenon DEF Validate!DmesgAfter
  <2>2. Readable(manifest)' => manifest' \in {manifest, Validate!RunningManifest}
    BY <2>1, SavedContent DEF Validate!SaveJson, SaveJson, Readable
  <2>3. UNCHANGED <<integration, foreign, loaded, binary, klog, lines, bugs, straggler, verdict, before, saved, tried>>
    BY Zenon DEF Validate!DmesgAfter, Validate!MayFail, Validate!Ends, Validate!Finishes, Validate!guest, Validate!kernel, Validate!evidence
  <2> QED
    BY <2>1, <2>2, <2>3 DEF Validate!DmesgAfter, Validate!MayFail, Validate!Ends, Validate!Finishes, Validate!guest, Validate!kernel, Validate!evidence, Validate!AfterFinally
<1>2. CampaignTypeOK'
  BY <1>1 DEF CampaignInv, CampaignTypeOK, BeforeLog, Logging, Deciding, Finishing
<1>3. LogInv'
  BY <1>1 DEF CampaignInv, LogInv, BeforeLog, Logging, Deciding
<1>4. ProgressInv'
  BY <1>1 DEF CampaignInv, CampaignTypeOK, ProgressInv, BeforeLog, Logging, Deciding, Finishing
<1>5. DecisionInv'
  BY <1>1 DEF CampaignInv, ProgressInv, DecisionInv, Clean, BeforeLog, Logging, Deciding, Finishing
<1>n. pc \notin Finishing
  BY <1>1 DEF Finishing
<1>6. ManifestInv'
  BY <1>1, <1>n, RunningKept, Zenon
<1> QED
  BY <1>2, <1>3, <1>4, <1>5, <1>6, Zenon DEF CampaignInv

\* An exception left the finally clause.
LEMMA CampaignRaised == CampaignInv /\ Validate!Raised => CampaignInv'
<1> SUFFICES ASSUME CampaignInv, Validate!Raised PROVE CampaignInv'
  OBVIOUS
<1>1. /\ pc = "raised" /\ pc' \in {"finish", "ended"}
      /\ verdict' \in {verdict, "failed"}
      /\ UNCHANGED <<integration, foreign, loaded, binary, klog, lines, bugs, straggler, before, after, saved, ok, tried>>
      /\ Readable(manifest)' => manifest' \in {manifest, Validate!RunningManifest}
  <2>1. /\ pc = "raised" /\ pc' \in {"finish", "ended"}
        /\ verdict' \in {verdict, "failed"}
        /\ UNCHANGED <<integration, foreign, loaded, binary, klog, lines, bugs, straggler, before, after, saved, ok, tried>>
        /\ manifest' = manifest
    BY Zenon DEF Validate!Raised, Validate!MayFail, Validate!Ends, Validate!Finishes, Validate!guest, Validate!kernel, Validate!evidence
  <2> QED
    BY <2>1 DEF Readable
<1>2. CampaignTypeOK'
  BY <1>1 DEF CampaignInv, CampaignTypeOK, BeforeLog, Logging, Deciding, Finishing
<1>3. LogInv'
  BY <1>1 DEF CampaignInv, LogInv, BeforeLog, Logging, Deciding
<1>4. ProgressInv'
  BY <1>1 DEF CampaignInv, CampaignTypeOK, ProgressInv, BeforeLog, Logging, Deciding, Finishing
<1>5. DecisionInv'
  BY <1>1 DEF CampaignInv, ProgressInv, DecisionInv, Clean, BeforeLog, Logging, Deciding, Finishing
<1>n. pc \notin Finishing
  BY <1>1 DEF Finishing
<1>6. ManifestInv'
  BY <1>1, <1>n, RunningKept, Zenon
<1> QED
  BY <1>2, <1>3, <1>4, <1>5, <1>6, Zenon DEF CampaignInv

\* What the last step of an integration asks for before it says passed.
Validates ==
  /\ ~loaded /\ "dmesg" \in ok /\ binary = saved /\ "suite" \in ok
  /\ Validate!NewKernelMessages(before, after) = "passed"

\* The comparison finds an error whenever there was one: either it is behind
\* the first reading, or the line that reading began with has rolled out.
LEMMA NoErrorIsMissed ==
  ASSUME CampaignInv, pc = "compare", Validates
  PROVE  bugs = FALSE
<1>1. /\ after = klog /\ integration = TRUE /\ bugs \in BOOLEAN
      /\ klog \in Seq(Entry) /\ before \in Seq(Entry)
  BY DEF CampaignInv, CampaignTypeOK, ProgressInv, Validates
<1>2. /\ 1 <= Len(before) /\ before[1].n = 1
      /\ 1 <= Len(klog) /\ Len(before) <= Len(klog)
      /\ bugs = TRUE /\ klog[1].n = 1 =>
           \E i \in Len(before) + 1..Len(klog) : klog[i].error = TRUE
  BY <1>1 DEF CampaignInv, LogInv, Deciding
<1>3. /\ SubSeq(klog, 1, Len(before)) = before
      /\ \A i \in Len(before) + 1..Len(klog) : ~klog[i].error
  <2>1. Validate!NewKernelMessages(before, klog) = "passed"
    BY <1>1 DEF Validates
  <2> QED
    BY <2>1, Zenon DEF Validate!NewKernelMessages
<1>4. klog[1] = before[1]
  <2>1. SubSeq(klog, 1, Len(before))[1] = klog[1]
    BY <1>1, <1>2
  <2> QED
    BY <1>3, <2>1
<1>5. bugs # TRUE
  BY <1>2, <1>3, <1>4
<1> QED
  BY <1>1, <1>5

\* The decision: everything passed and the log holds nothing new that is wrong.
LEMMA CampaignCompare == CampaignInv /\ Validate!Compare => CampaignInv'
<1> SUFFICES ASSUME CampaignInv, Validate!Compare PROVE CampaignInv'
  OBVIOUS
<1>1. /\ pc = "compare" /\ pc' = "finish in try"
      /\ \/ verdict' = "failed" /\ ok' = ok
         \/ verdict' = "passed" /\ ok' = ok \cup {"validated"} /\ Validates
      /\ UNCHANGED <<integration, foreign, loaded, binary, klog, lines, bugs, straggler, before, after, saved, tried>>
      /\ Readable(manifest)' => manifest' \in {manifest, Validate!RunningManifest}
  <2>1. /\ pc = "compare" /\ pc' = "finish in try"
        /\ \/ verdict' = "failed" /\ ok' = ok
           \/ verdict' = "passed" /\ ok' = ok \cup {"validated"} /\ Validates
        /\ UNCHANGED <<integration, foreign, loaded, binary, klog, lines, bugs, straggler, before, after, saved, tried>>
        /\ manifest' = manifest
    BY Zenon DEF Validate!Compare, Validates, Validate!CleanedUp, Validate!MayFail, Validate!Ends, Validate!Finishes, Validate!guest, Validate!kernel, Validate!evidence
  <2> QED
    BY <2>1 DEF Readable
<1>2. CampaignTypeOK'
  BY <1>1 DEF CampaignInv, CampaignTypeOK, BeforeLog, Logging, Deciding, Finishing
<1>3. LogInv'
  BY <1>1 DEF CampaignInv, LogInv, BeforeLog, Logging, Deciding
<1>4. ProgressInv'
  BY <1>1 DEF CampaignInv, CampaignTypeOK, ProgressInv, BeforeLog, Logging, Deciding, Finishing
<1>5. DecisionInv'
  <2>1. ok' # ok => Clean'
    <3>1. loaded \in BOOLEAN
      BY DEF CampaignInv, CampaignTypeOK
    <3> QED
      BY <1>1, <3>1, NoErrorIsMissed DEF Validates, CampaignInv, ProgressInv, Clean, Finishing
  <2>2. integration = TRUE /\ "validated" \notin ok
    BY <1>1 DEF CampaignInv, ProgressInv, DecisionInv, Clean, Finishing
  <2>3. ok' = ok => verdict' = "failed"
    BY <1>1, <2>2
  <2> QED
    BY <1>1, <2>1, <2>2, <2>3 DEF CampaignInv, DecisionInv, BeforeLog, Logging, Deciding
<1>n. pc \notin Finishing
  BY <1>1 DEF Finishing
<1>6. ManifestInv'
  BY <1>1, <1>n, RunningKept, Zenon
<1> QED
  BY <1>2, <1>3, <1>4, <1>5, <1>6, Zenon DEF CampaignInv

\* finish() outside the try.
LEMMA CampaignFinish == CampaignInv /\ Validate!Finish => CampaignInv'
<1> SUFFICES ASSUME CampaignInv, Validate!Finish PROVE CampaignInv'
  OBVIOUS
<1>1. /\ pc = "finish" /\ pc' = "ended"
      /\ verdict' = verdict
      /\ UNCHANGED <<integration, foreign, loaded, binary, klog, lines, bugs, straggler, before, after, saved, ok, tried>>
      /\ Readable(manifest)' => manifest' \in {manifest, Validate!Manifest(verdict, "validated" \in ok)}
  <2> DEFINE said == Validate!Manifest(verdict, "validated" \in ok)
  <2>1. PICK s \in Validate!SaveJson(manifest, said) :
          /\ manifest' = s.content
          /\ IF s.ok THEN Validate!Ends(Validate!ExitCode(verdict)) /\ UNCHANGED errors
                     ELSE Validate!MayFail /\ Validate!Ends(Validate!Traceback)
    BY Zenon DEF Validate!Finish
  <2>2. Readable(manifest)' => manifest' \in {manifest, said}
    BY <2>1, SavedContent DEF Validate!SaveJson, SaveJson, Readable
  <2>3. UNCHANGED <<integration, foreign, loaded, binary, klog, lines, bugs, straggler, before, after, saved, ok, tried>>
    BY Zenon DEF Validate!Finish, Validate!MayFail, Validate!Ends, Validate!Finishes, Validate!guest, Validate!kernel, Validate!evidence
  <2> HIDE DEF said
  <2>4. /\ pc = "finish" /\ pc' = "ended"
        /\ verdict' = verdict
    BY <2>1, <2>3 DEF Validate!Finish, Validate!MayFail, Validate!Ends, Validate!Finishes, Validate!guest, Validate!kernel, Validate!evidence
  <2> QED
    BY <2>2, <2>3, <2>4, Zenon DEF said
<1>2. CampaignTypeOK'
  BY <1>1 DEF CampaignInv, CampaignTypeOK, BeforeLog, Logging, Deciding, Finishing
<1>3. LogInv'
  BY <1>1 DEF CampaignInv, LogInv, BeforeLog, Logging, Deciding
<1>4. ProgressInv'
  BY <1>1 DEF CampaignInv, CampaignTypeOK, ProgressInv, BeforeLog, Logging, Deciding, Finishing
<1>5. DecisionInv'
  BY <1>1 DEF CampaignInv, ProgressInv, DecisionInv, Clean, BeforeLog, Logging, Deciding, Finishing
<1>6. ManifestInv'
  <2>1. Clean => Clean'
    BY <1>1 DEF Clean, Finishing
  <2>2. pc \in Finishing /\ (verdict = "blocked" => pc' = "ended") /\ pc # "ended"
    BY <1>1 DEF CampaignInv, DecisionInv, Finishing
  <2> QED
    BY <1>1, <2>1, <2>2, FinalKept, Zenon
<1> QED
  BY <1>2, <1>3, <1>4, <1>5, <1>6, Zenon DEF CampaignInv

\* finish() inside the try.
LEMMA CampaignFinishInTry == CampaignInv /\ Validate!FinishInTry => CampaignInv'
<1> SUFFICES ASSUME CampaignInv, Validate!FinishInTry PROVE CampaignInv'
  OBVIOUS
<1>1. /\ pc = "finish in try" /\ pc' \in {"finish", "ended"}
      /\ pc' = "finish" => verdict' = "failed"
      /\ verdict' \in {verdict, "failed"}
      /\ UNCHANGED <<integration, foreign, loaded, binary, klog, lines, bugs, straggler, before, after, saved, ok, tried>>
      /\ Readable(manifest)' => manifest' \in {manifest, Validate!Manifest(verdict, "validated" \in ok)}
  <2> DEFINE said == Validate!Manifest(verdict, "validated" \in ok)
  <2>1. PICK s \in Validate!SaveJson(manifest, said) :
          /\ manifest' = s.content
          /\ IF s.ok THEN Validate!Ends(Validate!ExitCode(verdict)) /\ UNCHANGED <<errors, verdict>>
                     ELSE Validate!MayFail /\ pc' = "finish" /\ Validate!Finishes("failed") /\ UNCHANGED code
    BY Zenon DEF Validate!FinishInTry
  <2>2. Readable(manifest)' => manifest' \in {manifest, said}
    BY <2>1, SavedContent DEF Validate!SaveJson, SaveJson, Readable
  <2>3. UNCHANGED <<integration, foreign, loaded, binary, klog, lines, bugs, straggler, before, after, saved, ok, tried>>
    BY Zenon DEF Validate!FinishInTry, Validate!MayFail, Validate!Ends, Validate!Finishes, Validate!guest, Validate!kernel, Validate!evidence
  <2> HIDE DEF said
  <2>4. /\ pc = "finish in try" /\ pc' \in {"finish", "ended"}
        /\ pc' = "finish" => verdict' = "failed"
        /\ verdict' \in {verdict, "failed"}
    BY <2>1, <2>3 DEF Validate!FinishInTry, Validate!MayFail, Validate!Ends, Validate!Finishes, Validate!guest, Validate!kernel, Validate!evidence
  <2> QED
    BY <2>2, <2>3, <2>4, Zenon DEF said
<1>2. CampaignTypeOK'
  BY <1>1 DEF CampaignInv, CampaignTypeOK, BeforeLog, Logging, Deciding, Finishing
<1>3. LogInv'
  BY <1>1 DEF CampaignInv, LogInv, BeforeLog, Logging, Deciding
<1>4. ProgressInv'
  BY <1>1 DEF CampaignInv, CampaignTypeOK, ProgressInv, BeforeLog, Logging, Deciding, Finishing
<1>5. DecisionInv'
  BY <1>1 DEF CampaignInv, ProgressInv, DecisionInv, Clean, BeforeLog, Logging, Deciding, Finishing
<1>6. ManifestInv'
  <2>1. Clean => Clean'
    BY <1>1 DEF Clean, Finishing
  <2>2. pc \in Finishing /\ (verdict = "blocked" => pc' = "ended") /\ pc # "ended"
    BY <1>1 DEF CampaignInv, DecisionInv, Finishing
  <2> QED
    BY <1>1, <2>1, <2>2, FinalKept, Zenon
<1> QED
  BY <1>2, <1>3, <1>4, <1>5, <1>6, Zenon DEF CampaignInv

\* A line is logged.  It comes behind the others; the oldest one may roll out.
LEMMA CampaignLog ==
  ASSUME CampaignInv, NEW error \in BOOLEAN, Validate!Log(error)
  PROVE  CampaignInv'
<1> DEFINE entry == Validate!Line(lines + 1, error)
<1>1. /\ pc \in {"snapshot", "suite", "cleanup", "dmesg-after"} /\ pc' = pc
      /\ integration = TRUE /\ lines' = lines + 1
      /\ \/ Len(klog) < LogSize /\ klog' = Append(klog, entry)
         \/ ~(Len(klog) < LogSize) /\ klog' = Tail(Append(klog, entry))
      /\ bugs' = (bugs \/ error)
      /\ UNCHANGED <<integration, foreign, loaded, binary, straggler, verdict, before, after, saved, ok, tried>>
      /\ manifest' = manifest /\ code' = code
  <2>1. integration = TRUE
    <3>1. integration \in BOOLEAN /\ integration
      BY DEF Validate!Log, CampaignInv, CampaignTypeOK
    <3> QED
      BY <3>1
  <2> QED
    BY <2>1, Zenon DEF Validate!Log, Validate!guest, Validate!evidence
<1>2. /\ lines \in Nat /\ klog \in Seq(Entry) /\ before \in Seq(Entry)
      /\ 1 <= Len(klog) /\ Len(klog) <= lines /\ Len(klog) <= LogSize
      /\ Len(before) <= Len(klog)
      /\ bugs \in BOOLEAN
      /\ Len(klog) \in Nat /\ Len(before) \in Nat /\ LogSize \in Nat
  BY CampaignAssumption DEF CampaignInv, CampaignTypeOK, LogInv
<1>one. Len(klog) = 1 \/ Len(klog) > 1
  BY <1>2
<1>3. entry \in Entry /\ entry.n = lines + 1 /\ entry.error = error
  BY <1>2 DEF Entry, Validate!Line
<1>4. /\ bugs' \in BOOLEAN
      /\ bugs' = TRUE => bugs = TRUE \/ error = TRUE
  BY <1>1, <1>2, Zenon
<1> HIDE DEF entry
<1>5. /\ klog' \in Seq(Entry)
      /\ \/ /\ Len(klog') = Len(klog) + 1 /\ Len(klog) < LogSize
            /\ \A i \in 1..Len(klog) : klog'[i] = klog[i]
            /\ klog'[Len(klog) + 1] = entry
         \/ /\ Len(klog') = Len(klog)
            /\ \A i \in 1..Len(klog) - 1 : klog'[i] = klog[i + 1]
            /\ klog'[Len(klog)] = entry
  <2>1. /\ Append(klog, entry) \in Seq(Entry) /\ Tail(Append(klog, entry)) \in Seq(Entry)
        /\ Len(Append(klog, entry)) = Len(klog) + 1
        /\ Len(Tail(Append(klog, entry))) = Len(klog)
        /\ \A i \in 1..Len(klog) : Append(klog, entry)[i] = klog[i]
        /\ Append(klog, entry)[Len(klog) + 1] = entry
        /\ \A i \in 1..Len(klog) - 1 : Tail(Append(klog, entry))[i] = klog[i + 1]
        /\ Tail(Append(klog, entry))[Len(klog)] = entry
    BY <1>2, <1>3, LogGrows, Zenon
  <2> QED
    BY <1>1, <2>1, Zenon
<1>6. CampaignTypeOK'
  BY <1>1, <1>2, <1>4, <1>5 DEF CampaignInv, CampaignTypeOK
<1>7. LogInv'
  <2>1. /\ \A i \in 1..Len(klog) : klog[i].n >= i
        /\ bugs = TRUE /\ klog[1].n = 1 =>
             \E i \in Len(before) + 1..Len(klog) : klog[i].error = TRUE
        /\ 1 <= Len(before) /\ before[1].n = 1
    BY <1>1 DEF CampaignInv, LogInv, Logging, Deciding
  <2>2. 1 <= Len(klog') /\ Len(klog') <= lines' /\ Len(klog') <= LogSize /\ Len(before') <= Len(klog')
    BY <1>1, <1>2, <1>5
  <2>3. \A i \in 1..Len(klog') : klog'[i].n >= i
    <3> SUFFICES ASSUME NEW i \in 1..Len(klog') PROVE klog'[i].n >= i
      OBVIOUS
    <3>1. CASE klog'[i] = entry
      BY <1>1, <1>2, <1>3, <2>2, <3>1
    <3>2. CASE i \in 1..Len(klog) /\ klog'[i] = klog[i]
      BY <2>1, <3>2
    <3>3. CASE i \in 1..Len(klog) - 1 /\ klog'[i] = klog[i + 1]
      <4>1. i + 1 \in 1..Len(klog) /\ klog[i + 1] \in Entry
        BY <1>2, <3>3
      <4> QED
        BY <2>1, <3>3, <4>1 DEF Entry
    <3> QED
      BY <1>2, <1>5, <3>1, <3>2, <3>3
  <2>4. bugs' = TRUE /\ klog'[1].n = 1 =>
          \E i \in Len(before) + 1..Len(klog') : klog'[i].error = TRUE
    <3> SUFFICES ASSUME bugs' = TRUE, klog'[1].n = 1
        PROVE \E i \in Len(before) + 1..Len(klog') : klog'[i].error = TRUE
      OBVIOUS
    <3>1. /\ Len(klog') = Len(klog) + 1
          /\ \A i \in 1..Len(klog) : klog'[i] = klog[i]
          /\ klog'[Len(klog) + 1] = entry
      <4>1. CASE /\ Len(klog') = Len(klog)
                 /\ \A i \in 1..Len(klog) - 1 : klog'[i] = klog[i + 1]
                 /\ klog'[Len(klog)] = entry
        <5>1. CASE Len(klog) = 1
          BY <1>2, <1>3, <4>1, <5>1
        <5>2. CASE Len(klog) > 1
          <6>1. klog'[1] = klog[2] /\ 2 \in 1..Len(klog) /\ klog[2] \in Entry
            BY <1>2, <4>1, <5>2
          <6> QED
            BY <2>1, <6>1 DEF Entry
        <5> QED
          BY <1>one, <5>1, <5>2, Zenon
      <4> QED
        BY <1>5, <4>1, Zenon
    <3>2. CASE error = TRUE
      <4>1. Len(klog) + 1 \in Len(before) + 1..Len(klog')
        BY <1>2, <3>1
      <4> QED
        BY <1>3, <3>1, <3>2, <4>1
    <3>3. CASE bugs = TRUE
      <4>1. klog[1].n = 1
        BY <1>2, <3>1
      <4>2. PICK i \in Len(before) + 1..Len(klog) : klog[i].error = TRUE
        BY <2>1, <3>3, <4>1
      <4>3. i \in Len(before) + 1..Len(klog') /\ klog'[i] = klog[i]
        BY <1>2, <3>1
      <4> QED
        BY <4>2, <4>3
    <3> QED
      BY <1>4, <3>2, <3>3
  <2>5. pc' \notin BeforeLog
    BY <1>1 DEF BeforeLog
  <2> QED
    BY <1>1, <2>1, <2>2, <2>3, <2>4, <2>5 DEF LogInv
<1>8. ProgressInv'
  BY <1>1 DEF CampaignInv, ProgressInv, Deciding, Finishing, BeforeLog, Logging
<1>9. DecisionInv'
  BY <1>1 DEF CampaignInv, DecisionInv, Clean, Finishing, BeforeLog, Logging, Deciding
<1>10. ManifestInv'
  <2>1. pc \notin Finishing
    BY <1>1 DEF Finishing
  <2>2. Readable(manifest)' => manifest' \in {manifest, Validate!RunningManifest}
    BY <1>1
  <2> QED
    BY <1>1, <2>1, <2>2, RunningKept, Zenon
<1> QED
  BY <1>6, <1>7, <1>8, <1>9, <1>10, Zenon DEF CampaignInv

\* Whatever the suite left behind loads or unloads the module.
LEMMA CampaignStraggle == CampaignInv /\ Validate!Straggle => CampaignInv'
<1> SUFFICES ASSUME CampaignInv, Validate!Straggle PROVE CampaignInv'
  OBVIOUS
<1>1. /\ straggler /\ pc' = pc /\ code' = code
      /\ loaded' = ~loaded /\ straggler' \in BOOLEAN
      /\ manifest' = manifest
      /\ UNCHANGED <<integration, foreign, binary, klog, lines, bugs, verdict, before, after, saved, ok, tried>>
  BY Zenon DEF Validate!Straggle, Validate!MayFail, Validate!Ends, Validate!Finishes, Validate!guest, Validate!kernel, Validate!evidence
<1>2. CampaignTypeOK'
  BY <1>1 DEF CampaignInv, CampaignTypeOK, BeforeLog, Logging, Deciding, Finishing
<1>3. LogInv'
  BY <1>1 DEF CampaignInv, LogInv, BeforeLog, Logging, Deciding
<1>4. ProgressInv'
  BY <1>1 DEF CampaignInv, CampaignTypeOK, ProgressInv, BeforeLog, Logging, Deciding, Finishing
<1>5. DecisionInv'
  BY <1>1 DEF CampaignInv, ProgressInv, DecisionInv, Clean, BeforeLog, Logging, Deciding, Finishing
<1>6. ManifestInv'
  <2>1. Clean => Clean'
    BY <1>1 DEF Clean, Finishing
  <2>2. verdict = "blocked" /\ pc \in Finishing => pc' = "ended"
    BY <1>1 DEF CampaignInv, ProgressInv, DecisionInv, Finishing
  <2> QED
    BY <1>1, <2>1, <2>2, FinalKept, Zenon
<1> QED
  BY <1>2, <1>3, <1>4, <1>5, <1>6, Zenon DEF CampaignInv

\* The campaign is killed.
LEMMA CampaignKill == CampaignInv /\ Validate!Kill => CampaignInv'
<1> SUFFICES ASSUME CampaignInv, Validate!Kill PROVE CampaignInv'
  OBVIOUS
<1>1. /\ pc # "ended" /\ pc' = "ended" /\ code' = Validate!Killed
      /\ manifest' = manifest
      /\ UNCHANGED <<integration, foreign, loaded, binary, klog, lines, bugs, straggler, verdict, before, after, saved, ok, tried>>
  BY Zenon DEF Validate!Kill, Validate!MayFail, Validate!Ends, Validate!Finishes, Validate!guest, Validate!kernel, Validate!evidence
<1>2. CampaignTypeOK'
  BY <1>1 DEF CampaignInv, CampaignTypeOK, BeforeLog, Logging, Deciding, Finishing
<1>3. LogInv'
  BY <1>1 DEF CampaignInv, LogInv, BeforeLog, Logging, Deciding
<1>4. ProgressInv'
  BY <1>1 DEF CampaignInv, CampaignTypeOK, ProgressInv, BeforeLog, Logging, Deciding, Finishing
<1>5. DecisionInv'
  BY <1>1 DEF CampaignInv, ProgressInv, DecisionInv, Clean, BeforeLog, Logging, Deciding, Finishing
<1>6. ManifestInv'
  <2>1. Clean => Clean'
    BY <1>1 DEF Clean, Finishing
  <2>2. verdict = "blocked" /\ pc \in Finishing => pc' = "ended"
    BY <1>1 DEF CampaignInv, ProgressInv, DecisionInv, Finishing
  <2> QED
    BY <1>1, <2>1, <2>2, FinalKept, Zenon
<1> QED
  BY <1>2, <1>3, <1>4, <1>5, <1>6, Zenon DEF CampaignInv

\* Only a step of the campaign disturbs what is known of the campaign.
LEMMA CampaignStep == CampaignKept /\ [Next]_vars => CampaignKept'
<1> SUFFICES ASSUME CampaignKept, [Next]_vars, command' = "validate" PROVE CampaignInv'
  BY DEF CampaignKept
<1>1. CASE UNCHANGED vars
  <2>1. CampaignInv
    BY <1>1 DEF vars, CampaignKept
  <2> QED
    BY <1>1, <2>1 DEF vars, ofCampaign, CampaignInv, CampaignTypeOK, LogInv, ProgressInv,
       DecisionInv, ManifestInv, Clean, Readable
<1>2. CASE InCampaign /\ Validate!Next
  <2>1. CampaignInv
    BY <1>2 DEF InCampaign, CampaignKept
  <2>2. CASE Validate!SaveRunning \/ Validate!CheckGuest \/ Validate!DmesgBefore
               \/ Validate!Snapshot \/ Validate!Build \/ Validate!Identify
    BY <2>1, <2>2, CampaignSaveRunning, CampaignCheckGuest, CampaignDmesgBefore,
       CampaignSnapshot, CampaignBuild, CampaignIdentify, Zenon
  <2>3. CASE Validate!Suite \/ Validate!InterruptSuite \/ Validate!Finally \/ Validate!Raised
    BY <2>1, <2>3, CampaignSuite, CampaignInterruptSuite, CampaignCleanup, CampaignDmesgAfter,
       CampaignRaised, Zenon DEF Validate!Finally
  <2>4. CASE Validate!Compare \/ Validate!Finish \/ Validate!FinishInTry
    BY <2>1, <2>4, CampaignCompare, CampaignFinish, CampaignFinishInTry, Zenon
  <2>5. CASE (\E error \in BOOLEAN : Validate!Log(error)) \/ Validate!Straggle \/ Validate!Kill
    BY <2>1, <2>5, CampaignLog, CampaignStraggle, CampaignKill, Zenon
  <2> QED
    BY <1>2, <2>2, <2>3, <2>4, <2>5, Zenon DEF Validate!Next, Validate!Campaign
<1>3. CASE \/ InStep /\ Step!Next
           \/ InRun /\ Run!Next
           \/ InStudy /\ Study!Next
           \/ InBench /\ Bench!Next
  <2>1. command = "validate"
    BY <1>3 DEF InStep, InRun, InStudy, InBench
  <2> QED
    BY <1>3, <2>1 DEF InStep, InRun, InStudy, InBench
<1> QED
  BY <1>1, <1>2, <1>3, Zenon DEF Next

\* main() of validate_linux.py: what the manifest says of an integration is
\* true, the cleanup is tried once the suite was started, and somebody else's
\* module is left alone, if the log the campaign finds is not empty.
THEOREM ManifestIsTrue ==
  ASSUME 0 \notin InitialLines
  PROVE  Spec => []ValidationIsEarned
<1>1. Init => CampaignKept
  BY CampaignInit
<1>2. CampaignKept /\ [Next]_vars => CampaignKept'
  BY CampaignStep
<1>3. CampaignKept => ValidationIsEarned
  <2> SUFFICES ASSUME CampaignInv
      PROVE  Validate!PassedMeansClean /\ Validate!CleanupIsTried /\ Validate!BlockedMeansUntouched
    BY DEF CampaignKept, ValidationIsEarned
  <2>t. CampaignTypeOK
    BY DEF CampaignInv
  <2>i. integration => integration = TRUE
    BY <2>t DEF CampaignTypeOK
  <2>f. foreign => foreign = TRUE
    BY <2>t DEF CampaignTypeOK
  <2>1. Validate!PassedMeansClean
    <3> SUFFICES ASSUME integration = TRUE, Readable(manifest),
                        manifest.status = "passed" \/ manifest.validated
        PROVE  "suite" \in ok /\ binary = saved /\ ~loaded /\ ~straggler /\ ~bugs
      BY <2>i, Zenon DEF Validate!PassedMeansClean, Validate!Says, Validate!SaysValidated,
         Validate!Readable, Readable
    <3>1. ManifestInv
      BY DEF CampaignInv
    <3>2. manifest.validated => manifest.validated = TRUE
      BY <3>1 DEF ManifestInv
    <3>3. Clean
      BY <3>1, <3>2, Zenon DEF ManifestInv
    <3> QED
      BY <3>3, Zenon DEF Clean
  <2>2. Validate!CleanupIsTried
    BY DEF CampaignInv, ProgressInv, Validate!CleanupIsTried
  <2>3. Validate!BlockedMeansUntouched
    <3> SUFFICES ASSUME foreign = TRUE \/ (Readable(manifest) /\ manifest.status = "blocked")
        PROVE  loaded = foreign /\ tried = {}
      BY <2>f, Zenon DEF Validate!BlockedMeansUntouched, Validate!Says, Validate!Readable, Readable
    <3> QED
      BY Zenon DEF CampaignInv, ManifestInv, ProgressInv
  <2> QED
    BY <2>1, <2>2, <2>3
<1> QED
  BY <1>1, <1>2, <1>3, PTL DEF Spec

-----------------------------------------------------------------------------
(***************************************************************************)
(* The study.                                                              *)
(***************************************************************************)
\* A mark in the place of a file is neither a text nor a record of fields.
Mark(x) == x \notin {"request", "scenario", "reduction"} /\ x # [i \in DOMAIN x |-> x[i]]

Result(j)   == disk[<<"result", j>>]
Request(j)  == disk[<<"request", j>>]
Analysis    == disk[<<"analysis", 0>>]
ManifestNow == disk[<<"manifest", 0>>]

Preparing == {"configuration", "snapshot", "running"}
AtJob     == {"request", "spawn", "wait", "record"}
Analyzed  == {"report", "final", "seal", "verify"}
JobStatus == {"passed", "failed", "timeout"}

StudyTypeOK ==
  /\ disk = [name \in Study!Name |-> disk[name]]
  /\ pc \in Preparing \cup AtJob \cup {"count", "analyze"} \cup Analyzed \cup {"ended"}
  /\ number \in Nat \ {0}
  /\ jobs \in Seq(JobStatus)
  /\ status \in JobStatus \cup {"none"}
  /\ job \in {"none", "reducing", "saved", "ended"}

\* How far the study has come, and that it runs one job at a time.
StudyProgress ==
  /\ pc \in Preparing => number = 1 /\ Len(jobs) = 0
  /\ pc \in AtJob => number <= Jobs /\ Len(jobs) = number - 1
  /\ pc = "record" => status \in JobStatus
  /\ pc = "count" => number <= Jobs /\ Len(jobs) = number /\ jobs[number] = status
  /\ pc \in {"analyze"} \cup Analyzed => number = Jobs + 1 /\ Len(jobs) = Jobs
  /\ pc # "ended" => \A j \in results : j < number
  /\ \A j \in results : j \in 1..Len(jobs) /\ jobs[j] = "passed"
  /\ pc \notin {"wait", "ended"} => job = "none"

\* What is in the bundle while the study is at work.
BundleInv ==
  pc # "ended" =>
    /\ \A j \in results : Readable(Result(j))
    /\ \A j \in 1..Jobs :
         j < number \/ (j = number /\ pc \in {"spawn", "wait", "record", "count"}) =>
           Request(j) = "request"
    /\ pc \in Analyzed => Analysis = results
    /\ pc \in {"seal", "verify"} =>
         ManifestNow = Study!ManifestOf(Study!FinalStatus)
    /\ pc = "verify" =>
         results = 1..Jobs /\ integrity = Study!Sealed /\ sealed = disk

\* What the seal, once it can be read, was made of.
SealInv ==
  Readable(integrity) =>
    /\ pc \in {"verify", "ended"} /\ job = "none"
    /\ Len(jobs) = Jobs
    /\ sealed = [name \in Study!Name |-> sealed[name]]
    /\ integrity = [name \in {n \in Study!Name : Exists(sealed[n])} |-> sealed[name]]
    /\ sealed[<<"analysis", 0>>] = results
    /\ sealed[<<"manifest", 0>>] =
         Study!ManifestOf(Study!FinalStatus)

StudyInv == StudyTypeOK /\ StudyProgress /\ BundleInv /\ SealInv

StudyKept == command = "study" => StudyInv

\* A write changes one file of the bundle.
LEMMA OneFileWritten ==
  ASSUME StudyTypeOK, NEW kind, NEW k, NEW c, disk' = [disk EXCEPT ![<<kind, k>>] = c]
  PROVE  /\ disk' = [name \in Study!Name |-> disk'[name]]
         /\ \A j \in 1..Jobs : kind # "result" \/ k # j => Result(j)' = Result(j)
         /\ \A j \in 1..Jobs : kind # "request" \/ k # j => Request(j)' = Request(j)
         /\ kind # "analysis" => Analysis' = Analysis
         /\ kind # "manifest" => ManifestNow' = ManifestNow
         /\ kind = "result" /\ k \in 1..Jobs => Result(k)' = c
         /\ kind = "request" /\ k \in 1..Jobs => Request(k)' = c
         /\ kind = "analysis" /\ k = 0 => Analysis' = c
         /\ kind = "manifest" /\ k = 0 => ManifestNow' = c
<1>1. disk = [name \in Study!Name |-> disk[name]]
  BY DEF StudyTypeOK
<1>2. /\ <<"analysis", 0>> \in Study!Name /\ <<"manifest", 0>> \in Study!Name
      /\ \A j \in 1..Jobs : <<"result", j>> \in Study!Name /\ <<"request", j>> \in Study!Name
  BY DEF Study!Name
<1>3. \A n \in Study!Name : disk'[n] = IF n = <<kind, k>> THEN c ELSE disk[n]
  BY <1>1
<1>4. disk' = [name \in Study!Name |-> disk'[name]]
  BY <1>1
<1>5. \A a, b : <<a, b>> = <<kind, k>> <=> a = kind /\ b = k
  OBVIOUS
<1>6. \A a, b : <<a, b>> \in Study!Name =>
        disk'[<<a, b>>] = IF a = kind /\ b = k THEN c ELSE disk[<<a, b>>]
  BY <1>3, <1>5, Zenon
<1> QED
  BY <1>2, <1>4, <1>6 DEF Result, Request, Analysis, ManifestNow

\* While the study is at work there is a place for every result and for every job.
LEMMA StudyBounds ==
  ASSUME StudyInv, pc # "ended"
  PROVE  /\ Jobs \in Nat /\ Len(jobs) \in Nat /\ Len(jobs) <= Jobs
         /\ number \in Nat /\ number >= 1 /\ number <= Jobs + 1
         /\ \A j \in results : j \in 1..Jobs /\ j < number
         /\ ~(pc = "verify") => ~Readable(integrity)
<1>1. Jobs \in Nat /\ Jobs >= 1 /\ jobs \in Seq(JobStatus) /\ number \in Nat /\ number >= 1
  BY StudyAssumption DEF StudyInv, StudyTypeOK
<1>2. Len(jobs) \in Nat
  BY <1>1
<1>3. Len(jobs) <= Jobs /\ number <= Jobs + 1
  BY <1>1, <1>2 DEF StudyInv, StudyTypeOK, StudyProgress
<1>4. \A j \in results : j \in 1..Len(jobs) /\ j < number
  BY DEF StudyInv, StudyProgress
<1>5. ~(pc = "verify") => ~Readable(integrity)
  BY DEF StudyInv, SealInv
<1> QED
  BY <1>1, <1>2, <1>3, <1>4, <1>5

\* A save outside the jobs writes its file and goes on, or ends the study.
LEMMA StudySave ==
  ASSUME NEW name, NEW content, NEW next, Study!Save(name, content, next)
  PROVE  \E c : /\ disk' = [disk EXCEPT ![name] = c]
                /\ \/ c = content /\ pc' = next
                   \/ pc' = "ended"
<1>1. PICK s \in Study!SaveJson(disk[name], content) :
        /\ disk' = [disk EXCEPT ![name] = s.content]
        /\ IF s.ok THEN pc' = next /\ UNCHANGED <<code, errors>>
                   ELSE Study!MayFail /\ Study!Ends(2)
  BY Zenon DEF Study!Save
<1>2. s.ok = TRUE => s.content = content
  BY <1>1, SavedContent, Zenon DEF Study!SaveJson, SaveJson
<1>3. s.ok \in BOOLEAN
  BY <1>1, SavedContent, Zenon DEF Study!SaveJson, SaveJson
<1> QED
  BY <1>1, <1>2, <1>3 DEF Study!Ends

\* The configuration.
LEMMA StudySaveConfiguration == StudyInv /\ Study!SaveConfiguration => StudyInv'
<1> SUFFICES ASSUME StudyInv, Study!SaveConfiguration PROVE StudyInv'
  OBVIOUS
<1> DEFINE content == "configuration"
<1>1. /\ pc = "configuration" /\ Study!Save(<<"configuration", 0>>, content, "snapshot")
      /\ UNCHANGED <<integrity, job, number, status, jobs, results, sealed>>
  BY Zenon DEF Study!SaveConfiguration, Study!process, Study!progress
<1>2. PICK c : /\ disk' = [disk EXCEPT ![<<"configuration", 0>>] = c]
               /\ \/ c = content /\ pc' = "snapshot"
                  \/ pc' = "ended"
  BY <1>1, StudySave, Zenon
<1>c. content = "configuration"
  OBVIOUS
<1> HIDE DEF content
<1>3. StudyTypeOK
  BY DEF StudyInv
<1>4. /\ disk' = [name \in Study!Name |-> disk'[name]]
      /\ \A j \in 1..Jobs : "configuration" # "result" \/ 0 # j => Result(j)' = Result(j)
      /\ \A j \in 1..Jobs : "configuration" # "request" \/ 0 # j => Request(j)' = Request(j)
      /\ "configuration" # "analysis" => Analysis' = Analysis
      /\ "configuration" # "manifest" => ManifestNow' = ManifestNow
      /\ "configuration" = "request" /\ 0 \in 1..Jobs => Request(0)' = c
      /\ "configuration" = "analysis" /\ 0 = 0 => Analysis' = c
      /\ "configuration" = "manifest" /\ 0 = 0 => ManifestNow' = c
  BY <1>2, <1>3, OneFileWritten, Zenon
<1>5. /\ Jobs \in Nat /\ number \in Nat /\ number >= 1
      /\ \A j \in results : j \in 1..Jobs
      /\ ~Readable(integrity)
  BY <1>1, StudyBounds
<1>6. StudyTypeOK'
  BY <1>1, <1>2, <1>4 DEF StudyInv, StudyTypeOK, Preparing, AtJob, Analyzed
<1>7. StudyProgress'
  BY <1>1, <1>2, <1>5, StudyAssumption DEF StudyInv, StudyProgress, Preparing, AtJob, Analyzed
<1>8. BundleInv'
  <2>1. CASE pc' = "ended"
    BY <2>1 DEF BundleInv
  <2>2. CASE c = content /\ pc' = "snapshot"
    BY <1>1, <1>c, <1>4, <1>5, <2>2 DEF StudyInv, StudyProgress, BundleInv, Preparing, AtJob, Analyzed, Readable
  <2> QED
    BY <1>2, <2>1, <2>2
<1>9. SealInv'
  BY <1>1, <1>5 DEF SealInv, Readable
<1> QED
  BY <1>6, <1>7, <1>8, <1>9, Zenon DEF StudyInv

\* The snapshot of the source.
LEMMA StudyTakeSnapshot == StudyInv /\ Study!TakeSnapshot => StudyInv'
<1> SUFFICES ASSUME StudyInv, Study!TakeSnapshot PROVE StudyInv'
  OBVIOUS
<1> DEFINE content == "source"
<1>1. /\ pc = "snapshot" /\ Study!Save(<<"source", 0>>, content, "running")
      /\ UNCHANGED <<integrity, job, number, status, jobs, results, sealed>>
  BY Zenon DEF Study!TakeSnapshot, Study!process, Study!progress
<1>2. PICK c : /\ disk' = [disk EXCEPT ![<<"source", 0>>] = c]
               /\ \/ c = content /\ pc' = "running"
                  \/ pc' = "ended"
  BY <1>1, StudySave, Zenon
<1>c. content = "source"
  OBVIOUS
<1> HIDE DEF content
<1>3. StudyTypeOK
  BY DEF StudyInv
<1>4. /\ disk' = [name \in Study!Name |-> disk'[name]]
      /\ \A j \in 1..Jobs : "source" # "result" \/ 0 # j => Result(j)' = Result(j)
      /\ \A j \in 1..Jobs : "source" # "request" \/ 0 # j => Request(j)' = Request(j)
      /\ "source" # "analysis" => Analysis' = Analysis
      /\ "source" # "manifest" => ManifestNow' = ManifestNow
      /\ "source" = "request" /\ 0 \in 1..Jobs => Request(0)' = c
      /\ "source" = "analysis" /\ 0 = 0 => Analysis' = c
      /\ "source" = "manifest" /\ 0 = 0 => ManifestNow' = c
  BY <1>2, <1>3, OneFileWritten, Zenon
<1>5. /\ Jobs \in Nat /\ number \in Nat /\ number >= 1
      /\ \A j \in results : j \in 1..Jobs
      /\ ~Readable(integrity)
  BY <1>1, StudyBounds
<1>6. StudyTypeOK'
  BY <1>1, <1>2, <1>4 DEF StudyInv, StudyTypeOK, Preparing, AtJob, Analyzed
<1>7. StudyProgress'
  BY <1>1, <1>2, <1>5, StudyAssumption DEF StudyInv, StudyProgress, Preparing, AtJob, Analyzed
<1>8. BundleInv'
  <2>1. CASE pc' = "ended"
    BY <2>1 DEF BundleInv
  <2>2. CASE c = content /\ pc' = "running"
    BY <1>1, <1>c, <1>4, <1>5, <2>2 DEF StudyInv, StudyProgress, BundleInv, Preparing, AtJob, Analyzed, Readable
  <2> QED
    BY <1>2, <2>1, <2>2
<1>9. SealInv'
  BY <1>1, <1>5 DEF SealInv, Readable
<1> QED
  BY <1>6, <1>7, <1>8, <1>9, Zenon DEF StudyInv

\* The manifest before the jobs.
LEMMA StudySaveRunning == StudyInv /\ Study!SaveRunning => StudyInv'
<1> SUFFICES ASSUME StudyInv, Study!SaveRunning PROVE StudyInv'
  OBVIOUS
<1> DEFINE content == Study!ManifestOf("running")
<1>1. /\ pc = "running" /\ Study!Save(<<"manifest", 0>>, content, "request")
      /\ UNCHANGED <<integrity, job, number, status, jobs, results, sealed>>
  BY Zenon DEF Study!SaveRunning, Study!process, Study!progress
<1>2. PICK c : /\ disk' = [disk EXCEPT ![<<"manifest", 0>>] = c]
               /\ \/ c = content /\ pc' = "request"
                  \/ pc' = "ended"
  BY <1>1, StudySave, Zenon
<1>c. content = Study!ManifestOf("running")
  OBVIOUS
<1> HIDE DEF content
<1>3. StudyTypeOK
  BY DEF StudyInv
<1>4. /\ disk' = [name \in Study!Name |-> disk'[name]]
      /\ \A j \in 1..Jobs : "manifest" # "result" \/ 0 # j => Result(j)' = Result(j)
      /\ \A j \in 1..Jobs : "manifest" # "request" \/ 0 # j => Request(j)' = Request(j)
      /\ "manifest" # "analysis" => Analysis' = Analysis
      /\ "manifest" # "manifest" => ManifestNow' = ManifestNow
      /\ "manifest" = "request" /\ 0 \in 1..Jobs => Request(0)' = c
      /\ "manifest" = "analysis" /\ 0 = 0 => Analysis' = c
      /\ "manifest" = "manifest" /\ 0 = 0 => ManifestNow' = c
  BY <1>2, <1>3, OneFileWritten, Zenon
<1>5. /\ Jobs \in Nat /\ number \in Nat /\ number >= 1
      /\ \A j \in results : j \in 1..Jobs
      /\ ~Readable(integrity)
  BY <1>1, StudyBounds
<1>6. StudyTypeOK'
  BY <1>1, <1>2, <1>4 DEF StudyInv, StudyTypeOK, Preparing, AtJob, Analyzed
<1>7. StudyProgress'
  BY <1>1, <1>2, <1>5, StudyAssumption DEF StudyInv, StudyProgress, Preparing, AtJob, Analyzed
<1>8. BundleInv'
  <2>1. CASE pc' = "ended"
    BY <2>1 DEF BundleInv
  <2>2. CASE c = content /\ pc' = "request"
    BY <1>1, <1>c, <1>4, <1>5, <2>2 DEF StudyInv, StudyProgress, BundleInv, Preparing, AtJob, Analyzed, Readable
  <2> QED
    BY <1>2, <2>1, <2>2
<1>9. SealInv'
  BY <1>1, <1>5 DEF SealInv, Readable
<1> QED
  BY <1>6, <1>7, <1>8, <1>9, Zenon DEF StudyInv

\* The request of a job.
LEMMA StudySaveRequest == StudyInv /\ Study!SaveRequest => StudyInv'
<1> SUFFICES ASSUME StudyInv, Study!SaveRequest PROVE StudyInv'
  OBVIOUS
<1> DEFINE content == "request"
<1>k. PICK k : k = number
  OBVIOUS
<1>1. /\ pc = "request" /\ Study!Save(<<"request", k>>, content, "spawn")
      /\ UNCHANGED <<integrity, job, number, status, jobs, results, sealed>>
  BY <1>k, Zenon DEF Study!SaveRequest, Study!process, Study!progress
<1>2. PICK c : /\ disk' = [disk EXCEPT ![<<"request", k>>] = c]
               /\ \/ c = content /\ pc' = "spawn"
                  \/ pc' = "ended"
  BY <1>1, StudySave, Zenon
<1>c. content = "request"
  OBVIOUS
<1> HIDE DEF content
<1>3. StudyTypeOK
  BY DEF StudyInv
<1>4. /\ disk' = [name \in Study!Name |-> disk'[name]]
      /\ \A j \in 1..Jobs : "request" # "result" \/ k # j => Result(j)' = Result(j)
      /\ \A j \in 1..Jobs : "request" # "request" \/ k # j => Request(j)' = Request(j)
      /\ "request" # "analysis" => Analysis' = Analysis
      /\ "request" # "manifest" => ManifestNow' = ManifestNow
      /\ "request" = "request" /\ k \in 1..Jobs => Request(k)' = c
      /\ "request" = "analysis" /\ k = 0 => Analysis' = c
      /\ "request" = "manifest" /\ k = 0 => ManifestNow' = c
  BY <1>2, <1>3, OneFileWritten, Zenon
<1>5. /\ Jobs \in Nat /\ number \in Nat /\ number >= 1
      /\ \A j \in results : j \in 1..Jobs
      /\ ~Readable(integrity)
  BY <1>1, StudyBounds
<1>6. StudyTypeOK'
  BY <1>1, <1>2, <1>4 DEF StudyInv, StudyTypeOK, Preparing, AtJob, Analyzed
<1>7. StudyProgress'
  BY <1>1, <1>2, <1>5, StudyAssumption DEF StudyInv, StudyProgress, Preparing, AtJob, Analyzed
<1>8. BundleInv'
  <2>1. CASE pc' = "ended"
    BY <2>1 DEF BundleInv
  <2>2. CASE c = content /\ pc' = "spawn"
    BY <1>k, <1>1, <1>c, <1>4, <1>5, <2>2 DEF StudyInv, StudyProgress, BundleInv, Preparing, AtJob, Analyzed, Readable
  <2> QED
    BY <1>2, <2>1, <2>2
<1>9. SealInv'
  BY <1>1, <1>5 DEF SealInv, Readable
<1> QED
  BY <1>6, <1>7, <1>8, <1>9, Zenon DEF StudyInv

\* The analysis of the results that were counted.
LEMMA StudyAnalyze == StudyInv /\ Study!Analyze => StudyInv'
<1> SUFFICES ASSUME StudyInv, Study!Analyze PROVE StudyInv'
  OBVIOUS
<1> DEFINE content == results
<1>1. /\ pc = "analyze" /\ Study!Save(<<"analysis", 0>>, content, "report")
      /\ UNCHANGED <<integrity, job, number, status, jobs, results, sealed>>
  BY Zenon DEF Study!Analyze, Study!process, Study!progress
<1>2. PICK c : /\ disk' = [disk EXCEPT ![<<"analysis", 0>>] = c]
               /\ \/ c = content /\ pc' = "report"
                  \/ pc' = "ended"
  BY <1>1, StudySave, Zenon
<1>c. content = results
  OBVIOUS
<1> HIDE DEF content
<1>3. StudyTypeOK
  BY DEF StudyInv
<1>4. /\ disk' = [name \in Study!Name |-> disk'[name]]
      /\ \A j \in 1..Jobs : "analysis" # "result" \/ 0 # j => Result(j)' = Result(j)
      /\ \A j \in 1..Jobs : "analysis" # "request" \/ 0 # j => Request(j)' = Request(j)
      /\ "analysis" # "analysis" => Analysis' = Analysis
      /\ "analysis" # "manifest" => ManifestNow' = ManifestNow
      /\ "analysis" = "request" /\ 0 \in 1..Jobs => Request(0)' = c
      /\ "analysis" = "analysis" /\ 0 = 0 => Analysis' = c
      /\ "analysis" = "manifest" /\ 0 = 0 => ManifestNow' = c
  BY <1>2, <1>3, OneFileWritten, Zenon
<1>5. /\ Jobs \in Nat /\ number \in Nat /\ number >= 1
      /\ \A j \in results : j \in 1..Jobs
      /\ ~Readable(integrity)
  BY <1>1, StudyBounds
<1>6. StudyTypeOK'
  BY <1>1, <1>2, <1>4 DEF StudyInv, StudyTypeOK, Preparing, AtJob, Analyzed
<1>7. StudyProgress'
  BY <1>1, <1>2, <1>5, StudyAssumption DEF StudyInv, StudyProgress, Preparing, AtJob, Analyzed
<1>8. BundleInv'
  <2>1. CASE pc' = "ended"
    BY <2>1 DEF BundleInv
  <2>2. CASE c = content /\ pc' = "report"
    BY <1>1, <1>c, <1>4, <1>5, <2>2 DEF StudyInv, StudyProgress, BundleInv, Preparing, AtJob, Analyzed, Readable
  <2> QED
    BY <1>2, <2>1, <2>2
<1>9. SealInv'
  BY <1>1, <1>5 DEF SealInv, Readable
<1> QED
  BY <1>6, <1>7, <1>8, <1>9, Zenon DEF StudyInv

\* The report.
LEMMA StudyReport == StudyInv /\ Study!Report => StudyInv'
<1> SUFFICES ASSUME StudyInv, Study!Report PROVE StudyInv'
  OBVIOUS
<1> DEFINE content == results
<1>1. /\ pc = "report" /\ Study!Save(<<"report", 0>>, content, "final")
      /\ UNCHANGED <<integrity, job, number, status, jobs, results, sealed>>
  BY Zenon DEF Study!Report, Study!process, Study!progress
<1>2. PICK c : /\ disk' = [disk EXCEPT ![<<"report", 0>>] = c]
               /\ \/ c = content /\ pc' = "final"
                  \/ pc' = "ended"
  BY <1>1, StudySave, Zenon
<1>c. content = results
  OBVIOUS
<1> HIDE DEF content
<1>3. StudyTypeOK
  BY DEF StudyInv
<1>4. /\ disk' = [name \in Study!Name |-> disk'[name]]
      /\ \A j \in 1..Jobs : "report" # "result" \/ 0 # j => Result(j)' = Result(j)
      /\ \A j \in 1..Jobs : "report" # "request" \/ 0 # j => Request(j)' = Request(j)
      /\ "report" # "analysis" => Analysis' = Analysis
      /\ "report" # "manifest" => ManifestNow' = ManifestNow
      /\ "report" = "request" /\ 0 \in 1..Jobs => Request(0)' = c
      /\ "report" = "analysis" /\ 0 = 0 => Analysis' = c
      /\ "report" = "manifest" /\ 0 = 0 => ManifestNow' = c
  BY <1>2, <1>3, OneFileWritten, Zenon
<1>5. /\ Jobs \in Nat /\ number \in Nat /\ number >= 1
      /\ \A j \in results : j \in 1..Jobs
      /\ ~Readable(integrity)
  BY <1>1, StudyBounds
<1>6. StudyTypeOK'
  BY <1>1, <1>2, <1>4 DEF StudyInv, StudyTypeOK, Preparing, AtJob, Analyzed
<1>7. StudyProgress'
  BY <1>1, <1>2, <1>5, StudyAssumption DEF StudyInv, StudyProgress, Preparing, AtJob, Analyzed
<1>8. BundleInv'
  <2>1. CASE pc' = "ended"
    BY <2>1 DEF BundleInv
  <2>2. CASE c = content /\ pc' = "final"
    BY <1>1, <1>c, <1>4, <1>5, <2>2 DEF StudyInv, StudyProgress, BundleInv, Preparing, AtJob, Analyzed, Readable
  <2> QED
    BY <1>2, <2>1, <2>2
<1>9. SealInv'
  BY <1>1, <1>5 DEF SealInv, Readable
<1> QED
  BY <1>6, <1>7, <1>8, <1>9, Zenon DEF StudyInv

\* The final manifest.
LEMMA StudySaveFinal == StudyInv /\ Study!SaveFinal => StudyInv'
<1> SUFFICES ASSUME StudyInv, Study!SaveFinal PROVE StudyInv'
  OBVIOUS
<1> DEFINE content == Study!ManifestOf(Study!FinalStatus)
<1>1. /\ pc = "final" /\ Study!Save(<<"manifest", 0>>, content, "seal")
      /\ UNCHANGED <<integrity, job, number, status, jobs, results, sealed>>
  BY Zenon DEF Study!SaveFinal, Study!process, Study!progress
<1>2. PICK c : /\ disk' = [disk EXCEPT ![<<"manifest", 0>>] = c]
               /\ \/ c = content /\ pc' = "seal"
                  \/ pc' = "ended"
  BY <1>1, StudySave, Zenon
<1>c. content = Study!ManifestOf(Study!FinalStatus)
  OBVIOUS
<1> HIDE DEF content
<1>3. StudyTypeOK
  BY DEF StudyInv
<1>4. /\ disk' = [name \in Study!Name |-> disk'[name]]
      /\ \A j \in 1..Jobs : "manifest" # "result" \/ 0 # j => Result(j)' = Result(j)
      /\ \A j \in 1..Jobs : "manifest" # "request" \/ 0 # j => Request(j)' = Request(j)
      /\ "manifest" # "analysis" => Analysis' = Analysis
      /\ "manifest" # "manifest" => ManifestNow' = ManifestNow
      /\ "manifest" = "request" /\ 0 \in 1..Jobs => Request(0)' = c
      /\ "manifest" = "analysis" /\ 0 = 0 => Analysis' = c
      /\ "manifest" = "manifest" /\ 0 = 0 => ManifestNow' = c
  BY <1>2, <1>3, OneFileWritten, Zenon
<1>5. /\ Jobs \in Nat /\ number \in Nat /\ number >= 1
      /\ \A j \in results : j \in 1..Jobs
      /\ ~Readable(integrity)
  BY <1>1, StudyBounds
<1>6. StudyTypeOK'
  BY <1>1, <1>2, <1>4 DEF StudyInv, StudyTypeOK, Preparing, AtJob, Analyzed
<1>7. StudyProgress'
  BY <1>1, <1>2, <1>5, StudyAssumption DEF StudyInv, StudyProgress, Preparing, AtJob, Analyzed
<1>8. BundleInv'
  <2>1. CASE pc' = "ended"
    BY <2>1 DEF BundleInv
  <2>2. CASE c = content /\ pc' = "seal"
    BY <1>1, <1>c, <1>4, <1>5, <2>2 DEF StudyInv, StudyProgress, BundleInv, Preparing, AtJob, Analyzed, Readable, Study!ManifestOf, Study!FinalStatus
  <2> QED
    BY <1>2, <2>1, <2>2
<1>9. SealInv'
  BY <1>1, <1>5 DEF SealInv, Readable
<1> QED
  BY <1>6, <1>7, <1>8, <1>9, Zenon DEF StudyInv

\* What a job writes is its own.
LEMMA JobFileWritten ==
  ASSUME StudyTypeOK, NEW kind \in {"log", "checkpoint", "result"}, NEW k, NEW c,
         disk' = [disk EXCEPT ![<<kind, k>>] = c]
  PROVE  /\ disk' = [name \in Study!Name |-> disk'[name]]
         /\ \A j \in 1..Jobs : k # j => Result(j)' = Result(j)
         /\ \A j \in 1..Jobs : Request(j)' = Request(j)
         /\ Analysis' = Analysis /\ ManifestNow' = ManifestNow
<1>1. kind # "request" /\ kind # "analysis" /\ kind # "manifest"
  OBVIOUS
<1> QED
  BY <1>1, OneFileWritten, Zenon

\* A step of a job's process: it writes the job's checkpoint or its result.
LEMMA StudyJob ==
  ASSUME StudyInv, NEW kind \in {"log", "checkpoint", "result"}, NEW k, k = number, NEW c,
         disk' = [disk EXCEPT ![<<kind, k>>] = c] \/ disk' = disk,
         pc = "spawn" \/ job # "none",
         UNCHANGED <<integrity, number, jobs, results, sealed>>,
         \/ pc = "spawn" /\ pc' = "wait"
         \/ pc = "wait" /\ pc' = "record"
         \/ pc # "spawn" /\ pc' = pc,
         job' \in {"none", "reducing", "saved", "ended"},
         job' # "none" => pc' \in {"wait", "ended"},
         status' \in JobStatus \cup {"none"},
         pc' = "record" => status' \in JobStatus
  PROVE  StudyInv'
<1>1. StudyTypeOK
  BY DEF StudyInv
<1>2. /\ disk' = [name \in Study!Name |-> disk'[name]]
      /\ \A j \in 1..Jobs : k # j => Result(j)' = Result(j)
      /\ \A j \in 1..Jobs : Request(j)' = Request(j)
      /\ Analysis' = Analysis /\ ManifestNow' = ManifestNow
  <2>1. CASE disk' = [disk EXCEPT ![<<kind, k>>] = c]
    BY <1>1, <2>1, JobFileWritten, Zenon
  <2>2. CASE disk' = disk
    BY <1>1, <2>2 DEF StudyTypeOK, Result, Request, Analysis, ManifestNow
  <2> QED
    BY <2>1, <2>2
<1>3. pc \in {"spawn", "wait", "ended"} /\ pc' \in {"wait", "record", "ended"}
  BY DEF StudyInv, StudyProgress
<1>4. ~Readable(integrity)
  BY <1>3 DEF StudyInv, SealInv
<1>5. StudyTypeOK'
  BY <1>2, <1>3 DEF StudyInv, StudyTypeOK, AtJob
<1>6. StudyProgress'
  BY <1>3 DEF StudyInv, StudyProgress, Preparing, AtJob, Analyzed
<1>7. BundleInv'
  <2>1. CASE pc' = "ended"
    BY <2>1 DEF BundleInv
  <2>2. CASE pc' # "ended"
    <3>1. /\ pc \in {"spawn", "wait"} /\ pc' \in {"wait", "record"}
          /\ \A j \in results : j \in 1..Jobs /\ j # k
      BY <1>3, <2>2, StudyBounds
    <3> QED
      BY <1>2, <3>1 DEF StudyInv, BundleInv, Analyzed, Readable
  <2> QED
    BY <2>1, <2>2
<1>8. SealInv'
  BY <1>4 DEF SealInv, Readable
<1> QED
  BY <1>5, <1>6, <1>7, <1>8, Zenon DEF StudyInv

\* The job's process is started.
LEMMA StudySpawn == StudyInv /\ Study!Spawn => StudyInv'
<1> SUFFICES ASSUME StudyInv, Study!Spawn PROVE StudyInv'
  OBVIOUS
<1>k. PICK k : k = number
  OBVIOUS
<1>1. /\ pc = "spawn" /\ pc' = "wait" /\ job' = "reducing"
      /\ disk' = [disk EXCEPT ![<<"log", k>>] = "log"]
      /\ UNCHANGED <<integrity, number, status, jobs, results, sealed>>
  BY <1>k, Zenon DEF Study!Spawn, Study!progress
<1>2. status' \in JobStatus \cup {"none"}
  BY <1>1 DEF StudyInv, StudyTypeOK
<1> QED
  BY <1>k, <1>1, <1>2, StudyJob

\* The job ended by itself or is stopped by the timeout.
LEMMA StudyWaited == StudyInv /\ (Study!Waited \/ Study!TimeoutExpired) => StudyInv'
<1> SUFFICES ASSUME StudyInv, Study!Waited \/ Study!TimeoutExpired PROVE StudyInv'
  OBVIOUS
<1>k. PICK k : k = number
  OBVIOUS
<1>1. /\ pc = "wait" /\ pc' = "record" /\ job' = "none" /\ status' \in JobStatus
      /\ UNCHANGED <<integrity, number, jobs, results, sealed>>
      /\ \/ disk' = disk
         \/ /\ job = "reducing"
            /\ \E kind \in {"checkpoint", "result"} : disk' = [disk EXCEPT ![<<kind, k>>] = Torn]
  BY <1>k DEF Study!Waited, Study!TimeoutExpired, JobStatus
<1>2. SealInv' /\ ~Readable(integrity)
  <2>1. ~Readable(integrity)
    BY <1>1 DEF StudyInv, SealInv
  <2> QED
    BY <1>1, <2>1 DEF SealInv, Readable
<1>3. CASE job = "none"
  <2>1. disk' = disk
    BY <1>1, <1>3
  <2> QED
    BY <1>1, <1>2, <2>1 DEF StudyInv, StudyTypeOK, StudyProgress, BundleInv, AtJob, Preparing,
       Analyzed, Result, Request, Analysis, ManifestNow, Readable
<1>4. CASE job # "none"
  <2>1. CASE disk' = disk
    BY <1>k, <1>1, <1>4, <2>1, StudyJob
  <2>2. CASE \E kind \in {"checkpoint", "result"} : disk' = [disk EXCEPT ![<<kind, k>>] = Torn]
    BY <1>k, <1>1, <1>4, <2>2, StudyJob
  <2> QED
    BY <1>1, <2>1, <2>2
<1> QED
  BY <1>3, <1>4

\* execute_job(): the checkpoints, the result and the exit.
LEMMA StudyJobSteps == StudyInv /\ Study!Job => StudyInv'
<1> SUFFICES ASSUME StudyInv, Study!Job PROVE StudyInv'
  OBVIOUS
<1>k. PICK k : k = number
  OBVIOUS
<1>1. /\ job # "none" /\ job' \in {job, "saved", "ended"}
      /\ UNCHANGED <<integrity, pc, number, status, jobs, results, sealed>>
      /\ \/ disk' = disk
         \/ \E kind \in {"checkpoint", "result"} : \E c : disk' = [disk EXCEPT ![<<kind, k>>] = c]
  <2>1. CASE Study!Checkpoint
    <3>1. PICK s \in Study!SaveJson(disk[<<"checkpoint", number>>], "checkpoint") :
            /\ disk' = [disk EXCEPT ![<<"checkpoint", number>>] = s.content]
            /\ IF s.ok THEN UNCHANGED <<job, jobCode, errors>>
                       ELSE Study!MayFail /\ job' = "ended" /\ jobCode' = 2
      BY <2>1, Zenon DEF Study!Checkpoint, Study!process
    <3>2. job = "reducing" /\ UNCHANGED <<integrity, pc, number, status, jobs, results, sealed>>
      BY <2>1, Zenon DEF Study!Checkpoint, Study!progress
    <3>3. job' \in {job, "saved", "ended"}
      BY <3>1
    <3> QED
      BY <1>k, <3>1, <3>2, <3>3
  <2>2. CASE Study!SaveResult
    <3>1. PICK s \in Study!SaveJson(disk[<<"result", number>>], "result") :
            /\ disk' = [disk EXCEPT ![<<"result", number>>] = s.content]
            /\ IF s.ok THEN job' = "saved" /\ UNCHANGED <<jobCode, errors>>
                       ELSE Study!MayFail /\ job' = "ended" /\ jobCode' = 2
      BY <2>2, Zenon DEF Study!SaveResult
    <3>2. job = "reducing" /\ UNCHANGED <<integrity, pc, number, status, jobs, results, sealed>>
      BY <2>2, Zenon DEF Study!SaveResult, Study!progress
    <3>3. job' \in {job, "saved", "ended"}
      BY <3>1
    <3> QED
      BY <1>k, <3>1, <3>2, <3>3
  <2>3. CASE Study!ExitJob
    BY <2>3 DEF Study!ExitJob, Study!progress
  <2> QED
    BY <2>1, <2>2, <2>3, Zenon DEF Study!Job
<1>2. /\ job' \in {"none", "reducing", "saved", "ended"} /\ job' # "none"
      /\ pc' \in {"wait", "ended"} /\ pc' = pc
      /\ status' \in JobStatus \cup {"none"}
  BY <1>1 DEF StudyInv, StudyTypeOK, StudyProgress
<1>3. CASE disk' = disk
  BY <1>k, <1>1, <1>2, <1>3, StudyJob
<1>4. CASE \E kind \in {"checkpoint", "result"} : \E c : disk' = [disk EXCEPT ![<<kind, k>>] = c]
  <2>1. PICK kind \in {"checkpoint", "result"} : \E c : disk' = [disk EXCEPT ![<<kind, k>>] = c]
    BY <1>4
  <2>2. PICK c : disk' = [disk EXCEPT ![<<kind, k>>] = c]
    BY <2>1
  <2> QED
    BY <1>k, <1>1, <1>2, <2>2, StudyJob
<1> QED
  BY <1>1, <1>3, <1>4

\* The status of the job is put into the manifest.
LEMMA StudyRecord == StudyInv /\ Study!Record => StudyInv'
<1> SUFFICES ASSUME StudyInv, Study!Record PROVE StudyInv'
  OBVIOUS
<1>1. /\ pc = "record" /\ jobs' = Append(jobs, status) /\ pc' \in {"count", "ended"}
      /\ \E c : disk' = [disk EXCEPT ![<<"manifest", 0>>] = c]
      /\ UNCHANGED <<integrity, job, number, status, results, sealed>>
  <2>1. PICK s \in Study!SaveJson(ManifestNow, [status |-> "running", jobs |-> jobs']) :
          /\ disk' = [disk EXCEPT ![<<"manifest", 0>>] = s.content]
          /\ IF s.ok THEN pc' = "count" /\ UNCHANGED <<code, errors>>
                     ELSE Study!MayFail /\ Study!Ends(2)
    BY Zenon DEF Study!Record, ManifestNow
  <2>2. /\ pc = "record" /\ jobs' = Append(jobs, status)
        /\ UNCHANGED <<integrity, job, number, status, results, sealed>>
    BY Zenon DEF Study!Record, Study!process
  <2> QED
    BY <2>1, <2>2 DEF Study!Ends
<1>2. PICK c : disk' = [disk EXCEPT ![<<"manifest", 0>>] = c]
  BY <1>1
<1>3. StudyTypeOK
  BY DEF StudyInv
<1>4. /\ disk' = [name \in Study!Name |-> disk'[name]]
      /\ \A j \in 1..Jobs : Result(j)' = Result(j)
      /\ \A j \in 1..Jobs : Request(j)' = Request(j)
  <2>1. /\ disk' = [name \in Study!Name |-> disk'[name]]
        /\ \A j \in 1..Jobs : "manifest" # "result" \/ 0 # j => Result(j)' = Result(j)
        /\ \A j \in 1..Jobs : "manifest" # "request" \/ 0 # j => Request(j)' = Request(j)
    BY <1>2, <1>3, OneFileWritten, Zenon
  <2> QED
    BY <2>1
<1>5. /\ jobs \in Seq(JobStatus) /\ status \in JobStatus /\ Len(jobs) = number - 1
      /\ number \in Nat /\ number <= Jobs
  BY <1>1 DEF StudyInv, StudyTypeOK, StudyProgress, AtJob
<1>6. /\ Jobs \in Nat /\ \A j \in results : j \in 1..Jobs /\ j < number
      /\ ~Readable(integrity)
  BY <1>1, StudyBounds
<1>7. /\ jobs' \in Seq(JobStatus) /\ Len(jobs') = number /\ jobs'[number] = status
      /\ \A j \in 1..Len(jobs) : jobs'[j] = jobs[j] /\ j \in 1..Len(jobs')
  BY <1>1, <1>5
<1>8. StudyTypeOK'
  BY <1>1, <1>4, <1>7 DEF StudyInv, StudyTypeOK
<1>9. StudyProgress'
  BY <1>1, <1>5, <1>6, <1>7 DEF StudyInv, StudyProgress, Preparing, AtJob, Analyzed
<1>10. BundleInv'
  BY <1>1, <1>4, <1>6 DEF StudyInv, BundleInv, Analyzed, Readable
<1>11. SealInv'
  BY <1>1, <1>6 DEF SealInv, Readable
<1> QED
  BY <1>8, <1>9, <1>10, <1>11, Zenon DEF StudyInv

\* The result of a job is counted if it passed and left one.
LEMMA StudyCount == StudyInv /\ Study!Count => StudyInv'
<1> SUFFICES ASSUME StudyInv, Study!Count PROVE StudyInv'
  OBVIOUS
<1> DEFINE counts == status = "passed" /\ Readable(Result(number))
<1>1. /\ pc = "count"
      /\ UNCHANGED <<disk, integrity, job, status, jobs, sealed>>
      /\ \/ pc' = "ended" /\ UNCHANGED <<results, number>>
         \/ /\ number' = number + 1
            /\ pc' = IF number < Jobs THEN "request" ELSE "analyze"
            /\ \/ results' = results
               \/ results' = results \cup {number} /\ counts
  BY Zenon DEF Study!Count, Study!Counted, Study!Ends, Study!process, Result, Study!Readable, Readable
<1>2. /\ Jobs \in Nat /\ number \in Nat /\ number >= 1 /\ number <= Jobs
      /\ \A j \in results : j \in 1..Jobs /\ j < number
      /\ ~Readable(integrity)
      /\ Len(jobs) = number /\ jobs[number] = status
  BY <1>1, StudyBounds DEF StudyInv, StudyProgress
<1>3. StudyTypeOK'
  BY <1>1, <1>2 DEF StudyInv, StudyTypeOK, AtJob
<1>4. StudyProgress'
  <2>1. \A j \in results' : j \in 1..Len(jobs) /\ jobs[j] = "passed" /\ j <= number
    BY <1>1, <1>2 DEF StudyInv, StudyProgress
  <2> QED
    BY <1>1, <1>2, <2>1 DEF StudyInv, StudyProgress, Preparing, AtJob, Analyzed
<1>5. BundleInv'
  <2>1. CASE pc' = "ended"
    BY <2>1 DEF BundleInv
  <2>2. CASE pc' # "ended"
    <3>1. \A j \in results' : Readable(Result(j))
      BY <1>1, <2>2 DEF StudyInv, BundleInv
    <3>2. \A j \in 1..Jobs : j < number + 1 => Request(j) = "request"
      BY <1>1, <1>2 DEF StudyInv, BundleInv
    <3>3. number' = number + 1 /\ pc' \in {"request", "analyze"} /\ disk' = disk
      BY <1>1, <2>2
    <3> QED
      BY <3>1, <3>2, <3>3 DEF BundleInv, Analyzed, Result, Request, Readable
  <2> QED
    BY <2>1, <2>2
<1>6. SealInv'
  BY <1>1, <1>2 DEF SealInv, Readable
<1> QED
  BY <1>3, <1>4, <1>5, <1>6, Zenon DEF StudyInv

\* The hashes of the files are written.
LEMMA StudySeal == StudyInv /\ Study!Seal => StudyInv'
<1> SUFFICES ASSUME StudyInv, Study!Seal PROVE StudyInv'
  OBVIOUS
<1>1. /\ pc = "seal" /\ sealed' = disk
      /\ UNCHANGED <<disk, job, number, status, jobs, results>>
      /\ \/ pc' = "ended"
         \/ pc' = "verify" /\ integrity' = Study!Sealed /\ ManifestNow.status = "complete"
      /\ integrity' \in {Study!Sealed, integrity, Torn}
  <2>1. PICK s \in Study!SaveJson(integrity, Study!Sealed) :
          /\ integrity' = s.content
          /\ IF s.ok THEN UNCHANGED errors ELSE Study!MayFail
          /\ IF s.ok /\ ManifestNow.status = "complete"
             THEN pc' = "verify" /\ UNCHANGED code ELSE Study!Ends(2)
    BY Zenon DEF Study!Seal, ManifestNow
  <2>2. /\ pc = "seal" /\ sealed' = disk
        /\ UNCHANGED <<disk, job, number, status, jobs, results>>
    BY Zenon DEF Study!Seal, Study!process, Study!progress
  <2>3. /\ s.content \in {integrity, Study!Sealed, Torn} /\ s.ok \in BOOLEAN
        /\ s.ok = TRUE => s.content = Study!Sealed
    BY <2>1, SavedContent, Zenon DEF Study!SaveJson, SaveJson
  <2> QED
    BY <2>1, <2>2, <2>3 DEF Study!Ends
<1>2. /\ ~Readable(integrity) /\ Len(jobs) = Jobs /\ job = "none" /\ Analysis = results
      /\ ManifestNow = Study!ManifestOf(Study!FinalStatus)
      /\ disk = [name \in Study!Name |-> disk[name]]
  BY <1>1, StudyBounds DEF StudyInv, StudyTypeOK, StudyProgress, BundleInv, Analyzed
<1>3. StudyTypeOK'
  BY <1>1 DEF StudyInv, StudyTypeOK, Analyzed
<1>4. StudyProgress'
  BY <1>1 DEF StudyInv, StudyProgress, Preparing, AtJob, Analyzed
<1>5. BundleInv'
  <2>1. CASE pc' = "ended"
    BY <2>1 DEF BundleInv
  <2>2. CASE pc' = "verify" /\ integrity' = Study!Sealed /\ ManifestNow.status = "complete"
    <3>1. results = 1..Jobs
      <4>1. Study!ManifestOf(Study!FinalStatus).status = Study!FinalStatus
        BY DEF Study!ManifestOf
      <4>2. Study!FinalStatus = "complete"
        BY <1>2, <2>2, <4>1, Zenon
      <4>3. "incomplete" # "complete"
        OBVIOUS
      <4> QED
        BY <4>2, <4>3, Zenon DEF Study!FinalStatus
    <3>2. Study!Sealed' = Study!Sealed
      BY <1>1 DEF Study!Sealed, Study!Files
    <3>3. Study!ManifestOf(Study!FinalStatus)' = Study!ManifestOf(Study!FinalStatus)
      BY <1>1 DEF Study!ManifestOf, Study!FinalStatus
    <3>4. BundleInv
      BY DEF StudyInv
    <3> QED
      BY <1>1, <1>2, <2>2, <3>1, <3>2, <3>3, <3>4
         DEF BundleInv, Analyzed, Result, Request, Analysis, ManifestNow, Readable
  <2> QED
    BY <1>1, <2>1, <2>2
<1>6. SealInv'
  <2> SUFFICES ASSUME Readable(integrity)' PROVE SealInv'
    BY DEF SealInv
  <2>1. integrity' = Study!Sealed
    BY <1>1, <1>2 DEF Readable
  <2>2. Study!Sealed = [name \in {n \in Study!Name : Exists(disk[n])} |-> disk[name]]
    BY DEF Study!Sealed, Study!Files, Study!Exists, Exists
  <2>3. Study!ManifestOf(Study!FinalStatus)' = Study!ManifestOf(Study!FinalStatus)
    BY <1>1 DEF Study!ManifestOf, Study!FinalStatus
  <2> QED
    BY <1>1, <1>2, <2>1, <2>2, <2>3 DEF SealInv, Analysis, ManifestNow
<1> QED
  BY <1>3, <1>4, <1>5, <1>6, Zenon DEF StudyInv

\* The study verifies its own bundle and ends, it is killed, or a file is edited afterwards.
LEMMA StudyEnds ==
  StudyInv /\ (Study!VerifyOwn \/ Study!Kill \/ \E name \in Study!Name : Study!Edit(name)) => StudyInv'
<1> SUFFICES ASSUME StudyInv,
                    Study!VerifyOwn \/ Study!Kill \/ \E name \in Study!Name : Study!Edit(name)
    PROVE  StudyInv'
  OBVIOUS
<1>1. /\ pc' = "ended"
      /\ UNCHANGED <<integrity, job, number, status, jobs, results, sealed>>
      /\ \/ disk' = disk
         \/ \E name, content : disk' = [disk EXCEPT ![name] = content]
  BY Zenon DEF Study!VerifyOwn, Study!Kill, Study!Edit, Study!Ends, Study!process, Study!progress
<1>2. StudyTypeOK'
  <2>1. disk = [name \in Study!Name |-> disk[name]]
    BY DEF StudyInv, StudyTypeOK
  <2>2. disk' = [name \in Study!Name |-> disk'[name]]
    BY <1>1, <2>1
  <2> QED
    BY <1>1, <2>2 DEF StudyInv, StudyTypeOK
<1>3. StudyProgress'
  BY <1>1 DEF StudyInv, StudyProgress, Preparing, AtJob, Analyzed
<1>4. BundleInv'
  BY <1>1 DEF BundleInv
<1>5. SealInv'
  <2>1. Study!ManifestOf(Study!FinalStatus)' = Study!ManifestOf(Study!FinalStatus)
    BY <1>1 DEF Study!ManifestOf, Study!FinalStatus
  <2> QED
    BY <1>1, <2>1 DEF StudyInv, SealInv, Readable
<1> QED
  BY <1>2, <1>3, <1>4, <1>5, Zenon DEF StudyInv

\* Nothing is on disk before the study.
LEMMA StudyInit == Init => StudyKept
<1> SUFFICES ASSUME Init, command = "study" PROVE StudyInv
  BY DEF StudyKept
<1>1. Study!Init
  BY DEF Init
<1>2. StudyTypeOK
  BY <1>1 DEF Study!Init, StudyTypeOK, Preparing
<1>3. StudyProgress
  BY <1>1 DEF Study!Init, StudyProgress, Preparing, AtJob, Analyzed
<1>4. BundleInv
  BY <1>1 DEF Study!Init, BundleInv, Analyzed
<1>5. SealInv
  BY <1>1 DEF Study!Init, SealInv, Readable
<1> QED
  BY <1>2, <1>3, <1>4, <1>5 DEF StudyInv

\* Only a step of the study disturbs what is known of the study.
LEMMA StudyStep == StudyKept /\ [Next]_vars => StudyKept'
<1> SUFFICES ASSUME StudyKept, [Next]_vars, command' = "study" PROVE StudyInv'
  BY DEF StudyKept
<1>1. CASE UNCHANGED vars
  <2>1. StudyInv
    BY <1>1 DEF vars, StudyKept
  <2> QED
    <3>1. UNCHANGED <<disk, integrity, pc, number, job, status, jobs, results, sealed>>
      BY <1>1, Zenon DEF vars, ofStudy
    <3>2. StudyTypeOK' /\ StudyProgress'
      BY <2>1, <3>1 DEF StudyInv, StudyTypeOK, StudyProgress
    <3>3. /\ Study!ManifestOf(Study!FinalStatus)' = Study!ManifestOf(Study!FinalStatus)
          /\ Study!Sealed' = Study!Sealed
      BY <3>1 DEF Study!ManifestOf, Study!FinalStatus, Study!Sealed, Study!Files
    <3>4. BundleInv'
      BY <2>1, <3>1, <3>3 DEF StudyInv, BundleInv, Result, Request, Analysis, ManifestNow, Readable
    <3>5. SealInv'
      BY <2>1, <3>1, <3>3 DEF StudyInv, SealInv, Readable
    <3> QED
      BY <3>2, <3>4, <3>5, Zenon DEF StudyInv
<1>2. CASE InStudy /\ Study!Next
  <2>1. StudyInv
    BY <1>2 DEF InStudy, StudyKept
  <2>2. CASE Study!StudySteps
    BY <2>1, <2>2, StudySaveConfiguration, StudyTakeSnapshot, StudySaveRunning,
       StudySaveRequest, StudySpawn, StudyWaited, StudyRecord, StudyCount, StudyAnalyze,
       StudyReport, StudySaveFinal, StudySeal, StudyEnds, Zenon DEF Study!StudySteps
  <2>3. CASE Study!Job
    BY <2>1, <2>3, StudyJobSteps, Zenon
  <2>4. CASE Study!Kill \/ \E name \in Study!Name : Study!Edit(name)
    BY <2>1, <2>4, StudyEnds, Zenon
  <2> QED
    BY <1>2, <2>2, <2>3, <2>4, Zenon DEF Study!Next
<1>3. CASE \/ InStep /\ Step!Next
           \/ InCampaign /\ Validate!Next
           \/ InRun /\ Run!Next
           \/ InBench /\ Bench!Next
  <2>1. command = "study"
    BY <1>3 DEF InStep, InCampaign, InRun, InBench
  <2> QED
    BY <1>3, <2>1 DEF InStep, InCampaign, InRun, InBench
<1> QED
  BY <1>1, <1>2, <1>3, Zenon DEF Next

\* seal() and verify() of research.py: a study that says complete passes its
\* own verification, and a bundle that is accepted was sealed by a study all
\* of whose jobs passed and nobody has touched it since.
THEOREM AcceptedMeansComplete ==
  ASSUME Mark(Absent), Mark(Torn)
  PROVE  Spec => []StudyIsVerified
<1>1. Init => StudyKept
  BY StudyInit
<1>2. StudyKept /\ [Next]_vars => StudyKept'
  BY StudyStep
<1>3. StudyKept => StudyIsVerified
  <2> SUFFICES ASSUME StudyInv
      PROVE  Study!CompleteVerifies /\ Study!VerifiedMeansRan
    BY DEF StudyKept, StudyIsVerified
  <2>d. disk = [name \in Study!Name |-> disk[name]]
    BY DEF StudyInv, StudyTypeOK
  <2>j. jobs \in Seq(JobStatus) /\ Jobs \in Nat
    BY StudyAssumption DEF StudyInv, StudyTypeOK
  <2>1. Study!CompleteVerifies
    <3> SUFFICES ASSUME pc = "verify" PROVE Study!Verify
      BY DEF Study!CompleteVerifies
    <3>1. /\ results = 1..Jobs /\ integrity = Study!Sealed
          /\ \A j \in results : Readable(Result(j))
          /\ \A j \in 1..Jobs : j < number => Request(j) = "request"
          /\ ManifestNow = Study!ManifestOf(Study!FinalStatus)
      BY DEF StudyInv, BundleInv, Analyzed
    <3>2. /\ number = Jobs + 1 /\ Len(jobs) = Jobs
          /\ \A j \in results : j \in 1..Jobs
      BY DEF StudyInv, StudyProgress, Analyzed
    <3>3. results = 1..Jobs
      BY <3>1
    <3>4. DOMAIN jobs = 1..Jobs
      BY <2>j, <3>2
    <3>5. Readable(integrity)
      <4>1. Study!Sealed = [i \in DOMAIN Study!Sealed |-> Study!Sealed[i]]
        BY DEF Study!Sealed
      <4> QED
        BY <3>1, <4>1, Zenon DEF Readable, Mark
    <3>6. /\ DOMAIN integrity = Study!Files
          /\ \A name \in DOMAIN integrity : disk[name] = integrity[name]
      BY <3>1 DEF Study!Sealed
    <3>7. /\ Readable(ManifestNow) /\ ManifestNow.status = "complete" /\ ManifestNow.jobs = jobs
      <4>1. ManifestNow = [status |-> "complete", jobs |-> jobs]
        BY <3>1 DEF Study!ManifestOf, Study!FinalStatus
      <4>2. ManifestNow = [i \in DOMAIN ManifestNow |-> ManifestNow[i]]
        BY <4>1
      <4>3. Readable(ManifestNow)
        BY <4>2, Zenon DEF Readable, Mark
      <4> QED
        BY <4>1, <4>3
    <3>8. \A j \in 1..Jobs :
            <<"result", j>> \in DOMAIN integrity /\ Readable(Result(j)) /\ Readable(Request(j))
      <4> SUFFICES ASSUME NEW j \in 1..Jobs
          PROVE <<"result", j>> \in DOMAIN integrity /\ Readable(Result(j)) /\ Readable(Request(j))
        OBVIOUS
      <4>1. Readable(Result(j)) /\ Request(j) = "request"
        BY <2>j, <3>1, <3>2, <3>3
      <4>2. <<"result", j>> \in Study!Files
        BY <4>1 DEF Study!Files, Study!Exists, Study!Name, Readable, Result
      <4> QED
        BY <3>6, <4>1, <4>2, Zenon DEF Readable, Mark
    <3> QED
      BY <3>4, <3>5, <3>6, <3>7, <3>8, Zenon
         DEF Study!Verify, ManifestNow, Result, Request, Study!Readable, Readable
  <2>2. Study!VerifiedMeansRan
    <3> SUFFICES ASSUME Study!Verify
        PROVE  /\ disk = sealed
               /\ Len(jobs) = Jobs /\ \A j \in 1..Jobs : jobs[j] = "passed"
               /\ disk[<<"analysis", 0>>] = 1..Jobs
      BY DEF Study!VerifiedMeansRan
    <3>1. /\ Readable(integrity) /\ DOMAIN integrity = Study!Files
          /\ \A name \in DOMAIN integrity : disk[name] = integrity[name]
          /\ ManifestNow.status = "complete"
      BY Zenon DEF Study!Verify, ManifestNow, Study!Readable, Readable
    <3>2. /\ Len(jobs) = Jobs
          /\ sealed = [name \in Study!Name |-> sealed[name]]
          /\ integrity = [name \in {n \in Study!Name : Exists(sealed[n])} |-> sealed[name]]
          /\ sealed[<<"analysis", 0>>] = results
          /\ sealed[<<"manifest", 0>>] = Study!ManifestOf(Study!FinalStatus)
      BY <3>1 DEF StudyInv, SealInv
    <3>3. \A n \in Study!Name : disk[n] = sealed[n]
      <4> SUFFICES ASSUME NEW n \in Study!Name PROVE disk[n] = sealed[n]
        OBVIOUS
      <4>1. n \in DOMAIN integrity <=> disk[n] # Absent
        BY <3>1 DEF Study!Files, Study!Exists
      <4>2. n \in DOMAIN integrity <=> sealed[n] # Absent
        BY <3>2 DEF Exists
      <4>3. n \in DOMAIN integrity => integrity[n] = sealed[n]
        BY <3>2
      <4> QED
        BY <3>1, <4>1, <4>2, <4>3
    <3>4. disk = sealed
      BY <2>d, <3>2, <3>3
    <3>5. results = 1..Jobs
      <4>1. Study!ManifestOf(Study!FinalStatus).status = Study!FinalStatus
        BY DEF Study!ManifestOf
      <4>2. Study!FinalStatus = "complete"
        BY <3>1, <3>2, <3>4, <4>1, Zenon DEF ManifestNow
      <4>3. "incomplete" # "complete"
        OBVIOUS
      <4> QED
        BY <4>2, <4>3, Zenon DEF Study!FinalStatus
    <3>6. \A j \in results : j \in 1..Jobs /\ jobs[j] = "passed"
      BY <3>2 DEF StudyInv, StudyProgress
    <3> QED
      BY <3>2, <3>4, <3>5, <3>6, Zenon
  <2> QED
    BY <2>1, <2>2
<1> QED
  BY <1>1, <1>2, <1>3, PTL DEF Spec

-----------------------------------------------------------------------------
(***************************************************************************)
(* The evidence of a run.                                                  *)
(***************************************************************************)
Starting   == {"mkdir", "scenario", "manifest", "open"}
Reducing   == {"reduce", "reduction"}
Reporting  == {"result", "final", "exit"}
EventOf    == [index : Nat, error : BOOLEAN]
ResultOf   == [status : Run!Conclusive \cup {"none"}, error : BOOLEAN,
               reason : {"none", "incomplete", "exhausted"}]
File       == {"scenario", "manifest", "reduced", "reduction", "result"}

RunTypeOK ==
  /\ disk = [name \in File |-> disk[name]]
  /\ concurrent \in BOOLEAN /\ reduce \in BOOLEAN
  /\ pc \in Starting \cup {"evaluate", "close"} \cup Reducing \cup Reporting \cup {"ended"}
  /\ history \in Seq(EventOf)
  /\ file \in [open : BOOLEAN, lines : Nat, torn : BOOLEAN]
  /\ result \in ResultOf

\* Every event that was observed is in the history file.
Flushed == file.open = TRUE /\ file.torn = FALSE /\ file.lines = Len(history)

\* How far the runner has come.
RunProgress ==
  /\ file.lines <= Len(history)
  /\ file.torn = TRUE => file.lines < Len(history)
  /\ pc \in Starting => history = << >> /\ file.open = FALSE /\ result = Run!NoResult
  /\ pc \in {"evaluate", "close"} => file.open = TRUE
  /\ pc = "evaluate" =>
       \/ result = Run!NoResult
       \/ concurrent = TRUE /\ result.status = "inconclusive" /\ result.error = TRUE
  /\ pc \in {"close"} \cup Reducing \cup Reporting => result.status \in Run!Conclusive
  /\ pc \in Reducing \cup Reporting => Flushed

\* What the history holds, and what the result says of it.
VerdictInv ==
  /\ \A i, j \in DOMAIN history : history[i].index = history[j].index => i = j
  /\ concurrent = FALSE => \A i \in DOMAIN history : history[i].index = i - 1
  /\ result.status \in {"pass", "fail"} => result.error = FALSE /\ result.reason = "none"
  /\ result.status = "inconclusive" /\ result.error = FALSE => result.reason # "none"
  /\ result.status = "pass" => Len(history) = Operations
  /\ /\ concurrent = TRUE /\ result.error = FALSE
     /\ result.status \in Run!Conclusive /\ result.reason # "incomplete"
     => Run!CompleteCapture

\* Once a manifest with a final status is on disk, so is everything it stands for.
Finished ==
  /\ disk.manifest = Run!FinalManifest /\ pc \in {"exit", "ended"}
  /\ disk.result = result /\ result.status \in Run!Conclusive /\ Flushed

\* What is in the directory.
DirectoryInv ==
  /\ pc \notin {"mkdir", "scenario", "ended"} => disk.scenario = "scenario"
  /\ pc # "ended" => disk.reduction \in {Absent, "reduction"}
  /\ Readable(disk.result) => disk.result = result /\ pc \in {"final", "exit", "ended"}
  /\ pc \in {"final", "exit"} => disk.result = result
  /\ Readable(disk.manifest) =>
       disk.manifest = [status |-> "running", observed |-> 0] \/ Finished
  /\ pc = "exit" => Finished

Class == {"CONTRACT_PASS", "CONTRACT_MISMATCH", "INCONCLUSIVE", "HARNESS_FAILURE"}

\* What the demo has counted.
DemoInv ==
  /\ demo = [at |-> demo.at, runs |-> demo.runs, truth |-> demo.truth, status |-> demo.status]
  /\ demo.at \notin {"none", "wait"} => pc = "ended"
  /\ demo.at = "report" => code \in {0, 1, 2} /\ disk.result = result
  /\ demo.runs \in Seq(Class) /\ demo.truth \in Seq(Run!Conclusive \cup {"none"})
  /\ Len(demo.runs) = Len(demo.truth)
  /\ \A i \in DOMAIN demo.runs :
       Run!Observed(demo.runs[i]) => demo.runs[i] = Run!Classification(demo.truth[i])
  /\ demo.status = "COMPLETE" =>
       /\ demo.at = "done" /\ Len(demo.runs) = Repeats
       /\ \A i \in DOMAIN demo.runs : Run!Observed(demo.runs[i])

RunInv == RunTypeOK /\ RunProgress /\ VerdictInv /\ DirectoryInv /\ DemoInv

RunKept == command = "run" => RunInv

\* One file of the directory is written.
LEMMA RunFileWritten ==
  ASSUME RunTypeOK, NEW name \in File, NEW c, disk' = [disk EXCEPT ![name] = c]
  PROVE  /\ disk' = [f \in File |-> disk'[f]]
         /\ name = "scenario" => disk'.scenario = c
         /\ name # "scenario" => disk'.scenario = disk.scenario
         /\ name = "manifest" => disk'.manifest = c
         /\ name # "manifest" => disk'.manifest = disk.manifest
         /\ name = "result" => disk'.result = c
         /\ name # "result" => disk'.result = disk.result
         /\ name = "reduction" => disk'.reduction = c
         /\ name # "reduction" => disk'.reduction = disk.reduction
<1>1. disk = [f \in File |-> disk[f]]
  BY DEF RunTypeOK
<1> QED
  BY <1>1 DEF File

\* A save outside every try writes its file and goes on, or ends the run.
LEMMA RunSave ==
  ASSUME NEW name, NEW content, NEW next, Run!Save(name, content, next)
  PROVE  \E c : /\ disk' = [disk EXCEPT ![name] = c]
                /\ c \in {disk[name], content, Torn}
                /\ \/ c = content /\ pc' = next
                   \/ pc' = "ended"
<1>1. PICK s \in Run!SaveJson(disk[name], content) :
        /\ disk' = [disk EXCEPT ![name] = s.content]
        /\ IF s.ok THEN pc' = next /\ UNCHANGED <<code, errors>>
                   ELSE Run!MayFail /\ \E exit \in {Run!Traceback, Run!Killed} : Run!Ends(exit)
  BY Zenon DEF Run!Save
<1>2. s.content \in {disk[name], content, Torn} /\ (s.ok = TRUE => s.content = content)
  BY <1>1, SavedContent, Zenon DEF Run!SaveJson, SaveJson
<1>3. s.ok \in BOOLEAN
  BY <1>1, SavedContent, Zenon DEF Run!SaveJson, SaveJson
<1> QED
  BY <1>1, <1>2, <1>3 DEF Run!Ends

\* The demo waits while the runner is at work.
LEMMA DemoStands ==
  ASSUME DemoInv, pc # "ended", demo' = demo
  PROVE  DemoInv'
<1>1. demo.at \in {"none", "wait"}
  BY DEF DemoInv
<1> QED
  BY <1>1 DEF DemoInv

\* The verdict is about the history and the result alone.
LEMMA VerdictStands ==
  ASSUME VerdictInv, UNCHANGED <<concurrent, history, result>>
  PROVE  VerdictInv'
BY DEF VerdictInv, Run!CompleteCapture, Run!Done

\* Before the final manifest a manifest that can be read says running.
LEMMA StillRunning ==
  ASSUME DirectoryInv, pc \notin {"exit", "ended"}, Readable(disk.manifest)
  PROVE  disk.manifest = [status |-> "running", observed |-> 0]
BY DEF DirectoryInv, Finished

\* The scenario.
LEMMA RunSaveScenario == RunInv /\ Run!SaveScenario => RunInv'
<1> SUFFICES ASSUME RunInv, Run!SaveScenario PROVE RunInv'
  OBVIOUS
<1> DEFINE content == "scenario"
<1>1. /\ pc \in {"scenario"} /\ Run!Save("scenario", content, "manifest")
      /\ UNCHANGED <<demo, concurrent, reduce, history, file, result>>
  BY Zenon DEF Run!SaveScenario, Run!invocation, Run!capture
<1>2. PICK c : /\ disk' = [disk EXCEPT !["scenario"] = c]
               /\ c \in {disk["scenario"], content, Torn}
               /\ \/ c = content /\ pc' = "manifest"
                  \/ pc' = "ended"
  BY <1>1, RunSave, Zenon
<1>c. content = "scenario"
  OBVIOUS
<1> HIDE DEF content
<1>3. RunTypeOK /\ "scenario" \in File
  BY DEF RunInv, File
<1>4. /\ disk' = [f \in File |-> disk'[f]]
      /\ disk'.scenario = c /\ disk'.manifest = disk.manifest
      /\ disk'.result = disk.result /\ disk'.reduction = disk.reduction
  BY <1>2, <1>3, RunFileWritten
<1>5. pc # "ended" /\ (pc # "exit" /\ Readable(disk.manifest) =>
                         disk.manifest = [status |-> "running", observed |-> 0])
  BY <1>1, StillRunning, Zenon DEF RunInv
<1>6. RunTypeOK'
  BY <1>1, <1>2, <1>4 DEF RunInv, RunTypeOK, Starting, Reducing, Reporting
<1>7. RunProgress'
  BY <1>1, <1>2 DEF RunInv, RunProgress, Starting, Reducing, Reporting, Flushed
<1>8. VerdictInv'
  BY <1>1, VerdictStands DEF RunInv
<1>9. DirectoryInv'
  BY <1>1, <1>2, <1>c, <1>4, <1>5 DEF RunInv, DirectoryInv, Finished, Flushed, Readable
<1>10. DemoInv'
  BY <1>1, <1>5, DemoStands DEF RunInv
<1> QED
  BY <1>6, <1>7, <1>8, <1>9, <1>10, Zenon DEF RunInv

\* The manifest says that the run is running.
LEMMA RunSaveRunning == RunInv /\ Run!SaveRunning => RunInv'
<1> SUFFICES ASSUME RunInv, Run!SaveRunning PROVE RunInv'
  OBVIOUS
<1> DEFINE content == [status |-> "running", observed |-> 0]
<1>1. /\ pc \in {"manifest"} /\ Run!Save("manifest", content, "open")
      /\ UNCHANGED <<demo, concurrent, reduce, history, file, result>>
  BY Zenon DEF Run!SaveRunning, Run!invocation, Run!capture
<1>2. PICK c : /\ disk' = [disk EXCEPT !["manifest"] = c]
               /\ c \in {disk["manifest"], content, Torn}
               /\ \/ c = content /\ pc' = "open"
                  \/ pc' = "ended"
  BY <1>1, RunSave, Zenon
<1>c. content = [status |-> "running", observed |-> 0]
  OBVIOUS
<1> HIDE DEF content
<1>3. RunTypeOK /\ "manifest" \in File
  BY DEF RunInv, File
<1>4. /\ disk' = [f \in File |-> disk'[f]]
      /\ disk'.scenario = disk.scenario /\ disk'.manifest = c
      /\ disk'.result = disk.result /\ disk'.reduction = disk.reduction
  BY <1>2, <1>3, RunFileWritten
<1>5. pc # "ended" /\ (pc # "exit" /\ Readable(disk.manifest) =>
                         disk.manifest = [status |-> "running", observed |-> 0])
  BY <1>1, StillRunning, Zenon DEF RunInv
<1>6. RunTypeOK'
  BY <1>1, <1>2, <1>4 DEF RunInv, RunTypeOK, Starting, Reducing, Reporting
<1>7. RunProgress'
  BY <1>1, <1>2 DEF RunInv, RunProgress, Starting, Reducing, Reporting, Flushed
<1>8. VerdictInv'
  BY <1>1, VerdictStands DEF RunInv
<1>9. DirectoryInv'
  BY <1>1, <1>2, <1>c, <1>4, <1>5 DEF RunInv, DirectoryInv, Finished, Flushed, Readable
<1>10. DemoInv'
  BY <1>1, <1>5, DemoStands DEF RunInv
<1> QED
  BY <1>6, <1>7, <1>8, <1>9, <1>10, Zenon DEF RunInv

\* The reduced scenario.
LEMMA RunSaveReduced == RunInv /\ Run!SaveReduced => RunInv'
<1> SUFFICES ASSUME RunInv, Run!SaveReduced PROVE RunInv'
  OBVIOUS
<1> DEFINE content == "reduced"
<1>1. /\ pc \in {"reduce"} /\ Run!Save("reduced", content, "reduction")
      /\ UNCHANGED <<demo, concurrent, reduce, history, file, result>>
  BY Zenon DEF Run!SaveReduced, Run!invocation, Run!capture
<1>2. PICK c : /\ disk' = [disk EXCEPT !["reduced"] = c]
               /\ c \in {disk["reduced"], content, Torn}
               /\ \/ c = content /\ pc' = "reduction"
                  \/ pc' = "ended"
  BY <1>1, RunSave, Zenon
<1>c. content = "reduced"
  OBVIOUS
<1> HIDE DEF content
<1>3. RunTypeOK /\ "reduced" \in File
  BY DEF RunInv, File
<1>4. /\ disk' = [f \in File |-> disk'[f]]
      /\ disk'.scenario = disk.scenario /\ disk'.manifest = disk.manifest
      /\ disk'.result = disk.result /\ disk'.reduction = disk.reduction
  BY <1>2, <1>3, RunFileWritten
<1>5. pc # "ended" /\ (pc # "exit" /\ Readable(disk.manifest) =>
                         disk.manifest = [status |-> "running", observed |-> 0])
  BY <1>1, StillRunning, Zenon DEF RunInv
<1>6. RunTypeOK'
  BY <1>1, <1>2, <1>4 DEF RunInv, RunTypeOK, Starting, Reducing, Reporting
<1>7. RunProgress'
  BY <1>1, <1>2 DEF RunInv, RunProgress, Starting, Reducing, Reporting, Flushed
<1>8. VerdictInv'
  BY <1>1, VerdictStands DEF RunInv
<1>9. DirectoryInv'
  BY <1>1, <1>2, <1>c, <1>4, <1>5 DEF RunInv, DirectoryInv, Finished, Flushed, Readable
<1>10. DemoInv'
  BY <1>1, <1>5, DemoStands DEF RunInv
<1> QED
  BY <1>6, <1>7, <1>8, <1>9, <1>10, Zenon DEF RunInv

\* How it was reduced.
LEMMA RunSaveReduction == RunInv /\ Run!SaveReduction => RunInv'
<1> SUFFICES ASSUME RunInv, Run!SaveReduction PROVE RunInv'
  OBVIOUS
<1> DEFINE content == "reduction"
<1>1. /\ pc \in {"reduce", "reduction"} /\ Run!Save("reduction", content, "result")
      /\ UNCHANGED <<demo, concurrent, reduce, history, file, result>>
  BY Zenon DEF Run!SaveReduction, Run!invocation, Run!capture
<1>2. PICK c : /\ disk' = [disk EXCEPT !["reduction"] = c]
               /\ c \in {disk["reduction"], content, Torn}
               /\ \/ c = content /\ pc' = "result"
                  \/ pc' = "ended"
  BY <1>1, RunSave, Zenon
<1>c. content = "reduction"
  OBVIOUS
<1> HIDE DEF content
<1>3. RunTypeOK /\ "reduction" \in File
  BY DEF RunInv, File
<1>4. /\ disk' = [f \in File |-> disk'[f]]
      /\ disk'.scenario = disk.scenario /\ disk'.manifest = disk.manifest
      /\ disk'.result = disk.result /\ disk'.reduction = c
  BY <1>2, <1>3, RunFileWritten
<1>5. pc # "ended" /\ (pc # "exit" /\ Readable(disk.manifest) =>
                         disk.manifest = [status |-> "running", observed |-> 0])
  BY <1>1, StillRunning, Zenon DEF RunInv
<1>6. RunTypeOK'
  BY <1>1, <1>2, <1>4 DEF RunInv, RunTypeOK, Starting, Reducing, Reporting
<1>7. RunProgress'
  BY <1>1, <1>2 DEF RunInv, RunProgress, Starting, Reducing, Reporting, Flushed
<1>8. VerdictInv'
  BY <1>1, VerdictStands DEF RunInv
<1>9. DirectoryInv'
  BY <1>1, <1>2, <1>c, <1>4, <1>5 DEF RunInv, DirectoryInv, Finished, Flushed, Readable
<1>10. DemoInv'
  BY <1>1, <1>5, DemoStands DEF RunInv
<1> QED
  BY <1>6, <1>7, <1>8, <1>9, <1>10, Zenon DEF RunInv

\* The result that was evaluated.
LEMMA RunSaveResult == RunInv /\ Run!SaveResult => RunInv'
<1> SUFFICES ASSUME RunInv, Run!SaveResult PROVE RunInv'
  OBVIOUS
<1> DEFINE content == result
<1>1. /\ pc \in {"result"} /\ Run!Save("result", content, "final")
      /\ UNCHANGED <<demo, concurrent, reduce, history, file, result>>
  BY Zenon DEF Run!SaveResult, Run!invocation, Run!capture
<1>2. PICK c : /\ disk' = [disk EXCEPT !["result"] = c]
               /\ c \in {disk["result"], content, Torn}
               /\ \/ c = content /\ pc' = "final"
                  \/ pc' = "ended"
  BY <1>1, RunSave, Zenon
<1>c. content = result
  OBVIOUS
<1> HIDE DEF content
<1>3. RunTypeOK /\ "result" \in File
  BY DEF RunInv, File
<1>4. /\ disk' = [f \in File |-> disk'[f]]
      /\ disk'.scenario = disk.scenario /\ disk'.manifest = disk.manifest
      /\ disk'.result = c /\ disk'.reduction = disk.reduction
  BY <1>2, <1>3, RunFileWritten
<1>5. pc # "ended" /\ (pc # "exit" /\ Readable(disk.manifest) =>
                         disk.manifest = [status |-> "running", observed |-> 0])
  BY <1>1, StillRunning, Zenon DEF RunInv
<1>6. RunTypeOK'
  BY <1>1, <1>2, <1>4 DEF RunInv, RunTypeOK, Starting, Reducing, Reporting
<1>7. RunProgress'
  BY <1>1, <1>2 DEF RunInv, RunProgress, Starting, Reducing, Reporting, Flushed
<1>8. VerdictInv'
  BY <1>1, VerdictStands DEF RunInv
<1>9. DirectoryInv'
  BY <1>1, <1>2, <1>c, <1>4, <1>5 DEF RunInv, DirectoryInv, Finished, Flushed, Readable
<1>10. DemoInv'
  BY <1>1, <1>5, DemoStands DEF RunInv
<1> QED
  BY <1>6, <1>7, <1>8, <1>9, <1>10, Zenon DEF RunInv

\* The final manifest, after everything it stands for.
LEMMA RunSaveFinal == RunInv /\ Run!SaveFinal => RunInv'
<1> SUFFICES ASSUME RunInv, Run!SaveFinal PROVE RunInv'
  OBVIOUS
<1> DEFINE content == Run!FinalManifest
<1>1. /\ pc \in {"final"} /\ Run!Save("manifest", content, "exit")
      /\ UNCHANGED <<demo, concurrent, reduce, history, file, result>>
  BY Zenon DEF Run!SaveFinal, Run!invocation, Run!capture
<1>2. PICK c : /\ disk' = [disk EXCEPT !["manifest"] = c]
               /\ c \in {disk["manifest"], content, Torn}
               /\ \/ c = content /\ pc' = "exit"
                  \/ pc' = "ended"
  BY <1>1, RunSave, Zenon
<1>c. content = Run!FinalManifest
  OBVIOUS
<1> HIDE DEF content
<1>3. RunTypeOK /\ "manifest" \in File
  BY DEF RunInv, File
<1>4. /\ disk' = [f \in File |-> disk'[f]]
      /\ disk'.scenario = disk.scenario /\ disk'.manifest = c
      /\ disk'.result = disk.result /\ disk'.reduction = disk.reduction
  BY <1>2, <1>3, RunFileWritten
<1>5. pc # "ended" /\ (pc # "exit" /\ Readable(disk.manifest) =>
                         disk.manifest = [status |-> "running", observed |-> 0])
  BY <1>1, StillRunning, Zenon DEF RunInv
<1>6. RunTypeOK'
  BY <1>1, <1>2, <1>4 DEF RunInv, RunTypeOK, Starting, Reducing, Reporting
<1>7. RunProgress'
  BY <1>1, <1>2 DEF RunInv, RunProgress, Starting, Reducing, Reporting, Flushed
<1>8. VerdictInv'
  BY <1>1, VerdictStands DEF RunInv
<1>9. DirectoryInv'
  BY <1>1, <1>2, <1>c, <1>4, <1>5 DEF RunInv, DirectoryInv, Finished, Flushed, Readable, RunProgress, Run!FinalManifest, Reporting
<1>10. DemoInv'
  BY <1>1, <1>5, DemoStands DEF RunInv
<1> QED
  BY <1>6, <1>7, <1>8, <1>9, <1>10, Zenon DEF RunInv

\* A directory is made, or the arguments are refused.
LEMMA RunMakeDirectory == RunInv /\ Run!MakeDirectory => RunInv'
<1> SUFFICES ASSUME RunInv, Run!MakeDirectory PROVE RunInv'
  OBVIOUS
<1>1. /\ pc = "mkdir" /\ pc' \in {"scenario", "ended"}
      /\ UNCHANGED <<demo, concurrent, reduce, disk, history, file, result>>
  BY DEF Run!MakeDirectory, Run!Ends, Run!invocation, Run!capture
<1>2. RunTypeOK'
  BY <1>1 DEF RunInv, RunTypeOK, Starting
<1>3. RunProgress'
  BY <1>1 DEF RunInv, RunProgress, Starting, Reducing, Reporting
<1>4. VerdictInv'
  BY <1>1, VerdictStands DEF RunInv
<1>5. DirectoryInv'
  BY <1>1 DEF RunInv, DirectoryInv, Finished, Readable
<1>6. DemoInv'
  BY <1>1, DemoStands DEF RunInv
<1> QED
  BY <1>2, <1>3, <1>4, <1>5, <1>6, Zenon DEF RunInv

\* The history file is opened, empty.
LEMMA RunOpenHistory == RunInv /\ Run!OpenHistory => RunInv'
<1> SUFFICES ASSUME RunInv, Run!OpenHistory PROVE RunInv'
  OBVIOUS
<1>1. /\ pc = "open" /\ UNCHANGED <<demo, concurrent, reduce, disk, history, result>>
      /\ \/ pc' = "evaluate" /\ file' = [file EXCEPT !.open = TRUE]
         \/ pc' = "ended" /\ file' = file
  BY DEF Run!OpenHistory, Run!Ends, Run!invocation
<1>2. RunTypeOK'
  BY <1>1 DEF RunInv, RunTypeOK, Starting
<1>3. RunProgress'
  <2>1. /\ file \in [open : BOOLEAN, lines : Nat, torn : BOOLEAN]
        /\ file.lines <= Len(history)
        /\ file.torn = TRUE => file.lines < Len(history)
        /\ result = Run!NoResult
    BY <1>1 DEF RunInv, RunTypeOK, RunProgress, Starting
  <2>2. /\ file'.lines = file.lines /\ file'.torn = file.torn
        /\ pc' = "evaluate" => file'.open = TRUE
    BY <1>1, <2>1
  <2>3. result' = Run!NoResult' /\ history' = history
    BY <1>1, <2>1 DEF Run!NoResult
  <2> QED
    BY <1>1, <2>1, <2>2, <2>3 DEF RunProgress, Starting, Reducing, Reporting
<1>4. VerdictInv'
  BY <1>1, VerdictStands DEF RunInv
<1>5. DirectoryInv'
  BY <1>1 DEF RunInv, DirectoryInv, Finished, Readable
<1>6. DemoInv'
  BY <1>1, DemoStands DEF RunInv
<1> QED
  BY <1>2, <1>3, <1>4, <1>5, <1>6, Zenon DEF RunInv

\* While the capture runs, nothing final can be read.
LEMMA DirectoryStands ==
  ASSUME DirectoryInv, pc \in {"evaluate", "close"}, disk' = disk,
         pc' \in {"evaluate", "close", "reduce", "result", "ended"}
  PROVE  DirectoryInv'
<1>1. /\ disk.scenario = "scenario" /\ disk.reduction \in {Absent, "reduction"}
      /\ ~Readable(disk.result)
      /\ Readable(disk.manifest) => disk.manifest = [status |-> "running", observed |-> 0]
  BY DEF DirectoryInv, Finished
<1> QED
  BY <1>1 DEF DirectoryInv, Readable

\* A verdict without an event: the device or the watchdog interrupts the capture.
LEMMA RunRaise == RunInv /\ Run!Raise => RunInv'
<1> SUFFICES ASSUME RunInv, Run!Raise PROVE RunInv'
  OBVIOUS
<1>1. /\ pc = "evaluate" /\ pc' = "close" /\ result' = Run!Verdict("inconclusive", TRUE, "none")
      /\ UNCHANGED <<demo, concurrent, reduce, disk, history, file>>
  BY DEF Run!Raise, Run!invocation, Run!capture
<1>r. /\ result' \in ResultOf
      /\ result'.status = "inconclusive" /\ result'.error = TRUE
  BY <1>1 DEF Run!Verdict, Run!Conclusive, ResultOf
<1>2. RunTypeOK'
  BY <1>1, <1>r DEF RunInv, RunTypeOK, Run!Conclusive
<1>3. RunProgress'
  BY <1>1, <1>r DEF RunInv, RunProgress, Starting, Reducing, Reporting, Run!Conclusive
<1>4. VerdictInv'
  BY <1>1, <1>r DEF RunInv, VerdictInv
<1>5. DirectoryInv'
  BY <1>1, DirectoryStands DEF RunInv
<1>6. DemoInv'
  BY <1>1, DemoStands DEF RunInv
<1> QED
  BY <1>2, <1>3, <1>4, <1>5, <1>6, Zenon DEF RunInv

\* What a flush may leave of the lines: all of them, or, if it fails, some.
LEMMA FlushWrites ==
  ASSUME RunTypeOK, file.open = TRUE, Run!Flush \/ Run!PartialFlush, history' \in Seq(EventOf),
         RunProgress, Len(history') >= Len(history)
  PROVE  /\ file' \in [open : BOOLEAN, lines : Nat, torn : BOOLEAN]
         /\ file'.open = TRUE /\ file'.lines <= Len(history')
         /\ file'.torn = TRUE => file'.lines < Len(history')
<1>0. Len(history') \in Nat
  OBVIOUS
<1>1. file \in [open : BOOLEAN, lines : Nat, torn : BOOLEAN] /\ Len(history') \in Nat
  BY <1>0 DEF RunTypeOK
<1>2. CASE Run!Flush
  <2>1. file' = [open |-> TRUE, lines |-> Len(history'), torn |-> FALSE]
    BY <1>1, <1>2 DEF Run!Flush
  <2> QED
    BY <1>1, <2>1
<1>3. CASE Run!PartialFlush
  <2>1. PICK k \in file.lines..Len(history'), torn \in BOOLEAN :
          /\ torn => k < Len(history')
          /\ file' = [file EXCEPT !.lines = k, !.torn = torn]
    BY <1>3, Zenon DEF Run!PartialFlush
  <2>2. file'.lines = k /\ file'.torn = torn /\ file'.open = TRUE
    BY <1>1, <2>1
  <2>3. k \in Nat /\ k <= Len(history')
    BY <1>1, <2>1
  <2>4. file' = [open |-> TRUE, lines |-> k, torn |-> torn]
    BY <1>1, <2>1
  <2>5. torn = TRUE => k < Len(history')
    BY <2>1, Zenon
  <2> QED
    BY <2>2, <2>3, <2>4, <2>5
<1> QED
  BY <1>2, <1>3

\* The file is closed; with nothing left to flush nothing can go wrong.
LEMMA RunCloseHistory == RunInv /\ Run!CloseHistory => RunInv'
<1> SUFFICES ASSUME RunInv, Run!CloseHistory PROVE RunInv'
  OBVIOUS
<1>1. /\ pc = "close" /\ UNCHANGED <<demo, concurrent, reduce, disk, history, result>>
      /\ \/ Run!Flush /\ pc' \in {"reduce", "result"}
         \/ Run!PartialFlush /\ pc' = "ended"
  BY DEF Run!CloseHistory, Run!Ends, Run!invocation
<1>2. /\ file \in [open : BOOLEAN, lines : Nat, torn : BOOLEAN] /\ history \in Seq(EventOf)
      /\ file.open = TRUE /\ result.status \in Run!Conclusive
      /\ RunTypeOK /\ RunProgress
  BY <1>1 DEF RunInv, RunTypeOK, RunProgress
<1>3. Len(history) \in Nat /\ Len(history') = Len(history) /\ history' \in Seq(EventOf)
  BY <1>1, <1>2
<1>4. /\ file' \in [open : BOOLEAN, lines : Nat, torn : BOOLEAN]
      /\ file'.open = TRUE /\ file'.lines <= Len(history')
      /\ file'.torn = TRUE => file'.lines < Len(history')
  <2>1. Len(history') >= Len(history)
    BY <1>3
  <2> QED
    BY <1>1, <1>2, <1>3, <2>1, FlushWrites, Zenon
<1>5. pc' # "ended" => Flushed'
  BY <1>1, <1>2, <1>3 DEF Run!Flush, Flushed
<1>6. RunTypeOK'
  BY <1>1, <1>4 DEF RunInv, RunTypeOK, Reducing, Reporting
<1>7. RunProgress'
  BY <1>1, <1>2, <1>4, <1>5 DEF RunProgress, Starting, Reducing, Reporting
<1>8. VerdictInv'
  BY <1>1, VerdictStands DEF RunInv
<1>9. DirectoryInv'
  BY <1>1, DirectoryStands DEF RunInv
<1>10. DemoInv'
  BY <1>1, DemoStands DEF RunInv
<1> QED
  BY <1>6, <1>7, <1>8, <1>9, <1>10, Zenon DEF RunInv

\* The runner returns, or is killed.
LEMMA RunEnds == RunInv /\ (Run!Exit \/ Run!Kill) => RunInv'
<1> SUFFICES ASSUME RunInv, Run!Exit \/ Run!Kill PROVE RunInv'
  OBVIOUS
<1>1. /\ pc # "ended" /\ pc' = "ended"
      /\ UNCHANGED <<demo, concurrent, reduce, disk, history, file, result>>
  BY DEF Run!Exit, Run!Kill, Run!Ends, Run!invocation, Run!capture
<1>2. RunTypeOK'
  BY <1>1 DEF RunInv, RunTypeOK
<1>3. RunProgress'
  BY <1>1 DEF RunInv, RunProgress, Starting, Reducing, Reporting
<1>4. VerdictInv'
  BY <1>1, VerdictStands DEF RunInv
<1>5. DirectoryInv'
  <2>1. Run!FinalManifest' = Run!FinalManifest
    BY <1>1 DEF Run!FinalManifest
  <2> QED
    BY <1>1, <2>1 DEF RunInv, DirectoryInv, Finished, Flushed, Readable
<1>6. DemoInv'
  BY <1>1, DemoStands DEF RunInv
<1> QED
  BY <1>2, <1>3, <1>4, <1>5, <1>6, Zenon DEF RunInv

\* What the verdicts say.
LEMMA Verdicts ==
  /\ \A v : v = Run!Verdict("pass", FALSE, "none") =>
       v \in ResultOf /\ v.status = "pass" /\ v.error = FALSE /\ v.reason = "none"
  /\ \A v : v = Run!Verdict("fail", FALSE, "none") =>
       v \in ResultOf /\ v.status = "fail" /\ v.error = FALSE /\ v.reason = "none"
  /\ \A v : v = Run!Verdict("inconclusive", TRUE, "none") =>
       v \in ResultOf /\ v.status = "inconclusive" /\ v.error = TRUE /\ v.reason = "none"
  /\ \A v : v = Run!Verdict("inconclusive", FALSE, "incomplete") =>
       v \in ResultOf /\ v.status = "inconclusive" /\ v.error = FALSE /\ v.reason = "incomplete"
  /\ \A v : v = Run!Verdict("inconclusive", FALSE, "exhausted") =>
       v \in ResultOf /\ v.status = "inconclusive" /\ v.error = FALSE /\ v.reason = "exhausted"
  /\ \A v : v = Run!NoResult => v \in ResultOf /\ v.status = "none" /\ v.error = FALSE
<1>1. \A v : v = Run!Verdict("pass", FALSE, "none") =>
        v \in ResultOf /\ v.status = "pass" /\ v.error = FALSE /\ v.reason = "none"
  BY DEF Run!Verdict, Run!Conclusive, ResultOf
<1>2. \A v : v = Run!Verdict("fail", FALSE, "none") =>
        v \in ResultOf /\ v.status = "fail" /\ v.error = FALSE /\ v.reason = "none"
  BY DEF Run!Verdict, Run!Conclusive, ResultOf
<1>3. \A v : v = Run!Verdict("inconclusive", TRUE, "none") =>
        v \in ResultOf /\ v.status = "inconclusive" /\ v.error = TRUE /\ v.reason = "none"
  BY DEF Run!Verdict, Run!Conclusive, ResultOf
<1>4. \A v : v = Run!Verdict("inconclusive", FALSE, "incomplete") =>
        v \in ResultOf /\ v.status = "inconclusive" /\ v.error = FALSE /\ v.reason = "incomplete"
  BY DEF Run!Verdict, Run!Conclusive, ResultOf
<1>5. \A v : v = Run!Verdict("inconclusive", FALSE, "exhausted") =>
        v \in ResultOf /\ v.status = "inconclusive" /\ v.error = FALSE /\ v.reason = "exhausted"
  BY DEF Run!Verdict, Run!Conclusive, ResultOf
<1>6. \A v : v = Run!NoResult => v \in ResultOf /\ v.status = "none" /\ v.error = FALSE
  BY DEF Run!NoResult, ResultOf
<1> QED
  BY <1>1, <1>2, <1>3, <1>4, <1>5, <1>6, Zenon

\* Another event with an index of its own.
LEMMA EventAdded ==
  ASSUME history \in Seq(EventOf), NEW e \in EventOf, history' = Append(history, e),
         \A k \in DOMAIN history : history[k].index # e.index,
         \A i, j \in DOMAIN history : history[i].index = history[j].index => i = j
  PROVE  /\ history' \in Seq(EventOf) /\ Len(history) \in Nat /\ Len(history') = Len(history) + 1
         /\ \A i, j \in DOMAIN history' : history'[i].index = history'[j].index => i = j
         /\ DOMAIN history' = 1..(Len(history) + 1) /\ DOMAIN history = 1..Len(history)
         /\ \A k \in DOMAIN history : history'[k] = history[k]
         /\ history'[Len(history) + 1] = e
<1>1. /\ history' \in Seq(EventOf) /\ Len(history) \in Nat /\ Len(history') = Len(history) + 1
      /\ DOMAIN history' = 1..(Len(history) + 1) /\ DOMAIN history = 1..Len(history)
      /\ \A k \in 1..Len(history) : history'[k] = history[k]
      /\ history'[Len(history) + 1] = e
  OBVIOUS
<1>2. \A i, j \in DOMAIN history' : history'[i].index = history'[j].index => i = j
  <2> SUFFICES ASSUME NEW i \in 1..(Len(history) + 1), NEW j \in 1..(Len(history) + 1),
                      history'[i].index = history'[j].index
      PROVE  i = j
    BY <1>1
  <2>1. (i \in DOMAIN history \/ i = Len(history) + 1) /\ (j \in DOMAIN history \/ j = Len(history) + 1)
    BY <1>1
  <2>2. \A k \in DOMAIN history : history'[k].index = history[k].index /\ history[k].index # e.index
    BY <1>1
  <2> QED
    BY <1>1, <2>1, <2>2, Zenon
<1> QED
  BY <1>1, <1>2

\* One operation of a sequential run.
LEMMA RunSequential ==
  ASSUME NEW mismatch \in BOOLEAN, RunInv, Run!Sequential(mismatch)
  PROVE  RunInv'
<1>1. /\ pc = "evaluate" /\ UNCHANGED <<demo, concurrent, reduce, disk>>
      /\ Len(history) < Operations
      /\ history' = Append(history, Run!Event(Len(history), FALSE))
      /\ Run!Flush \/ Run!PartialFlush
      /\ \/ pc' = "close" /\ result' = Run!Verdict("fail", FALSE, "none")
         \/ pc' = "close" /\ result' = Run!Verdict("inconclusive", TRUE, "none")
         \/ pc' = pc /\ result' = result
  BY DEF Run!Sequential, Run!invocation
<1>c. concurrent = FALSE
  <2>1. concurrent \in BOOLEAN /\ ~concurrent
    BY Zenon DEF RunInv, RunTypeOK, Run!Sequential
  <2> QED
    BY <2>1, Zenon
<1>2. /\ history \in Seq(EventOf) /\ file.open = TRUE /\ RunTypeOK /\ RunProgress
      /\ result = Run!NoResult
      /\ \A k \in DOMAIN history : history[k].index = k - 1
      /\ \A i, j \in DOMAIN history : history[i].index = history[j].index => i = j
  BY <1>1, <1>c DEF RunInv, RunTypeOK, RunProgress, VerdictInv
<1> DEFINE e == Run!Event(Len(history), FALSE)
<1>3. e \in EventOf /\ e.index = Len(history)
  BY <1>2 DEF EventOf, Run!Event
<1>4. \A k \in DOMAIN history : history[k].index # e.index
  <2>1. \A k \in DOMAIN history : k \in Nat /\ k <= Len(history)
    BY <1>2
  <2> HIDE DEF e
  <2> QED
    BY <1>2, <1>3, <2>1
<1>5. history' = Append(history, e)
  BY <1>1
<1> HIDE DEF e
<1>6. /\ history' \in Seq(EventOf) /\ Len(history) \in Nat /\ Len(history') = Len(history) + 1
      /\ \A i, j \in DOMAIN history' : history'[i].index = history'[j].index => i = j
      /\ DOMAIN history' = 1..(Len(history) + 1) /\ DOMAIN history = 1..Len(history)
      /\ \A k \in DOMAIN history : history'[k] = history[k]
      /\ history'[Len(history) + 1] = e
  BY <1>2, <1>3, <1>4, <1>5, EventAdded, Zenon
<1>7. /\ file' \in [open : BOOLEAN, lines : Nat, torn : BOOLEAN]
      /\ file'.open = TRUE /\ file'.lines <= Len(history')
      /\ file'.torn = TRUE => file'.lines < Len(history')
  <2>1. Len(history') >= Len(history)
    BY <1>6
  <2> QED
    BY <1>1, <1>2, <1>6, <2>1, FlushWrites, Zenon
<1>8. /\ result' \in ResultOf
      /\ \/ pc' = "close" /\ result'.status = "fail" /\ result'.error = FALSE /\ result'.reason = "none"
         \/ pc' = "close" /\ result'.status = "inconclusive" /\ result'.error = TRUE
         \/ pc' = pc /\ result' = Run!NoResult /\ result'.status = "none"
  <2>1. {"fail", "inconclusive"} \subseteq Run!Conclusive
    BY DEF Run!Conclusive
  <2> QED
    BY <1>1, <1>2, <2>1, Verdicts, Zenon
<1>9. RunTypeOK'
  BY <1>1, <1>6, <1>7, <1>8 DEF RunInv, RunTypeOK
<1>10. RunProgress'
  BY <1>1, <1>7, <1>8 DEF RunProgress, Starting, Reducing, Reporting, Run!Conclusive, Run!NoResult
<1>11. VerdictInv'
  <2>1. \A k \in DOMAIN history' : history'[k].index = k - 1
    BY <1>2, <1>3, <1>6
  <2> QED
    BY <1>1, <1>c, <1>6, <1>8, <2>1 DEF VerdictInv
<1>12. DirectoryInv'
  BY <1>1, DirectoryStands DEF RunInv
<1>13. DemoInv'
  BY <1>1, DemoStands DEF RunInv
<1> QED
  BY <1>9, <1>10, <1>11, <1>12, <1>13, Zenon DEF RunInv

\* A worker records an event, or fails to.
LEMMA RunConcurrent ==
  ASSUME NEW worker, NEW error \in BOOLEAN, RunInv, Run!Concurrent(worker, error)
  PROVE  RunInv'
<1>1. PICK i \in Run!NextOf(worker) : history' = Append(history, Run!Event(i, error))
  BY Zenon DEF Run!Concurrent
<1>2. /\ pc = "evaluate" /\ pc' = pc /\ UNCHANGED <<demo, concurrent, reduce, disk>>
      /\ Run!Flush \/ Run!PartialFlush
      /\ result' = result \/ result' = Run!Verdict("inconclusive", TRUE, "none")
  BY DEF Run!Concurrent, Run!invocation
<1>c. concurrent = TRUE
  <2>1. concurrent \in BOOLEAN /\ concurrent
    BY Zenon DEF RunInv, RunTypeOK, Run!Concurrent
  <2> QED
    BY <2>1, Zenon
<1>3. /\ history \in Seq(EventOf) /\ file.open = TRUE /\ RunTypeOK /\ RunProgress
      /\ result = Run!NoResult \/ (result.status = "inconclusive" /\ result.error = TRUE)
      /\ \A k, l \in DOMAIN history : history[k].index = history[l].index => k = l
  BY <1>2 DEF RunInv, RunTypeOK, RunProgress, VerdictInv
<1> DEFINE e == Run!Event(i, error)
<1>4. i \in Nat /\ i \notin Run!Done
  BY <1>1, EvidenceAssumption DEF Run!NextOf, Run!Indexes
<1>5. e \in EventOf /\ e.index = i
  BY <1>4 DEF EventOf, Run!Event
<1>6. \A k \in DOMAIN history : history[k].index # e.index
  BY <1>4, <1>5, Zenon DEF Run!Done
<1>7. history' = Append(history, e)
  BY <1>1
<1> HIDE DEF e
<1>8. /\ history' \in Seq(EventOf) /\ Len(history) \in Nat /\ Len(history') = Len(history) + 1
      /\ \A k, l \in DOMAIN history' : history'[k].index = history'[l].index => k = l
      /\ DOMAIN history' = 1..(Len(history) + 1) /\ DOMAIN history = 1..Len(history)
      /\ \A k \in DOMAIN history : history'[k] = history[k]
      /\ history'[Len(history) + 1] = e
  BY <1>3, <1>5, <1>6, <1>7, EventAdded, Zenon
<1>9. /\ file' \in [open : BOOLEAN, lines : Nat, torn : BOOLEAN]
      /\ file'.open = TRUE /\ file'.lines <= Len(history')
      /\ file'.torn = TRUE => file'.lines < Len(history')
  <2>1. Len(history') >= Len(history)
    BY <1>8
  <2> QED
    BY <1>2, <1>3, <1>8, <2>1, FlushWrites, Zenon
<1>10. /\ result' \in ResultOf
       /\ \/ result' = Run!NoResult /\ result'.status = "none"
          \/ result'.status = "inconclusive" /\ result'.error = TRUE
  <2>1. "inconclusive" \in Run!Conclusive /\ result \in ResultOf
    BY <1>3 DEF Run!Conclusive, RunTypeOK
  <2> QED
    BY <1>2, <1>3, <2>1, Verdicts, Zenon
<1>11. RunTypeOK'
  BY <1>2, <1>8, <1>9, <1>10 DEF RunInv, RunTypeOK
<1>12. RunProgress'
  BY <1>2, <1>c, <1>9, <1>10 DEF RunProgress, Starting, Reducing, Reporting, Run!NoResult
<1>13. VerdictInv'
  BY <1>2, <1>c, <1>8, <1>10 DEF VerdictInv, Run!Conclusive
<1>14. DirectoryInv'
  BY <1>2, DirectoryStands DEF RunInv
<1>15. DemoInv'
  BY <1>2, DemoStands DEF RunInv
<1> QED
  BY <1>11, <1>12, <1>13, <1>14, <1>15, Zenon DEF RunInv

\* As many events as operations, if every operation has left exactly one.
LEMMA EveryIndexOnce ==
  ASSUME NEW h \in Seq(EventOf), NEW n \in Nat \ {0},
         \A i, j \in DOMAIN h : h[i].index = h[j].index => i = j,
         {h[i].index : i \in DOMAIN h} = 0..(n - 1)
  PROVE  Len(h) = n
<1> DEFINE f == [i \in 1..Len(h) |-> h[i].index]
<1>1. Len(h) \in Nat /\ DOMAIN h = 1..Len(h)
  OBVIOUS
<1>2. f \in Bijection(1..Len(h), 0..(n - 1))
  BY <1>1 DEF Bijection, Injection, Surjection, IsInjective
<1>3. ExistsBijection(1..Len(h), 0..(n - 1))
  BY <1>2 DEF ExistsBijection
<1>4. IsFiniteSet(1..Len(h)) /\ Cardinality(1..Len(h)) = Len(h)
  BY <1>1, FS_Interval, SMTT(40)
<1>5. Cardinality(0..(n - 1)) = n
  BY FS_Interval
<1> QED
  BY <1>3, <1>4, <1>5, FS_Bijection

\* The verdict on what was captured.
LEMMA RunJudge == RunInv /\ Run!Judge => RunInv'
<1> SUFFICES ASSUME RunInv, Run!Judge PROVE RunInv'
  OBVIOUS
<1>1. /\ pc = "evaluate" /\ pc' = "close" /\ Run!Evaluated
      /\ UNCHANGED <<demo, concurrent, reduce, disk, history, file>>
      /\ \/ result # Run!NoResult /\ result' = result
         \/ ~concurrent /\ result' = Run!Verdict("pass", FALSE, "none")
         \/ concurrent /\ result' = Run!Verdict("inconclusive", FALSE, "incomplete")
         \/ /\ concurrent /\ Run!CompleteCapture
            /\ result' \in {Run!Verdict("pass", FALSE, "none"), Run!Verdict("fail", FALSE, "none"),
                            Run!Verdict("inconclusive", FALSE, "exhausted")}
  BY DEF Run!Judge, Run!invocation, Run!capture
<1>2. /\ concurrent \in BOOLEAN /\ history \in Seq(EventOf) /\ VerdictInv
      /\ result # Run!NoResult =>
           concurrent = TRUE /\ result.status = "inconclusive" /\ result.error = TRUE
  BY <1>1 DEF RunInv, RunTypeOK, RunProgress
<1>3. concurrent = FALSE => Len(history) = Operations
  BY <1>1 DEF Run!Evaluated
<1>4. Run!CompleteCapture => Len(history) = Operations
  <2> SUFFICES ASSUME Run!CompleteCapture PROVE Len(history) = Operations
    OBVIOUS
  <2>1. {history[i].index : i \in DOMAIN history} = 0..(Operations - 1)
    BY Zenon DEF Run!CompleteCapture, Run!Done, Run!Indexes
  <2>2. \A i, j \in DOMAIN history : history[i].index = history[j].index => i = j
    BY <1>2 DEF VerdictInv
  <2> DEFINE P(h) == Len(h) = Operations
  <2>3. \A h \in Seq(EventOf) :
          /\ \A i, j \in DOMAIN h : h[i].index = h[j].index => i = j
          /\ {h[i].index : i \in DOMAIN h} = 0..(Operations - 1)
          => Len(h) = Operations
    BY EvidenceAssumption, EveryIndexOnce, Zenon
  <2> QED
    BY <1>2, <2>1, <2>2, <2>3, Zenon
<1>5. Run!CompleteCapture' = Run!CompleteCapture
  BY <1>1 DEF Run!CompleteCapture, Run!Done
<1>6. /\ result' \in ResultOf
      /\ \/ result' = result /\ concurrent = TRUE /\ result'.status = "inconclusive" /\ result'.error = TRUE
         \/ /\ concurrent = FALSE /\ result'.status = "pass"
            /\ result'.error = FALSE /\ result'.reason = "none"
         \/ /\ concurrent = TRUE /\ result'.status = "inconclusive"
            /\ result'.error = FALSE /\ result'.reason = "incomplete"
         \/ /\ concurrent = TRUE /\ Run!CompleteCapture /\ result'.status \in {"pass", "fail"}
            /\ result'.error = FALSE /\ result'.reason = "none"
         \/ /\ concurrent = TRUE /\ Run!CompleteCapture /\ result'.status = "inconclusive"
            /\ result'.error = FALSE /\ result'.reason = "exhausted"
  <2>1. {"pass", "fail", "inconclusive"} \subseteq Run!Conclusive /\ result \in ResultOf
    BY DEF Run!Conclusive, RunInv, RunTypeOK
  <2>2. (concurrent => concurrent = TRUE) /\ (~concurrent => concurrent = FALSE)
    BY <1>2, Zenon
  <2>3. CASE result # Run!NoResult /\ result' = result
    BY <1>2, <2>1, <2>3
  <2>4. CASE ~concurrent /\ result' = Run!Verdict("pass", FALSE, "none")
    BY <2>1, <2>2, <2>4, Verdicts, Zenon
  <2>5. CASE concurrent /\ result' = Run!Verdict("inconclusive", FALSE, "incomplete")
    BY <2>1, <2>2, <2>5, Verdicts, Zenon
  <2>6. CASE /\ concurrent /\ Run!CompleteCapture
             /\ result' \in {Run!Verdict("pass", FALSE, "none"), Run!Verdict("fail", FALSE, "none"),
                             Run!Verdict("inconclusive", FALSE, "exhausted")}
    BY <2>1, <2>2, <2>6, Verdicts, Zenon
  <2> QED
    BY <1>1, <2>3, <2>4, <2>5, <2>6, Zenon
<1>8. RunTypeOK'
  BY <1>1, <1>6 DEF RunInv, RunTypeOK
<1>9. RunProgress'
  BY <1>1, <1>6 DEF RunInv, RunProgress, Starting, Reducing, Reporting, Run!Conclusive
<1>10. VerdictInv'
  BY <1>1, <1>2, <1>3, <1>4, <1>5, <1>6 DEF VerdictInv
<1>11. DirectoryInv'
  BY <1>1, DirectoryStands DEF RunInv
<1>12. DemoInv'
  BY <1>1, DemoStands DEF RunInv
<1> QED
  BY <1>8, <1>9, <1>10, <1>11, <1>12, Zenon DEF RunInv

\* After the run the demo counts what it finds: one classification, with the truth beside it.
LEMMA RunCounted ==
  ASSUME RunInv, demo.at \in {"wait", "report"}, pc = "ended", pc' = pc,
         NEW class \in Class, Run!Count(class), UNCHANGED <<code, result>>,
         Run!Observed(class) => class = Run!Classification(result.status)
  PROVE  DemoInv'
<1>1. /\ demo = [at |-> demo.at, runs |-> demo.runs, truth |-> demo.truth, status |-> demo.status]
      /\ demo.runs \in Seq(Class) /\ demo.truth \in Seq(Run!Conclusive \cup {"none"})
      /\ Len(demo.runs) = Len(demo.truth) /\ demo.status # "COMPLETE"
      /\ \A i \in DOMAIN demo.runs :
           Run!Observed(demo.runs[i]) => demo.runs[i] = Run!Classification(demo.truth[i])
      /\ result.status \in Run!Conclusive \cup {"none"}
  BY DEF RunInv, DemoInv, RunTypeOK, ResultOf
<1>2. demo' = [at |-> "next", runs |-> Append(demo.runs, class),
               truth |-> Append(demo.truth, result.status), status |-> demo.status]
  BY <1>1 DEF Run!Count
<1> DEFINE R == Append(demo.runs, class)
           T == Append(demo.truth, result.status)
<1>3. /\ R \in Seq(Class) /\ T \in Seq(Run!Conclusive \cup {"none"})
      /\ Len(R) = Len(demo.runs) + 1 /\ Len(T) = Len(R)
      /\ DOMAIN R = 1..(Len(demo.runs) + 1) /\ DOMAIN demo.runs = 1..Len(demo.runs)
      /\ Len(demo.runs) \in Nat
  BY <1>1
<1>4. /\ \A i \in DOMAIN demo.runs : R[i] = demo.runs[i] /\ T[i] = demo.truth[i]
      /\ R[Len(demo.runs) + 1] = class /\ T[Len(demo.runs) + 1] = result.status
  BY <1>1
<1>5. demo'.at = "next" /\ demo'.runs = R /\ demo'.truth = T /\ demo'.status = demo.status
  BY <1>2
<1>6. demo' = [at |-> demo'.at, runs |-> demo'.runs, truth |-> demo'.truth, status |-> demo'.status]
  BY <1>2, <1>5
<1> HIDE DEF R, T
<1>7. \A i \in DOMAIN R : Run!Observed(R[i]) => R[i] = Run!Classification(T[i])
  <2> SUFFICES ASSUME NEW i \in DOMAIN R, Run!Observed(R[i]) PROVE R[i] = Run!Classification(T[i])
    OBVIOUS
  <2>1. i \in DOMAIN demo.runs \/ i = Len(demo.runs) + 1
    BY <1>3
  <2>2. CASE i \in DOMAIN demo.runs
    BY <1>1, <1>4, <2>2, Zenon
  <2>3. CASE i = Len(demo.runs) + 1
    BY <1>4, <2>3, Zenon
  <2> QED
    BY <2>1, <2>2, <2>3
<1>8. /\ demo'.runs \in Seq(Class) /\ demo'.truth \in Seq(Run!Conclusive \cup {"none"})
      /\ Len(demo'.runs) = Len(demo'.truth)
      /\ \A i \in DOMAIN demo'.runs :
           Run!Observed(demo'.runs[i]) => demo'.runs[i] = Run!Classification(demo'.truth[i])
  BY <1>3, <1>5, <1>7, Zenon
<1>9. pc' = "ended" /\ demo'.at = "next" /\ demo'.status # "COMPLETE"
  BY <1>1, <1>5
<1> QED
  BY <1>6, <1>8, <1>9 DEF DemoInv

\* The demo gives up, and everything else stands.
LEMMA DemoGoesOn ==
  ASSUME DemoInv, NEW at, at \in {"next", "crashed", "report"},
         demo' = [demo EXCEPT !.at = at], demo.status # "COMPLETE",
         pc = "ended", pc' = pc, at = "report" => code' \in {0, 1, 2} /\ disk'.result = result'
  PROVE  DemoInv'
<1>1. /\ demo' = [at |-> at, runs |-> demo.runs, truth |-> demo.truth, status |-> demo.status]
      /\ demo'.at = at /\ demo'.runs = demo.runs /\ demo'.truth = demo.truth
      /\ demo'.status = demo.status
  BY DEF DemoInv
<1>2. demo' = [at |-> demo'.at, runs |-> demo'.runs, truth |-> demo'.truth, status |-> demo'.status]
  BY <1>1
<1>3. demo'.at = "report" => code' \in {0, 1, 2} /\ disk'.result = result'
  BY <1>1, Zenon
<1>4. pc' = "ended" /\ demo'.status # "COMPLETE"
  BY <1>1
<1> QED
  BY <1>1, <1>2, <1>3, <1>4 DEF DemoInv

\* A runner that was killed or left no result is not counted as an observation.
LEMMA RunUncounted == RunInv /\ Run!Uncounted => RunInv'
<1> SUFFICES ASSUME RunInv, Run!Uncounted PROVE RunInv'
  OBVIOUS
<1>1. /\ demo.at = "wait" /\ pc = "ended" /\ Run!Count("HARNESS_FAILURE")
      /\ UNCHANGED <<concurrent, reduce, pc, code, disk, history, file, result>>
  BY Zenon DEF Run!Uncounted, Run!invocation, Run!capture
<1>2. "HARNESS_FAILURE" \in Class /\ ~Run!Observed("HARNESS_FAILURE")
  BY DEF Class, Run!Observed
<1>3. DemoInv'
  BY <1>1, <1>2, RunCounted, Zenon
<1>4. RunTypeOK'
  BY <1>1 DEF RunInv, RunTypeOK
<1>5. RunProgress'
  BY <1>1 DEF RunInv, RunProgress, Flushed, Starting, Reducing, Reporting
<1>6. VerdictInv'
  BY <1>1, VerdictStands DEF RunInv
<1>7. DirectoryInv'
  <2>1. Run!FinalManifest' = Run!FinalManifest
    BY <1>1 DEF Run!FinalManifest
  <2> QED
    BY <1>1, <2>1 DEF RunInv, DirectoryInv, Finished, Flushed, Readable
<1> QED
  BY <1>3, <1>4, <1>5, <1>6, <1>7, Zenon DEF RunInv

\* The manifest is written again, or the demo gives up.
LEMMA RunCollect == RunInv /\ Run!Collect => RunInv'
<1> SUFFICES ASSUME RunInv, Run!Collect PROVE RunInv'
  OBVIOUS
<1>1. /\ demo.at = "wait" /\ pc = "ended" /\ ~Run!Harness
      /\ UNCHANGED <<concurrent, reduce, pc, code, history, file, result>>
  BY Zenon DEF Run!Collect, Run!invocation, Run!capture
<1>2. \/ Run!Crashes /\ disk' = disk
      \/ /\ Readable(disk.result)
         /\ \E c : /\ c \in {disk.manifest, Torn}
                   /\ disk' = [disk EXCEPT !["manifest"] = c]
                   /\ demo' = [demo EXCEPT !.at = "report"] \/ Run!Crashes
  <2>1. CASE ~Run!Readable(disk.result) \/ ~Run!Readable(disk.manifest)
    BY <2>1, Zenon DEF Run!Collect
  <2>2. CASE Run!Readable(disk.result) /\ Run!Readable(disk.manifest)
    <3>1. PICK s \in Run!SaveJson(disk.manifest, disk.manifest) :
            /\ disk' = [disk EXCEPT !.manifest = s.content]
            /\ IF s.ok THEN demo' = [demo EXCEPT !.at = "report"] /\ UNCHANGED errors
                       ELSE Run!Crashes /\ Run!MayFail
      BY <2>2, Zenon DEF Run!Collect
    <3>2. s.content \in {disk.manifest, Torn}
      <4>1. s.content \in {disk.manifest, disk.manifest, Torn}
        BY <3>1, SavedContent, Zenon DEF Run!SaveJson, SaveJson
      <4> QED
        BY <4>1
    <3>3. demo' = [demo EXCEPT !.at = "report"] \/ Run!Crashes
      BY <3>1, Zenon
    <3>4. disk' = [disk EXCEPT !["manifest"] = s.content]
      BY <3>1
    <3> QED
      BY <2>2, <3>2, <3>3, <3>4, Zenon DEF Run!Readable, Readable
  <2> QED
    BY <2>1, <2>2, Zenon
<1>3. /\ disk' = [f \in File |-> disk'[f]]
      /\ disk'.manifest \in {disk.manifest, Torn} /\ disk'.result = disk.result
  <2>1. RunTypeOK /\ "manifest" \in File
    BY DEF RunInv, File
  <2>2. CASE disk' = disk
    BY <2>1, <2>2 DEF RunTypeOK
  <2>3. CASE \E c : c \in {disk.manifest, Torn} /\ disk' = [disk EXCEPT !["manifest"] = c]
    BY <2>1, <2>3, RunFileWritten
  <2> QED
    BY <1>2, <2>2, <2>3
<1>4. DemoInv'
  <2>1. DemoInv /\ demo.status # "COMPLETE"
    BY <1>1 DEF RunInv, DemoInv
  <2>2. CASE Run!Crashes
    BY <1>1, <2>1, <2>2, DemoGoesOn DEF Run!Crashes
  <2>3. CASE demo' = [demo EXCEPT !.at = "report"] /\ Readable(disk.result)
    <3>1. code' \in {0, 1, 2} /\ disk'.result = result'
      BY <1>1, <1>3, <2>3 DEF RunInv, DirectoryInv, Run!Harness
    <3> QED
      BY <1>1, <2>1, <2>3, <3>1, DemoGoesOn
  <2> QED
    BY <1>2, <2>2, <2>3, Zenon
<1>5. RunTypeOK'
  BY <1>1, <1>3 DEF RunInv, RunTypeOK
<1>6. RunProgress'
  BY <1>1 DEF RunInv, RunProgress, Flushed, Starting, Reducing, Reporting
<1>7. VerdictInv'
  BY <1>1, VerdictStands DEF RunInv
<1>8. DirectoryInv'
  <2>1. Run!FinalManifest' = Run!FinalManifest
    BY <1>1 DEF Run!FinalManifest
  <2> QED
    BY <1>1, <1>3, <2>1 DEF RunInv, DirectoryInv, Finished, Flushed, Readable
<1> QED
  BY <1>4, <1>5, <1>6, <1>7, <1>8, Zenon DEF RunInv

\* The run is counted with the verdict of its result.
LEMMA RunReport == RunInv /\ Run!Report => RunInv'
<1> SUFFICES ASSUME RunInv, Run!Report PROVE RunInv'
  OBVIOUS
<1>1. PICK c : disk' = [disk EXCEPT !["reduction"] = c]
  BY Zenon DEF Run!Report
<1>2. /\ demo.at = "report"
      /\ UNCHANGED <<concurrent, reduce, pc, code, history, file, result>>
      /\ Run!Count(Run!Classification(disk.result.status)) \/ Run!Crashes
  BY Zenon DEF Run!Report, Run!invocation, Run!capture
<1>3. /\ pc = "ended" /\ disk.result = result /\ DemoInv /\ demo.status # "COMPLETE"
      /\ code \in {0, 1, 2}
  BY <1>2 DEF RunInv, DemoInv
<1>4. /\ disk' = [f \in File |-> disk'[f]]
      /\ disk'.manifest = disk.manifest /\ disk'.result = disk.result
  <2>1. RunTypeOK /\ "reduction" \in File
    BY DEF RunInv, File
  <2> QED
    BY <1>1, <2>1, RunFileWritten
<1>5. DemoInv'
  <2>1. CASE Run!Crashes
    BY <1>2, <1>3, <2>1, DemoGoesOn DEF Run!Crashes
  <2>2. CASE Run!Count(Run!Classification(disk.result.status))
    <3>1. Run!Classification(result.status) \in Class
      BY DEF Run!Classification, Class
    <3>2. Run!Count(Run!Classification(result.status))
      BY <1>3, <2>2
    <3>3. PICK class \in Class : class = Run!Classification(result.status)
      BY <3>1, Zenon
    <3>4. Run!Count(class)
      BY <3>2, <3>3, Zenon DEF Run!Count
    <3> QED
      BY <1>2, <1>3, <3>3, <3>4, RunCounted, Zenon
  <2> QED
    BY <1>2, <2>1, <2>2
<1>6. RunTypeOK'
  BY <1>2, <1>4 DEF RunInv, RunTypeOK
<1>7. RunProgress'
  BY <1>2 DEF RunInv, RunProgress, Flushed, Starting, Reducing, Reporting
<1>8. VerdictInv'
  BY <1>2, VerdictStands DEF RunInv
<1>9. DirectoryInv'
  <2>1. Run!FinalManifest' = Run!FinalManifest
    BY <1>2 DEF Run!FinalManifest
  <2> QED
    BY <1>2, <1>3, <1>4, <2>1 DEF RunInv, DirectoryInv, Finished, Flushed, Readable
<1> QED
  BY <1>5, <1>6, <1>7, <1>8, <1>9, Zenon DEF RunInv

\* A new directory for the next repetition.
LEMMA RunNextRun == RunInv /\ Run!NextRun => RunInv'
<1> SUFFICES ASSUME RunInv, Run!NextRun PROVE RunInv'
  OBVIOUS
<1>1. /\ demo.at = "next" /\ demo' = [demo EXCEPT !.at = "wait"] /\ pc' = "mkdir"
      /\ disk' = Run!NewDirectory /\ history' = << >>
      /\ file' = [open |-> FALSE, lines |-> 0, torn |-> FALSE] /\ result' = Run!NoResult
      /\ UNCHANGED <<concurrent, reduce>>
  BY Zenon DEF Run!NextRun, Run!invocation
<1>2. /\ disk' = [f \in File |-> disk'[f]] /\ disk'.reduction = Absent
      /\ disk'.result = Absent /\ disk'.manifest = Absent
  BY <1>1 DEF Run!NewDirectory, File
<1>3. result' = Run!NoResult' /\ result' \in ResultOf /\ result'.status = "none" /\ result'.error = FALSE
  BY <1>1, Verdicts, Zenon DEF Run!NoResult
<1>4. /\ file' \in [open : BOOLEAN, lines : Nat, torn : BOOLEAN]
      /\ file'.open = FALSE /\ file'.lines = 0 /\ file'.torn = FALSE
      /\ history' = << >> /\ Len(history') = 0 /\ history' \in Seq(EventOf) /\ DOMAIN history' = {}
  BY <1>1
<1>5. RunTypeOK'
  BY <1>1, <1>2, <1>3, <1>4 DEF RunInv, RunTypeOK, Starting
<1>6. RunProgress'
  BY <1>1, <1>3, <1>4 DEF RunProgress, Starting, Reducing, Reporting
<1>7. VerdictInv'
  BY <1>3, <1>4 DEF VerdictInv, Run!Conclusive
<1>8. DirectoryInv'
  BY <1>1, <1>2 DEF DirectoryInv, Readable
<1>9. DemoInv'
  <2>1. DemoInv /\ demo.status # "COMPLETE"
    BY <1>1 DEF RunInv, DemoInv
  <2>2. /\ demo' = [at |-> "wait", runs |-> demo.runs, truth |-> demo.truth, status |-> demo.status]
        /\ demo'.at = "wait" /\ demo'.runs = demo.runs /\ demo'.truth = demo.truth
        /\ demo'.status = demo.status
    BY <1>1, <2>1 DEF DemoInv
  <2> QED
    BY <2>1, <2>2 DEF DemoInv
<1> QED
  BY <1>5, <1>6, <1>7, <1>8, <1>9, Zenon DEF RunInv

\* COMPLETE if every repetition was an observation.
LEMMA RunFinishDemo == RunInv /\ Run!FinishDemo => RunInv'
<1> SUFFICES ASSUME RunInv, Run!FinishDemo PROVE RunInv'
  OBVIOUS
<1> DEFINE all == \A i \in DOMAIN demo.runs : Run!Observed(demo.runs[i])
           final == IF all THEN "COMPLETE" ELSE "INCONCLUSIVE"
<1>1. /\ demo.at = "next" /\ Len(demo.runs) = Repeats
      /\ demo' = [demo EXCEPT !.at = "done", !.status = final]
      /\ UNCHANGED <<concurrent, reduce, pc, code, disk, history, file, result>>
  BY Zenon DEF Run!FinishDemo, Run!invocation, Run!capture
<1>2. final = "COMPLETE" => all
  OBVIOUS
<1> HIDE DEF final
<1>3. DemoInv'
  <2>1. DemoInv /\ pc = "ended"
    BY <1>1 DEF RunInv, DemoInv
  <2>2. /\ demo' = [at |-> "done", runs |-> demo.runs, truth |-> demo.truth, status |-> final]
        /\ demo'.at = "done" /\ demo'.runs = demo.runs /\ demo'.truth = demo.truth
        /\ demo'.status = final
    BY <1>1, <2>1 DEF DemoInv
  <2> QED
    BY <1>1, <1>2, <2>1, <2>2 DEF DemoInv
<1>4. RunTypeOK'
  BY <1>1 DEF RunInv, RunTypeOK
<1>5. RunProgress'
  BY <1>1 DEF RunInv, RunProgress, Flushed, Starting, Reducing, Reporting
<1>6. VerdictInv'
  BY <1>1, VerdictStands DEF RunInv
<1>7. DirectoryInv'
  <2>1. Run!FinalManifest' = Run!FinalManifest
    BY <1>1 DEF Run!FinalManifest
  <2> QED
    BY <1>1, <2>1 DEF RunInv, DirectoryInv, Finished, Flushed, Readable
<1> QED
  BY <1>3, <1>4, <1>5, <1>6, <1>7, Zenon DEF RunInv

\* An empty directory, started by a user or by the demo.
LEMMA RunInit == Init => RunKept
<1> SUFFICES ASSUME Init, command = "run" PROVE RunInv
  BY DEF RunKept
<1>1. Run!Init
  BY DEF Init
<1>2. /\ pc = "mkdir" /\ disk = Run!NewDirectory /\ history = << >> /\ result = Run!NoResult
      /\ file = [open |-> FALSE, lines |-> 0, torn |-> FALSE]
  BY <1>1 DEF Run!Init, Run!Started
<1>3. concurrent \in BOOLEAN /\ reduce \in BOOLEAN
  BY <1>1 DEF Run!Init
<1>4. /\ disk = [f \in File |-> disk[f]] /\ disk.reduction = Absent
      /\ disk.result = Absent /\ disk.manifest = Absent
  BY <1>2 DEF Run!NewDirectory, File
<1>5. result \in ResultOf /\ result.status = "none" /\ result.error = FALSE
  BY <1>2, Verdicts, Zenon
<1>6. /\ file \in [open : BOOLEAN, lines : Nat, torn : BOOLEAN]
      /\ file.open = FALSE /\ file.lines = 0 /\ file.torn = FALSE
      /\ Len(history) = 0 /\ history \in Seq(EventOf) /\ DOMAIN history = {}
  BY <1>2
<1>7. RunTypeOK
  BY <1>2, <1>3, <1>4, <1>5, <1>6 DEF RunTypeOK, Starting
<1>8. RunProgress
  BY <1>2, <1>5, <1>6 DEF RunProgress, Starting, Reducing, Reporting
<1>9. VerdictInv
  BY <1>5, <1>6 DEF VerdictInv, Run!Conclusive
<1>10. DirectoryInv
  BY <1>2, <1>4 DEF DirectoryInv, Readable
<1>11. DemoInv
  <2>1. \/ demo = [at |-> "none", runs |-> << >>, truth |-> << >>, status |-> "none"]
        \/ demo = [at |-> "wait", runs |-> << >>, truth |-> << >>, status |-> "RUNNING"]
    BY <1>1 DEF Run!Init
  <2>2. /\ demo.at \in {"none", "wait"} /\ demo.runs = << >> /\ demo.truth = << >>
        /\ demo.status # "COMPLETE"
        /\ demo = [at |-> demo.at, runs |-> demo.runs, truth |-> demo.truth, status |-> demo.status]
    BY <2>1
  <2> QED
    BY <2>2 DEF DemoInv
<1> QED
  BY <1>7, <1>8, <1>9, <1>10, <1>11, Zenon DEF RunInv

\* Only a step of the runner or of its demo disturbs what is known of the run.
LEMMA RunStep == RunKept /\ [Next]_vars => RunKept'
<1> SUFFICES ASSUME RunKept, [Next]_vars, command' = "run" PROVE RunInv'
  BY DEF RunKept
<1>1. CASE UNCHANGED vars
  <2>1. RunInv
    BY <1>1 DEF vars, RunKept
  <2>2. UNCHANGED <<demo, concurrent, reduce, pc, code, disk, history, file, result>>
    BY <1>1, Zenon DEF vars, ofRun
  <2>3. RunTypeOK' /\ RunProgress'
    BY <2>1, <2>2 DEF RunInv, RunTypeOK, RunProgress, Flushed, Starting, Reducing, Reporting
  <2>4. VerdictInv'
    BY <2>1, <2>2, VerdictStands DEF RunInv
  <2>5. DirectoryInv'
    <3>1. Run!FinalManifest' = Run!FinalManifest
      BY <2>2 DEF Run!FinalManifest
    <3> QED
      BY <2>1, <2>2, <3>1 DEF RunInv, DirectoryInv, Finished, Flushed, Readable
  <2>6. DemoInv'
    BY <2>1, <2>2 DEF RunInv, DemoInv
  <2> QED
    BY <2>3, <2>4, <2>5, <2>6, Zenon DEF RunInv
<1>2. CASE InRun /\ Run!Next
  <2>1. RunInv
    BY <1>2 DEF InRun, RunKept
  <2>2. CASE \/ Run!MakeDirectory \/ Run!SaveScenario \/ Run!SaveRunning \/ Run!OpenHistory
             \/ Run!Raise \/ Run!Judge \/ Run!CloseHistory
    BY <2>1, <2>2, RunMakeDirectory, RunSaveScenario, RunSaveRunning, RunOpenHistory, RunRaise,
       RunJudge, RunCloseHistory, Zenon
  <2>3. CASE \/ Run!SaveReduced \/ Run!SaveReduction \/ Run!SaveResult \/ Run!SaveFinal
             \/ Run!Exit \/ Run!Kill
    BY <2>1, <2>3, RunSaveReduced, RunSaveReduction, RunSaveResult, RunSaveFinal, RunEnds, Zenon
  <2>4. CASE \E mismatch \in BOOLEAN : Run!Sequential(mismatch)
    BY <2>1, <2>4, RunSequential, Zenon
  <2>5. CASE \E worker \in 0..(Workers - 1), error \in BOOLEAN : Run!Concurrent(worker, error)
    BY <2>1, <2>5, RunConcurrent, Zenon
  <2>6. CASE Run!Demo
    BY <2>1, <2>6, RunUncounted, RunCollect, RunReport, RunNextRun, RunFinishDemo, Zenon
       DEF Run!Demo
  <2> QED
    BY <1>2, <2>2, <2>3, <2>4, <2>5, <2>6, Zenon DEF Run!Next, Run!Runner
<1>3. CASE \/ InStep /\ Step!Next
           \/ InCampaign /\ Validate!Next
           \/ InStudy /\ Study!Next
           \/ InBench /\ Bench!Next
  <2>1. command = "run"
    BY <1>3 DEF InStep, InCampaign, InStudy, InBench
  <2> QED
    BY <1>3, <2>1 DEF InStep, InCampaign, InStudy, InBench
<1> QED
  BY <1>1, <1>2, <1>3, Zenon DEF Next

\* A manifest with a final status loads as the run that was evaluated.
LEMMA FinalIsFinished ==
  ASSUME RunInv, Readable(disk.manifest), disk.manifest.status # "running"
  PROVE  /\ Finished /\ disk.manifest.status = result.status
         /\ disk.manifest.observed = Len(history) /\ Run!Lines = history
         /\ disk.result = result /\ pc \in {"exit", "ended"}
<1>1. Finished
  BY DEF RunInv, DirectoryInv
<1>2. disk.manifest.status = result.status /\ disk.manifest.observed = Len(history)
  BY <1>1 DEF Finished, Run!FinalManifest
<1>3. Run!Lines = history
  <2>1. history \in Seq(EventOf) /\ file.lines = Len(history)
    BY <1>1 DEF RunInv, RunTypeOK, Finished, Flushed
  <2>2. SubSeq(history, 1, Len(history)) = history
    BY <2>1
  <2> QED
    BY <2>1, <2>2 DEF Run!Lines
<1> QED
  BY <1>1, <1>2, <1>3, Zenon DEF Finished

\* runner.py, load_run() of report.py, history.py and demo.py: whatever
\* failed or was killed on the way, a directory that loads with a final
\* status, that is judged again or that is counted belongs to a run that
\* came to this verdict, with every event that led to it.
THEOREM ReadersSeeTheTruth ==
  ASSUME Mark(Absent), Mark(Torn), Absent # Torn
  PROVE  Spec => []EvidenceIsTrue
<1>1. Init => RunKept
  BY RunInit
<1>2. RunKept /\ [Next]_vars => RunKept'
  BY RunStep
<1>3. RunKept => EvidenceIsTrue
  <2> SUFFICES ASSUME RunInv
      PROVE  /\ Run!FinalMeansFinished /\ Run!ReturnedLoads /\ Run!RecheckIsEarned
             /\ Run!KilledIsNotCounted /\ Run!CompleteMeansObserved
    BY DEF RunKept, EvidenceIsTrue
  <2>1. Run!FinalMeansFinished
    <3> SUFFICES ASSUME Run!LoadRun, Run!LoadedStatus \in Run!Conclusive
        PROVE  /\ pc \in {"exit", "ended"} /\ Run!LoadedStatus = result.status
               /\ disk.manifest.status = result.status /\ Run!Lines = history
      BY DEF Run!FinalMeansFinished
    <3>1. Readable(disk.manifest) /\ disk.manifest.status # "running"
      BY DEF Run!LoadRun, Run!LoadedStatus, Run!Conclusive, Run!Readable, Readable
    <3> QED
      BY <3>1, FinalIsFinished, Zenon DEF Run!LoadedStatus
  <2>2. Run!ReturnedLoads
    <3> SUFFICES ASSUME pc = "exit" PROVE Run!LoadRun /\ Run!LoadedStatus = result.status
      BY DEF Run!ReturnedLoads
    <3>1. Finished /\ disk.scenario = "scenario" /\ disk.reduction \in {Absent, "reduction"}
      BY DEF RunInv, DirectoryInv
    <3>2. disk.manifest = [status |-> result.status, observed |-> Len(history)]
      BY <3>1 DEF Finished, Run!FinalManifest
    <3>3. Readable(disk.manifest)
      <4>1. disk.manifest = [i \in DOMAIN disk.manifest |-> disk.manifest[i]]
        BY <3>2
      <4> QED
        BY <4>1, Zenon DEF Readable, Mark
    <3>4. Readable(disk.result)
      <4>1. disk.result = result /\ result \in ResultOf
        BY <3>1 DEF Finished, RunInv, RunTypeOK
      <4>2. disk.result = [i \in DOMAIN disk.result |-> disk.result[i]]
        BY <4>1 DEF ResultOf
      <4> QED
        BY <4>2, Zenon DEF Readable, Mark
    <3>5. disk.manifest.status # "running"
      BY <3>1, <3>2 DEF Finished, Run!Conclusive
    <3>6. /\ disk.manifest.status = result.status /\ disk.manifest.observed = Len(history)
          /\ Run!Lines = history /\ disk.result = result
      BY <3>3, <3>5, FinalIsFinished, Zenon
    <3>7. /\ \A i, j \in DOMAIN history : history[i].index = history[j].index => i = j
          /\ result.status = "pass" => Len(history) = Operations
      BY DEF RunInv, VerdictInv
    <3>8. Run!HistoryReads
      BY <3>1 DEF Finished, Flushed, Run!HistoryReads
    <3>9. Readable(disk.scenario) /\ disk.result # Torn /\ disk.reduction # Torn
      BY <3>1, <3>4 DEF Readable, Mark
    <3> QED
      BY <3>3, <3>4, <3>6, <3>7, <3>8, <3>9, Zenon
         DEF Run!LoadRun, Run!LoadedStatus, Run!Readable, Readable
  <2>3. Run!RecheckIsEarned
    <3> SUFFICES ASSUME Run!Recheck = "judged"
        PROVE  /\ ~result.error /\ Run!CompleteCapture /\ Run!Lines = history
               /\ result.reason \in {"none", "exhausted"}
      BY DEF Run!RecheckIsEarned
    <3>1. Readable(disk.manifest) /\ concurrent /\ ~Run!Inconclusive
      BY DEF Run!Recheck, Run!Readable, Readable
    <3>2. /\ disk.manifest.status # "running" /\ ~disk.result.error
          /\ ~(disk.result.status = "inconclusive" /\ disk.result.reason # "exhausted")
      BY <3>1, Zenon DEF Run!Inconclusive
    <3>3. Finished /\ Run!Lines = history /\ disk.result = result
      BY <3>1, <3>2, FinalIsFinished, Zenon
    <3>4. result.status \in Run!Conclusive /\ result.error \in BOOLEAN /\ concurrent \in BOOLEAN
      BY <3>3 DEF Finished, RunInv, RunTypeOK, ResultOf
    <3>5. result.error = FALSE /\ concurrent = TRUE
      BY <3>1, <3>2, <3>3, <3>4, Zenon
    <3>6. result.reason \in {"none", "exhausted"}
      BY <3>2, <3>3, <3>4 DEF RunInv, VerdictInv, Run!Conclusive
    <3>7. Run!CompleteCapture
      BY <3>4, <3>5, <3>6 DEF RunInv, VerdictInv
    <3> QED
      BY <3>2, <3>3, <3>6, <3>7, Zenon
  <2>4. Run!KilledIsNotCounted
    BY DEF RunInv, DemoInv, Run!KilledIsNotCounted, Run!Killed
  <2>5. Run!CompleteMeansObserved
    <3> SUFFICES ASSUME demo.status = "COMPLETE"
        PROVE  /\ Len(demo.truth) = Repeats
               /\ \A i \in DOMAIN demo.truth :
                    /\ demo.truth[i] \in {"pass", "fail"}
                    /\ demo.runs[i] = Run!Classification(demo.truth[i])
      BY DEF Run!CompleteMeansObserved
    <3>1. /\ demo.runs \in Seq(Class) /\ demo.truth \in Seq(Run!Conclusive \cup {"none"})
          /\ Len(demo.runs) = Len(demo.truth) /\ Len(demo.runs) = Repeats
          /\ \A i \in DOMAIN demo.runs :
               /\ Run!Observed(demo.runs[i])
               /\ demo.runs[i] = Run!Classification(demo.truth[i])
      BY DEF RunInv, DemoInv
    <3>2. DOMAIN demo.truth = DOMAIN demo.runs
      <4>1. \A S : \A q \in Seq(S) : DOMAIN q = 1..Len(q)
        OBVIOUS
      <4> QED
        BY <3>1, <4>1, Zenon
    <3>3. \A t : Run!Observed(Run!Classification(t)) => t \in {"pass", "fail"}
      BY DEF Run!Observed, Run!Classification
    <3> QED
      BY <3>1, <3>2, <3>3, Zenon
  <2> QED
    BY <2>1, <2>2, <2>3, <2>4, <2>5
<1> QED
  BY <1>1, <1>2, <1>3, PTL DEF Spec

-----------------------------------------------------------------------------
(***************************************************************************)
(* One step of a campaign.                                                 *)
(***************************************************************************)
InTime     == {"popen", "wait"}
AfterTime  == {"terminate", "grace", "killpg", "reap"}
ExitCodes  == {Step!Term, Step!Kill, Step!NoCode} \cup 0..1
StepResult == [status : {"failed", "passed", "timeout"}, code : ExitCodes]

\* From killpg on the group is empty, and nobody is left who could fork into
\* it: a child is in the group of its parent.
StepInv ==
  /\ proc \in [Process -> {"none", "running", "dead"}]
  /\ group \in [Process -> {"step", "own"}]
  /\ exitCode \in ExitCodes /\ result \in StepResult
  /\ pc \in InTime \cup AfterTime \cup {"returned"}
  /\ pc \in InTime => result.status = "failed"
  /\ pc \in AfterTime => result.status = "timeout"
  /\ pc = "reap" => Step!InGroup = {}
  /\ Step!GroupIsGone

StepKept == command = "step" => StepInv

\* A process that is not in the group now is not in it next, if the step
\* starts none there.
LEMMA GroupShrinks ==
  ASSUME proc \in [Process -> {"none", "running", "dead"}], Step!InGroup = {},
         \/ proc' = proc /\ group' = group
         \/ group' = group /\ \A p \in Process : proc'[p] = "running" => proc[p] = "running"
         \/ proc' = proc /\ \A p \in Process : group'[p] = "step" => group[p] = "step"
  PROVE  Step!InGroup' = {}
BY DEF Step!InGroup, Step!Running

LEMMA StepDies ==
  ASSUME proc \in [Process -> {"none", "running", "dead"}], exitCode \in ExitCodes,
         NEW set, NEW c \in ExitCodes, Step!Dies(set, c)
  PROVE  /\ proc' \in [Process -> {"none", "running", "dead"}] /\ exitCode' \in ExitCodes
         /\ \A p \in Process : proc'[p] = "running" => proc[p] = "running" /\ p \notin set
BY DEF Step!Dies

LEMMA StepOfRunStep == StepInv /\ Step!RunStep => StepInv'
<1> SUFFICES ASSUME StepInv, Step!RunStep PROVE StepInv'
  OBVIOUS
<1> USE DEF InTime, AfterTime
<1>c. {Step!Term, Step!Kill} \subseteq ExitCodes
  BY DEF ExitCodes
<1>1. CASE Step!Popen
  BY <1>1, StepAssumption DEF StepInv, Step!Popen, StepResult, Step!GroupIsGone
<1>2. CASE Step!Waited
  <2>1. /\ pc' = "returned" /\ UNCHANGED <<proc, group, exitCode>>
        /\ result' = [status |-> IF exitCode = 0 THEN "passed" ELSE "failed", code |-> exitCode]
    BY <1>2 DEF Step!Waited
  <2> QED
    BY <2>1 DEF StepInv, StepResult, Step!GroupIsGone
<1>3. CASE Step!TimeoutExpired
  BY <1>3 DEF StepInv, Step!TimeoutExpired, StepResult, Step!GroupIsGone
<1>4. CASE Step!Terminate
  <2>1. /\ pc' = "grace" /\ pc = "terminate" /\ UNCHANGED <<group, result>>
        /\ Step!Dies(Step!InGroup \ deaf, Step!Term)
    BY <1>4 DEF Step!Terminate
  <2>2. proc' \in [Process -> {"none", "running", "dead"}] /\ exitCode' \in ExitCodes
    BY <1>c, <2>1, StepDies DEF StepInv
  <2> QED
    BY <2>1, <2>2 DEF StepInv, Step!GroupIsGone
<1>5. CASE Step!Grace
  <2>1. /\ pc' = "killpg" /\ pc = "grace" /\ UNCHANGED <<group, result>>
        /\ UNCHANGED <<proc, exitCode>> \/ Step!Dies({Leader}, Step!Kill)
    BY <1>5 DEF Step!Grace
  <2>2. proc' \in [Process -> {"none", "running", "dead"}] /\ exitCode' \in ExitCodes
    BY <1>c, <2>1, StepDies DEF StepInv
  <2> QED
    BY <2>1, <2>2 DEF StepInv, Step!GroupIsGone
<1>6. CASE Step!KillGroup
  <2>1. /\ pc' = "reap" /\ pc = "killpg" /\ UNCHANGED <<group, result>>
        /\ Step!Dies(Step!InGroup, Step!Kill)
    BY <1>6 DEF Step!KillGroup
  <2>2. /\ proc' \in [Process -> {"none", "running", "dead"}] /\ exitCode' \in ExitCodes
        /\ \A p \in Process : proc'[p] = "running" => proc[p] = "running" /\ p \notin Step!InGroup
    BY <1>c, <2>1, StepDies DEF StepInv
  <2>3. Step!InGroup' = {}
    BY <2>1, <2>2 DEF Step!InGroup, Step!Running
  <2> QED
    BY <2>1, <2>2, <2>3 DEF StepInv, Step!GroupIsGone
<1>7. CASE Step!Reap
  <2>1. /\ pc' = "returned" /\ pc = "reap" /\ UNCHANGED <<proc, group, exitCode>>
        /\ result' = [result EXCEPT !.code = exitCode]
    BY <1>7 DEF Step!Reap
  <2>2. Step!InGroup' = {}
    BY <2>1 DEF StepInv, Step!InGroup, Step!Running
  <2> QED
    BY <2>1, <2>2 DEF StepInv, StepResult, Step!GroupIsGone
<1> QED
  BY <1>1, <1>2, <1>3, <1>4, <1>5, <1>6, <1>7 DEF Step!RunStep

LEMMA StepOfCommand == StepInv /\ Step!Command => StepInv'
<1> SUFFICES ASSUME StepInv, NEW p \in Process,
                    \/ \E q \in Process : Step!Fork(p, q)
                    \/ Step!Regroup(p)
                    \/ \E c \in 0..1 : Step!Exit(p, c)
             PROVE  StepInv'
  BY DEF Step!Command
<1>0. UNCHANGED <<pc, result>>
  BY DEF Step!Fork, Step!Regroup, Step!Exit
<1>1. /\ proc' \in [Process -> {"none", "running", "dead"}] /\ exitCode' \in ExitCodes
      /\ group' \in [Process -> {"step", "own"}]
      /\ Step!InGroup = {} => Step!InGroup' = {}
  <2>1. CASE \E q \in Process : Step!Fork(p, q)
    <3>1. PICK q \in Process : Step!Fork(p, q)
      BY <2>1
    <3>2. /\ proc[p] = "running" /\ proc' = [proc EXCEPT ![q] = "running"]
          /\ group' = [group EXCEPT ![q] = group[p]] /\ exitCode' = exitCode
      BY <3>1 DEF Step!Fork, Step!Running
    <3>3. Step!InGroup = {} => Step!InGroup' = {}
      BY <3>2 DEF StepInv, Step!InGroup, Step!Running
    <3> QED
      BY <3>2, <3>3 DEF StepInv
  <2>2. CASE Step!Regroup(p)
    <3>1. proc' = proc /\ group' = [group EXCEPT ![p] = "own"] /\ exitCode' = exitCode
      BY <2>2 DEF Step!Regroup
    <3>2. \A q \in Process : group'[q] = "step" => group[q] = "step"
      BY <3>1 DEF StepInv
    <3> QED
      BY <3>1, <3>2, GroupShrinks DEF StepInv
  <2>3. CASE \E c \in 0..1 : Step!Exit(p, c)
    <3>1. PICK c \in 0..1 : Step!Dies({p}, c) /\ group' = group
      BY <2>3 DEF Step!Exit
    <3>2. c \in ExitCodes
      BY DEF ExitCodes
    <3> QED
      BY <3>1, <3>2, StepDies, GroupShrinks DEF StepInv
  <2> QED
    BY <2>1, <2>2, <2>3
<1> QED
  BY <1>0, <1>1 DEF StepInv, Step!GroupIsGone

\* Only a step of run_step or of its command disturbs what is known of them.
LEMMA StepStep == StepKept /\ [Next]_vars => StepKept'
<1> SUFFICES ASSUME StepKept, [Next]_vars, command' = "step" PROVE StepInv'
  BY DEF StepKept
<1>1. CASE UNCHANGED vars
  <2>1. StepInv
    BY <1>1 DEF vars, StepKept
  <2> QED
    BY <1>1, <2>1 DEF vars, ofStep, StepInv, Step!GroupIsGone, Step!InGroup, Step!Running
<1>2. CASE InStep /\ Step!Next
  <2>1. StepInv
    BY <1>2 DEF InStep, StepKept
  <2> QED
    BY <1>2, <2>1, StepOfRunStep, StepOfCommand, Zenon DEF Step!Next
<1>3. CASE \/ InCampaign /\ Validate!Next
           \/ InRun /\ Run!Next
           \/ InStudy /\ Study!Next
           \/ InBench /\ Bench!Next
  <2>1. command = "step"
    BY <1>3 DEF InCampaign, InRun, InStudy, InBench
  <2> QED
    BY <1>3, <2>1 DEF InCampaign, InRun, InStudy, InBench
<1> QED
  BY <1>1, <1>2, <1>3, Zenon DEF Next

LEMMA StepInit == Init => StepKept
<1> SUFFICES ASSUME Init, command = "step" PROVE StepInv
  BY DEF StepKept
<1>1. Step!Init
  BY DEF Init
<1>2. Step!NoCode \in ExitCodes
  BY DEF ExitCodes
<1> QED
  BY <1>1, <1>2 DEF Step!Init, StepInv, StepResult, InTime, AfterTime, Step!GroupIsGone

\* The action half of StepIsContained.
LEMMA StepPasses ==
  StepKept /\ [Next]_vars => [command = "step" => Step!PassedMeansInTime]_result
<1> SUFFICES ASSUME StepKept, [Next]_vars, result' # result, command = "step",
                    result'.status = "passed"
             PROVE  pc = "wait" /\ Leader \notin Step!Running /\ exitCode = 0 /\ result.status # "timeout"
  BY DEF Step!PassedMeansInTime
<1>1. StepInv
  BY DEF StepKept
<1>2. Step!Next
  BY Zenon DEF Next, vars, InCampaign, InRun, InStudy, InBench
<1>3. CASE Step!Waited
  BY <1>1, <1>3 DEF Step!Waited, StepInv, StepResult, InTime
<1>4. CASE Step!TimeoutExpired \/ Step!Reap
  BY <1>1, <1>4 DEF Step!TimeoutExpired, Step!Reap, StepInv, StepResult, AfterTime
<1>5. CASE Step!Popen \/ Step!Terminate \/ Step!Grace \/ Step!KillGroup \/ Step!Command
  BY <1>5, Zenon DEF Step!Popen, Step!Terminate, Step!Grace, Step!KillGroup, Step!Command,
     Step!Fork, Step!Regroup, Step!Exit
<1> QED
  BY <1>2, <1>3, <1>4, <1>5 DEF Step!Next, Step!RunStep

\* run_step() of validate_linux.py, for every set of processes and however
\* they fork, exit, ignore SIGTERM or move to groups of their own: a step
\* that timed out leaves none in its group, and one that passed was in time.
THEOREM StepLeavesNobody == Spec => StepIsContained
<1>1. StepKept => (command = "step" => Step!GroupIsGone)
  BY DEF StepKept, StepInv
<1> QED
  BY <1>1, StepInit, StepStep, StepPasses, PTL DEF Spec, StepIsContained

-----------------------------------------------------------------------------
(***************************************************************************)
(* A benchmark.                                                            *)
(***************************************************************************)
Byte        == [value : Nat, index : Int]
Statistics  == [n : Nat, p50 : Nat, p99 : Nat]
Repetition  == [status : {"complete", "inconclusive"}, measurement : Statistics]
Exchanging  == {"send", "receive"}
BenchPlaces == {"enter", "close", "record", "recorded", "ended"} \cup Exchanging

BenchTypeOK ==
  /\ run \in 1..Repeats /\ pc \in BenchPlaces
  /\ fault \in Bench!Faults /\ queue \in Seq(Byte)
  /\ index \in 0..(Warmup + Iterations) /\ offset \in 0..Size
  /\ data \in Seq(Nat) /\ Len(data) <= Size
  /\ samples \in Seq(Durations)
  /\ Len(samples) = IF index > Warmup THEN index - Warmup ELSE 0
  /\ closes \in [Bench!Endpoint -> 0..1]
  /\ runs \in Seq(Repetition)
  /\ rows \in [1..Repeats -> 0..Iterations]
  /\ stale \in BOOLEAN /\ left \in Seq(Nat)
  /\ raised \in {"none", "setup", "body", "cleanup", "export"} /\ first = raised

\* Who has the endpoints.
EndpointInv ==
  /\ pc \in {"enter", "close"} \cup Exchanging => closes = [e \in Bench!Endpoint |-> 0]
  /\ pc \in {"enter", "record", "recorded", "ended"} => open = {} /\ resources = {}
  /\ pc \in {"close"} \cup Exchanging => open = Bench!Endpoint /\ resources = Bench!Endpoint

\* Byte p of all the payloads, one after the other.
Stream(p) ==
  CHOOSE v : \E i \in Nat, k \in 1..Size : p = i * Size + k /\ v = Bench!PayloadFor(i)[k]

\* Byte p of what a sound transport hands over, when l was in it.
Expected(l, p) == IF p <= Len(l) THEN l[p] ELSE Stream(p - Len(l))

\* A lossy transport hands over what was in it, and then whatever it has not lost.
Known(l, p, f) == f # "lossy" \/ p <= Len(l)

(***************************************************************************)
(* What an exchange has read, d, and what is still in the transport, q,    *)
(* are the bytes it is going to be given.  Those that b bytes of earlier   *)
(* exchanges were given passed for the payloads (Past), these are the next *)
(* ones (Coming), and a lossy transport has lost one more in every         *)
(* exchange (Counted).  Where nothing was left, they are the exchange's    *)
(* own (Own).                                                              *)
(***************************************************************************)
Wire(d, q) ==
  [k \in 1..(Len(d) + Len(q)) |-> IF k <= Len(d) THEN d[k] ELSE q[k - Len(d)].value]

Past(l, b, f) == \A p \in 1..b : Known(l, p, f) => Expected(l, p) = Stream(p)

Coming(l, d, q, b, f) ==
  \A k \in 1..(Len(d) + Len(q)) : Known(l, b + k, f) => Wire(d, q)[k] = Expected(l, b + k)

Counted(l, d, q, off, b, i, f) ==
  IF f = "lossy"
  THEN /\ Len(l) <= b + Len(d) + Len(q)
       /\ Len(d) + Len(q) + i + (IF off > 0 THEN 1 ELSE 0) <= Len(l) + off
  ELSE Len(d) + Len(q) = Len(l) + off

Own(l, q, i, f, st) ==
  Len(l) = 0 /\ f # "lossy" => st = FALSE /\ \A k \in 1..Len(q) : q[k].index = i

Flow(l, d, q, off, b, i, f, st) ==
  Past(l, b, f) /\ Coming(l, d, q, b, f) /\ Counted(l, d, q, off, b, i, f) /\ Own(l, q, i, f, st)

\* What CompleteMeansFresh says of a repeat that completes.
Trusted ==
  \/ stale = FALSE /\ queue = << >>
  \/ /\ left # << >> /\ Bench!LeftLikePayloads
     /\ IF fault = "lossy" THEN Len(left) >= Bench!Exchanges
        ELSE Len(left) >= Base * Size \/ Len(left) + 2 * Size >= Bench!Exchanges * Size

ExchangeInv ==
  /\ pc \in {"enter"} \cup Exchanging => raised = "none"
  /\ pc = "enter" => index = 0 /\ offset = 0 /\ data = << >> /\ stale = FALSE
  /\ pc = "send" => data = << >>
  /\ pc = "receive" => offset = Size
  /\ pc \in Exchanging =>
       /\ index < Warmup + Iterations
       /\ Flow(left, data, queue, offset, index * Size, index, fault, stale)
  /\ pc \in {"close", "record"} /\ raised = "none" => index = Warmup + Iterations /\ Trusted
  /\ pc \in {"close", "record"} => raised # "export"

\* What the percentiles of a measurement are of the samples.
RankOf(s, percent, v) ==
  /\ \E i \in DOMAIN s : s[i] = v
  /\ Cardinality({i \in DOMAIN s : s[i] <= v}) * 100 >= percent * Len(s)
  /\ \A j \in DOMAIN s : s[j] < v =>
       Cardinality({i \in DOMAIN s : s[i] <= s[j]}) * 100 < percent * Len(s)

Ranks(s, measured) == RankOf(s, 50, measured.p50) /\ RankOf(s, 99, measured.p99)

\* How a repeat is saved: r is what is saved, n its rows, error what was raised in it.
Saved(r, n, error) ==
  /\ r.status = "complete" <=> error = "none"
  /\ error \in {"setup", "body", "cleanup"} => r.measurement = Bench!NoMeasurement /\ n = 0
  /\ error = "none" =>
       Trusted /\ Ranks(samples, r.measurement) /\ r.measurement.n = Iterations /\ n = Iterations

RepeatInv ==
  /\ Len(runs) = IF pc \in {"recorded", "ended"} THEN run ELSE run - 1
  /\ \A r \in 1..Repeats : r > run => rows[r] = 0
  /\ pc \notin {"recorded", "ended"} => rows[run] = 0
  /\ pc = "recorded" => Saved(runs[run], rows[run], raised)

BenchInv == BenchTypeOK /\ EndpointInv /\ ExchangeInv /\ RepeatInv

BenchKept == command = "benchmark" => BenchInv

-----------------------------------------------------------------------------
\* Induction, without operators as parameters.
Smaller == {p \in Nat \X Nat : p[1] < p[2]}

\* A nonempty set of natural numbers has a least member.
LEMMA LeastNatural ==
  ASSUME NEW T \in SUBSET Nat, T # {}
  PROVE  \E x \in T : \A y \in T : x <= y
<1>1. IsWellFoundedOn(Smaller, Nat)
  BY NatLessThanWellFounded DEF OpToRel, Smaller
<1>2. \E x \in T : \A y \in T : ~(<<y, x>> \in Smaller)
  BY <1>1, WFMin, Zenon
<1>3. ASSUME NEW x \in T, NEW y \in T, ~(<<y, x>> \in Smaller)
      PROVE  x <= y
  <2>1. x \in Nat /\ y \in Nat
    OBVIOUS
  <2> QED
    BY <1>3, <2>1 DEF Smaller
<1> QED
  BY <1>2, <1>3

\* A set of numbers that begins at 0 and holds the successors of its members.
LEMMA Induction ==
  ASSUME NEW S, 0 \in S, \A n \in Nat : n \in S => n + 1 \in S
  PROVE  \A n \in Nat : n \in S
<1> DEFINE T == {n \in Nat : n \notin S}
<1>1. ASSUME T # {} PROVE FALSE
  <2>1. PICK x \in T : \A y \in T : x <= y
    BY <1>1, LeastNatural
  <2>2. x \in Nat /\ x \notin S /\ x # 0
    OBVIOUS
  <2>3. x - 1 \in Nat /\ x - 1 \in S
    BY <2>1, <2>2
  <2>4. x - 1 + 1 \in S
    BY <2>3
  <2> QED
    BY <2>2, <2>4
<1> QED
  BY <1>1

-----------------------------------------------------------------------------
\* What is left of index i after d divisions by the base.
NextLeft(f, i, d) == IF d = 0 THEN i ELSE f[d - 1] \div Base

IsLeft(f, i, n) == f = [d \in 0..n |-> NextLeft(f, i, d)]

Left(i, n) == CHOOSE f : IsLeft(f, i, n)

LEMMA LeftExists ==
  ASSUME NEW i, NEW n \in Nat
  PROVE  IsLeft(Left(i, n), i, n)
<1> DEFINE S == {m \in Nat : \E f : IsLeft(f, i, m)}
<1>1. 0 \in S
  <2> DEFINE f == [d \in 0..0 |-> i]
  <2>1. f = [d \in 0..0 |-> NextLeft(f, i, d)]
    BY DEF NextLeft
  <2> QED
    BY <2>1 DEF IsLeft
<1>2. ASSUME NEW m \in Nat, m \in S PROVE m + 1 \in S
  <2>1. PICK g : IsLeft(g, i, m)
    BY <1>2
  <2> DEFINE f == [d \in 0..(m + 1) |-> IF d = m + 1 THEN NextLeft(g, i, m + 1) ELSE g[d]]
  <2>2. ASSUME NEW d \in 0..(m + 1) PROVE f[d] = NextLeft(f, i, d)
    <3>1. CASE d = m + 1
      <4>1. d - 1 \in 0..(m + 1) /\ d - 1 # m + 1 /\ d # 0
        BY <3>1
      <4>2. f[d - 1] = g[d - 1] /\ f[d] = NextLeft(g, i, d)
        BY <3>1, <4>1
      <4> HIDE DEF f
      <4> QED
        BY <4>1, <4>2 DEF NextLeft
    <3>2. CASE d # m + 1
      <4>1. d \in 0..m /\ f[d] = g[d]
        BY <3>2
      <4>2. g[d] = NextLeft(g, i, d)
        BY <2>1, <4>1 DEF IsLeft
      <4>3. d # 0 => d - 1 \in 0..(m + 1) /\ d - 1 # m + 1
        BY <4>1
      <4>4. d # 0 => f[d - 1] = g[d - 1]
        BY <4>3
      <4> HIDE DEF f
      <4> QED
        BY <4>1, <4>2, <4>4 DEF NextLeft
    <3> QED
      BY <3>1, <3>2
  <2>3. f = [d \in 0..(m + 1) |-> f[d]]
    OBVIOUS
  <2> HIDE DEF f
  <2>4. f = [d \in 0..(m + 1) |-> NextLeft(f, i, d)]
    BY <2>2, <2>3
  <2>5. m + 1 \in Nat
    OBVIOUS
  <2> QED
    BY <2>4, <2>5 DEF IsLeft
<1> HIDE DEF S
<1>3. n \in S
  BY <1>1, <1>2, Induction
<1> QED
  BY <1>3 DEF S, Left

\* A number divided by the base is a number, and 0 stays 0.
LEMMA LeftTyped ==
  ASSUME NEW i \in Nat, NEW n \in Nat
  PROVE  /\ Left(i, n)[0] = i
         /\ \A d \in 0..n : Left(i, n)[d] \in Nat
         /\ i = 0 => \A d \in 0..n : Left(i, n)[d] = 0
<1> DEFINE f == Left(i, n)
<1>1. f = [d \in 0..n |-> NextLeft(f, i, d)]
  BY LeftExists DEF IsLeft
<1> HIDE DEF f
<1>2. \A d \in 0..n : f[d] = NextLeft(f, i, d)
  BY <1>1
<1>3. f[0] = i
  <2>1. 0 \in 0..n
    OBVIOUS
  <2> QED
    BY <1>2, <2>1 DEF NextLeft
<1> DEFINE S == {d \in Nat : d \in 0..n => f[d] \in Nat /\ (i = 0 => f[d] = 0)}
<1>4. 0 \in S
  BY <1>3
<1>5. ASSUME NEW d \in Nat, d \in S PROVE d + 1 \in S
  <2>1. SUFFICES ASSUME d + 1 \in 0..n
                 PROVE  f[d + 1] \in Nat /\ (i = 0 => f[d + 1] = 0)
    OBVIOUS
  <2>2. d \in 0..n /\ d + 1 # 0 /\ d + 1 - 1 = d
    BY <2>1
  <2>3. f[d + 1] = f[d] \div Base
    BY <1>2, <2>1, <2>2 DEF NextLeft
  <2>4. f[d] \in Nat /\ (i = 0 => f[d] = 0)
    BY <1>5, <2>2
  <2>5. \A x \in Nat : x \div Base \in Nat
    BY SizeAssumption
  <2>6. 0 \div Base = 0
    BY SizeAssumption
  <2> QED
    BY <2>3, <2>4, <2>5, <2>6
<1> HIDE DEF S
<1>6. \A d \in Nat : d \in S
  BY <1>4, <1>5, Induction
<1> QED
  BY <1>3, <1>6 DEF S, f

\* The second digit of a number, and all further ones of the base itself.
LEMMA LeftDigits ==
  ASSUME NEW i \in Nat, NEW n \in Nat
  PROVE  /\ n > 0 => Left(i, n)[1] = i \div Base
         /\ i = Base => \A d \in 2..n : Left(i, n)[d] = 0
<1> DEFINE f == Left(i, n)
<1>1. f = [d \in 0..n |-> NextLeft(f, i, d)]
  BY LeftExists DEF IsLeft
<1> HIDE DEF f
<1>2. \A d \in 0..n : f[d] = NextLeft(f, i, d)
  BY <1>1
<1>3. f[0] = i
  <2>1. 0 \in 0..n
    OBVIOUS
  <2> QED
    BY <1>2, <2>1 DEF NextLeft
<1>4. ASSUME NEW d \in 1..n PROVE f[d] = f[d - 1] \div Base
  <2>1. d \in 0..n /\ d # 0
    OBVIOUS
  <2> QED
    BY <1>2, <2>1 DEF NextLeft
<1>5. ASSUME n > 0 PROVE f[1] = i \div Base
  <2>1. 1 \in 1..n /\ 1 - 1 = 0
    BY <1>5
  <2> QED
    BY <1>3, <1>4, <2>1
<1>6. ASSUME i = Base, NEW d \in 2..n PROVE f[d] = 0
  <2> DEFINE S == {e \in Nat : e + 2 \in 2..n => f[e + 2] = 0}
  <2>1. 0 \in S
    <3>1. SUFFICES ASSUME 2 \in 2..n PROVE f[2] = 0
      OBVIOUS
    <3>2. 1 \in 1..n /\ 2 \in 1..n /\ 2 - 1 = 1 /\ n > 0
      BY <3>1
    <3>3. f[2] = f[1] \div Base /\ f[1] = Base \div Base
      BY <1>4, <1>5, <1>6, <3>2
    <3>4. Base \div Base = 1 /\ 1 \div Base = 0
      BY SizeAssumption
    <3> QED
      BY <3>3, <3>4
  <2>2. ASSUME NEW e \in Nat, e \in S PROVE e + 1 \in S
    <3>1. SUFFICES ASSUME e + 1 + 2 \in 2..n PROVE f[e + 1 + 2] = 0
      OBVIOUS
    <3>2. e + 2 \in 2..n /\ e + 1 + 2 \in 1..n /\ e + 1 + 2 - 1 = e + 2
      BY <3>1
    <3>3. f[e + 1 + 2] = f[e + 2] \div Base /\ f[e + 2] = 0
      BY <1>4, <2>2, <3>2
    <3>4. 0 \div Base = 0
      BY SizeAssumption
    <3> QED
      BY <3>3, <3>4
  <2> HIDE DEF S
  <2>3. \A e \in Nat : e \in S
    BY <2>1, <2>2, Induction
  <2>4. d - 2 \in Nat /\ d - 2 + 2 = d
    BY <1>6
  <2>5. d - 2 \in S
    BY <2>3, <2>4
  <2> QED
    BY <1>6, <2>4, <2>5 DEF S
<1> QED
  BY <1>5, <1>6 DEF f

\* A payload begins with the last digit of its index; the one of index 0 is all
\* zeros, the one of index Base has ones at second digits only, and the next one
\* has them there as well.
LEMMA Payloads ==
  /\ \A i \in Nat : \A k \in 1..Size : Bench!PayloadFor(i)[k] \in Nat
  /\ \A k \in 1..Size : Bench!PayloadFor(0)[k] = 0
  /\ \A i \in Nat : Bench!PayloadFor(i)[1] = i % Base
  /\ \A k \in 1..Size : Bench!PayloadFor(Base)[k] = 1 => (k - 1) % Marker = 1
  /\ \A k \in 1..Size : (k - 1) % Marker = 1 => Bench!PayloadFor(Base + 1)[k] = 1
<1> DEFINE n == Marker - 1
<1>1. n \in Nat
  BY SizeAssumption
<1>2. \A k \in 1..Size : (k - 1) % Marker \in 0..n
  BY SizeAssumption
<1>3. \A i : Bench!PayloadFor(i) = [k \in 1..Size |-> Left(i, n)[(k - 1) % Marker] % Base]
  BY DEF Bench!PayloadFor, Left, IsLeft, NextLeft
<1> HIDE DEF n
<1>4. \A i : \A k \in 1..Size :
        Bench!PayloadFor(i)[k] = Left(i, n)[(k - 1) % Marker] % Base
  BY <1>3
<1>5. /\ \A x \in Nat : x % Base \in Nat
      /\ Base \in Nat /\ Base + 1 \in Nat
      /\ Base % Base = 0 /\ Base \div Base = 1 /\ (Base + 1) \div Base = 1
  BY SizeAssumption
<1>6. 0 % Base = 0 /\ 1 % Base = 1 /\ (1 - 1) % Marker = 0 /\ 1 \in 1..Size
  BY SizeAssumption
<1>7. ASSUME NEW i \in Nat, NEW k \in 1..Size PROVE Bench!PayloadFor(i)[k] \in Nat
  <2>1. Left(i, n)[(k - 1) % Marker] \in Nat
    BY <1>1, <1>2, LeftTyped
  <2> QED
    BY <1>4, <1>5, <2>1
<1>8. ASSUME NEW k \in 1..Size PROVE Bench!PayloadFor(0)[k] = 0
  <2>1. Left(0, n)[(k - 1) % Marker] = 0
    BY <1>1, <1>2, LeftTyped
  <2> QED
    BY <1>4, <1>6, <2>1
<1>9. ASSUME NEW i \in Nat PROVE Bench!PayloadFor(i)[1] = i % Base
  <2>1. Left(i, n)[0] = i
    BY <1>1, LeftTyped
  <2> QED
    BY <1>4, <1>6, <2>1
<1>10. ASSUME NEW k \in 1..Size, Bench!PayloadFor(Base)[k] = 1 PROVE (k - 1) % Marker = 1
  <2> DEFINE e == (k - 1) % Marker
  <2>1. e \in 0..n
    BY <1>2
  <2>2. Bench!PayloadFor(Base)[k] = Left(Base, n)[e] % Base
    BY <1>4
  <2> HIDE DEF e
  <2>3. e # 0
    <3>1. SUFFICES ASSUME e = 0 PROVE FALSE
      OBVIOUS
    <3>2. Left(Base, n)[0] = Base
      BY <1>1, <1>5, LeftTyped
    <3> QED
      BY <1>5, <1>10, <2>2, <3>1, <3>2
  <2>4. e \notin 2..n
    <3>1. SUFFICES ASSUME e \in 2..n PROVE FALSE
      OBVIOUS
    <3>2. Left(Base, n)[e] = 0
      BY <1>1, <1>5, <3>1, LeftDigits
    <3> QED
      BY <1>6, <1>10, <2>2, <3>2
  <2>5. e = 1
    BY <1>1, <2>1, <2>3, <2>4
  <2> QED
    BY <2>5 DEF e
<1>11. ASSUME NEW k \in 1..Size, (k - 1) % Marker = 1 PROVE Bench!PayloadFor(Base + 1)[k] = 1
  <2>1. n > 0
    BY <1>1, <1>2, <1>11
  <2>2. Left(Base + 1, n)[1] = 1
    BY <1>1, <1>5, <2>1, LeftDigits
  <2> QED
    BY <1>4, <1>6, <1>11, <2>2
<1> QED
  BY <1>7, <1>8, <1>9, <1>10, <1>11

-----------------------------------------------------------------------------
\* Products with the size of a payload, which the provers know little about.
LEMMA Products ==
  ASSUME NEW i \in Nat
  PROVE  /\ i * Size \in Nat /\ (i + 1) * Size = i * Size + Size
         /\ \A j \in Nat : i < j => i * Size + Size <= j * Size
<1>1. Size \in Nat /\ Size > 0
  BY SizeAssumption
<1>2. \A m \in Nat : m * Size \in Nat /\ (m + 1) * Size = m * Size + Size
  BY <1>1
<1>3. ASSUME NEW j \in Nat, i < j PROVE i * Size + Size <= j * Size
  <2> DEFINE T == {m \in Nat : i * Size + Size <= (i + 1 + m) * Size}
  <2>1. 0 \in T
    BY <1>2
  <2>2. ASSUME NEW m \in Nat, m \in T PROVE m + 1 \in T
    <3>1. i + 1 + m \in Nat /\ i + 1 + (m + 1) = i + 1 + m + 1 /\ m + 1 \in Nat
      OBVIOUS
    <3>2. (i + 1 + m + 1) * Size = (i + 1 + m) * Size + Size /\ (i + 1 + m) * Size \in Nat
      BY <1>2, <3>1
    <3>3. i * Size + Size <= (i + 1 + m) * Size /\ i * Size \in Nat
      BY <1>2, <2>2
    <3> QED
      BY <1>1, <3>1, <3>2, <3>3
  <2> HIDE DEF T
  <2>3. \A m \in Nat : m \in T
    BY <2>1, <2>2, Induction
  <2>4. j - i - 1 \in Nat /\ i + 1 + (j - i - 1) = j
    BY <1>3
  <2>5. j - i - 1 \in T
    BY <2>3, <2>4
  <2> QED
    BY <2>4, <2>5 DEF T
<1> QED
  BY <1>2, <1>3

\* A place in the stream belongs to one byte of one payload.
LEMMA StreamMeans ==
  ASSUME NEW i \in Nat, NEW k \in 1..Size
  PROVE  /\ Stream(i * Size + k) = Bench!PayloadFor(i)[k]
         /\ \A p \in Nat : p = i * Size + k => Stream(p) = Bench!PayloadFor(i)[k]
<1> DEFINE p == i * Size + k
<1>1. Size \in Nat /\ i * Size \in Nat
  BY SizeAssumption, Products
<1>2. ASSUME NEW j \in Nat, NEW l \in 1..Size, p = j * Size + l
      PROVE  j = i /\ l = k
  <2>1. j * Size \in Nat
    BY Products
  <2>2. ~(i < j)
    <3>1. i < j => i * Size + Size <= j * Size
      BY Products
    <3> DEFINE x == i * Size
               y == j * Size
    <3>2. x \in Nat /\ y \in Nat /\ x + k = y + l /\ (i < j => x + Size <= y)
      BY <1>1, <1>2, <2>1, <3>1
    <3> HIDE DEF x, y
    <3> QED
      BY <1>1, <3>2
  <2>3. ~(j < i)
    <3>1. j < i => j * Size + Size <= i * Size
      BY Products
    <3> DEFINE x == i * Size
               y == j * Size
    <3>2. x \in Nat /\ y \in Nat /\ x + k = y + l /\ (j < i => y + Size <= x)
      BY <1>1, <1>2, <2>1, <3>1
    <3> HIDE DEF x, y
    <3> QED
      BY <1>1, <3>2
  <2>4. j = i
    BY <2>2, <2>3
  <2> DEFINE x == i * Size
  <2>5. x \in Nat /\ x + k = x + l
    BY <1>1, <1>2, <2>4
  <2> HIDE DEF x
  <2> QED
    BY <2>4, <2>5
<1> HIDE DEF p
<1>3. Stream(p) = Bench!PayloadFor(i)[k]
  <2> DEFINE Fits(v) == \E j \in Nat, l \in 1..Size : p = j * Size + l /\ v = Bench!PayloadFor(j)[l]
             w == Bench!PayloadFor(i)[k]
  <2>1. Fits(w)
    BY DEF p
  <2>2. \A v : Fits(v) => v = w
    BY <1>2
  <2>3. Stream(p) = CHOOSE v : Fits(v)
    BY DEF Stream
  <2> HIDE DEF Fits, w
  <2>4. Stream(p) = w
    BY <2>1, <2>2, <2>3
  <2> QED
    BY <2>4 DEF w
<1> QED
  BY <1>3 DEF p

\* A number of bytes is some payloads and a part of one.
LEMMA Divided ==
  ASSUME NEW d \in Nat
  PROVE  \E q \in Nat, r \in 0..(Size - 1) : d = q * Size + r
<1> DEFINE S == {m \in Nat : \E q \in Nat, r \in 0..(Size - 1) : m = q * Size + r}
<1>1. Size \in Nat /\ Size > 0
  BY SizeAssumption
<1>2. 0 \in S
  <2>1. 0 * Size + 0 = 0 /\ 0 \in 0..(Size - 1)
    BY <1>1
  <2> QED
    BY <2>1
<1>3. ASSUME NEW m \in Nat, m \in S PROVE m + 1 \in S
  <2>1. PICK q \in Nat, r \in 0..(Size - 1) : m = q * Size + r
    BY <1>3
  <2>2. q * Size \in Nat /\ (q + 1) * Size = q * Size + Size
    BY Products
  <2>3. CASE r = Size - 1
    <3>1. m + 1 = (q + 1) * Size + 0
      BY <1>1, <2>1, <2>2, <2>3
    <3>2. q + 1 \in Nat /\ 0 \in 0..(Size - 1) /\ m + 1 \in Nat
      BY <1>1
    <3> QED
      BY <3>1, <3>2
  <2>4. CASE r # Size - 1
    <3>1. m + 1 = q * Size + (r + 1) /\ r + 1 \in 0..(Size - 1) /\ m + 1 \in Nat
      BY <1>1, <2>1, <2>2, <2>4
    <3> QED
      BY <3>1
  <2> QED
    BY <2>3, <2>4
<1> HIDE DEF S
<1>4. d \in S
  BY <1>2, <1>3, Induction
<1> QED
  BY <1>4 DEF S

\* The payloads do not repeat themselves after fewer bytes than Base of them
\* have, which shows within two payloads.
LEMMA NoShortPeriod ==
  ASSUME NEW d \in Nat, d > 0, d < Base * Size, NEW t \in Nat, d + 2 * Size < t,
         \A p \in 1..t : p > d => Stream(p - d) = Stream(p)
  PROVE  FALSE
<1>1. /\ Size \in Nat /\ Size > 0 /\ Base \in Nat /\ Base > 1 /\ 2 * Size = Size + Size
      /\ 1 \in 1..Size
  BY SizeAssumption
<1>2. PICK q \in Nat, r \in 0..(Size - 1) : d = q * Size + r
  BY Divided
<1> DEFINE b == q * Size
<1>3. b \in Nat /\ (q + 1) * Size = b + Size /\ (q + 1 + 1) * Size = b + Size + Size
  <2>1. q + 1 \in Nat
    OBVIOUS
  <2> QED
    BY <2>1, Products
<1>4. q < Base
  <2>1. Base < q => Base * Size + Size <= q * Size
    BY <1>1, Products
  <2>2. Base * Size \in Nat /\ ~(q = Base /\ d < Base * Size)
    BY <1>1, <1>2, <1>3, Products
  <2> DEFINE c == Base * Size
  <2>3. c \in Nat /\ d < c /\ d = b + r /\ (Base < q => c + Size <= b) /\ q # Base
    BY <1>2, <2>1, <2>2
  <2> HIDE DEF b, c
  <2> QED
    BY <1>1, <1>2, <1>3, <2>3
<1>5. /\ \A i \in Nat : Stream(i * Size + 1) = i % Base
      /\ \A k \in 1..Size : Stream(k) = 0
  <2>1. ASSUME NEW i \in Nat PROVE Stream(i * Size + 1) = i % Base
    BY <1>1, StreamMeans, Payloads
  <2>2. ASSUME NEW k \in 1..Size PROVE Stream(k) = 0
    <3>1. 0 * Size + k = k /\ 0 \in Nat /\ k \in Nat
      BY <1>1
    <3> QED
      BY <3>1, StreamMeans, Payloads
  <2> QED
    BY <2>1, <2>2
<1>6. /\ \A x \in 0..(Base - 1) : x % Base = x
      /\ 2 % Base # 1 /\ 1 % Base = 1
  <2>1. \A x \in 0..(Base - 1) : x % Base = x
    BY <1>1
  <2>2. 2 % Base # 1
    <3>1. CASE Base = 2
      BY <3>1
    <3>2. CASE Base # 2
      <4>1. 2 \in 0..(Base - 1)
        BY <1>1, <3>2
      <4> QED
        BY <2>1, <4>1
    <3> QED
      BY <3>1, <3>2
  <2>3. 1 \in 0..(Base - 1)
    BY <1>1
  <2> QED
    BY <2>1, <2>2, <2>3
<1> HIDE DEF b
<1>7. d = b + r /\ r \in Nat /\ r < Size
  BY <1>1, <1>2 DEF b
\* A whole number of payloads: the next one begins with its index.
<1>8. r # 0
  <2>1. SUFFICES ASSUME r = 0 PROVE FALSE
    OBVIOUS
  <2>2. d + 1 \in 1..t /\ d + 1 > d /\ d + 1 - d = 1 /\ d + 1 = b + 1
    BY <1>1, <1>3, <1>7, <2>1
  <2>3. Stream(d + 1) = Stream(1)
    BY <2>2
  <2>4. Stream(b + 1) = q % Base
    BY <1>5 DEF b
  <2>5. q \in 0..(Base - 1)
    BY <1>1, <1>4
  <2>6. q = 0
    BY <1>1, <1>5, <1>6, <2>2, <2>3, <2>4, <2>5
  <2>7. b = 0
    BY <1>1, <2>6 DEF b
  <2> QED
    BY <1>7, <2>1, <2>7
\* Otherwise the next whole payload begins with a zero: it is that of Base.
<1>9. q + 1 = Base
  <2> DEFINE p == b + Size + 1
  <2>1. p \in 1..t /\ p > d /\ p - d \in 1..Size
    BY <1>1, <1>3, <1>7, <1>8
  <2>2. Stream(p - d) = Stream(p)
    BY <2>1
  <2>3. Stream(p) = (q + 1) % Base
    BY <1>3, <1>5
  <2> HIDE DEF p
  <2>4. (q + 1) % Base = 0
    BY <1>5, <2>1, <2>2, <2>3
  <2>5. CASE q + 1 < Base
    <3>1. q + 1 \in 0..(Base - 1) /\ q + 1 # 0
      BY <1>1, <2>5
    <3> QED
      BY <1>6, <2>4, <3>1
  <2> QED
    BY <1>1, <1>4, <2>5
\* The second payload begins with a one, so one of Base is at the same place.
<1>10. r % Marker = 1
  <2> DEFINE p == b + Size + (r + 1)
  <2>1. /\ p \in 1..t /\ p > d /\ p - d = Size + 1 /\ r + 1 \in 1..Size /\ p \in Nat
        /\ r + 1 - 1 = r
    BY <1>1, <1>3, <1>7
  <2>2. Stream(p - d) = Stream(p)
    BY <2>1
  <2>3. Stream(p) = Bench!PayloadFor(Base)[r + 1]
    <3>1. p = Base * Size + (r + 1)
      BY <1>3, <1>9
    <3> QED
      BY <1>1, <2>1, <3>1, StreamMeans
  <2>4. Stream(Size + 1) = 1
    <3>1. 1 * Size + 1 = Size + 1
      BY <1>1
    <3> QED
      BY <1>5, <1>6, <3>1
  <2> HIDE DEF p
  <2>5. Bench!PayloadFor(Base)[r + 1] = 1
    BY <2>1, <2>2, <2>3, <2>4
  <2>6. (r + 1 - 1) % Marker = 1
    BY <2>1, <2>5, Payloads
  <2> QED
    BY <2>1, <2>6
\* That of Base + 1 has a one there too, but the third payload begins with a two.
<1> DEFINE p == b + Size + Size + (r + 1)
<1>11. /\ p \in 1..t /\ p > d /\ p - d = 2 * Size + 1 /\ r + 1 \in 1..Size /\ p \in Nat
       /\ r + 1 - 1 = r
  BY <1>1, <1>3, <1>7
<1>12. Stream(p - d) = Stream(p)
  BY <1>11
<1>13. Stream(p) = Bench!PayloadFor(Base + 1)[r + 1]
  <2>1. p = (Base + 1) * Size + (r + 1) /\ Base + 1 \in Nat
    BY <1>1, <1>3, <1>9
  <2> QED
    BY <1>11, <2>1, StreamMeans
<1>14. Bench!PayloadFor(Base + 1)[r + 1] = 1
  <2>1. (r + 1 - 1) % Marker = 1
    BY <1>10, <1>11
  <2> QED
    BY <1>11, <2>1, Payloads
<1>15. Stream(2 * Size + 1) = 2 % Base
  BY <1>5
<1> HIDE DEF p
<1> QED
  BY <1>6, <1>11, <1>12, <1>13, <1>14, <1>15

-----------------------------------------------------------------------------
\* A list of n numbers, and how many of them are no greater than v.
Numbers(s, n) == n \in Nat /\ DOMAIN s = 1..n /\ \A i \in 1..n : s[i] \in Nat

UpTo(s, n, v) == {i \in 1..n : s[i] <= v}

\* v is the sample for place k of the sorted list.
Fills(s, n, k, v) ==
  /\ v \in {s[i] : i \in 1..n}
  /\ Cardinality({i \in 1..n : s[i] < v}) < k
  /\ k <= Cardinality(UpTo(s, n, v))

LEMMA UpToCounts ==
  ASSUME NEW s, NEW n, Numbers(s, n), NEW v
  PROVE  /\ IsFiniteSet(UpTo(s, n, v)) /\ Cardinality(UpTo(s, n, v)) \in Nat
         /\ UpTo(s, n, v) = {} => Cardinality(UpTo(s, n, v)) = 0
<1>1. IsFiniteSet(1..n) /\ UpTo(s, n, v) \subseteq 1..n
  BY FS_Interval DEF Numbers, UpTo
<1>2. IsFiniteSet(UpTo(s, n, v))
  BY <1>1, FS_Subset
<1> QED
  BY <1>2, FS_CardinalityType, FS_EmptySet

\* A list of numbers has an upper bound.
LEMMA NumbersBounded ==
  ASSUME NEW s, NEW n, Numbers(s, n)
  PROVE  \E b \in Nat : \A i \in 1..n : s[i] <= b
<1> DEFINE S == {m \in Nat : m <= n => \E b \in Nat : \A i \in 1..m : s[i] <= b}
<1>1. 0 \in S
  OBVIOUS
<1>2. ASSUME NEW m \in Nat, m \in S PROVE m + 1 \in S
  <2>1. SUFFICES ASSUME m + 1 <= n PROVE \E b \in Nat : \A i \in 1..(m + 1) : s[i] <= b
    OBVIOUS
  <2>2. n \in Nat /\ m <= n /\ m + 1 \in 1..n /\ s[m + 1] \in Nat
        /\ \A i \in 1..(m + 1) : s[i] \in Nat
    BY <2>1 DEF Numbers
  <2>3. PICK b \in Nat : \A i \in 1..m : s[i] <= b
    BY <1>2, <2>2
  <2> DEFINE c == IF b <= s[m + 1] THEN s[m + 1] ELSE b
  <2>4. c \in Nat /\ b <= c /\ s[m + 1] <= c
    BY <2>2
  <2> HIDE DEF c
  <2>5. ASSUME NEW i \in 1..(m + 1) PROVE s[i] <= c
    <3>1. i = m + 1 \/ i \in 1..m
      OBVIOUS
    <3>2. i \in 1..m => s[i] <= b
      BY <2>3
    <3> QED
      BY <2>2, <2>4, <3>1, <3>2
  <2> QED
    BY <2>4, <2>5
<1> HIDE DEF S
<1>3. n \in Nat
  BY DEF Numbers
<1>4. n \in S
  BY <1>1, <1>2, <1>3, Induction
<1> QED
  BY <1>4 DEF S

\* sorted(): for every place there is one sample that belongs there.
LEMMA PlaceIsTaken ==
  ASSUME NEW s, NEW n, Numbers(s, n), NEW k \in 1..n
  PROVE  \E v : Fills(s, n, k, v)
<1> DEFINE T == {v \in Nat : k <= Cardinality(UpTo(s, n, v))}
<1>1. n \in Nat /\ DOMAIN s = 1..n /\ \A i \in 1..n : s[i] \in Nat
  BY DEF Numbers
<1>2. T # {}
  <2>1. PICK b \in Nat : \A i \in 1..n : s[i] <= b
    BY NumbersBounded
  <2>2. UpTo(s, n, b) = 1..n
    BY <2>1 DEF UpTo
  <2>3. Cardinality(1..n) = n
    BY <1>1, FS_Interval
  <2> QED
    BY <1>1, <2>2, <2>3
<1>3. PICK v \in T : \A u \in T : v <= u
  BY <1>2, LeastNatural
<1>4. v \in Nat /\ k <= Cardinality(UpTo(s, n, v)) /\ k \in Nat /\ k > 0
  OBVIOUS
<1>5. Cardinality({i \in 1..n : s[i] < v}) < k
  <2>1. CASE v = 0
    <3>1. {i \in 1..n : s[i] < v} = {}
      BY <1>1, <2>1
    <3> QED
      BY <1>4, <3>1, FS_EmptySet
  <2>2. CASE v # 0
    <3>1. v - 1 \in Nat /\ ~(v <= v - 1)
      BY <1>4, <2>2
    <3>2. v - 1 \notin T
      BY <1>3, <3>1
    <3>3. {i \in 1..n : s[i] < v} = UpTo(s, n, v - 1)
      BY <1>1, <1>4, <3>1 DEF UpTo
    <3>4. Cardinality(UpTo(s, n, v - 1)) \in Nat
      BY UpToCounts
    <3> QED
      BY <1>4, <3>1, <3>2, <3>3, <3>4
  <2> QED
    BY <2>1, <2>2
<1>6. v \in {s[i] : i \in 1..n}
  <2>1. SUFFICES ASSUME \A i \in 1..n : s[i] # v PROVE FALSE
    OBVIOUS
  <2>2. UpTo(s, n, v) = {i \in 1..n : s[i] < v}
    BY <1>1, <1>4, <2>1 DEF UpTo
  <2>3. Cardinality(UpTo(s, n, v)) \in Nat
    BY UpToCounts
  <2> QED
    BY <1>4, <1>5, <2>2, <2>3
<1> QED
  BY <1>4, <1>5, <1>6 DEF Fills

\* The benchmark's own copy of the operator that counts.
LEMMA SameCount == \A S : Bench!Cardinality(S) = Cardinality(S)
BY DEF Bench!Cardinality, Cardinality

LEMMA SameEnd ==
  ASSUME NEW a \in Nat, NEW b \in Nat, 1..a = 1..b
  PROVE  a = b
<1>1. a > 0 => a \in 1..b
  OBVIOUS
<1>2. b > 0 => b \in 1..a
  OBVIOUS
<1> QED
  BY <1>1, <1>2

\* sorted() is a list of the same length that fills every place.
LEMMA OrderedMeans ==
  ASSUME NEW s, NEW n, Numbers(s, n)
  PROVE  /\ Len(Bench!Ordered(s)) = n
         /\ \A k \in 1..n : Fills(s, n, k, Bench!Ordered(s)[k])
<1> DEFINE Fits(v, k) == /\ Bench!Cardinality({i \in 1..n : s[i] < v}) < k
                         /\ k <= Bench!Cardinality({i \in 1..n : s[i] <= v})
           Values == {s[i] : i \in 1..n}
           o == Bench!Ordered(s)
<1>1. n \in Nat /\ DOMAIN s = 1..n
  BY DEF Numbers
<1>2. o = [k \in 1..n |-> CHOOSE v \in Values : Fits(v, k)]
  BY <1>1 DEF Bench!Ordered
<1>3. ASSUME NEW k \in 1..n PROVE Fills(s, n, k, o[k])
  <2>1. \E v \in Values : Fits(v, k)
    <3>1. PICK v : Fills(s, n, k, v)
      BY PlaceIsTaken
    <3>2. v \in Values /\ Fits(v, k)
      BY <3>1, SameCount DEF Fills, UpTo
    <3> QED
      BY <3>2
  <2>2. o[k] = CHOOSE v \in Values : Fits(v, k)
    BY <1>2
  <2> HIDE DEF Values, Fits, o
  <2>3. o[k] \in Values /\ Fits(o[k], k)
    BY <2>1, <2>2
  <2> QED
    BY <2>3, SameCount DEF Fills, Fits, Values, UpTo
<1>4. Len(o) = n
  <2> HIDE DEF Values, Fits, o
  <2>1. o \in Seq({o[k] : k \in 1..n})
    <3> DEFINE S == {o[k] : k \in 1..n}
    <3>1. \A k \in 1..n : o[k] \in S
      OBVIOUS
    <3>2. o = [k \in 1..n |-> o[k]]
      BY <1>2
    <3> HIDE DEF S
    <3>3. o \in Seq(S)
      BY <1>1, <3>1, <3>2
    <3> QED
      BY <3>3 DEF S
  <2>2. DOMAIN o = 1..Len(o) /\ Len(o) \in Nat /\ DOMAIN o = 1..n
    BY <1>2, <2>1, LenProperties
  <2>3. 1..Len(o) = 1..n /\ Len(o) \in Nat /\ n \in Nat
    BY <1>1, <2>2
  <2> QED
    BY ONLY <2>3, SameEnd
<1> HIDE DEF o
<1> QED
  BY <1>3, <1>4 DEF o

\* percentile() is a nearest rank.
LEMMA PercentileRanks ==
  ASSUME NEW s, NEW n, Numbers(s, n), n > 0, Len(s) = n, NEW percent \in {50, 99}
  PROVE  /\ Bench!Percentile(Bench!Ordered(s), percent) \in Nat
         /\ RankOf(s, percent, Bench!Percentile(Bench!Ordered(s), percent))
<1> DEFINE o == Bench!Ordered(s)
           k == (n * percent + 99) \div 100
           v == o[k]
<1>1. n \in Nat /\ DOMAIN s = 1..n /\ \A i \in 1..n : s[i] \in Nat
  BY DEF Numbers
<1>2. /\ k \in 1..n /\ 100 * k >= percent * n /\ 100 * (k - 1) < percent * n
      /\ percent * n \in Nat
  <2>1. CASE percent = 50
    BY <1>1, <2>1
  <2>2. CASE percent = 99
    BY <1>1, <2>2
  <2> QED
    BY <2>1, <2>2
<1>3. Bench!Percentile(o, percent) = v
  <2>1. Len(o) = n
    BY OrderedMeans
  <2> HIDE DEF o
  <2> QED
    BY <2>1 DEF Bench!Percentile
<1> HIDE DEF k
<1>4. Fills(s, n, k, v)
  BY <1>2, OrderedMeans
<1> HIDE DEF o, v
<1>5. v \in Nat /\ \E i \in 1..n : s[i] = v
  BY <1>1, <1>4 DEF Fills
<1>6. Cardinality(UpTo(s, n, v)) * 100 >= percent * n
  <2>1. Cardinality(UpTo(s, n, v)) \in Nat /\ percent * n \in Nat /\ k \in Nat
    BY <1>1, <1>2, UpToCounts
  <2> DEFINE x == Cardinality(UpTo(s, n, v))
             y == percent * n
  <2> HIDE DEF x, y
  <2>2. x * 100 >= y
    BY <1>2, <1>4, <2>1 DEF x, y, Fills
  <2> QED
    BY <2>2 DEF x, y
<1>7. ASSUME NEW j \in 1..n, s[j] < v
      PROVE  Cardinality(UpTo(s, n, s[j])) * 100 < percent * n
  <2> DEFINE B == {i \in 1..n : s[i] < v}
             x == Cardinality(UpTo(s, n, s[j]))
             z == Cardinality(B)
             y == percent * n
  <2>1. IsFiniteSet(B) /\ UpTo(s, n, s[j]) \subseteq B
    <3>1. IsFiniteSet(1..n) /\ B \subseteq 1..n
      BY <1>1, FS_Interval
    <3>2. UpTo(s, n, s[j]) \subseteq B
      BY <1>1, <1>5, <1>7 DEF UpTo
    <3> QED
      BY <3>1, <3>2, FS_Subset
  <2>2. x <= z /\ z \in Nat /\ x \in Nat
    BY <2>1, FS_Subset, FS_CardinalityType, UpToCounts
  <2>3. z < k
    BY <1>4 DEF Fills
  <2>4. k \in Nat /\ y \in Nat /\ 100 * (k - 1) < y
    BY <1>1, <1>2
  <2> HIDE DEF x, y, z
  <2>5. x * 100 < y
    BY <2>2, <2>3, <2>4
  <2> QED
    BY <2>5 DEF x, y
<1>8. RankOf(s, percent, v)
  <2>1. \A x : {i \in DOMAIN s : s[i] <= x} = UpTo(s, n, x)
    BY <1>1 DEF UpTo
  <2>2. \E i \in DOMAIN s : s[i] = v
    BY <1>1, <1>5
  <2>3. Cardinality({i \in DOMAIN s : s[i] <= v}) * 100 >= percent * Len(s)
    BY <1>6, <2>1
  <2>4. ASSUME NEW j \in DOMAIN s, s[j] < v
        PROVE  Cardinality({i \in DOMAIN s : s[i] <= s[j]}) * 100 < percent * Len(s)
    <3>1. Cardinality(UpTo(s, n, s[j])) * 100 < percent * n
      BY <1>1, <1>7, <2>4
    <3> QED
      BY <2>1, <3>1
  <2> QED
    BY <2>2, <2>3, <2>4 DEF RankOf
<1> QED
  BY <1>3, <1>5, <1>8 DEF o

\* What summarize() makes of the samples.
LEMMA SummaryRanks ==
  ASSUME samples \in Seq(Durations), Len(samples) > 0
  PROVE  Bench!Summarize \in Statistics /\ Ranks(samples, Bench!Summarize)
<1> DEFINE n == Len(samples)
           m == Bench!Summarize
<1>1. Numbers(samples, n) /\ n \in Nat /\ DOMAIN samples = 1..n
  BY ElementOfSeq, LenProperties, ClockAssumption DEF Numbers
<1>2. m = [n |-> n, p50 |-> Bench!Percentile(Bench!Ordered(samples), 50),
           p99 |-> Bench!Percentile(Bench!Ordered(samples), 99)]
  BY DEF Bench!Summarize
<1>3. /\ m.p50 = Bench!Percentile(Bench!Ordered(samples), 50)
      /\ m.p99 = Bench!Percentile(Bench!Ordered(samples), 99)
  BY <1>2
<1> HIDE DEF m, n
<1>4. n > 0 /\ Len(samples) = n
  BY DEF n
<1>5. /\ m.p50 \in Nat /\ RankOf(samples, 50, m.p50)
      /\ m.p99 \in Nat /\ RankOf(samples, 99, m.p99)
  BY <1>1, <1>3, <1>4, PercentileRanks
<1>6. m \in Statistics
  BY <1>1, <1>2, <1>3, <1>5 DEF Statistics
<1>7. Ranks(samples, m)
  BY <1>5 DEF Ranks
<1> QED
  BY <1>6, <1>7 DEF m

-----------------------------------------------------------------------------
\* Two lists, one after the other.
Joins(c, a, b) ==
  /\ \A k \in 1..Len(a) : c[k] = a[k]
  /\ \A k \in 1..Len(b) : c[Len(a) + k] = b[k]

LEMMA JoinMeans ==
  ASSUME NEW S, NEW a \in Seq(S), NEW b \in Seq(S)
  PROVE  /\ a \o b \in Seq(S) /\ Len(a \o b) = Len(a) + Len(b)
         /\ Len(a) \in Nat /\ Len(b) \in Nat /\ Joins(a \o b, a, b)
<1> DEFINE m == Len(a)
           n == Len(b)
           c == a \o b
<1>1. m \in Nat /\ n \in Nat
  OBVIOUS
<1>2. /\ c \in Seq(S) /\ Len(c) = m + n
      /\ \A k \in 1..(m + n) : c[k] = IF k <= m THEN a[k] ELSE b[k - m]
  BY ConcatProperties
<1> HIDE DEF m, n, c
<1>3. ASSUME NEW k \in 1..m PROVE c[k] = a[k]
  <2>1. k \in 1..(m + n) /\ k <= m
    BY <1>1
  <2> QED
    BY <1>2, <2>1
<1>4. ASSUME NEW k \in 1..n PROVE c[m + k] = b[k]
  <2> DEFINE x == m + k
  <2>1. x \in 1..(m + n) /\ ~(x <= m) /\ x - m = k
    BY <1>1
  <2> HIDE DEF x
  <2>2. c[x] = b[k]
    BY <1>2, <2>1
  <2> QED
    BY <2>2 DEF x
<1> QED
  BY <1>1, <1>2, <1>3, <1>4 DEF Joins, m, n, c

\* The bytes of an exchange in the order in which it is given them.
Wired(d, q) ==
  /\ \A k \in 1..Len(d) : Wire(d, q)[k] = d[k]
  /\ \A k \in 1..Len(q) : Wire(d, q)[Len(d) + k] = q[k].value

LEMMA WireMeans ==
  ASSUME NEW d, NEW q, Len(d) \in Nat, Len(q) \in Nat
  PROVE  Wired(d, q)
<1> DEFINE m == Len(d)
           n == Len(q)
<1>1. \A k \in 1..(m + n) : Wire(d, q)[k] = IF k <= m THEN d[k] ELSE q[k - m].value
  BY DEF Wire
<1>2. m \in Nat /\ n \in Nat
  OBVIOUS
<1> HIDE DEF m, n
<1>3. ASSUME NEW k \in 1..m PROVE Wire(d, q)[k] = d[k]
  <2>1. k \in 1..(m + n) /\ k <= m
    BY <1>2
  <2> QED
    BY <1>1, <2>1
<1>4. ASSUME NEW k \in 1..n PROVE Wire(d, q)[m + k] = q[k].value
  <2> DEFINE x == m + k
  <2>1. x \in 1..(m + n) /\ ~(x <= m) /\ x - m = k
    BY <1>2
  <2> HIDE DEF x
  <2>2. Wire(d, q)[x] = q[k].value
    BY <1>1, <2>1
  <2> QED
    BY <2>2 DEF x
<1> QED
  BY <1>3, <1>4 DEF Wired, m, n

\* The first n of a list.
Begin(b, s, n) == \A k \in 1..n : b[k] = s[k]

LEMMA FrontMeans ==
  ASSUME NEW S, NEW s \in Seq(S), NEW n \in Nat, n <= Len(s)
  PROVE  /\ Bench!Front(s, n) \in Seq(S) /\ Len(Bench!Front(s, n)) = n
         /\ Begin(Bench!Front(s, n), s, n)
<1> DEFINE b == SubSeq(s, 1, n)
<1>1. n \in Int /\ 1 \in Int /\ \A k \in 1..n : s[k] \in S
  BY ElementOfSeq
<1>2. /\ b \in Seq(S) /\ Len(b) = IF 1 <= n THEN n - 1 + 1 ELSE 0
      /\ \A k \in 1..(n - 1 + 1) : b[k] = s[1 + k - 1]
  BY <1>1, SubSeqProperties
<1>3. Bench!Front(s, n) = b
  BY DEF Bench!Front
<1> HIDE DEF b
<1>4. ASSUME NEW k \in 1..n PROVE b[k] = s[k]
  <2>1. k \in 1..(n - 1 + 1) /\ 1 + k - 1 = k
    OBVIOUS
  <2> QED
    BY <1>2, <2>1
<1>5. Len(b) = n
  BY <1>2
<1> QED
  BY <1>2, <1>3, <1>4, <1>5 DEF Begin

\* The first exchange finds the bytes that somebody left, if any.
LEMMA FlowBegins ==
  ASSUME NEW l \in Seq(Nat), NEW f,
         NEW q, q = [k \in 1..Len(l) |-> [value |-> l[k], index |-> -1]]
  PROVE  q \in Seq(Byte) /\ Flow(l, << >>, q, 0, 0, 0, f, FALSE)
<1> DEFINE n == Len(l)
           E == << >>
<1>1. n \in Nat /\ \A k \in 1..n : l[k] \in Nat
  BY ElementOfSeq
<1>2. q \in Seq(Byte) /\ Len(q) = n /\ \A k \in 1..n : q[k].value = l[k]
  <2>1. ASSUME NEW k \in 1..n PROVE q[k] \in Byte /\ q[k].value = l[k]
    <3> DEFINE v == l[k]
    <3>1. v \in Nat /\ q[k] = [value |-> v, index |-> -1]
      BY <1>1
    <3> HIDE DEF v
    <3>2. q[k] \in Byte /\ q[k].value = v
      BY <3>1 DEF Byte
    <3> QED
      BY <3>2 DEF v
  <2>2. DOMAIN q = 1..n /\ q = [k \in 1..n |-> q[k]]
    OBVIOUS
  <2> HIDE DEF n
  <2>3. q \in Seq(Byte)
    BY ONLY <1>1, <2>1, <2>2
  <2>4. DOMAIN q = 1..Len(q) /\ Len(q) \in Nat
    BY <2>3, LenProperties
  <2>5. Len(q) = n
    BY ONLY <1>1, <2>2, <2>4, SameEnd
  <2> QED
    BY <2>1, <2>3, <2>5
<1>3. Len(E) = 0 /\ Len(E) \in Nat
  OBVIOUS
<1> HIDE DEF E, n
<1>4. Past(l, 0, f)
  BY DEF Past
<1>5. Coming(l, E, q, 0, f)
  <2>1. SUFFICES ASSUME NEW k \in 1..(Len(E) + Len(q)) PROVE Wire(E, q)[k] = Expected(l, 0 + k)
    BY DEF Coming
  <2>2. k \in 1..n /\ k \in 1..Len(q) /\ Len(E) + k = k /\ 0 + k = k /\ k <= Len(l)
    BY <1>1, <1>2, <1>3 DEF n
  <2>3. Wired(E, q)
    BY <1>1, <1>2, <1>3, WireMeans
  <2>4. Wire(E, q)[k] = q[k].value
    BY <2>2, <2>3 DEF Wired
  <2> QED
    BY <1>2, <2>2, <2>4 DEF Expected
<1>6. Counted(l, E, q, 0, 0, 0, f)
  BY <1>1, <1>2, <1>3 DEF Counted, n
<1>7. Own(l, q, 0, f, FALSE)
  BY <1>2 DEF Own, n
<1> QED
  BY <1>2, <1>4, <1>5, <1>6, <1>7 DEF Flow, E

\* Bytes of exchange i from place off on.
Writes(more, i, off) ==
  \A k \in 1..Len(more) : more[k].index = i /\ more[k].value = Bench!PayloadFor(i)[off + k]

\* Reading n bytes from q makes d into e and leaves r.
Reads(d, q, n, i, st, e, r, su) ==
  /\ e = d \o [k \in 1..n |-> q[k].value]
  /\ r = Bench!Rest(q, n)
  /\ su = (st \/ \E k \in 1..n : q[k].index # i)

\* A write puts bytes of the exchange at the end, or loses one of them.
LEMMA FlowSent ==
  ASSUME NEW l \in Seq(Nat), NEW q \in Seq(Byte), NEW off \in Nat, NEW i \in Nat, NEW f, NEW st,
         Flow(l, << >>, q, off, i * Size, i, f, st),
         NEW more \in Seq(Byte), NEW count \in Nat, count > 0, off + count <= Size,
         Len(more) = IF f = "lossy" THEN count - 1 ELSE count,
         Writes(more, i, off)
  PROVE  q \o more \in Seq(Byte) /\ Flow(l, << >>, q \o more, off + count, i * Size, i, f, st)
<1> DEFINE r == q \o more
           d == << >>
           b == i * Size
<1>1. /\ Len(l) \in Nat /\ Len(q) \in Nat /\ Len(more) \in Nat /\ Len(d) = 0 /\ Size \in Nat
      /\ r \in Seq(Byte) /\ Len(r) = Len(q) + Len(more) /\ Joins(r, q, more) /\ b \in Nat
  <2>1. Len(d) = 0
    OBVIOUS
  <2>2. Size \in Nat /\ b \in Nat
    BY SizeAssumption, Products
  <2> QED
    BY <2>1, <2>2, JoinMeans
<1>2. Flow(l, d, q, off, b, i, f, st)
  OBVIOUS
<1> HIDE DEF r, d, b
<1>3. ASSUME NEW t, Len(t) \in Nat PROVE \A k \in 1..Len(t) : Wire(d, t)[k] = t[k].value
  <2>1. ASSUME NEW k \in 1..Len(t) PROVE Wire(d, t)[k] = t[k].value
    <3>0. Wired(d, t)
      BY <1>1, <1>3, WireMeans
    <3>1. Wire(d, t)[Len(d) + k] = t[k].value
      BY <3>0 DEF Wired
    <3>2. Len(d) + k = k
      BY <1>1
    <3> QED
      BY <3>1, <3>2
  <2> QED
    BY <2>1
<1>4. ASSUME NEW k \in 1..Len(r), k \notin 1..Len(q)
      PROVE  k - Len(q) \in 1..Len(more) /\ r[k] = more[k - Len(q)]
  <2> DEFINE x == k - Len(q)
  <2>1. x \in 1..Len(more) /\ Len(q) + x = k
    BY <1>1, <1>4
  <2> HIDE DEF x
  <2>2. r[Len(q) + x] = more[x]
    BY <1>1, <2>1 DEF Joins
  <2>3. r[k] = more[x]
    BY <2>1, <2>2
  <2> QED
    BY <2>1, <2>3 DEF x
<1>5. Past(l, b, f)
  BY <1>2 DEF Flow
<1>6. Counted(l, d, q, off, b, i, f)
  BY <1>2 DEF Flow
<1>7. Coming(l, d, r, b, f)
  <2>1. SUFFICES ASSUME NEW k \in 1..(Len(d) + Len(r)), Known(l, b + k, f)
                 PROVE  Wire(d, r)[k] = Expected(l, b + k)
    BY DEF Coming
  <2>2. k \in 1..Len(r) /\ Wire(d, r)[k] = r[k].value
    <3>1. k \in 1..Len(r) /\ Len(r) \in Nat
      BY <1>1
    <3> QED
      BY <1>3, <3>1
  <2>3. CASE k \in 1..Len(q)
    <3>1. k \in 1..(Len(d) + Len(q))
      BY <1>1, <2>3
    <3>2. Wire(d, q)[k] = Expected(l, b + k)
      BY <1>2, <2>1, <3>1 DEF Flow, Coming
    <3>3. Wire(d, q)[k] = q[k].value /\ r[k] = q[k]
      BY <1>1, <1>3, <2>3 DEF Joins
    <3> QED
      BY <2>2, <3>2, <3>3
  <2>4. CASE k \notin 1..Len(q)
    <3> DEFINE x == k - Len(q)
    <3>1. x \in 1..Len(more) /\ r[k] = more[x] /\ k = Len(q) + x /\ x \in Nat
      BY <1>1, <1>4, <2>2, <2>4, SMTT(40)
    <3> HIDE DEF x
    <3>2. f # "lossy"
      <4>1. SUFFICES ASSUME f = "lossy" PROVE FALSE
        OBVIOUS
      <4>2. Len(l) <= b + Len(d) + Len(q) /\ b + k <= Len(l)
        BY <1>6, <2>1, <4>1 DEF Counted, Known
      <4> QED
        BY <1>1, <3>1, <4>2
    <3>3. Len(q) = Len(l) + off
      BY <1>1, <1>6, <3>2 DEF Counted
    <3>4. off + x \in 1..Size
      BY <1>1, <3>1, <3>2
    <3> DEFINE y == b + k
               z == b + (off + x)
    <3>5. ~(y <= Len(l)) /\ y - Len(l) = z
      BY <1>1, <3>1, <3>3
    <3> HIDE DEF y, z
    <3>9. Expected(l, y) = Stream(z)
      BY <3>5 DEF Expected
    <3>6. Expected(l, b + k) = Stream(b + (off + x))
      BY <3>9 DEF y, z
    <3>7. Stream(b + (off + x)) = Bench!PayloadFor(i)[off + x]
      BY <3>4, StreamMeans DEF b
    <3>8. more[x].value = Bench!PayloadFor(i)[off + x]
      BY <3>1 DEF Writes
    <3> QED
      BY <2>2, <3>1, <3>6, <3>7, <3>8
  <2> QED
    BY <2>3, <2>4
<1>8. Counted(l, d, r, off + count, b, i, f)
  <2>1. CASE f = "lossy"
    <3>1. Len(r) = Len(q) + (count - 1)
      BY <1>1, <2>1
    <3>2. /\ Len(l) <= b + Len(d) + Len(q)
          /\ Len(d) + Len(q) + i + (IF off > 0 THEN 1 ELSE 0) <= Len(l) + off
      BY <1>6, <2>1 DEF Counted
    <3>3. Len(l) <= b + Len(d) + Len(r)
      BY <1>1, <3>1, <3>2
    <3>4. off + count > 0 /\ Len(d) + Len(r) + i + 1 <= Len(l) + (off + count)
      BY <1>1, <3>1, <3>2, SMTT(40)
    <3>5. (IF off + count > 0 THEN 1 ELSE 0) = 1
      BY <3>4
    <3> QED
      BY ONLY <2>1, <3>3, <3>4, <3>5 DEF Counted
  <2>2. CASE f # "lossy"
    <3>1. Len(d) + Len(q) = Len(l) + off /\ Len(r) = Len(q) + count
      BY <1>1, <1>6, <2>2 DEF Counted
    <3>2. Len(d) + Len(r) = Len(l) + (off + count)
      BY <1>1, <3>1
    <3> QED
      BY ONLY <2>2, <3>2 DEF Counted
  <2> QED
    BY <2>1, <2>2
<1>9. Own(l, r, i, f, st)
  <2>1. SUFFICES ASSUME Len(l) = 0, f # "lossy"
                 PROVE  st = FALSE /\ \A k \in 1..Len(r) : r[k].index = i
    BY DEF Own
  <2>2. st = FALSE /\ \A k \in 1..Len(q) : q[k].index = i
    BY <1>2, <2>1 DEF Flow, Own
  <2>3. ASSUME NEW k \in 1..Len(r) PROVE r[k].index = i
    <3>1. CASE k \in 1..Len(q)
      BY <1>1, <2>2, <3>1 DEF Joins
    <3>2. CASE k \notin 1..Len(q)
      BY <1>4, <3>2 DEF Writes
    <3> QED
      BY <3>1, <3>2
  <2> QED
    BY <2>2, <2>3
<1>10. Flow(l, d, r, off + count, b, i, f, st)
  BY <1>5, <1>7, <1>8, <1>9 DEF Flow
<1> QED
  BY <1>1, <1>10 DEF r, d, b

\* A read hands over what comes next and leaves the rest.
LEMMA FlowReceived ==
  ASSUME NEW l \in Seq(Nat), NEW d \in Seq(Nat), NEW q \in Seq(Byte), NEW off \in Nat,
         NEW b \in Nat, NEW i \in Nat, NEW f, NEW st, Flow(l, d, q, off, b, i, f, st),
         NEW n \in 1..Len(q), NEW e, NEW r, NEW su, Reads(d, q, n, i, st, e, r, su)
  PROVE  /\ e \in Seq(Nat) /\ r \in Seq(Byte) /\ Len(e) = Len(d) + n
         /\ Flow(l, e, r, off, b, i, f, su)
<1> DEFINE taken == [k \in 1..n |-> q[k].value]
<1>1. Len(d) \in Nat /\ Len(q) \in Nat /\ n \in Nat /\ n <= Len(q) /\ n > 0
      /\ \A k \in 1..Len(q) : q[k] \in Byte
  BY ElementOfSeq
<1>2. taken \in Seq(Nat) /\ Len(taken) = n /\ \A k \in 1..n : taken[k] = q[k].value
  <2>1. ASSUME NEW k \in 1..n PROVE q[k].value \in Nat
    <3>1. q[k] \in Byte
      BY <1>1
    <3> QED
      BY <3>1 DEF Byte
  <2>2. taken \in Seq(Nat)
    BY <1>1, <2>1
  <2>3. DOMAIN taken = 1..Len(taken) /\ Len(taken) \in Nat /\ DOMAIN taken = 1..n
    BY <2>2, LenProperties
  <2>4. Len(taken) = n
    BY ONLY <1>1, <2>3, SameEnd
  <2> QED
    BY <2>2, <2>4
<1> HIDE DEF taken
<1>3. /\ e \in Seq(Nat) /\ Len(e) = Len(d) + n
      /\ \A k \in 1..Len(d) : e[k] = d[k]
      /\ \A k \in 1..n : e[Len(d) + k] = q[k].value
  <2>1. e = d \o taken
    BY DEF Reads, taken
  <2>2. e \in Seq(Nat) /\ Len(e) = Len(d) + Len(taken) /\ Joins(e, d, taken)
    BY <1>2, <2>1, JoinMeans
  <2> QED
    BY <1>2, <2>2 DEF Joins
<1>4. /\ r \in Seq(Byte) /\ Len(r) = Len(q) - n
      /\ \A k \in 1..(Len(q) - n) : r[k] = q[k + n]
  <2>1. r = SubSeq(q, n + 1, Len(q))
    BY DEF Reads, Bench!Rest
  <2>2. /\ r \in Seq(Byte)
        /\ Len(r) = IF n + 1 <= Len(q) THEN Len(q) - (n + 1) + 1 ELSE 0
        /\ \A k \in 1..(Len(q) - (n + 1) + 1) : r[k] = q[n + 1 + k - 1]
    <3>1. n + 1 \in Int /\ Len(q) \in Int /\ \A k \in (n + 1)..Len(q) : q[k] \in Byte
      BY <1>1
    <3> QED
      BY <2>1, <3>1, SubSeqProperties
  <2>3. Len(r) = Len(q) - n
    BY <1>1, <2>2
  <2>4. ASSUME NEW k \in 1..(Len(q) - n) PROVE r[k] = q[k + n]
    <3>1. k \in 1..(Len(q) - (n + 1) + 1) /\ n + 1 + k - 1 = k + n
      BY <1>1
    <3> QED
      BY <2>2, <3>1
  <2> QED
    BY <2>2, <2>3, <2>4
<1>5. Len(e) + Len(r) = Len(d) + Len(q)
  BY <1>1, <1>3, <1>4
<1>6. ASSUME NEW k \in 1..(Len(d) + Len(q))
      PROVE  Wire(e, r)[k] = Wire(d, q)[k]
  <2>1. Len(e) \in Nat /\ Len(r) \in Nat
    BY <1>1, <1>3, <1>4
  <2>2. Wired(d, q) /\ Wired(e, r)
    BY <1>1, <2>1, WireMeans
  <2>3. CASE k <= Len(d)
    <3>1. k \in 1..Len(d) /\ k \in 1..Len(e)
      BY <1>1, <1>3, <2>3
    <3> QED
      BY <1>3, <2>2, <3>1 DEF Wired
  <2>4. CASE Len(d) < k /\ k <= Len(d) + n
    <3>1. PICK j \in 1..n : k = Len(d) + j
      <4>1. k - Len(d) \in 1..n /\ k = Len(d) + (k - Len(d))
        BY <1>1, <2>4
      <4> QED
        BY <4>1
    <3>2. j \in 1..Len(q) /\ k \in 1..Len(e)
      BY <1>1, <1>3, <2>4
    <3>3. Wire(d, q)[Len(d) + j] = q[j].value /\ Wire(e, r)[k] = e[k]
      BY <2>2, <3>2 DEF Wired
    <3>4. e[Len(d) + j] = q[j].value
      BY <1>3
    <3> QED
      BY <3>1, <3>3, <3>4
  <2>5. CASE k > Len(d) + n
    <3>1. PICK j \in 1..(Len(q) - n) : k = Len(e) + j
      <4> DEFINE x == k - Len(e)
      <4>1. x \in 1..(Len(q) - n) /\ k = Len(e) + x
        BY <1>1, <1>3, <2>1, <2>5
      <4> HIDE DEF x
      <4> QED
        BY <4>1
    <3>2. j \in 1..Len(r) /\ j + n \in 1..Len(q) /\ k = Len(d) + (j + n)
      BY <1>1, <1>3, <1>4, <3>1
    <3>3. Wire(d, q)[Len(d) + (j + n)] = q[j + n].value /\ Wire(e, r)[Len(e) + j] = r[j].value
      BY <2>2, <3>2 DEF Wired
    <3>4. r[j] = q[j + n]
      BY <1>4, <3>1
    <3> QED
      BY <3>1, <3>2, <3>3, <3>4
  <2> QED
    BY <1>1, <2>3, <2>4, <2>5
<1>7. Own(l, r, i, f, su)
  <2>1. SUFFICES ASSUME Len(l) = 0, f # "lossy"
                 PROVE  su = FALSE /\ \A k \in 1..Len(r) : r[k].index = i
    BY DEF Own
  <2>2. st = FALSE /\ \A k \in 1..Len(q) : q[k].index = i
    BY <2>1 DEF Flow, Own
  <2>3. su = FALSE
    <3>1. \A k \in 1..n : q[k].index = i
      BY <1>1, <2>2
    <3> QED
      BY <2>2, <3>1 DEF Reads
  <2>4. ASSUME NEW k \in 1..Len(r) PROVE r[k].index = i
    <3>1. k \in 1..(Len(q) - n) /\ k + n \in 1..Len(q)
      BY <1>1, <1>4
    <3> QED
      BY <1>4, <2>2, <3>1
  <2> QED
    BY <2>3, <2>4
<1>8. Coming(l, e, r, b, f)
  <2>1. Coming(l, d, q, b, f)
    BY DEF Flow
  <2> QED
    BY <1>5, <1>6, <2>1 DEF Coming
<1>9. Counted(l, e, r, off, b, i, f)
  <2>1. Counted(l, d, q, off, b, i, f)
    BY DEF Flow
  <2>2. Len(e) \in Nat /\ Len(r) \in Nat /\ Len(l) \in Nat
    BY <1>1, <1>3, <1>4
  <2> DEFINE x == Len(e)
             y == Len(r)
             u == Len(d)
             v == Len(q)
  <2>3. x \in Nat /\ y \in Nat /\ u \in Nat /\ v \in Nat /\ x + y = u + v
    BY <1>1, <1>5, <2>2
  <2> HIDE DEF x, y, u, v
  <2>4. b + x + y = b + u + v
    BY <2>3
  <2>5. b + Len(e) + Len(r) = b + Len(d) + Len(q)
    BY <2>4 DEF x, y, u, v
  <2> QED
    BY <1>5, <2>1, <2>5 DEF Counted
<1>10. Flow(l, e, r, off, b, i, f, su)
  BY <1>7, <1>8, <1>9 DEF Flow
<1> QED
  BY <1>3, <1>4, <1>10

\* An exchange that got its payload back goes over to the next one.
LEMMA FlowExchanged ==
  ASSUME NEW l \in Seq(Nat), NEW d \in Seq(Nat), NEW q \in Seq(Byte), NEW i \in Nat, NEW f, NEW st,
         Flow(l, d, q, Size, i * Size, i, f, st), Len(d) = Size, d = Bench!PayloadFor(i)
  PROVE  Flow(l, << >>, q, 0, (i + 1) * Size, i + 1, f, st)
<1> DEFINE b == i * Size
           E == << >>
<1>1. /\ Size \in Nat /\ Size > 0 /\ Len(d) = Size /\ Len(q) \in Nat /\ Len(l) \in Nat
      /\ b \in Nat /\ (i + 1) * Size = b + Size /\ Len(E) = 0
  BY SizeAssumption, Products
<1>2. Flow(l, d, q, Size, b, i, f, st)
  OBVIOUS
<1>3. \A k \in 1..Size : Stream(b + k) = d[k]
  BY StreamMeans
<1> HIDE DEF b, E
<1>4. Wired(d, q) /\ Wired(E, q)
  BY <1>1, WireMeans
<1>5. Past(l, b + Size, f)
  <2>1. SUFFICES ASSUME NEW p \in 1..(b + Size), Known(l, p, f) PROVE Expected(l, p) = Stream(p)
    BY DEF Past
  <2>2. CASE p \in 1..b
    BY <1>2, <2>1, <2>2 DEF Flow, Past
  <2>3. CASE p \notin 1..b
    <3> DEFINE k == p - b
    <3>1. k \in 1..Size /\ p = b + k /\ k \in 1..(Len(d) + Len(q)) /\ k \in 1..Len(d)
      BY <1>1, <2>3
    <3> HIDE DEF k
    <3>2. Wire(d, q)[k] = Expected(l, b + k)
      BY <1>2, <2>1, <3>1 DEF Flow, Coming
    <3>3. Wire(d, q)[k] = d[k]
      BY <1>4, <3>1 DEF Wired
    <3> QED
      BY <1>3, <3>1, <3>2, <3>3
  <2> QED
    BY <2>2, <2>3
<1>6. Coming(l, E, q, b + Size, f)
  <2>1. SUFFICES ASSUME NEW k \in 1..(Len(E) + Len(q)), Known(l, b + Size + k, f)
                 PROVE  Wire(E, q)[k] = Expected(l, b + Size + k)
    BY DEF Coming
  <2>2. /\ k \in 1..Len(q) /\ Len(E) + k = k /\ Len(d) + k \in 1..(Len(d) + Len(q))
        /\ b + (Len(d) + k) = b + Size + k
    BY <1>1
  <2>3. Wire(E, q)[k] = q[k].value /\ Wire(d, q)[Len(d) + k] = q[k].value
    BY <1>4, <2>2 DEF Wired
  <2>4. Wire(d, q)[Len(d) + k] = Expected(l, b + (Len(d) + k))
    BY <1>2, <2>1, <2>2 DEF Flow, Coming
  <2> QED
    BY <2>2, <2>3, <2>4
<1>7. Counted(l, d, q, Size, b, i, f)
  BY <1>2 DEF Flow
<1>8. Counted(l, E, q, 0, b + Size, i + 1, f)
  BY <1>1, <1>7 DEF Counted
<1>9. Own(l, q, i + 1, f, st)
  <2>1. SUFFICES ASSUME Len(l) = 0, f # "lossy"
                 PROVE  st = FALSE /\ \A k \in 1..Len(q) : q[k].index = i + 1
    BY DEF Own
  <2>2. st = FALSE
    BY <1>2, <2>1 DEF Flow, Own
  <2>3. Len(q) = 0
    BY <1>1, <1>7, <2>1 DEF Counted
  <2> QED
    BY <2>2, <2>3
<1>10. Flow(l, E, q, 0, b + Size, i + 1, f, st)
  BY <1>5, <1>6, <1>8, <1>9 DEF Flow
<1> QED
  BY <1>1, <1>10 DEF E

\* After the last exchange: what was left explains every byte that was not the
\* exchange's own.
LEMMA FlowEnds ==
  ASSUME left \in Seq(Nat), queue \in Seq(Byte), NEW last \in Nat, last = Warmup + Iterations,
         Flow(left, << >>, queue, 0, last * Size, last, fault, stale)
  PROVE  Trusted
<1> DEFINE t == last * Size
           E == << >>
<1>1. /\ Size \in Nat /\ last > 0 /\ t \in Nat /\ Len(left) \in Nat
      /\ Len(queue) \in Nat /\ Len(E) = 0 /\ Bench!Exchanges = last
  BY SizeAssumption, IndexAssumption, Products DEF Bench!Exchanges
<1>2. Flow(left, E, queue, 0, t, last, fault, stale)
  OBVIOUS
<1> HIDE DEF E
<1>3. CASE Len(left) = 0
  <2>1. fault # "lossy"
    BY <1>1, <1>2, <1>3 DEF Flow, Counted
  <2>2. stale = FALSE /\ Len(queue) = 0
    BY <1>1, <1>2, <1>3, <2>1 DEF Flow, Counted, Own
  <2>3. queue = << >>
    BY <2>2, EmptySeq
  <2> QED
    BY <2>2, <2>3 DEF Trusted
<1>4. CASE Len(left) # 0
  <2>1. left # << >>
    BY <1>4
  <2>2. Bench!LeftLikePayloads
    <3>1. SUFFICES ASSUME NEW i \in 0..(Bench!Exchanges - 1), NEW k \in 1..Size,
                          i * Size + k <= Len(left)
                   PROVE  left[i * Size + k] = Bench!PayloadFor(i)[k]
      BY DEF Bench!LeftLikePayloads
    <3>2. i \in Nat /\ i < last
      BY <1>1
    <3> DEFINE x == i * Size
               p == x + k
    <3>3. x \in Nat /\ x + Size <= t
      BY <1>1, <3>2, Products
    <3>4. Stream(p) = Bench!PayloadFor(i)[k]
      BY <3>2, StreamMeans
    <3>5. p <= Len(left)
      BY <3>1
    <3> HIDE DEF x, t
    <3>6. p \in 1..t
      BY <1>1, <3>3
    <3> HIDE DEF p
    <3>7. Known(left, p, fault) /\ Expected(left, p) = left[p]
      BY <3>5 DEF Known, Expected
    <3>8. left[p] = Stream(p)
      BY <1>2, <3>6, <3>7 DEF Flow, Past
    <3>9. left[p] = Bench!PayloadFor(i)[k]
      BY <3>4, <3>8
    <3> QED
      BY <3>9 DEF p, x
  <2>3. fault = "lossy" => Len(left) >= Bench!Exchanges
    BY <1>1, <1>2 DEF Flow, Counted
  <2>4. fault # "lossy" => Len(left) >= Base * Size \/ Len(left) + 2 * Size >= t
    <3> DEFINE d == Len(left)
    <3>1. SUFFICES ASSUME fault # "lossy", ~(d >= Base * Size), ~(d + 2 * Size >= t)
                   PROVE  FALSE
      OBVIOUS
    <3>2. Base * Size \in Nat /\ 2 * Size \in Nat
      BY SizeAssumption, Products
    <3>3. d > 0 /\ d < Base * Size /\ d + 2 * Size < t
      BY <1>1, <1>4, <3>1, <3>2
    <3> HIDE DEF d, t
    <3>4. ASSUME NEW p \in 1..t, p > d PROVE Stream(p - d) = Stream(p)
      <4>1. Known(left, p, fault)
        BY <3>1 DEF Known
      <4>2. ~(p <= Len(left)) /\ p - d = p - Len(left)
        BY <1>1, <3>4 DEF d
      <4>3. Expected(left, p) = Stream(p - d)
        BY <4>2 DEF Expected
      <4> QED
        BY <1>2, <4>1, <4>3 DEF Flow, Past
    <3>5. d \in Nat /\ t \in Nat
      BY <1>1 DEF d
    <3> QED
      BY ONLY <3>3, <3>4, <3>5, NoShortPeriod
  <2>5. t = Bench!Exchanges * Size
    BY <1>1
  <2> QED
    BY <2>1, <2>2, <2>3, <2>4, <2>5 DEF Trusted
<1> QED
  BY <1>3, <1>4

-----------------------------------------------------------------------------
\* What cannot change while the samples and the runs stand still.
LEMMA RunsStand ==
  ASSUME RepeatInv, run' = run, runs' = runs, rows' = rows, pc \notin {"recorded", "ended"},
         pc' \notin {"recorded", "ended"}
  PROVE  RepeatInv'
BY DEF RepeatInv

\* Opening a transport: something may be in it, and it may fail half way.
LEMMA BenchEnter == BenchInv /\ Bench!Enter => BenchInv'
<1> SUFFICES ASSUME BenchInv, Bench!Enter PROVE BenchInv'
  OBVIOUS
<1>1. /\ pc = "enter" /\ fault' \in Bench!Faults
      /\ UNCHANGED <<closes, index, offset, data, samples, run, rows, runs, manifest, stale>>
  BY DEF Bench!Enter, Bench!measuring, Bench!saved
<1>2. /\ raised = "none" /\ first = "none" /\ index = 0 /\ offset = 0 /\ data = << >> /\ stale = FALSE
      /\ open = {} /\ resources = {} /\ closes = [e \in Bench!Endpoint |-> 0]
  BY <1>1 DEF BenchInv, ExchangeInv, EndpointInv, BenchTypeOK
<1>3. /\ left' \in Seq(Nat) /\ queue' \in Seq(Byte)
      /\ Flow(left', << >>, queue', 0, 0 * Size, 0, fault', FALSE)
  <2>1. PICK n \in 0..MaxLeft : \E bytes \in [1..n -> Bench!Byte] :
          /\ left' = bytes
          /\ queue' = [k \in 1..n |-> [value |-> bytes[k], index |-> -1]]
    BY DEF Bench!Enter
  <2>2. /\ left' \in [1..n -> Bench!Byte]
        /\ queue' = [k \in 1..n |-> [value |-> left'[k], index |-> -1]]
    BY <2>1
  <2>3. n \in Nat /\ left' \in [1..n -> Nat] /\ 0 * Size = 0
    BY <2>2, SizeAssumption DEF Bench!Byte
  <2>4. left' \in Seq(Nat)
    BY <2>3
  <2>5. Len(left') = n
    BY <2>3, <2>4, LenProperties, SameEnd
  <2> QED
    BY <2>2, <2>3, <2>4, <2>5, FlowBegins
<1>4. \/ /\ pc' = "record" /\ raised' = "setup" /\ first' = "setup"
         /\ open' = open /\ resources' = resources
      \/ /\ pc' = "close" /\ raised' = "setup" /\ first' = "setup"
         /\ open' = Bench!Endpoint /\ resources' = Bench!Endpoint
      \/ /\ pc' = "send" /\ raised' = raised /\ first' = first
         /\ open' = Bench!Endpoint /\ resources' = Bench!Endpoint
  BY <1>2 DEF Bench!Enter, Bench!Raise
<1>5. BenchTypeOK'
  BY <1>1, <1>2, <1>3, <1>4 DEF BenchInv, BenchTypeOK, BenchPlaces, Exchanging
<1>6. EndpointInv'
  BY <1>1, <1>2, <1>4 DEF EndpointInv, Exchanging
<1>7. ExchangeInv'
  <2>1. pc' = "send" => index' < Warmup + Iterations /\ raised' = "none" /\ data' = << >>
                        /\ Flow(left', data', queue', offset', index' * Size, index', fault', stale')
    <3>1. index' < Warmup + Iterations
      BY <1>1, <1>2, IndexAssumption
    <3>2. data' = << >> /\ Flow(left', data', queue', offset', index' * Size, index', fault', stale')
      BY <1>1, <1>2, <1>3
    <3>3. pc' = "send" => raised' = "none"
      BY <1>2, <1>4
    <3> QED
      BY <3>1, <3>2, <3>3
  <2>2. pc' # "send" => pc' \in {"record", "close"} /\ raised' = "setup"
    BY <1>4
  <2> QED
    BY <2>1, <2>2 DEF ExchangeInv, Exchanging
<1>8. RepeatInv'
  BY <1>1, <1>4, RunsStand DEF BenchInv
<1> QED
  BY <1>5, <1>6, <1>7, <1>8 DEF BenchInv

\* Leaving it: every endpoint is closed once, whichever close() raises.
LEMMA BenchLeave == BenchInv /\ Bench!Leave => BenchInv'
<1> SUFFICES ASSUME BenchInv, Bench!Leave PROVE BenchInv'
  OBVIOUS
<1>1. /\ pc = "close" /\ pc' = "record" /\ resources' = {}
      /\ UNCHANGED <<fault, queue, left, index, offset, data, samples, run, rows, runs, manifest, stale>>
  BY DEF Bench!Leave, Bench!measuring, Bench!saved, Bench!transport
<1>2. /\ open = Bench!Endpoint /\ resources = Bench!Endpoint
      /\ closes = [e \in Bench!Endpoint |-> 0] /\ first = raised
  BY <1>1 DEF BenchInv, EndpointInv, BenchTypeOK
<1>3. /\ closes' = [e \in Bench!Endpoint |-> 1] /\ open' = {}
  <2>1. /\ closes' = [e \in Bench!Endpoint |-> IF e \in resources THEN closes[e] + 1 ELSE closes[e]]
        /\ open' = open \ resources
    BY DEF Bench!Leave, Bench!Close
  <2> QED
    BY <1>2, <2>1
<1>4. \/ raised' = raised /\ first' = first
      \/ raised = "none" /\ raised' = "cleanup" /\ first' = "cleanup"
  BY <1>2 DEF Bench!Leave, Bench!CleanupRaises, Bench!Raise
<1>5. BenchTypeOK'
  BY <1>1, <1>3, <1>4 DEF BenchInv, BenchTypeOK, BenchPlaces
<1>6. EndpointInv'
  BY <1>1, <1>3 DEF EndpointInv, Exchanging
<1>7. ExchangeInv'
  <2>1. raised' # "export"
    BY <1>1, <1>4 DEF BenchInv, ExchangeInv
  <2>2. raised' = "none" => index' = Warmup + Iterations /\ Trusted'
    BY <1>1, <1>4 DEF BenchInv, ExchangeInv, Trusted, Bench!LeftLikePayloads, Bench!Exchanges
  <2> QED
    BY <1>1, <2>1, <2>2 DEF ExchangeInv, Exchanging
<1>8. RepeatInv'
  BY <1>1, RunsStand DEF BenchInv
<1> QED
  BY <1>5, <1>6, <1>7, <1>8 DEF BenchInv

\* An exchange that raises ends the measurement.
LEMMA BenchFails ==
  ASSUME BenchInv, pc \in Exchanging, Bench!Fails,
         fault' = fault, queue' = queue, stale' = stale,
         index' = index, samples' = samples,
         UNCHANGED <<left, open, closes, resources, run, runs, rows>>,
         offset' \in 0..Size, data' \in Seq(Nat), Len(data') <= Size
  PROVE  BenchInv'
<1>1. /\ pc' = "close" /\ raised' = "body" /\ raised = "none" /\ first = "none" /\ first' = "body"
  BY DEF Bench!Fails, Bench!Raise, BenchInv, ExchangeInv, BenchTypeOK
<1>2. BenchTypeOK'
  BY <1>1 DEF BenchInv, BenchTypeOK, BenchPlaces
<1>3. EndpointInv'
  BY <1>1 DEF BenchInv, EndpointInv, Exchanging
<1>4. ExchangeInv'
  BY <1>1 DEF ExchangeInv, Exchanging
<1>5. RepeatInv'
  BY <1>1, RunsStand DEF BenchInv, Exchanging
<1> QED
  BY <1>2, <1>3, <1>4, <1>5 DEF BenchInv

\* A write.
LEMMA BenchSend == BenchInv /\ Bench!Send => BenchInv'
<1> SUFFICES ASSUME BenchInv, Bench!Send PROVE BenchInv'
  OBVIOUS
<1>1. /\ pc = "send" /\ offset < Size
      /\ UNCHANGED <<fault, left, open, closes, resources, index, data, samples, run, rows, runs,
                     manifest, errors, stale>>
  BY DEF Bench!Send, Bench!endpoints, Bench!saved
<1>2. /\ data = << >> /\ raised = "none" /\ left \in Seq(Nat)
      /\ Flow(left, << >>, queue, offset, index * Size, index, fault, stale)
      /\ offset \in Nat /\ Size \in Nat /\ index \in Nat /\ queue \in Seq(Byte)
      /\ data \in Seq(Nat) /\ Len(data) <= Size /\ offset \in 0..Size
  BY <1>1, SizeAssumption DEF BenchInv, BenchTypeOK, ExchangeInv, Exchanging
<1>3. CASE Bench!Fails /\ UNCHANGED <<queue, offset>>
  BY <1>1, <1>2, <1>3, BenchFails DEF Exchanging
<1>4. CASE \E count \in Bench!Taken :
             /\ Bench!Progress(count, Size - offset)
             /\ LET sent == [k \in 1..count |-> [value |-> Bench!PayloadFor(index)[offset + k],
                                                 index |-> index]]
                IN  queue' = queue \o (IF fault = "lossy" THEN Bench!Front(sent, count - 1) ELSE sent)
             /\ offset' = offset + count
             /\ UNCHANGED <<raised, first, pc>>
  <2>1. PICK count \in Bench!Taken :
             /\ Bench!Progress(count, Size - offset)
             /\ LET sent == [k \in 1..count |-> [value |-> Bench!PayloadFor(index)[offset + k],
                                                 index |-> index]]
                IN  queue' = queue \o (IF fault = "lossy" THEN Bench!Front(sent, count - 1) ELSE sent)
             /\ offset' = offset + count
             /\ UNCHANGED <<raised, first, pc>>
    BY <1>4
  <2> DEFINE sent == [k \in 1..count |-> [value |-> Bench!PayloadFor(index)[offset + k],
                                          index |-> index]]
             more == IF fault = "lossy" THEN Bench!Front(sent, count - 1) ELSE sent
  <2>2. count \in Nat /\ count > 0 /\ offset + count <= Size
    <3>1. count \in Nat
      <4>1. CASE fault = "stuck"
        BY <4>1 DEF Bench!Taken
      <4>2. CASE fault # "stuck"
        BY <4>2 DEF Bench!Taken
      <4> QED
        BY <4>1, <4>2
    <3> QED
      BY <1>2, <2>1, <3>1 DEF Bench!Progress
  <2>3. /\ sent \in Seq(Byte) /\ Len(sent) = count
        /\ \A k \in 1..count : sent[k].index = index /\ sent[k].value = Bench!PayloadFor(index)[offset + k]
    <3>1. ASSUME NEW k \in 1..count
          PROVE  [value |-> Bench!PayloadFor(index)[offset + k], index |-> index] \in Byte
      <4>1. offset + k \in 1..Size
        BY <1>2, <2>2
      <4>2. Bench!PayloadFor(index)[offset + k] \in Nat
        BY <1>2, <4>1, Payloads
      <4> QED
        BY <1>2, <4>2 DEF Byte
    <3>2. \A k \in 1..count : sent[k] = [value |-> Bench!PayloadFor(index)[offset + k], index |-> index]
      OBVIOUS
    <3>3. DOMAIN sent = 1..count
      OBVIOUS
    <3>4. sent = [k \in 1..count |-> sent[k]]
      OBVIOUS
    <3> HIDE DEF sent
    <3>5. \A k \in 1..count : sent[k] \in Byte
      BY <3>1, <3>2
    <3>6. sent \in Seq(Byte)
      BY <2>2, <3>4, <3>5
    <3>7. DOMAIN sent = 1..Len(sent) /\ Len(sent) \in Nat
      BY <3>6, LenProperties
    <3>8. Len(sent) = count
      BY ONLY <2>2, <3>3, <3>7, SameEnd
    <3>9. ASSUME NEW k \in 1..count
          PROVE  sent[k].index = index /\ sent[k].value = Bench!PayloadFor(index)[offset + k]
      <4> DEFINE v == Bench!PayloadFor(index)[offset + k]
      <4>1. sent[k] = [value |-> v, index |-> index]
        BY <3>2
      <4> HIDE DEF v
      <4>2. sent[k].index = index /\ sent[k].value = v
        BY <4>1
      <4> QED
        BY <4>2 DEF v
    <3> QED
      BY <3>6, <3>8, <3>9
  <2> HIDE DEF sent
  <2>4. /\ more \in Seq(Byte) /\ Len(more) = IF fault = "lossy" THEN count - 1 ELSE count
        /\ Writes(more, index, offset)
    <3>1. CASE fault = "lossy"
      <4>1. more = Bench!Front(sent, count - 1) /\ count - 1 \in Nat /\ count - 1 <= Len(sent)
        BY <2>2, <2>3, <3>1
      <4> HIDE DEF more
      <4>2. more \in Seq(Byte) /\ Len(more) = count - 1 /\ Begin(more, sent, count - 1)
        BY <2>3, <4>1, FrontMeans
      <4>3. ASSUME NEW k \in 1..Len(more)
            PROVE  more[k].index = index /\ more[k].value = Bench!PayloadFor(index)[offset + k]
        <5>1. k \in 1..(count - 1) /\ k \in 1..count
          BY <2>2, <4>2
        <5>2. more[k] = sent[k]
          BY <4>2, <5>1 DEF Begin
        <5> QED
          BY <2>3, <5>1, <5>2
      <4> QED
        BY <3>1, <4>2, <4>3 DEF Writes
    <3>2. CASE fault # "lossy"
      BY <2>3, <3>2 DEF Writes
    <3> QED
      BY <3>1, <3>2
  <2>5. queue' = queue \o more
    BY <2>1 DEF more, sent
  <2> HIDE DEF more
  <2>6. queue' \in Seq(Byte) /\ Flow(left, << >>, queue', offset', index * Size, index, fault, stale)
    <3>1. /\ queue \o more \in Seq(Byte)
          /\ Flow(left, << >>, queue \o more, offset + count, index * Size, index, fault, stale)
      BY <1>2, <2>2, <2>4, FlowSent
    <3>2. offset' = offset + count
      BY <2>1
    <3> QED
      BY <2>5, <3>1, <3>2
  <2>7. offset' \in 0..Size /\ UNCHANGED <<raised, first, pc>>
    BY <1>2, <2>1, <2>2
  <2>8. BenchTypeOK'
    BY <1>1, <2>6, <2>7 DEF BenchInv, BenchTypeOK
  <2>9. EndpointInv'
    BY <1>1, <2>7 DEF BenchInv, EndpointInv
  <2>10. ExchangeInv'
    BY <1>1, <1>2, <2>6, <2>7 DEF BenchInv, ExchangeInv, Exchanging
  <2>11. RepeatInv'
    BY <1>1, <2>7, RunsStand DEF BenchInv
  <2> QED
    BY <2>8, <2>9, <2>10, <2>11 DEF BenchInv
<1> QED
  BY <1>3, <1>4 DEF Bench!Send

LEMMA BenchSent == BenchInv /\ Bench!Sent => BenchInv'
<1> SUFFICES ASSUME BenchInv, Bench!Sent PROVE BenchInv'
  OBVIOUS
<1>1. /\ pc = "send" /\ offset = Size /\ pc' = "receive"
      /\ UNCHANGED <<fault, queue, left, open, closes, resources, raised, index, offset, data,
                     samples, run, rows, runs, manifest, errors, first, stale>>
  BY DEF Bench!Sent, Bench!transport, Bench!endpoints, Bench!measuring, Bench!saved
<1>2. BenchTypeOK'
  BY <1>1 DEF BenchInv, BenchTypeOK, BenchPlaces, Exchanging
<1>3. EndpointInv'
  BY <1>1 DEF BenchInv, EndpointInv, Exchanging
<1>4. ExchangeInv'
  BY <1>1 DEF BenchInv, ExchangeInv, Exchanging
<1>5. RepeatInv'
  BY <1>1, RunsStand DEF BenchInv
<1> QED
  BY <1>2, <1>3, <1>4, <1>5 DEF BenchInv

\* A read.
LEMMA BenchReceive == BenchInv /\ Bench!Receive => BenchInv'
<1> SUFFICES ASSUME BenchInv, Bench!Receive PROVE BenchInv'
  OBVIOUS
<1>1. /\ pc = "receive" /\ Len(data) < Size
      /\ UNCHANGED <<fault, left, open, closes, resources, index, offset, samples, run, rows, runs,
                     manifest, errors>>
  BY DEF Bench!Receive, Bench!endpoints, Bench!saved
<1>2. /\ raised = "none" /\ left \in Seq(Nat)
      /\ Flow(left, data, queue, offset, index * Size, index, fault, stale)
      /\ offset \in Nat /\ Size \in Nat /\ index \in Nat /\ queue \in Seq(Byte)
      /\ data \in Seq(Nat) /\ offset \in 0..Size /\ stale \in BOOLEAN
      /\ Len(data) \in Nat /\ Len(queue) \in Nat
  BY <1>1, SizeAssumption DEF BenchInv, BenchTypeOK, ExchangeInv, Exchanging
<1>3. CASE Bench!Fails /\ UNCHANGED <<queue, data, stale>>
  BY <1>1, <1>2, <1>3, BenchFails DEF Exchanging
<1>4. CASE \E n \in 1..Bench!Lesser(Size - Len(data), Len(queue)) :
             /\ data' = data \o [k \in 1..n |-> queue[k].value]
             /\ stale' = (stale \/ \E k \in 1..n : queue[k].index # index)
             /\ queue' = Bench!Rest(queue, n)
             /\ UNCHANGED <<raised, first, pc>>
  <2>1. PICK n \in 1..Bench!Lesser(Size - Len(data), Len(queue)) :
             /\ data' = data \o [k \in 1..n |-> queue[k].value]
             /\ stale' = (stale \/ \E k \in 1..n : queue[k].index # index)
             /\ queue' = Bench!Rest(queue, n)
             /\ UNCHANGED <<raised, first, pc>>
    BY <1>4
  <2>2. n \in 1..Len(queue) /\ Len(data) + n <= Size
    BY <1>1, <1>2 DEF Bench!Lesser
  <2>3. /\ data' \in Seq(Nat) /\ queue' \in Seq(Byte) /\ Len(data') = Len(data) + n
        /\ Flow(left, data', queue', offset, index * Size, index, fault, stale')
    <3>1. Reads(data, queue, n, index, stale, data', queue', stale')
      BY <2>1 DEF Reads
    <3> DEFINE b == index * Size
    <3>2. b \in Nat /\ Flow(left, data, queue, offset, b, index, fault, stale)
      BY <1>2, Products
    <3> HIDE DEF b
    <3>3. /\ data' \in Seq(Nat) /\ queue' \in Seq(Byte) /\ Len(data') = Len(data) + n
          /\ Flow(left, data', queue', offset, b, index, fault, stale')
      BY ONLY <1>2, <2>2, <3>1, <3>2, FlowReceived
    <3> QED
      BY <3>3 DEF b
  <2>4. Len(data') <= Size /\ stale' \in BOOLEAN /\ UNCHANGED <<raised, first, pc>>
    BY <1>2, <2>1, <2>2, <2>3
  <2>5. BenchTypeOK'
    BY <1>1, <2>3, <2>4 DEF BenchInv, BenchTypeOK
  <2>6. EndpointInv'
    BY <1>1, <2>4 DEF BenchInv, EndpointInv
  <2>7. ExchangeInv'
    BY <1>1, <1>2, <2>3, <2>4 DEF BenchInv, ExchangeInv, Exchanging
  <2>8. RepeatInv'
    BY <1>1, <2>4, RunsStand DEF BenchInv
  <2> QED
    BY <2>5, <2>6, <2>7, <2>8 DEF BenchInv
<1> QED
  BY <1>3, <1>4 DEF Bench!Receive

\* A payload that came back: compared, and counted when the warm-up is over.
LEMMA BenchExchanged == BenchInv /\ Bench!Exchanged => BenchInv'
<1> SUFFICES ASSUME BenchInv, Bench!Exchanged PROVE BenchInv'
  OBVIOUS
<1>1. /\ pc = "receive" /\ Len(data) = Size /\ offset' = 0 /\ data' = << >>
      /\ UNCHANGED <<fault, queue, left, open, closes, resources, run, rows, runs, manifest, errors,
                     stale>>
  BY DEF Bench!Exchanged, Bench!transport, Bench!endpoints, Bench!saved
<1>2. /\ raised = "none" /\ offset = Size /\ index < Warmup + Iterations
      /\ Flow(left, data, queue, Size, index * Size, index, fault, stale)
      /\ left \in Seq(Nat) /\ index \in Nat /\ queue \in Seq(Byte) /\ data \in Seq(Nat)
  BY <1>1 DEF BenchInv, BenchTypeOK, ExchangeInv, Exchanging
<1>3. 0 \in 0..Size /\ << >> \in Seq(Nat) /\ Len(<< >>) = 0 /\ 0 <= Size
  BY SizeAssumption
<1>4. CASE Bench!Fails /\ UNCHANGED <<index, samples>>
  BY <1>1, <1>3, <1>4, BenchFails DEF Exchanging
<1>5. CASE /\ data = Bench!PayloadFor(index) /\ index' = index + 1
           /\ IF index < Warmup THEN UNCHANGED samples
              ELSE \E elapsed \in Durations : samples' = Append(samples, elapsed)
           /\ pc' = IF index + 1 = Warmup + Iterations THEN "close" ELSE "send"
           /\ UNCHANGED <<raised, first>>
  <2>1. Flow(left, << >>, queue, 0, (index + 1) * Size, index + 1, fault, stale)
    BY <1>1, <1>2, <1>5, FlowExchanged
  <2>2. /\ Warmup \in Nat /\ Iterations \in Nat /\ Warmup + Iterations \in Nat
        /\ index' \in 0..(Warmup + Iterations)
    BY <1>2, <1>5, IndexAssumption
  <2>3. /\ samples' \in Seq(Durations)
        /\ Len(samples') = IF index' > Warmup THEN index' - Warmup ELSE 0
    <3>1. samples \in Seq(Durations) /\ Len(samples) = IF index > Warmup THEN index - Warmup ELSE 0
      BY DEF BenchInv, BenchTypeOK
    <3>2. CASE index < Warmup
      BY <1>2, <1>5, <2>2, <3>1, <3>2
    <3>3. CASE ~(index < Warmup)
      <4>1. PICK elapsed \in Durations : samples' = Append(samples, elapsed)
        BY <1>5, <3>3
      <4>2. samples' \in Seq(Durations) /\ Len(samples') = Len(samples) + 1
        BY <3>1, <4>1
      <4>3. index' > Warmup /\ Len(samples) = index - Warmup /\ index' - Warmup = index - Warmup + 1
        BY <1>2, <1>5, <2>2, <3>1, <3>3
      <4> QED
        BY <4>2, <4>3
    <3> QED
      BY <3>2, <3>3
  <2>4. BenchTypeOK'
    <3>1. pc' \in BenchPlaces
      BY <1>5 DEF BenchPlaces, Exchanging
    <3>2. data' \in Seq(Nat) /\ Len(data') <= Size /\ offset' \in 0..Size
      BY <1>1, <1>3
    <3> QED
      BY <1>1, <1>5, <2>2, <2>3, <3>1, <3>2 DEF BenchInv, BenchTypeOK
  <2>5. EndpointInv'
    BY <1>1, <1>5 DEF BenchInv, EndpointInv, Exchanging
  <2>6. ExchangeInv'
    <3>1. CASE index + 1 = Warmup + Iterations
      <4>1. Trusted
        <5> DEFINE last == index + 1
        <5>1. last \in Nat /\ last = Warmup + Iterations
              /\ Flow(left, << >>, queue, 0, last * Size, last, fault, stale)
          BY <1>2, <2>1, <3>1
        <5> HIDE DEF last
        <5> QED
          BY <1>2, <5>1, FlowEnds
      <4>2. Trusted'
        BY <1>1, <4>1 DEF Trusted, Bench!LeftLikePayloads, Bench!Exchanges
      <4>3. pc' = "close" /\ raised' = "none" /\ index' = Warmup + Iterations
        BY <1>2, <1>5, <3>1
      <4> QED
        BY <4>2, <4>3 DEF ExchangeInv, Exchanging
    <3>2. CASE index + 1 # Warmup + Iterations
      <4>1. index' < Warmup + Iterations
        BY <1>2, <1>5, <2>2, <3>2
      <4>2. Flow(left', data', queue', offset', index' * Size, index', fault', stale')
        BY <1>1, <1>5, <2>1
      <4>3. pc' = "send" /\ raised' = "none" /\ data' = << >>
        BY <1>1, <1>2, <1>5, <3>2
      <4> QED
        BY <4>1, <4>2, <4>3 DEF ExchangeInv, Exchanging
    <3> QED
      BY <3>1, <3>2
  <2>7. RepeatInv'
    BY <1>1, <1>5, RunsStand DEF BenchInv
  <2> QED
    BY <2>4, <2>5, <2>6, <2>7 DEF BenchInv
<1> QED
  BY <1>4, <1>5 DEF Bench!Exchanged

\* Saving a repeat, in which the export of the samples may have raised.
LEMMA BenchSaved ==
  ASSUME BenchInv, pc = "record", pc' = "recorded",
         NEW r \in Repetition, runs' = Append(runs, r),
         NEW n \in 0..Iterations, rows' \in [1..Repeats -> 0..Iterations], rows'[run] = n,
         \A other \in 1..Repeats : other # run => rows'[other] = rows[other],
         raised' \in {raised, "export"}, first' = raised', Saved(r, n, raised'),
         UNCHANGED <<run, fault, queue, left, open, closes, resources, index, offset, data, samples,
                     stale>>
  PROVE  BenchInv'
<1>1. /\ runs \in Seq(Repetition) /\ run \in 1..Repeats /\ run \in Nat /\ Len(runs) = run - 1
      /\ \A other \in 1..Repeats : other > run => rows[other] = 0
  <2>1. runs \in Seq(Repetition) /\ run \in 1..Repeats
    BY DEF BenchInv, BenchTypeOK
  <2>2. run \in Nat
    BY <2>1, EvidenceAssumption
  <2>3. Len(runs) = run - 1 /\ \A other \in 1..Repeats : other > run => rows[other] = 0
    BY DEF BenchInv, RepeatInv
  <2> QED
    BY <2>1, <2>2, <2>3
<1>2. runs' \in Seq(Repetition) /\ Len(runs') = run /\ runs'[run] = r
  BY <1>1
<1>3. BenchTypeOK'
  BY <1>2 DEF BenchInv, BenchTypeOK, BenchPlaces
<1>4. EndpointInv'
  BY DEF BenchInv, EndpointInv, Exchanging
<1>5. ExchangeInv'
  BY DEF ExchangeInv, Exchanging
<1>6. RepeatInv'
  <2>1. Saved(runs'[run'], rows'[run'], raised')
    BY <1>2
  <2>2. Trusted' = Trusted
    BY DEF Trusted, Bench!LeftLikePayloads, Bench!Exchanges
  <2>3. Saved(runs[run], rows[run], raised)'
    BY <2>1, <2>2 DEF Saved
  <2>4. \A other \in 1..Repeats : other > run' => rows'[other] = 0
    BY <1>1
  <2> QED
    BY <1>2, <2>3, <2>4 DEF RepeatInv
<1> QED
  BY <1>3, <1>4, <1>5, <1>6 DEF BenchInv

LEMMA BenchExport == BenchInv /\ Bench!Export => BenchInv'
<1> SUFFICES ASSUME BenchInv, Bench!Export PROVE BenchInv'
  OBVIOUS
<1>1. /\ pc = "record" /\ raised = "none" /\ first = raised /\ pc' = "recorded"
      /\ UNCHANGED <<run, fault, queue, left, open, closes, resources, index, offset, data, samples,
                     stale>>
  BY DEF Bench!Export, Bench!transport, Bench!endpoints, Bench!measuring, BenchInv, BenchTypeOK
<1>2. /\ index = Warmup + Iterations /\ Trusted
      /\ Iterations \in Nat /\ Iterations > 0 /\ Warmup \in Nat
      /\ rows \in [1..Repeats -> 0..Iterations] /\ run \in 1..Repeats
  BY <1>1, IndexAssumption DEF BenchInv, BenchTypeOK, ExchangeInv
<1>3. samples \in Seq(Durations) /\ Len(samples) = Iterations
  BY <1>2 DEF BenchInv, BenchTypeOK
<1>4. Bench!Summarize \in Statistics /\ Ranks(samples, Bench!Summarize)
  BY <1>2, <1>3, SummaryRanks
<1>5. Bench!Summarize.n = Iterations
  BY <1>3 DEF Bench!Summarize
<1> DEFINE m == Bench!Summarize
<1> HIDE DEF m
<1>6. m \in Statistics /\ Ranks(samples, m) /\ m.n = Iterations
  BY <1>4, <1>5 DEF m
<1>7. CASE /\ rows' = [rows EXCEPT ![run] = Iterations] /\ UNCHANGED <<errors, raised, first>>
           /\ runs' = Append(runs, [status |-> "complete", measurement |-> Bench!Summarize])
  <2> DEFINE r == [status |-> "complete", measurement |-> m]
  <2>1. r \in Repetition /\ r.status = "complete" /\ r.measurement = m
    BY <1>6 DEF Repetition
  <2>2. runs' = Append(runs, r)
    BY <1>7 DEF m
  <2> HIDE DEF r
  <2>3. Saved(r, Iterations, raised')
    BY <1>1, <1>2, <1>6, <1>7, <2>1 DEF Saved
  <2>4. /\ rows' \in [1..Repeats -> 0..Iterations] /\ rows'[run] = Iterations
        /\ \A other \in 1..Repeats : other # run => rows'[other] = rows[other]
        /\ Iterations \in 0..Iterations
    BY <1>2, <1>7
  <2>5. raised' \in {raised, "export"} /\ first' = raised'
    BY <1>1, <1>7
  <2> QED
    BY <1>1, <2>1, <2>2, <2>3, <2>4, <2>5, BenchSaved
<1>8. CASE /\ Bench!Raise("export")
           /\ \E n \in 0..Iterations : rows' = [rows EXCEPT ![run] = n]
           /\ runs' = Append(runs, [status |-> "inconclusive", measurement |-> Bench!Summarize])
  <2> DEFINE r == [status |-> "inconclusive", measurement |-> m]
  <2>1. r \in Repetition /\ r.status = "inconclusive"
    BY <1>6 DEF Repetition
  <2>2. runs' = Append(runs, r)
    BY <1>8 DEF m
  <2> HIDE DEF r
  <2>3. raised' = "export" /\ first' = raised'
    BY <1>1, <1>8 DEF Bench!Raise
  <2>4. PICK n \in 0..Iterations : rows' = [rows EXCEPT ![run] = n]
    BY <1>8
  <2>5. /\ rows' \in [1..Repeats -> 0..Iterations] /\ rows'[run] = n
        /\ \A other \in 1..Repeats : other # run => rows'[other] = rows[other]
    BY <1>2, <2>4
  <2>6. Saved(r, n, raised')
    BY <2>1, <2>3 DEF Saved
  <2>7. raised' \in {raised, "export"}
    BY <2>3
  <2> QED
    BY <1>1, <2>1, <2>2, <2>3, <2>5, <2>6, <2>7, BenchSaved
<1> QED
  BY <1>7, <1>8 DEF Bench!Export

LEMMA BenchDiscard == BenchInv /\ Bench!Discard => BenchInv'
<1> SUFFICES ASSUME BenchInv, Bench!Discard PROVE BenchInv'
  OBVIOUS
<1>1. /\ pc = "record" /\ raised # "none" /\ pc' = "recorded"
      /\ runs' = Append(runs, [status |-> "inconclusive", measurement |-> Bench!NoMeasurement])
      /\ UNCHANGED <<run, rows, fault, queue, left, open, closes, resources, raised, index, offset,
                     data, samples, first, stale>>
  BY DEF Bench!Discard, Bench!transport, Bench!endpoints, Bench!measuring
<1>2. /\ raised \in {"setup", "body", "cleanup"} /\ first = raised
      /\ rows \in [1..Repeats -> 0..Iterations] /\ run \in 1..Repeats /\ rows[run] = 0
      /\ 0 \in 0..Iterations
  BY <1>1, IndexAssumption DEF BenchInv, BenchTypeOK, ExchangeInv, RepeatInv
<1> DEFINE r == [status |-> "inconclusive", measurement |-> Bench!NoMeasurement]
<1>3. r \in Repetition /\ r.status = "inconclusive" /\ r.measurement = Bench!NoMeasurement
  BY DEF Repetition, Statistics, Bench!NoMeasurement
<1>4. runs' = Append(runs, r)
  BY <1>1
<1> HIDE DEF r
<1>5. Saved(r, 0, raised')
  BY <1>1, <1>3 DEF Saved
<1>6. /\ rows' \in [1..Repeats -> 0..Iterations] /\ rows'[run] = 0
      /\ \A other \in 1..Repeats : other # run => rows'[other] = rows[other]
      /\ raised' \in {raised, "export"} /\ first' = raised'
  BY <1>1, <1>2
<1> QED
  BY <1>1, <1>2, <1>3, <1>4, <1>5, <1>6, BenchSaved

LEMMA BenchNextRun == BenchInv /\ Bench!NextRun => BenchInv'
<1> SUFFICES ASSUME BenchInv, Bench!NextRun PROVE BenchInv'
  OBVIOUS
<1>1. /\ pc = "recorded" /\ run < Repeats /\ run' = run + 1 /\ pc' = "enter"
      /\ raised' = "none" /\ first' = "none" /\ stale' = FALSE
      /\ index' = 0 /\ offset' = 0 /\ data' = << >> /\ samples' = << >>
      /\ closes' = [e \in Bench!Endpoint |-> 0]
      /\ fault' = "none" /\ queue' = << >> /\ left' = << >>
      /\ UNCHANGED <<open, resources, rows, runs, manifest, errors>>
  BY DEF Bench!NextRun, Bench!Fresh
<1>2. /\ Warmup \in Nat /\ Iterations \in Nat /\ Size \in Nat /\ Repeats \in Nat
      /\ run \in 1..Repeats /\ Len(runs) = run
  BY <1>1, SizeAssumption, IndexAssumption, EvidenceAssumption DEF BenchInv, BenchTypeOK, RepeatInv
<1>3. BenchTypeOK'
  <2>1. run' \in 1..Repeats /\ index' \in 0..(Warmup + Iterations) /\ offset' \in 0..Size
    BY <1>1, <1>2
  <2>2. /\ data' \in Seq(Nat) /\ Len(data') <= Size /\ samples' \in Seq(Durations)
        /\ Len(samples') = IF index' > Warmup THEN index' - Warmup ELSE 0
    BY <1>1, <1>2
  <2>3. /\ closes' \in [Bench!Endpoint -> 0..1] /\ pc' \in BenchPlaces
        /\ fault' \in Bench!Faults /\ queue' \in Seq(Byte) /\ left' \in Seq(Nat)
    BY <1>1 DEF BenchPlaces, Bench!Faults
  <2> QED
    BY <1>1, <2>1, <2>2, <2>3 DEF BenchInv, BenchTypeOK
<1>4. EndpointInv'
  BY <1>1 DEF BenchInv, EndpointInv, Exchanging
<1>5. ExchangeInv'
  BY <1>1 DEF ExchangeInv, Exchanging
<1>6. RepeatInv'
  <2>1. \A r \in 1..Repeats : r > run => rows[r] = 0
    BY DEF BenchInv, RepeatInv
  <2>2. run + 1 \in 1..Repeats /\ run + 1 > run /\ run \in Nat
    BY <1>1, <1>2
  <2>3. rows[run + 1] = 0 /\ \A r \in 1..Repeats : r > run + 1 => rows[r] = 0
    BY <2>1, <2>2
  <2> QED
    BY <1>1, <1>2, <2>2, <2>3 DEF RepeatInv
<1> QED
  BY <1>3, <1>4, <1>5, <1>6 DEF BenchInv

LEMMA BenchFinish == BenchInv /\ Bench!Finish => BenchInv'
<1> SUFFICES ASSUME BenchInv, Bench!Finish PROVE BenchInv'
  OBVIOUS
<1>1. /\ pc = "recorded" /\ pc' = "ended"
      /\ UNCHANGED <<run, rows, fault, queue, left, open, closes, resources, raised, index, offset,
                     data, samples, runs, first, stale>>
  BY DEF Bench!Finish, Bench!transport, Bench!endpoints, Bench!measuring
<1>2. BenchTypeOK'
  BY <1>1 DEF BenchInv, BenchTypeOK, BenchPlaces
<1>3. EndpointInv'
  BY <1>1 DEF BenchInv, EndpointInv, Exchanging
<1>4. ExchangeInv'
  BY <1>1 DEF ExchangeInv, Exchanging
<1>5. RepeatInv'
  BY <1>1 DEF BenchInv, RepeatInv
<1> QED
  BY <1>2, <1>3, <1>4, <1>5 DEF BenchInv

LEMMA BenchInit == Init => BenchKept
<1> SUFFICES ASSUME Init, command = "benchmark" PROVE BenchInv
  BY DEF BenchKept
<1>1. Bench!Init
  BY DEF Init
<1>2. /\ Warmup \in Nat /\ Iterations \in Nat /\ Size \in Nat /\ 1 \in 1..Repeats
  BY SizeAssumption, IndexAssumption, EvidenceAssumption
<1>3. BenchTypeOK
  <2>1. /\ run \in 1..Repeats /\ pc \in BenchPlaces /\ fault \in Bench!Faults /\ queue \in Seq(Byte)
        /\ raised = "none" /\ first = "none" /\ stale = FALSE /\ closes \in [Bench!Endpoint -> 0..1]
    BY <1>1, <1>2 DEF Bench!Init, BenchPlaces, Bench!Faults
  <2>2. index \in 0..(Warmup + Iterations) /\ offset \in 0..Size
    BY <1>1, <1>2 DEF Bench!Init
  <2>3. /\ data \in Seq(Nat) /\ Len(data) <= Size /\ samples \in Seq(Durations)
        /\ Len(samples) = IF index > Warmup THEN index - Warmup ELSE 0
        /\ runs \in Seq(Repetition) /\ left \in Seq(Nat)
    BY <1>1, <1>2 DEF Bench!Init
  <2>4. rows \in [1..Repeats -> 0..Iterations]
    BY <1>1, <1>2 DEF Bench!Init
  <2> QED
    BY <2>1, <2>2, <2>3, <2>4 DEF BenchTypeOK
<1>4. EndpointInv
  BY <1>1 DEF Bench!Init, EndpointInv, Exchanging
<1>5. ExchangeInv
  BY <1>1 DEF Bench!Init, ExchangeInv, Exchanging
<1>6. RepeatInv
  BY <1>1, <1>2 DEF Bench!Init, RepeatInv
<1> QED
  BY <1>3, <1>4, <1>5, <1>6 DEF BenchInv

LEMMA BenchStep == BenchKept /\ [Next]_vars => BenchKept'
<1> SUFFICES ASSUME BenchKept, [Next]_vars, command' = "benchmark" PROVE BenchInv'
  BY DEF BenchKept
<1>1. CASE UNCHANGED vars
  <2>1. BenchInv
    BY <1>1 DEF vars, BenchKept
  <2> QED
    <3>1. Trusted' = Trusted
      BY <1>1 DEF vars, ofBench, Trusted, Bench!LeftLikePayloads, Bench!Exchanges
    <3>2. BenchTypeOK' /\ EndpointInv'
      BY <1>1, <2>1 DEF vars, ofBench, BenchInv, BenchTypeOK, EndpointInv
    <3>3. ExchangeInv'
      BY <1>1, <2>1, <3>1 DEF vars, ofBench, BenchInv, ExchangeInv
    <3>4. RepeatInv'
      BY <1>1, <2>1, <3>1 DEF vars, ofBench, BenchInv, RepeatInv, Saved
    <3> QED
      BY <3>2, <3>3, <3>4 DEF BenchInv
<1>2. CASE InBench /\ Bench!Next
  <2>1. BenchInv
    BY <1>2 DEF InBench, BenchKept
  <2> QED
    BY <1>2, <2>1, BenchEnter, BenchLeave, BenchSend, BenchSent, BenchReceive, BenchExchanged,
       BenchExport, BenchDiscard, BenchNextRun, BenchFinish, Zenon DEF Bench!Next
<1>3. CASE \/ InStep /\ Step!Next
           \/ InCampaign /\ Validate!Next
           \/ InRun /\ Run!Next
           \/ InStudy /\ Study!Next
  <2>1. command = "benchmark"
    BY <1>3 DEF InCampaign, InRun, InStudy, InStep
  <2> QED
    BY <1>3, <2>1 DEF InCampaign, InRun, InStudy, InStep
<1> QED
  BY <1>1, <1>2, <1>3, Zenon DEF Next

\* What BenchInv says of the ranks is what PercentilesAreRanks asks for.
LEMMA RanksAreRanks == BenchInv => Bench!PercentilesAreRanks
<1> SUFFICES ASSUME BenchInv, Bench!Completed,
                    NEW p \in {<<50, runs[run].measurement.p50>>, <<99, runs[run].measurement.p99>>}
             PROVE  /\ \E i \in DOMAIN samples : samples[i] = p[2]
                    /\ Bench!Cardinality({i \in DOMAIN samples : samples[i] <= p[2]}) * 100
                         >= p[1] * Len(samples)
                    /\ \A j \in DOMAIN samples : samples[j] < p[2] =>
                         Bench!Cardinality({i \in DOMAIN samples : samples[i] <= samples[j]}) * 100
                           < p[1] * Len(samples)
  BY DEF Bench!PercentilesAreRanks
<1>1. Ranks(samples, runs[run].measurement)
  BY DEF BenchInv, RepeatInv, Saved, Bench!Completed
<1>2. RankOf(samples, p[1], p[2])
  BY <1>1 DEF Ranks
<1> HIDE DEF RankOf
<1> QED
  BY <1>2, SameCount DEF RankOf

(***************************************************************************)
(* exchange(), Transport and the loop of main() of benchmark.py, for every *)
(* payload size, number of exchanges, capacity and clock, and for any      *)
(* bytes that somebody left in the transport: a repeat that completes has  *)
(* read back what it wrote, unless what was left begins like the payloads  *)
(* and is long enough to pass for them; its endpoints are closed once, the *)
(* error it is saved with is the first, a repeat with an error is not      *)
(* complete, and the percentiles are nearest ranks.                        *)
(***************************************************************************)
THEOREM MeasurementsAreHonest == Spec => []BenchmarkIsHonest
<1>1. BenchKept => BenchmarkIsHonest
  <2> SUFFICES ASSUME BenchKept, command = "benchmark"
               PROVE  /\ Bench!CompleteMeansFresh /\ Bench!EndpointsClosedOnce
                      /\ Bench!FirstErrorKept /\ Bench!PercentilesAreRanks
    BY DEF BenchmarkIsHonest
  <2>1. BenchInv
    BY DEF BenchKept
  <2>2. Bench!CompleteMeansFresh
    <3>1. Bench!Completed => Trusted
      BY <2>1 DEF Bench!Completed, BenchInv, RepeatInv, Saved
    <3> QED
      BY <3>1 DEF Bench!CompleteMeansFresh, Trusted
  <2>3. Bench!EndpointsClosedOnce
    <3>1. closes \in [Bench!Endpoint -> 0..1]
      BY <2>1 DEF BenchInv, BenchTypeOK
    <3>2. pc \in {"record", "recorded"} => open = {}
      BY <2>1 DEF BenchInv, EndpointInv
    <3> QED
      BY <3>1, <3>2 DEF Bench!EndpointsClosedOnce
  <2>4. Bench!FirstErrorKept
    <3>1. first = raised
      BY <2>1 DEF BenchInv, BenchTypeOK
    <3>2. pc = "recorded" => Saved(runs[run], rows[run], raised)
      BY <2>1 DEF BenchInv, RepeatInv
    <3> QED
      BY <3>1, <3>2 DEF Bench!FirstErrorKept, Saved
  <2>5. Bench!PercentilesAreRanks
    BY <2>1, RanksAreRanks
  <2> QED
    BY <2>2, <2>3, <2>4, <2>5
<1> QED
  BY <1>1, BenchInit, BenchStep, PTL DEF Spec

=============================================================================
