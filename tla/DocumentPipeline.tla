-------------------------- MODULE DocumentPipeline --------------------------
(***************************************************************************)
(* What happens to the versions of one document after their upload: the     *)
(* malware scan (src/src/server/services/malware.ts), the extraction of     *)
(* their text (documents-processing.ts) and the re-check of the stored file *)
(* (integrity.ts).  Several processes do this work at the same time: the    *)
(* scheduler's ticks, and the request that has just uploaded a version and  *)
(* scans it inline.  Claims are conditional updates; results are written by *)
(* id, whatever happened to the row since the claim.                        *)
(*                                                                          *)
(* One step is one SQL statement together with the calls of the storage and *)
(* of clamd before it.  Ten minutes pass when Age says so.                  *)
(***************************************************************************)
EXTENDS Integers, FiniteSets

CONSTANTS
  Workers,     \* processes that scan, extract and verify
  MaxVersions, \* bound: uploads of the document
  Infected,    \* versions in whose file clamd finds something
  MaxFaults    \* bound: crashes, errors, damaged files and redeployments

ASSUME PipelineConstants ==
  MaxVersions \in Nat /\ MaxFaults \in Nat /\ Infected \subseteq 1..MaxVersions

VARIABLES
  scannerOn, \* scannerConfigured(): the MALWARE_SCANNER setting
  current,   \* Document.currentVersion, 0 before the first upload
  version,   \* the DocumentVersion table
  file,      \* the stored file of each version
  index,     \* version whose text is Document.searchText, 0 for none
  worker,    \* local state of each process
  alerted,   \* notifications under the keys malware:<id> and integrity:<id>:<result>
  lost,      \* history: alerts whose sender died first
  abandoned, \* history: versions whose extractor died
  late,      \* history: searchText was last written by an extractor overtaken by an upload
  faults

pipelineVars ==
  <<scannerOn, current, version, file, index, worker, alerted, lost, abandoned, late, faults>>

Versions == 1..MaxVersions
Verdicts == {"CLEAN", "INFECTED", "ERROR"}
Damages  == {"MISMATCH", "MISSING"}
Cleared  == {"CLEAN", "NOT_SCANNED"}
Findings == {"INFECTED"} \cup Damages

Row == [scan : {"NONE", "PENDING", "SCANNING", "NOT_SCANNED"} \cup Verdicts, old : BOOLEAN,
        text : {"PENDING", "PROCESSING", "DONE", "FAILED"}, integrity : {"NONE", "OK"} \cup Damages]

\* What a process holds: current as it loaded it, found what it found, before what was found before.
WorkerType == [job : {"idle", "scan", "alert", "extract", "store", "index", "verify"}, v : 0..MaxVersions,
               current : 0..MaxVersions, found : {"NONE", "OK"} \cup Findings, before : {"NONE", "OK"} \cup Damages]

NoRow == [scan |-> "NONE", old |-> FALSE, text |-> "PENDING", integrity |-> "NONE"]
Idle  == [job |-> "idle", v |-> 0, current |-> 0, found |-> "NONE", before |-> "NONE"]

Exists(v) == v <= current

\* isServable: what preview, download, portal, AI and OCR ask for.
Servable(v) == version[v].scan \in Cleared /\ version[v].integrity \notin Damages

PipelineInit ==
  /\ scannerOn = TRUE
  /\ current = 0
  /\ version = [v \in Versions |-> NoRow]
  /\ file = [v \in Versions |-> "NONE"]
  /\ index = 0
  /\ worker = [w \in Workers |-> Idle]
  /\ alerted = {} /\ lost = {} /\ abandoned = {}
  /\ late = FALSE
  /\ faults = 0

\* The rows an upload's transaction writes; the file was stored before it.
Register ==
  /\ current < MaxVersions
  /\ current' = current + 1
  /\ version' = [version EXCEPT ![current + 1] =
                   [NoRow EXCEPT !.scan = IF scannerOn THEN "PENDING" ELSE "NOT_SCANNED"]]
  /\ file' = [file EXCEPT ![current + 1] = "STORED"]
  /\ UNCHANGED <<scannerOn, index, worker, alerted, lost, abandoned, late, faults>>

MayFault == faults < MaxFaults
Blame(fault) == faults' = IF fault THEN faults + 1 ELSE faults

Ready(w) == worker[w].job = "idle"
Take(w, job, v) == worker' = [worker EXCEPT ![w] = [Idle EXCEPT !.job = job, !.v = v]]
Continue(w, job) == worker' = [worker EXCEPT ![w].job = job]
Leave(w) == worker' = [worker EXCEPT ![w] = Idle]

----------------------------------------------------------------------------
(* scanVersion, scanPendingVersions *)

MutantNoReclaim(r) == r.scan = "PENDING" \/ (r.scan = "ERROR" /\ r.old)

\* The condition of the claim; an ERROR or a claim counts when ten minutes old.
Scannable(r) == r.scan = "PENDING" \/ (r.scan \in {"ERROR", "SCANNING"} /\ r.old)

ClaimScan(w, v) ==
  /\ Ready(w) /\ scannerOn /\ Scannable(version[v])
  /\ version' = [version EXCEPT ![v].scan = "SCANNING", ![v].old = FALSE]
  /\ Take(w, "scan", v)
  /\ UNCHANGED <<scannerOn, current, file, index, alerted, lost, abandoned, late, faults>>

\* Ten minutes have passed since scannedAt.
Age(v) ==
  /\ version[v].scan \in {"ERROR", "SCANNING"} /\ ~version[v].old
  /\ version' = [version EXCEPT ![v].old = TRUE]
  /\ UNCHANGED <<scannerOn, current, file, index, worker, alerted, lost, abandoned, late, faults>>

MutantAssumeClean(v, fault) == IF fault THEN "CLEAN" ELSE IF v \in Infected THEN "INFECTED" ELSE "CLEAN"

\* clamdScan, or ERROR when the file cannot be read or clamd does not answer.
Verdict(v, fault) ==
  IF fault \/ file[v] = "MISSING" THEN "ERROR" ELSE IF v \in Infected THEN "INFECTED" ELSE "CLEAN"

\* The verdict is written by id: a scan that lost its claim overwrites its successor's.
FinishScan(w, fault) ==
  LET v == worker[w].v
      verdict == Verdict(v, fault) IN
  /\ worker[w].job = "scan"
  /\ fault => MayFault
  /\ version' = [version EXCEPT ![v].scan = verdict, ![v].old = FALSE]
  /\ worker' = [worker EXCEPT ![w] = IF verdict = "INFECTED"
                                     THEN [@ EXCEPT !.job = "alert", !.found = verdict] ELSE Idle]
  /\ Blame(fault)
  /\ UNCHANGED <<scannerOn, current, file, index, alerted, lost, abandoned, late>>

\* The audit entry and the notification, under a dedupe key.
Alert(w) ==
  /\ worker[w].job = "alert"
  /\ alerted' = alerted \cup {<<worker[w].v, worker[w].found>>}
  /\ Leave(w)
  /\ UNCHANGED <<scannerOn, current, version, file, index, lost, abandoned, late, faults>>

Unquarantined(r) == [r EXCEPT !.scan = IF @ \in {"PENDING", "SCANNING", "ERROR"} THEN "NOT_SCANNED" ELSE @]

\* scanPendingVersions of an installation without a scanner.
ReleaseQuarantine(w) ==
  /\ Ready(w) /\ ~scannerOn
  /\ version' = [v \in Versions |-> Unquarantined(version[v])]
  /\ UNCHANGED <<scannerOn, current, file, index, worker, alerted, lost, abandoned, late, faults>>

----------------------------------------------------------------------------
(* processPendingDocuments *)

MutantReclaimText(r) == r.text \in {"PENDING", "PROCESSING"} /\ r.scan \in Cleared

Extractable(r) == r.text = "PENDING" /\ r.scan \in Cleared

ClaimText(w, v) ==
  /\ Ready(w) /\ Extractable(version[v])
  /\ version' = [version EXCEPT ![v].text = "PROCESSING"]
  /\ Take(w, "extract", v)
  /\ UNCHANGED <<scannerOn, current, file, index, alerted, lost, abandoned, late, faults>>

\* The row and Document.currentVersion are read once, before the extraction.
LoadText(w) ==
  /\ worker[w].job = "extract"
  /\ worker' = [worker EXCEPT ![w].job = "store", ![w].current = current]
  /\ UNCHANGED <<scannerOn, current, version, file, index, alerted, lost, abandoned, late, faults>>

MutantIndexAll(me) == TRUE

\* v.version === v.document.currentVersion, as it was loaded.
IsCurrent(me) == me.v = me.current

\* DONE stands for UNAVAILABLE and NOT_REQUIRED too.
StoreText(w) ==
  LET v == worker[w].v IN
  /\ worker[w].job = "store" /\ file[v] # "MISSING"
  /\ version' = [version EXCEPT ![v].text = "DONE"]
  /\ IF IsCurrent(worker[w]) THEN Continue(w, "index") ELSE Leave(w)
  /\ UNCHANGED <<scannerOn, current, file, index, alerted, lost, abandoned, late, faults>>

IndexText(w) ==
  /\ worker[w].job = "index"
  /\ index' = worker[w].v
  /\ late' = (worker[w].v # current /\ worker[w].v = worker[w].current)
  /\ Leave(w)
  /\ UNCHANGED <<scannerOn, current, version, file, alerted, lost, abandoned, faults>>

\* The file cannot be read or parsed, or the update of the document fails.
FailText(w) ==
  LET fault == worker[w].job = "index" \/ file[worker[w].v] # "MISSING" IN
  /\ worker[w].job \in {"store", "index"}
  /\ fault => MayFault
  /\ version' = [version EXCEPT ![worker[w].v].text = "FAILED"]
  /\ Leave(w)
  /\ Blame(fault)
  /\ UNCHANGED <<scannerOn, current, file, index, alerted, lost, abandoned, late>>

----------------------------------------------------------------------------
(* sweepIntegrity, verifyVersionIntegrity *)

ReadFile(w, v) ==
  /\ Ready(w) /\ Exists(v) /\ version[v].scan # "INFECTED"
  /\ worker' = [worker EXCEPT ![w] =
                  [Idle EXCEPT !.job = "verify", !.v = v, !.before = version[v].integrity,
                               !.found = IF file[v] = "STORED" THEN "OK" ELSE file[v]]]
  /\ UNCHANGED <<scannerOn, current, version, file, index, alerted, lost, abandoned, late, faults>>

MutantNeverAgain(me) == me.found # "OK" /\ me.before = "NONE"

\* An alert is sent when the result differs from the one found before.
NewDamage(me) == me.found # "OK" /\ me.before # me.found

WriteCheck(w) ==
  /\ worker[w].job = "verify"
  /\ version' = [version EXCEPT ![worker[w].v].integrity = worker[w].found]
  /\ IF NewDamage(worker[w]) THEN Continue(w, "alert") ELSE Leave(w)
  /\ UNCHANGED <<scannerOn, current, file, index, alerted, lost, abandoned, late, faults>>

----------------------------------------------------------------------------
(* The world outside *)

\* Somebody changes or removes a stored file, or restores it.
ChangeFile(v, state) ==
  /\ MayFault /\ Exists(v) /\ file[v] # state
  /\ file' = [file EXCEPT ![v] = state]
  /\ Blame(TRUE)
  /\ UNCHANGED <<scannerOn, current, version, index, worker, alerted, lost, abandoned, late>>

\* Processes die: their claims stay, what they had in hand is gone.
Kill(ws) ==
  /\ worker' = [w \in Workers |-> IF w \in ws THEN Idle ELSE worker[w]]
  /\ lost' = lost \cup {<<worker[w].v, worker[w].found>> : w \in {x \in ws : worker[x].job = "alert"}}
  /\ abandoned' = abandoned \cup {worker[w].v : w \in {x \in ws : worker[x].job \in {"extract", "store", "index"}}}

Crash(w) ==
  /\ MayFault /\ ~Ready(w)
  /\ Kill({w})
  /\ Blame(TRUE)
  /\ UNCHANGED <<scannerOn, current, version, file, index, alerted, late>>

\* A deployment with MALWARE_SCANNER=none restarts every process.
Redeploy ==
  /\ MayFault /\ scannerOn
  /\ scannerOn' = FALSE
  /\ Kill(Workers)
  /\ Blame(TRUE)
  /\ UNCHANGED <<current, version, file, index, alerted, late>>

Work(w) ==
  \/ \E v \in Versions : ClaimScan(w, v) \/ ClaimText(w, v) \/ ReadFile(w, v)
  \/ \E fault \in BOOLEAN : FinishScan(w, fault)
  \/ Alert(w) \/ ReleaseQuarantine(w)
  \/ LoadText(w) \/ StoreText(w) \/ IndexText(w) \/ FailText(w)
  \/ WriteCheck(w) \/ Crash(w)

\* Every step but the registration of an upload.
Process ==
  \/ \E w \in Workers : Work(w)
  \/ \E v \in Versions : Age(v) \/ \E state \in {"STORED"} \cup Damages : ChangeFile(v, state)
  \/ Redeploy

PipelineNext == Register \/ Process

PipelineSpec == PipelineInit /\ [][PipelineNext]_pipelineVars

----------------------------------------------------------------------------
(* Invariants *)

PipelineTypeOK ==
  /\ scannerOn \in BOOLEAN /\ late \in BOOLEAN
  /\ current \in 0..MaxVersions /\ index \in 0..MaxVersions
  /\ version \in [Versions -> Row]
  /\ file \in [Versions -> {"NONE", "STORED"} \cup Damages]
  /\ worker \in [Workers -> WorkerType]
  /\ \A w \in Workers : worker[w].job # "idle" => worker[w].v \in Versions
  /\ alerted \subseteq Versions \X Findings /\ lost \subseteq Versions \X Findings
  /\ abandoned \subseteq Versions
  /\ faults \in 0..MaxFaults

\* A version in which clamd finds something is never servable and never parsed, however
\* scans overtake, repeat, fail or die, unless the office itself switched the scanner off
\* before the verdict (malware.ts, lines 15-21; documents-processing.ts, lines 59-60).
InfectedStaysOut ==
  \A v \in Infected : version[v].scan # "NOT_SCANNED" => ~Servable(v) /\ version[v].text = "PENDING"

\* Every finding reaches the administrators: the alert was sent, is about to be, or its
\* sender died between writing the result and the alert (malware.ts, lines 106-125;
\* integrity.ts, lines 32-43).  No second process sends it then.
FindingsAlerted ==
  \A v \in Versions, finding \in Findings :
    (version[v].scan = finding \/ version[v].integrity = finding) =>
      \/ <<v, finding>> \in alerted \cup lost
      \/ \E w \in Workers : worker[w].job = "alert" /\ worker[w].v = v /\ worker[w].found = finding

\* A claimed version has one extractor: exactly one process works on a PROCESSING version
\* unless its extractor died, and nobody on one that is not (documents-processing.ts, line 64).
Extracting(w, v) == worker[w].job \in {"extract", "store"} /\ worker[w].v = v
OneExtractor ==
  \A v \in Versions :
    /\ version[v].text = "PROCESSING" => v \in abandoned \/ \E w \in Workers : Extracting(w, v)
    /\ \A w \in Workers : Extracting(w, v) => version[v].text = "PROCESSING" /\ v \notin abandoned
    /\ \A w, x \in Workers : Extracting(w, v) /\ Extracting(x, v) => w = x

\* The text searched is that of the current version once it is extracted, except when an
\* extractor that had loaded an older version as the current one wrote last, or the
\* extractor died before it wrote (documents-processing.ts, lines 66-73).
IndexFollowsCurrent ==
  (current # 0 /\ version[current].text = "DONE") =>
    \/ index = current \/ late \/ current \in abandoned
    \/ \E w \in Workers : worker[w].job = "index" /\ worker[w].v = current

----------------------------------------------------------------------------
(* Liveness *)

\* A process that holds a version finishes with it.  Every tick runs the scans, the extraction
\* and the sweep in turn, and the sweep starts with the versions checked least recently, so
\* work that is possible again and again is taken (jobs.ts, lines 25-40).  Time passes.
PipelineFairness ==
  /\ \A w \in Workers :
       /\ WF_pipelineVars(FinishScan(w, FALSE)) /\ WF_pipelineVars(Alert(w)) /\ WF_pipelineVars(LoadText(w))
       /\ WF_pipelineVars(StoreText(w) \/ FailText(w) \/ IndexText(w)) /\ WF_pipelineVars(WriteCheck(w))
  /\ \A v \in Versions :
       /\ WF_pipelineVars(Age(v))
       /\ SF_pipelineVars(\E w \in Workers : ClaimScan(w, v))
       /\ SF_pipelineVars(\E w \in Workers : ClaimText(w, v))
       /\ SF_pipelineVars(\E w \in Workers : ReadFile(w, v))
  /\ SF_pipelineVars(\E w \in Workers : ReleaseQuarantine(w))

FairPipelineSpec == PipelineSpec /\ PipelineFairness

\* Once the faults are over, no version stays in quarantine whose file is there, every cleared
\* version is extracted unless its extractor died, and a damaged file is not served.
Processed(v) ==
  Exists(v) =>
    /\ version[v].scan \in {"CLEAN", "INFECTED", "NOT_SCANNED"} \/ file[v] = "MISSING"
    /\ version[v].scan \in Cleared => version[v].text \in {"DONE", "FAILED"} \/ v \in abandoned
    /\ file[v] # "STORED" => ~Servable(v)

EventuallyProcessed == \A v \in Versions : <>[]Processed(v)
=============================================================================
