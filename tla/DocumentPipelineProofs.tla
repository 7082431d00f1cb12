----------------------- MODULE DocumentPipelineProofs -----------------------
(* Theorems about DocumentPipeline, for every number of processes and versions. *)
EXTENDS DocumentPipeline, TLAPS

----------------------------------------------------------------------------
(* The inductive invariant *)

\* What a process holds is a version that exists, and an alert reports a finding.
WorkersHold ==
  \A w \in Workers :
    /\ worker[w].job # "idle" => worker[w].v \in 1..current
    /\ worker[w].job = "alert" => worker[w].found \in Findings
    /\ worker[w].job = "verify" => worker[w].found \in {"OK"} \cup Damages

\* Versions to come are untouched; every other has a file, there or damaged.
UnusedRows ==
  \A v \in Versions : (v > current => version[v] = NoRow) /\ (v <= current => file[v] # "NONE")

\* Nothing is released while the scanner is on, nothing scanned while it is off.
ScannerState ==
  /\ scannerOn => \A v \in Versions : version[v].scan # "NOT_SCANNED"
  /\ ~scannerOn => \A w \in Workers : worker[w].job # "scan"

\* An infected version is never found clean, and parsed only when it was released.
Extractor(w, v) == worker[w].job \in {"extract", "store", "index"} /\ worker[w].v = v
Quarantine ==
  \A v \in Infected :
    /\ version[v].scan # "CLEAN"
    /\ version[v].text # "PENDING" => version[v].scan = "NOT_SCANNED"
    /\ \A w \in Workers : Extractor(w, v) => version[v].scan = "NOT_SCANNED"

\* An alert was sent, died with its sender, or is about to be sent.
Told(v, finding) ==
  \/ <<v, finding>> \in alerted \cup lost
  \/ \E w \in Workers : worker[w].job = "alert" /\ worker[w].v = v /\ worker[w].found = finding

\* What a check found before it was told.
BeforeTold ==
  \A w \in Workers : worker[w].job = "verify" /\ worker[w].before \in Damages => Told(worker[w].v, worker[w].before)

\* An extractor that stores has loaded the current version; one that indexes has stored.
Loaded ==
  \A w \in Workers :
    /\ worker[w].job \in {"store", "index"} => worker[w].v <= worker[w].current /\ worker[w].current <= current
    /\ worker[w].job = "index" => worker[w].v = worker[w].current /\ version[worker[w].v].text \in {"DONE", "FAILED"}

\* Only a version that was claimed is abandoned.
AbandonedRows == \A v \in abandoned : version[v].text # "PENDING"

ScanInv  == PipelineTypeOK /\ WorkersHold /\ UnusedRows /\ ScannerState /\ Quarantine
AlertInv == BeforeTold /\ FindingsAlerted
TextInv  == OneExtractor /\ Loaded /\ AbandonedRows /\ IndexFollowsCurrent
PipelineInv == ScanInv /\ AlertInv /\ TextInv

----------------------------------------------------------------------------
(* Types *)

LEMMA IdleType == Idle \in WorkerType /\ Idle.job = "idle"
BY PipelineConstants DEF PipelineConstants, Idle, WorkerType

LEMMA PipelineInitType == PipelineInit => PipelineTypeOK
<1> SUFFICES ASSUME PipelineInit PROVE PipelineTypeOK
  OBVIOUS
<1> USE PipelineConstants DEF PipelineConstants, Versions
<1>1. version \in [Versions -> Row]
  BY DEF PipelineInit, NoRow, Row
<1>2. file \in [Versions -> {"NONE", "STORED"} \cup Damages]
  BY DEF PipelineInit
<1>3. worker \in [Workers -> WorkerType] /\ \A w \in Workers : worker[w].job = "idle"
  BY IdleType DEF PipelineInit
<1>4. current \in 0..MaxVersions /\ index \in 0..MaxVersions /\ faults \in 0..MaxFaults
  BY DEF PipelineInit
<1>5. alerted \subseteq Versions \X Findings /\ lost \subseteq Versions \X Findings /\ abandoned \subseteq Versions
  BY DEF PipelineInit
<1> QED
  BY <1>1, <1>2, <1>3, <1>4, <1>5 DEF PipelineTypeOK, PipelineInit

\* The parts of PipelineTypeOK that steps change.
TableOK  == version \in [Versions -> Row]
MemoryOK == worker \in [Workers -> WorkerType] /\ \A w \in Workers : worker[w].job # "idle" => worker[w].v \in Versions
RestOK ==
  /\ scannerOn \in BOOLEAN /\ late \in BOOLEAN
  /\ current \in 0..MaxVersions /\ index \in 0..MaxVersions /\ faults \in 0..MaxFaults
  /\ file \in [Versions -> {"NONE", "STORED"} \cup Damages]
  /\ alerted \subseteq Versions \X Findings /\ lost \subseteq Versions \X Findings /\ abandoned \subseteq Versions

LEMMA TypeParts == PipelineTypeOK <=> TableOK /\ MemoryOK /\ RestOK
BY DEF PipelineTypeOK, TableOK, MemoryOK, RestOK

LEMMA TypePartsNext == PipelineTypeOK' <=> TableOK' /\ MemoryOK' /\ RestOK'
BY DEF PipelineTypeOK, TableOK, MemoryOK, RestOK

LEMMA RegisterType == PipelineTypeOK /\ Register => PipelineTypeOK'
<1> SUFFICES ASSUME TableOK, MemoryOK, RestOK, Register PROVE TableOK' /\ MemoryOK' /\ RestOK'
  BY TypeParts, TypePartsNext
<1> USE PipelineConstants DEF PipelineConstants, Versions
<1>1. current' \in 0..MaxVersions /\ current + 1 \in Versions
  BY DEF RestOK, Register
<1>2. [NoRow EXCEPT !.scan = IF scannerOn THEN "PENDING" ELSE "NOT_SCANNED"] \in Row
  BY DEF NoRow, Row
<1>3. TableOK'
  BY <1>1, <1>2 DEF TableOK, Register
<1>4. file' \in [Versions -> {"NONE", "STORED"} \cup Damages]
  BY <1>1 DEF RestOK, Register
<1>5. MemoryOK'
  BY DEF MemoryOK, Register
<1> QED
  BY <1>1, <1>3, <1>4, <1>5 DEF RestOK, Register

\* Every step of a process keeps the table of versions well typed, ...
LEMMA WorkTable ==
  ASSUME TableOK, WorkersHold, NEW w \in Workers, Work(w)
  PROVE  TableOK'
<1>1. ASSUME NEW v \in Versions, ClaimScan(w, v) PROVE TableOK'
  BY <1>1 DEF ClaimScan, TableOK, Row
<1>2. ASSUME NEW v \in Versions, ClaimText(w, v) PROVE TableOK'
  BY <1>2 DEF ClaimText, TableOK, Row
<1>3. ASSUME NEW fault \in BOOLEAN, FinishScan(w, fault) PROVE TableOK'
  <2>1. Verdict(worker[w].v, fault) \in Verdicts
    BY DEF Verdict, Verdicts
  <2> QED
    BY <1>3, <2>1 DEF FinishScan, TableOK, Row
<1>4. ASSUME ReleaseQuarantine(w) PROVE TableOK'
  BY <1>4 DEF ReleaseQuarantine, TableOK, Unquarantined, Row
<1>5. ASSUME StoreText(w) \/ FailText(w) PROVE TableOK'
  BY <1>5 DEF StoreText, FailText, TableOK, Row
<1>6. ASSUME WriteCheck(w) PROVE TableOK'
  BY <1>6 DEF WriteCheck, TableOK, WorkersHold, Row
<1> QED
  BY <1>1, <1>2, <1>3, <1>4, <1>5, <1>6
     DEF Work, ReadFile, Alert, LoadText, IndexText, Crash, TableOK

\* ... its own memory, ...
LEMMA WorkMemory ==
  ASSUME TableOK, MemoryOK, RestOK, NEW w \in Workers, Work(w)
  PROVE  MemoryOK'
<1> USE IdleType DEF MemoryOK
<1>0. /\ WorkerType = [job : {"idle", "scan", "alert", "extract", "store", "index", "verify"}, v : 0..MaxVersions,
                       current : 0..MaxVersions, found : {"NONE", "OK"} \cup Findings, before : {"NONE", "OK"} \cup Damages]
      /\ Versions \subseteq 0..MaxVersions
  BY PipelineConstants DEF PipelineConstants, WorkerType, Versions
<1>1. ASSUME NEW v \in Versions, ClaimScan(w, v) \/ ClaimText(w, v) PROVE MemoryOK'
  <2>1. PICK job \in {"scan", "extract"} : worker' = [worker EXCEPT ![w] = [Idle EXCEPT !.job = job, !.v = v]]
    BY <1>1 DEF ClaimScan, ClaimText, Take
  <2>2. [Idle EXCEPT !.job = job, !.v = v] \in WorkerType
    BY <1>0, <2>1 DEF Idle
  <2> QED
    BY <2>1, <2>2 DEF Idle
<1>2. ASSUME NEW v \in Versions, ReadFile(w, v) PROVE MemoryOK'
  <2>1. /\ version[v].integrity \in {"NONE", "OK"} \cup Damages
        /\ (IF file[v] = "STORED" THEN "OK" ELSE file[v]) \in {"NONE", "OK"} \cup Findings
    BY DEF TableOK, RestOK, Row, Findings
  <2> QED
    BY <1>0, <1>2, <2>1 DEF ReadFile, Idle
<1>3. ASSUME NEW fault \in BOOLEAN, FinishScan(w, fault) PROVE MemoryOK'
  BY <1>0, <1>3 DEF FinishScan, Findings
<1>4. ASSUME Alert(w) \/ IndexText(w) \/ FailText(w) PROVE MemoryOK'
  BY <1>4 DEF Alert, IndexText, FailText, Leave
<1>5. ASSUME LoadText(w) PROVE MemoryOK'
  BY <1>0, <1>5 DEF LoadText, RestOK
<1>6. ASSUME StoreText(w) \/ WriteCheck(w) PROVE MemoryOK'
  BY <1>0, <1>6 DEF StoreText, WriteCheck, Leave, Continue
<1>7. ASSUME Crash(w) PROVE MemoryOK'
  BY <1>7 DEF Crash, Kill
<1> QED
  BY <1>1, <1>2, <1>3, <1>4, <1>5, <1>6, <1>7 DEF Work, ReleaseQuarantine

\* ... and the rest.
LEMMA WorkRest ==
  ASSUME MemoryOK, RestOK, WorkersHold, NEW w \in Workers, Work(w)
  PROVE  RestOK'
<1> USE PipelineConstants DEF PipelineConstants, RestOK
<1>1. ASSUME Alert(w) PROVE RestOK'
  BY <1>1 DEF Alert, MemoryOK, WorkersHold
<1>2. ASSUME Crash(w) PROVE RestOK'
  <2>1. lost' \subseteq Versions \X Findings /\ abandoned' \subseteq Versions
    BY <1>2 DEF Crash, Kill, MemoryOK, WorkersHold
  <2> QED
    BY <1>2, <2>1 DEF Crash, Blame, MayFault
<1>3. ASSUME IndexText(w) PROVE RestOK'
  <2>1. worker[w].v \in 0..MaxVersions
    BY DEF MemoryOK, WorkerType
  <2> QED
    BY <1>3, <2>1 DEF IndexText
<1>4. ASSUME FailText(w) PROVE RestOK'
  <2>1. faults' \in 0..MaxFaults
    BY <1>4 DEF FailText, Blame, MayFault
  <2> QED
    BY <1>4, <2>1 DEF FailText
<1>5. ASSUME NEW fault \in BOOLEAN, FinishScan(w, fault) PROVE RestOK'
  <2>1. faults' \in 0..MaxFaults
    BY <1>5 DEF FinishScan, Blame, MayFault
  <2> QED
    BY <1>5, <2>1 DEF FinishScan
<1> QED
  BY <1>1, <1>2, <1>3, <1>4, <1>5 DEF Work, ClaimScan, ClaimText, ReadFile, ReleaseQuarantine, LoadText, StoreText, WriteCheck

LEMMA ProcessType == PipelineTypeOK /\ WorkersHold /\ Process => PipelineTypeOK'
<1> SUFFICES ASSUME TableOK, MemoryOK, RestOK, WorkersHold, Process PROVE TableOK' /\ MemoryOK' /\ RestOK'
  BY TypeParts, TypePartsNext
<1>1. ASSUME NEW w \in Workers, Work(w) PROVE TableOK' /\ MemoryOK' /\ RestOK'
  BY <1>1, WorkTable, WorkMemory, WorkRest
<1>2. ASSUME NEW v \in Versions, Age(v) PROVE TableOK' /\ MemoryOK' /\ RestOK'
  BY <1>2 DEF Age, TableOK, MemoryOK, RestOK, Row
<1>3. ASSUME NEW v \in Versions, NEW state \in {"STORED"} \cup Damages, ChangeFile(v, state)
      PROVE  TableOK' /\ MemoryOK' /\ RestOK'
  BY <1>3, PipelineConstants DEF PipelineConstants, ChangeFile, TableOK, MemoryOK, RestOK, Blame, MayFault
<1>4. ASSUME Redeploy PROVE TableOK' /\ MemoryOK' /\ RestOK'
  <2>1. lost' \subseteq Versions \X Findings /\ abandoned' \subseteq Versions
    BY <1>4 DEF Redeploy, Kill, MemoryOK, WorkersHold, RestOK
  <2>2. MemoryOK'
    BY <1>4, IdleType DEF Redeploy, Kill, MemoryOK
  <2>3. faults' \in 0..MaxFaults
    BY <1>4, PipelineConstants DEF PipelineConstants, Redeploy, RestOK, Blame, MayFault
  <2> QED
    BY <1>4, <2>1, <2>2, <2>3 DEF Redeploy, TableOK, RestOK
<1> QED
  BY <1>1, <1>2, <1>3, <1>4 DEF Process

----------------------------------------------------------------------------
(* What steps change, field by field *)

\* One field of one version changes, ...
ScanSet(v, s) ==
  /\ version'[v].scan = s /\ version'[v].text = version[v].text /\ version'[v].integrity = version[v].integrity
  /\ \A u \in Versions : u # v => version'[u] = version[u]
TextSet(v, s) ==
  /\ version'[v].text = s /\ version'[v].scan = version[v].scan /\ version'[v].integrity = version[v].integrity
  /\ \A u \in Versions : u # v => version'[u] = version[u]
IntegritySet(v, s) ==
  /\ version'[v].integrity = s /\ version'[v].scan = version[v].scan /\ version'[v].text = version[v].text
  /\ \A u \in Versions : u # v => version'[u] = version[u]

\* ... or the memory of one process.
OthersRest(w) == \A x \in Workers : x # w => worker'[x] = worker[x]
Took(w, job, v) == worker[w].job = "idle" /\ worker'[w].job = job /\ worker'[w].v = v /\ OthersRest(w)
Freed(w) == worker'[w].job = "idle" /\ OthersRest(w)
Kept(w) == worker'[w].v = worker[w].v /\ OthersRest(w)

LEMMA ClaimScanEffect ==
  ASSUME TableOK, MemoryOK, NEW w \in Workers, NEW v \in Versions, ClaimScan(w, v)
  PROVE  ScanSet(v, "SCANNING") /\ Took(w, "scan", v)
BY DEF TableOK, MemoryOK, Row, ClaimScan, Ready, Take, Idle, ScanSet, Took, OthersRest

LEMMA ClaimTextEffect ==
  ASSUME TableOK, MemoryOK, NEW w \in Workers, NEW v \in Versions, ClaimText(w, v)
  PROVE  TextSet(v, "PROCESSING") /\ Took(w, "extract", v)
BY DEF TableOK, MemoryOK, Row, ClaimText, Ready, Take, Idle, TextSet, Took, OthersRest

LEMMA ReadFileEffect ==
  ASSUME MemoryOK, NEW w \in Workers, NEW v \in Versions, ReadFile(w, v)
  PROVE  /\ Took(w, "verify", v) /\ worker'[w].before = version[v].integrity
         /\ worker'[w].found = IF file[v] = "STORED" THEN "OK" ELSE file[v]
BY DEF MemoryOK, ReadFile, Ready, Idle, Took, OthersRest

LEMMA FinishScanEffect ==
  ASSUME TableOK, MemoryOK, NEW w \in Workers, NEW fault \in BOOLEAN, FinishScan(w, fault)
  PROVE  /\ worker[w].v \in Versions /\ ScanSet(worker[w].v, Verdict(worker[w].v, fault))
         /\ IF Verdict(worker[w].v, fault) = "INFECTED"
            THEN Kept(w) /\ worker'[w].job = "alert" /\ worker'[w].found = "INFECTED"
            ELSE Freed(w)
<1> DEFINE v == worker[w].v  verdict == Verdict(v, fault)
<1>1. v \in Versions
  BY DEF MemoryOK, FinishScan
<1> HIDE DEF verdict
<1>2. version' = [version EXCEPT ![v].scan = verdict, ![v].old = FALSE]
  BY DEF FinishScan, verdict
<1>3. ScanSet(v, verdict)
  BY <1>1, <1>2 DEF TableOK, Row, ScanSet
<1>4. worker' = [worker EXCEPT ![w] = IF verdict = "INFECTED"
                                     THEN [worker[w] EXCEPT !.job = "alert", !.found = verdict] ELSE Idle]
  BY DEF FinishScan, verdict
<1>5. IF verdict = "INFECTED" THEN Kept(w) /\ worker'[w].job = "alert" /\ worker'[w].found = "INFECTED" ELSE Freed(w)
  BY <1>4 DEF MemoryOK, WorkerType, Kept, Freed, OthersRest, Idle
<1> QED
  BY <1>1, <1>3, <1>5 DEF verdict

LEMMA LeaveEffect ==
  ASSUME MemoryOK, NEW w \in Workers, Leave(w)
  PROVE  Freed(w)
BY DEF MemoryOK, Leave, Idle, Freed, OthersRest

LEMMA ContinueEffect ==
  ASSUME MemoryOK, NEW w \in Workers, NEW job, Continue(w, job)
  PROVE  /\ Kept(w) /\ worker'[w].job = job
         /\ worker'[w].current = worker[w].current /\ worker'[w].found = worker[w].found
BY DEF MemoryOK, WorkerType, Continue, Kept, OthersRest

LEMMA LoadTextEffect ==
  ASSUME MemoryOK, NEW w \in Workers, LoadText(w)
  PROVE  Kept(w) /\ worker'[w].job = "store" /\ worker'[w].current = current
BY DEF MemoryOK, WorkerType, LoadText, Kept, OthersRest

LEMMA TextEffect ==
  ASSUME TableOK, NEW v \in Versions, NEW text, version' = [version EXCEPT ![v].text = text]
  PROVE  TextSet(v, text)
BY DEF TableOK, Row, TextSet

LEMMA IntegrityEffect ==
  ASSUME TableOK, NEW v \in Versions, NEW result, version' = [version EXCEPT ![v].integrity = result]
  PROVE  IntegritySet(v, result)
BY DEF TableOK, Row, IntegritySet

LEMMA AgeEffect ==
  ASSUME TableOK, NEW v \in Versions, Age(v)
  PROVE  ScanSet(v, version[v].scan)
BY DEF TableOK, Row, Age, ScanSet

LEMMA ReleaseEffect ==
  ASSUME TableOK, NEW w \in Workers, ReleaseQuarantine(w), NEW v \in Versions
  PROVE  /\ version'[v].text = version[v].text /\ version'[v].integrity = version[v].integrity
         /\ \/ version'[v].scan = version[v].scan
            \/ version[v].scan \in {"PENDING", "SCANNING", "ERROR"} /\ version'[v].scan = "NOT_SCANNED"
BY DEF TableOK, Row, ReleaseQuarantine, Unquarantined

LEMMA KillEffect ==
  ASSUME MemoryOK, NEW ws \in SUBSET Workers, Kill(ws)
  PROVE  /\ \A w \in ws : worker'[w].job = "idle"
         /\ \A w \in Workers \ ws : worker'[w] = worker[w]
BY DEF MemoryOK, Kill, Idle

LEMMA RegisterEffect ==
  ASSUME TableOK, RestOK, Register
  PROVE  /\ current + 1 \in Versions /\ version'[current + 1].text = "PENDING"
         /\ version'[current + 1].integrity = "NONE"
         /\ version'[current + 1].scan = IF scannerOn THEN "PENDING" ELSE "NOT_SCANNED"
         /\ \A u \in Versions : u # current + 1 => version'[u] = version[u]
BY PipelineConstants DEF PipelineConstants, TableOK, Row, RestOK, Register, NoRow, Versions

----------------------------------------------------------------------------
(* The scan: ScanInv *)

\* What a process holds stays a version that exists, with a finding to tell or to write.
LEMMA WorkHolds ==
  ASSUME TableOK, MemoryOK, RestOK, WorkersHold, UnusedRows, NEW w \in Workers, Work(w)
  PROVE  WorkersHold'
<1>0. current' = current /\ \A v \in Versions : v \in 1..current <=> v <= current
  <2>1. current' = current
    BY DEF Work, ClaimScan, ClaimText, ReadFile, FinishScan, Alert, ReleaseQuarantine, LoadText, StoreText, IndexText,
       FailText, WriteCheck, Crash
  <2>2. \A v \in Versions : v \in 1..current <=> v <= current
    BY PipelineConstants DEF PipelineConstants, RestOK, Versions
  <2> QED
    BY <2>1, <2>2
<1>00. \A v \in Versions : version[v].scan # "NONE" => v <= current
  BY PipelineConstants DEF PipelineConstants, UnusedRows, NoRow, RestOK, Versions
<1> USE <1>0 DEF WorkersHold, OthersRest
<1>1. ASSUME NEW v \in Versions, ClaimScan(w, v) PROVE WorkersHold'
  <2>1. v <= current
    BY <1>00, <1>1 DEF ClaimScan, Scannable
  <2> QED
    BY <1>1, <2>1, ClaimScanEffect DEF Took
<1>2. ASSUME NEW v \in Versions, ClaimText(w, v) PROVE WorkersHold'
  <2>1. v <= current
    BY <1>00, <1>2 DEF ClaimText, Extractable, Cleared
  <2> QED
    BY <1>2, <2>1, ClaimTextEffect DEF Took
<1>3. ASSUME NEW v \in Versions, ReadFile(w, v) PROVE WorkersHold'
  <2>1. v <= current /\ file[v] # "NONE"
    BY <1>3 DEF ReadFile, Exists, UnusedRows
  <2>2. worker'[w].found \in {"OK"} \cup Damages
    BY <1>3, <2>1, ReadFileEffect DEF RestOK
  <2> QED
    BY <1>3, <2>1, <2>2, ReadFileEffect DEF Took
<1>4. ASSUME NEW fault \in BOOLEAN, FinishScan(w, fault) PROVE WorkersHold'
  <2>1. worker[w].job # "idle"
    BY <1>4 DEF FinishScan
  <2> QED
    BY <1>4, <2>1, FinishScanEffect DEF Kept, Freed, Findings
<1>5. ASSUME Leave(w) PROVE WorkersHold'
  BY <1>5, LeaveEffect DEF Freed
<1>6. ASSUME LoadText(w) PROVE WorkersHold'
  BY <1>6, LoadTextEffect DEF Kept, LoadText
<1>7. ASSUME StoreText(w) PROVE WorkersHold'
  <2>1. CASE Leave(w)
    BY <2>1, <1>5
  <2>2. CASE Continue(w, "index")
    BY <1>7, <2>2, ContinueEffect DEF Kept, StoreText
  <2> QED
    BY <1>7, <2>1, <2>2 DEF StoreText
<1>8. ASSUME WriteCheck(w) PROVE WorkersHold'
  <2>1. CASE Leave(w)
    BY <2>1, <1>5
  <2>2. CASE Continue(w, "alert") /\ NewDamage(worker[w])
    BY <1>8, <2>2, ContinueEffect DEF Kept, WriteCheck, NewDamage, Findings
  <2> QED
    BY <1>8, <2>1, <2>2 DEF WriteCheck
<1>9. ASSUME Crash(w) PROVE WorkersHold'
  <2>1. Kill({w})
    BY <1>9 DEF Crash
  <2> QED
    BY <2>1, KillEffect
<1> QED
  BY <1>1, <1>2, <1>3, <1>4, <1>5, <1>6, <1>7, <1>8, <1>9 DEF Work, Alert, IndexText, FailText, ReleaseQuarantine

\* What a process does to the table of versions and to the setting: it claims or finishes a scan,
\* moves a text on, writes the result of a check, or releases every version.
LEMMA WorkRows ==
  ASSUME TableOK, MemoryOK, NEW w \in Workers, Work(w)
  PROVE  /\ scannerOn' = scannerOn /\ current' = current /\ file' = file
         /\ \/ \E v \in Versions : ClaimScan(w, v) \/ ClaimText(w, v)
            \/ \E fault \in BOOLEAN : FinishScan(w, fault)
            \/ ReleaseQuarantine(w)
            \/ worker[w].job \in {"store", "index"} /\ \E s \in {"DONE", "FAILED"} : TextSet(worker[w].v, s)
            \/ worker[w].job = "verify" /\ IntegritySet(worker[w].v, worker[w].found)
            \/ version' = version
<1>1. ASSUME StoreText(w) PROVE worker[w].job \in {"store", "index"} /\ TextSet(worker[w].v, "DONE")
  <2>1. worker[w].v \in Versions /\ version' = [version EXCEPT ![worker[w].v].text = "DONE"] /\ worker[w].job = "store"
    BY <1>1 DEF StoreText, MemoryOK
  <2> QED
    BY <2>1, TextEffect
<1>2. ASSUME FailText(w) PROVE worker[w].job \in {"store", "index"} /\ TextSet(worker[w].v, "FAILED")
  <2>1. worker[w].v \in Versions /\ version' = [version EXCEPT ![worker[w].v].text = "FAILED"] /\ worker[w].job \in {"store", "index"}
    BY <1>2 DEF FailText, MemoryOK
  <2> QED
    BY <2>1, TextEffect
<1>3. ASSUME WriteCheck(w) PROVE worker[w].job = "verify" /\ IntegritySet(worker[w].v, worker[w].found)
  <2>1. worker[w].v \in Versions /\ version' = [version EXCEPT ![worker[w].v].integrity = worker[w].found] /\ worker[w].job = "verify"
    BY <1>3 DEF WriteCheck, MemoryOK
  <2> QED
    BY <2>1, IntegrityEffect
<1>4. scannerOn' = scannerOn /\ current' = current /\ file' = file
  BY DEF Work, ClaimScan, ClaimText, ReadFile, FinishScan, Alert, ReleaseQuarantine, LoadText, StoreText, IndexText,
     FailText, WriteCheck, Crash
<1> QED
  BY <1>1, <1>2, <1>3, <1>4 DEF Work, ReadFile, Alert, LoadText, IndexText, Crash

LEMMA WorkUnused ==
  ASSUME TableOK, MemoryOK, RestOK, WorkersHold, UnusedRows, NEW w \in Workers, Work(w)
  PROVE  UnusedRows'
<1>1. \A v \in Versions : v > current => version'[v] = version[v]
  <2> SUFFICES ASSUME NEW u \in Versions, u > current PROVE version'[u] = version[u]
    OBVIOUS
  <2>0. version[u] = NoRow /\ version[u].scan = "NONE" /\ current \in Nat /\ u \in Nat
    BY PipelineConstants DEF PipelineConstants, UnusedRows, NoRow, RestOK, Versions
  <2>1. ASSUME NEW v \in Versions, ClaimScan(w, v) PROVE version'[u] = version[u]
    BY <2>0, <2>1, ClaimScanEffect DEF ScanSet, ClaimScan, Scannable
  <2>2. ASSUME NEW v \in Versions, ClaimText(w, v) PROVE version'[u] = version[u]
    BY <2>0, <2>2, ClaimTextEffect DEF TextSet, ClaimText, Extractable, Cleared
  <2>3. ASSUME worker[w].job # "idle" PROVE worker[w].v # u
    BY <2>0, <2>3 DEF WorkersHold
  <2>4. ASSUME NEW fault \in BOOLEAN, FinishScan(w, fault) PROVE version'[u] = version[u]
    <3>1. worker[w].job # "idle"
      BY <2>4 DEF FinishScan
    <3> QED
      BY <3>1, <2>3, <2>4, FinishScanEffect DEF ScanSet
  <2>5. ASSUME ReleaseQuarantine(w) PROVE version'[u] = version[u]
    BY <2>0, <2>5 DEF ReleaseQuarantine, Unquarantined, NoRow
  <2> QED
    BY <2>1, <2>2, <2>3, <2>4, <2>5, WorkRows DEF TextSet, IntegritySet
<1> QED
  BY <1>1, WorkRows DEF UnusedRows

LEMMA WorkScanner ==
  ASSUME TableOK, MemoryOK, ScannerState, NEW w \in Workers, Work(w)
  PROVE  ScannerState'
<1>0. scannerOn' = scannerOn
  BY WorkRows
<1>1. ASSUME scannerOn, NEW v \in Versions PROVE version'[v].scan # "NOT_SCANNED"
  <2> USE <1>1 DEF ScannerState
  <2>1. ASSUME NEW u \in Versions, ClaimScan(w, u) PROVE version'[v].scan # "NOT_SCANNED"
    BY <2>1, ClaimScanEffect DEF ScanSet
  <2>2. ASSUME NEW u \in Versions, ClaimText(w, u) PROVE version'[v].scan # "NOT_SCANNED"
    BY <2>2, ClaimTextEffect DEF TextSet
  <2>3. ASSUME NEW fault \in BOOLEAN, FinishScan(w, fault) PROVE version'[v].scan # "NOT_SCANNED"
    BY <2>3, FinishScanEffect DEF ScanSet, Verdict
  <2> QED
    BY <2>1, <2>2, <2>3, WorkRows DEF ReleaseQuarantine, TextSet, IntegritySet
<1>2. ASSUME ~scannerOn, NEW x \in Workers PROVE worker'[x].job # "scan"
  <2> USE <1>2 DEF ScannerState, OthersRest
  <2>1. ASSUME NEW v \in Versions, ClaimText(w, v) \/ ReadFile(w, v) PROVE worker'[x].job # "scan"
    BY <2>1, ClaimTextEffect, ReadFileEffect DEF Took
  <2>2. ASSUME NEW job \in {"index", "alert"}, Continue(w, job) PROVE worker'[x].job # "scan"
    BY <2>2, ContinueEffect DEF Kept
  <2>3. ASSUME Leave(w) \/ LoadText(w) PROVE worker'[x].job # "scan"
    BY <2>3, LeaveEffect, LoadTextEffect DEF Freed, Kept
  <2>4. ASSUME Crash(w) PROVE worker'[x].job # "scan"
    BY <2>4, KillEffect DEF Crash
  <2> QED
    BY <2>1, <2>2, <2>3, <2>4
       DEF Work, ClaimScan, FinishScan, ReleaseQuarantine, Alert, StoreText, IndexText, FailText, WriteCheck
<1> QED
  BY <1>0, <1>1, <1>2 DEF ScannerState

\* Infected versions: their scan and text move only as Quarantine allows.
LEMMA WorkQuarantine ==
  ASSUME TableOK, MemoryOK, ScannerState, Quarantine, NEW w \in Workers, Work(w)
  PROVE  Quarantine'
<1> SUFFICES ASSUME NEW v \in Infected
             PROVE  /\ version'[v].scan # "CLEAN"
                    /\ version'[v].text # "PENDING" => version'[v].scan = "NOT_SCANNED"
                    /\ \A x \in Workers : Extractor(x, v)' => version'[v].scan = "NOT_SCANNED"
  BY DEF Quarantine
<1>0. v \in Versions
  BY PipelineConstants DEF PipelineConstants, Versions
<1>1. version[v].scan = "NOT_SCANNED" => version'[v].scan = "NOT_SCANNED"
  <2>1. ASSUME NEW u \in Versions, ClaimScan(w, u), version[v].scan = "NOT_SCANNED" PROVE version'[v].scan = "NOT_SCANNED"
    BY <1>0, <2>1, ClaimScanEffect DEF ScanSet, ClaimScan, Scannable
  <2>2. ASSUME NEW u \in Versions, ClaimText(w, u), version[v].scan = "NOT_SCANNED" PROVE version'[v].scan = "NOT_SCANNED"
    BY <1>0, <2>2, ClaimTextEffect DEF TextSet
  <2>3. ASSUME NEW fault \in BOOLEAN, FinishScan(w, fault) PROVE version[v].scan # "NOT_SCANNED"
    BY <1>0, <2>3 DEF ScannerState, FinishScan
  <2>4. ASSUME ReleaseQuarantine(w), version[v].scan = "NOT_SCANNED" PROVE version'[v].scan = "NOT_SCANNED"
    BY <1>0, <2>4, ReleaseEffect
  <2> QED
    BY <1>0, <2>1, <2>2, <2>3, <2>4, WorkRows DEF TextSet, IntegritySet
<1>2. version'[v].scan # "CLEAN"
  <2> USE <1>0 DEF Quarantine
  <2>1. ASSUME NEW u \in Versions, ClaimScan(w, u) PROVE version'[v].scan # "CLEAN"
    BY <2>1, ClaimScanEffect DEF ScanSet
  <2>2. ASSUME NEW u \in Versions, ClaimText(w, u) PROVE version'[v].scan # "CLEAN"
    BY <2>2, ClaimTextEffect DEF TextSet
  <2>3. ASSUME NEW fault \in BOOLEAN, FinishScan(w, fault) PROVE version'[v].scan # "CLEAN"
    BY <2>3, FinishScanEffect DEF ScanSet, Verdict
  <2>4. ASSUME ReleaseQuarantine(w) PROVE version'[v].scan # "CLEAN"
    BY <2>4, ReleaseEffect
  <2> QED
    BY <2>1, <2>2, <2>3, <2>4, WorkRows DEF TextSet, IntegritySet
<1>3. version'[v].text # "PENDING" => version'[v].scan = "NOT_SCANNED"
  <2>0. version[v].text # "PENDING" => version'[v].scan = "NOT_SCANNED"
    BY <1>1 DEF Quarantine
  <2>1. ASSUME NEW u \in Versions, ClaimScan(w, u) PROVE version'[v].text = version[v].text
    BY <1>0, <2>1, ClaimScanEffect DEF ScanSet
  <2>2. ASSUME NEW u \in Versions, ClaimText(w, u)
        PROVE  version'[v].text = version[v].text \/ version'[v].scan = "NOT_SCANNED"
    BY <1>0, <1>2, <2>2, ClaimTextEffect DEF TextSet, ClaimText, Extractable, Cleared
  <2>3. ASSUME NEW fault \in BOOLEAN, FinishScan(w, fault) PROVE version'[v].text = version[v].text
    BY <1>0, <2>3, FinishScanEffect DEF ScanSet
  <2>4. ASSUME ReleaseQuarantine(w) PROVE version'[v].text = version[v].text
    BY <1>0, <2>4, ReleaseEffect
  <2>5. ASSUME worker[w].job \in {"store", "index"}, NEW s, TextSet(worker[w].v, s)
        PROVE  version'[v].text = version[v].text \/ version'[v].scan = "NOT_SCANNED"
    BY <1>0, <1>1, <2>5 DEF TextSet, Quarantine, Extractor
  <2> QED
    BY <1>0, <2>0, <2>1, <2>2, <2>3, <2>4, <2>5, WorkRows DEF IntegritySet
<1>4. ASSUME NEW x \in Workers, Extractor(x, v)' PROVE version'[v].scan = "NOT_SCANNED"
  <2>1. \/ \E u \in Workers : Extractor(u, v)
        \/ ClaimText(w, v)
    <3> USE <1>4 DEF Extractor, OthersRest
    <3>1. ASSUME NEW u \in Versions, ClaimScan(w, u) \/ ReadFile(w, u) PROVE Extractor(x, v)
      BY <3>1, ClaimScanEffect, ReadFileEffect DEF Took
    <3>2. ASSUME NEW u \in Versions, ClaimText(w, u) PROVE Extractor(x, v) \/ ClaimText(w, v)
      BY <3>2, ClaimTextEffect DEF Took
    <3>3. ASSUME NEW fault \in BOOLEAN, FinishScan(w, fault) PROVE Extractor(x, v)
      BY <3>3, FinishScanEffect DEF Freed, Kept
    <3>4. ASSUME Leave(w) PROVE Extractor(x, v)
      BY <3>4, LeaveEffect DEF Freed
    <3>5. ASSUME LoadText(w) PROVE Extractor(x, v)
      BY <3>5, LoadTextEffect DEF Kept, LoadText
    <3>6. ASSUME StoreText(w) PROVE Extractor(x, v)
      BY <3>4, <3>6, ContinueEffect DEF Kept, StoreText
    <3>7. ASSUME WriteCheck(w) PROVE Extractor(x, v)
      BY <3>4, <3>7, ContinueEffect DEF Kept, WriteCheck
    <3>8. ASSUME Crash(w) PROVE Extractor(x, v)
      BY <3>8, KillEffect DEF Crash
    <3> QED
      BY <3>1, <3>2, <3>3, <3>4, <3>5, <3>6, <3>7, <3>8 DEF Work, Alert, IndexText, FailText, ReleaseQuarantine
  <2>2. ASSUME ClaimText(w, v) PROVE version'[v].scan = "NOT_SCANNED"
    BY <1>0, <1>1, <2>2 DEF Quarantine, ClaimText, Extractable, Cleared
  <2> QED
    BY <1>1, <2>1, <2>2 DEF Quarantine
<1> QED
  BY <1>2, <1>3, <1>4

----------------------------------------------------------------------------
(* The alerts: AlertInv *)

\* What was told stays told, or has been lost with its sender.
LEMMA WorkTold ==
  ASSUME TableOK, MemoryOK, NEW w \in Workers, Work(w), NEW v, NEW finding, Told(v, finding)
  PROVE  Told(v, finding)'
<1>1. alerted \subseteq alerted' /\ lost \subseteq lost'
  BY DEF Work, ClaimScan, ClaimText, ReadFile, FinishScan, Alert, ReleaseQuarantine, LoadText, StoreText, IndexText,
     FailText, WriteCheck, Crash, Kill
<1>2. CASE <<v, finding>> \in alerted \cup lost
  BY <1>1, <1>2 DEF Told
<1>3. ASSUME NEW x \in Workers, worker[x].job = "alert", worker[x].v = v, worker[x].found = finding
      PROVE  Told(v, finding)'
  <2>1. CASE Alert(w) /\ x = w
    <3>1. <<v, finding>> \in alerted'
      BY <1>3, <2>1 DEF Alert
    <3> QED
      BY <3>1 DEF Told
  <2>2. CASE Crash(w) /\ x = w
    <3>1. <<v, finding>> \in lost'
      BY <1>3, <2>2 DEF Crash, Kill
    <3> QED
      BY <3>1 DEF Told
  <2>3. CASE ~((Alert(w) \/ Crash(w)) /\ x = w)
    <3>1. worker'[x] = worker[x]
      <4> USE <1>3, <2>3 DEF OthersRest
      <4>1. ASSUME NEW u \in Versions, ClaimScan(w, u) PROVE worker'[x] = worker[x]
        BY <4>1, ClaimScanEffect DEF Took
      <4>2. ASSUME NEW u \in Versions, ClaimText(w, u) PROVE worker'[x] = worker[x]
        BY <4>2, ClaimTextEffect DEF Took
      <4>3. ASSUME NEW u \in Versions, ReadFile(w, u) PROVE worker'[x] = worker[x]
        BY <4>3, ReadFileEffect DEF Took
      <4>4. ASSUME NEW fault \in BOOLEAN, FinishScan(w, fault) PROVE worker'[x] = worker[x]
        BY <4>4, FinishScanEffect DEF Kept, Freed, FinishScan
      <4>5. ASSUME Leave(w), x # w PROVE worker'[x] = worker[x]
        BY <4>5, LeaveEffect DEF Freed
      <4>6. ASSUME LoadText(w) PROVE worker'[x] = worker[x]
        BY <4>6, LoadTextEffect DEF Kept, LoadText
      <4>7. ASSUME NEW job, Continue(w, job), x # w PROVE worker'[x] = worker[x]
        BY <4>7, ContinueEffect DEF Kept
      <4>8. ASSUME Crash(w) PROVE worker'[x] = worker[x]
        <5>1. x # w /\ Kill({w})
          BY <2>3, <4>8 DEF Crash
        <5> QED
          BY <5>1, KillEffect
      <4>9. ASSUME x = w PROVE ~StoreText(w) /\ ~IndexText(w) /\ ~FailText(w) /\ ~WriteCheck(w) /\ ~Alert(w)
        BY <4>9 DEF StoreText, IndexText, FailText, WriteCheck
      <4>10. ASSUME Alert(w) \/ StoreText(w) \/ IndexText(w) \/ FailText(w) \/ WriteCheck(w) PROVE worker'[x] = worker[x]
        BY <4>5, <4>7, <4>9, <4>10 DEF Alert, StoreText, IndexText, FailText, WriteCheck
      <4>11. ASSUME ReleaseQuarantine(w) PROVE worker'[x] = worker[x]
        BY <4>11 DEF ReleaseQuarantine
      <4> QED
        BY <4>1, <4>2, <4>3, <4>4, <4>6, <4>8, <4>10, <4>11 DEF Work
    <3> QED
      BY <1>3, <3>1 DEF Told
  <2> QED
    BY <2>1, <2>2, <2>3
<1> QED
  BY <1>2, <1>3 DEF Told

LEMMA FindingsTold == FindingsAlerted <=>
  \A v \in Versions, finding \in Findings :
    (version[v].scan = finding \/ version[v].integrity = finding) => Told(v, finding)
BY DEF FindingsAlerted, Told

LEMMA FindingsToldNext == FindingsAlerted' <=>
  \A v \in Versions, finding \in Findings :
    (version'[v].scan = finding \/ version'[v].integrity = finding) => Told(v, finding)'
BY DEF FindingsAlerted, Told

LEMMA WorkBefore ==
  ASSUME TableOK, MemoryOK, BeforeTold, FindingsAlerted, NEW w \in Workers, Work(w)
  PROVE  BeforeTold'
<1> SUFFICES ASSUME NEW x \in Workers, NEW v, NEW before \in Damages,
                    worker'[x].job = "verify", worker'[x].v = v, worker'[x].before = before
             PROVE  Told(v, before)'
  BY DEF BeforeTold
<1>1. CASE worker'[x] = worker[x]
  <2>1. Told(v, before)
    BY <1>1 DEF BeforeTold
  <2> QED
    BY <2>1, WorkTold
<1>2. CASE worker'[x] # worker[x]
  <2> USE <1>2 DEF OthersRest
  <2>1. \E u \in Versions : ReadFile(w, u) /\ x = w
    <3>1. ASSUME NEW u \in Versions, ClaimScan(w, u) PROVE FALSE
      BY <3>1, ClaimScanEffect DEF Took
    <3>2. ASSUME NEW u \in Versions, ClaimText(w, u) PROVE FALSE
      BY <3>2, ClaimTextEffect DEF Took
    <3>3. ASSUME NEW u \in Versions, ReadFile(w, u) PROVE x = w
      BY <3>3, ReadFileEffect DEF Took
    <3>4. ASSUME NEW fault \in BOOLEAN, FinishScan(w, fault) PROVE FALSE
      BY <3>4, FinishScanEffect DEF Kept, Freed
    <3>5. ASSUME Leave(w) PROVE FALSE
      BY <3>5, LeaveEffect DEF Freed
    <3>6. ASSUME LoadText(w) PROVE FALSE
      BY <3>6, LoadTextEffect DEF Kept
    <3>7. ASSUME NEW job \in {"index", "alert"}, Continue(w, job) PROVE FALSE
      BY <3>7, ContinueEffect DEF Kept
    <3>8. ASSUME Crash(w) PROVE FALSE
      BY <3>8, KillEffect DEF Crash
    <3> QED
      BY <3>1, <3>2, <3>3, <3>4, <3>5, <3>6, <3>7, <3>8
         DEF Work, Alert, StoreText, IndexText, FailText, WriteCheck, ReleaseQuarantine
  <2>2. PICK u \in Versions : ReadFile(w, u) /\ x = w
    BY <2>1
  <2>3. u = v /\ version[u].integrity = before
    BY <2>2, ReadFileEffect DEF Took
  <2>4. Told(v, before)
    BY <2>3, FindingsTold DEF Findings
  <2> QED
    BY <2>4, WorkTold
<1> QED
  BY <1>1, <1>2

LEMMA WorkFindings ==
  ASSUME TableOK, MemoryOK, WorkersHold, BeforeTold, FindingsAlerted, NEW w \in Workers, Work(w)
  PROVE  FindingsAlerted'
<1> SUFFICES ASSUME NEW v \in Versions, NEW finding \in Findings,
                    version'[v].scan = finding \/ version'[v].integrity = finding
             PROVE  Told(v, finding)'
  BY FindingsToldNext
<1>1. CASE version[v].scan = finding \/ version[v].integrity = finding
  BY <1>1, FindingsTold, WorkTold
<1>2. CASE ~(version[v].scan = finding \/ version[v].integrity = finding)
  <2> USE <1>2 DEF Findings, Damages
  <2>1. ASSUME NEW u \in Versions, ClaimScan(w, u) PROVE FALSE
    BY <2>1, ClaimScanEffect DEF ScanSet
  <2>2. ASSUME NEW u \in Versions, ClaimText(w, u) PROVE FALSE
    BY <2>2, ClaimTextEffect DEF TextSet
  <2>3. ASSUME NEW fault \in BOOLEAN, FinishScan(w, fault) PROVE Told(v, finding)'
    <3>1. worker[w].v = v /\ Verdict(v, fault) = finding /\ finding = "INFECTED"
      BY <2>3, FinishScanEffect DEF ScanSet, Verdict
    <3>2. worker'[w].job = "alert" /\ worker'[w].v = v /\ worker'[w].found = finding
      BY <2>3, <3>1, FinishScanEffect DEF Kept
    <3> QED
      BY <3>2 DEF Told
  <2>4. ASSUME ReleaseQuarantine(w) PROVE FALSE
    BY <2>4, ReleaseEffect
  <2>5. ASSUME WriteCheck(w) PROVE Told(v, finding)'
    <3>0. worker[w].v \in Versions /\ worker[w].job = "verify"
      BY <2>5 DEF WriteCheck, MemoryOK
    <3>1. worker[w].v = v /\ worker[w].found = finding /\ finding # "OK"
      BY <2>5, <3>0, IntegrityEffect DEF WriteCheck, IntegritySet
    <3>2. CASE worker[w].before = finding
      <4>1. Told(v, finding)
        BY <3>0, <3>1, <3>2 DEF BeforeTold, WorkersHold
      <4> QED
        BY <4>1, WorkTold
    <3>3. CASE worker[w].before # finding
      <4>1. Continue(w, "alert")
        BY <2>5, <3>1, <3>3 DEF WriteCheck, NewDamage
      <4> QED
        BY <3>1, <4>1, ContinueEffect DEF Kept, Told
    <3> QED
      BY <3>2, <3>3
  <2>6. ASSUME StoreText(w) \/ FailText(w) PROVE FALSE
    <3>1. worker[w].v \in Versions /\ \E s : version' = [version EXCEPT ![worker[w].v].text = s]
      BY <2>6 DEF StoreText, FailText, MemoryOK
    <3> QED
      BY <3>1, TextEffect DEF TextSet
  <2> QED
    BY <2>1, <2>2, <2>3, <2>4, <2>5, <2>6 DEF Work, ReadFile, Alert, LoadText, IndexText, Crash
<1> QED
  BY <1>1, <1>2

----------------------------------------------------------------------------
(* The text: TextInv *)

Extracts(w) == worker[w].job \in {"extract", "store", "index"}
SameTexts == \A v \in Versions : version'[v].text = version[v].text
SameIndex == index' = index /\ late' = late
SameAbandoned == abandoned' = abandoned

\* The ways a step of a process touches the texts: it claims, loads, stores, fails, indexes or
\* dies, and any other step has nothing to do with them.
TextClaimed(w, v) ==
  /\ version[v].text = "PENDING" /\ TextSet(v, "PROCESSING") /\ Took(w, "extract", v)
  /\ SameIndex /\ SameAbandoned
TextLoaded(w) ==
  /\ worker[w].job = "extract" /\ Kept(w) /\ worker'[w].job = "store" /\ worker'[w].current = current
  /\ SameTexts /\ SameIndex /\ SameAbandoned
TextStored(w) ==
  /\ worker[w].job = "store" /\ TextSet(worker[w].v, "DONE")
  /\ IF worker[w].v = worker[w].current
     THEN Kept(w) /\ worker'[w].job = "index" /\ worker'[w].current = worker[w].current ELSE Freed(w)
  /\ SameIndex /\ SameAbandoned
TextFailed(w) ==
  /\ worker[w].job \in {"store", "index"} /\ TextSet(worker[w].v, "FAILED") /\ Freed(w)
  /\ SameIndex /\ SameAbandoned
TextIndexed(w) ==
  /\ worker[w].job = "index" /\ SameTexts /\ Freed(w) /\ SameAbandoned
  /\ index' = worker[w].v /\ late' = (worker[w].v # current /\ worker[w].v = worker[w].current)
TextDropped(w) ==
  /\ SameTexts /\ Freed(w) /\ SameIndex
  /\ abandoned' = abandoned \cup {u \in {worker[w].v} : Extracts(w)}
OtherWork(w) ==
  /\ ~Extracts(w) /\ ~Extracts(w)' /\ OthersRest(w)
  /\ SameTexts /\ SameIndex /\ SameAbandoned

LEMMA TextSteps ==
  ASSUME TableOK, MemoryOK, NEW w \in Workers, Work(w)
  PROVE  \/ \E v \in Versions : TextClaimed(w, v)
         \/ TextLoaded(w) \/ TextStored(w) \/ TextFailed(w) \/ TextIndexed(w) \/ TextDropped(w) \/ OtherWork(w)
<1> USE DEF SameIndex, SameAbandoned
<1>1. ASSUME NEW v \in Versions, ClaimText(w, v) PROVE TextClaimed(w, v)
  BY <1>1, ClaimTextEffect DEF TextClaimed, ClaimText, Extractable
<1>2. ASSUME LoadText(w) PROVE TextLoaded(w)
  BY <1>2, LoadTextEffect DEF TextLoaded, LoadText, SameTexts
<1>3. ASSUME StoreText(w) PROVE TextStored(w)
  <2>1. worker[w].v \in Versions /\ version' = [version EXCEPT ![worker[w].v].text = "DONE"] /\ worker[w].job = "store"
    BY <1>3 DEF StoreText, MemoryOK
  <2>2. TextSet(worker[w].v, "DONE")
    BY <2>1, TextEffect
  <2>3. IF worker[w].v = worker[w].current THEN Continue(w, "index") ELSE Leave(w)
    BY <1>3 DEF StoreText, IsCurrent
  <2>4. IF worker[w].v = worker[w].current
        THEN Kept(w) /\ worker'[w].job = "index" /\ worker'[w].current = worker[w].current ELSE Freed(w)
    BY <2>3, ContinueEffect, LeaveEffect
  <2> QED
    BY <1>3, <2>1, <2>2, <2>4 DEF StoreText, TextStored
<1>4. ASSUME FailText(w) PROVE TextFailed(w)
  <2>1. worker[w].v \in Versions /\ version' = [version EXCEPT ![worker[w].v].text = "FAILED"]
    BY <1>4 DEF FailText, MemoryOK
  <2> QED
    BY <1>4, <2>1, TextEffect, LeaveEffect DEF FailText, TextFailed
<1>5. ASSUME IndexText(w) PROVE TextIndexed(w)
  BY <1>5, LeaveEffect DEF IndexText, TextIndexed, SameTexts
<1>6. ASSUME Crash(w) PROVE TextDropped(w)
  <2>1. Kill({w}) /\ version' = version /\ index' = index /\ late' = late
    BY <1>6 DEF Crash
  <2>2. Freed(w)
    BY <2>1, KillEffect DEF Freed, OthersRest
  <2>3. abandoned' = abandoned \cup {u \in {worker[w].v} : Extracts(w)}
    BY <2>1 DEF Kill, Extracts
  <2> QED
    BY <2>1, <2>2, <2>3 DEF TextDropped, SameTexts
<1>7. ASSUME NEW v \in Versions, ClaimScan(w, v) PROVE OtherWork(w)
  <2>1. SameTexts
    BY <1>7, ClaimScanEffect DEF ScanSet, SameTexts
  <2> QED
    BY <1>7, <2>1, ClaimScanEffect DEF Took, OtherWork, Extracts, ClaimScan
<1>8. ASSUME NEW fault \in BOOLEAN, FinishScan(w, fault) PROVE OtherWork(w)
  <2>1. SameTexts
    BY <1>8, FinishScanEffect DEF ScanSet, SameTexts
  <2> QED
    BY <1>8, <2>1, FinishScanEffect DEF Kept, Freed, OtherWork, Extracts, FinishScan
<1>9. ASSUME ReleaseQuarantine(w) PROVE OtherWork(w)
  <2>1. SameTexts
    BY <1>9, ReleaseEffect DEF SameTexts
  <2> QED
    BY <1>9, <2>1 DEF ReleaseQuarantine, Ready, OtherWork, Extracts, OthersRest
<1>10. ASSUME NEW v \in Versions, ReadFile(w, v) PROVE OtherWork(w)
  BY <1>10, ReadFileEffect DEF Took, OtherWork, Extracts, ReadFile, SameTexts
<1>11. ASSUME WriteCheck(w) PROVE OtherWork(w)
  <2>1. worker[w].v \in Versions /\ version' = [version EXCEPT ![worker[w].v].integrity = worker[w].found] /\ worker[w].job = "verify"
    BY <1>11 DEF WriteCheck, MemoryOK
  <2>2. SameTexts
    BY <2>1, IntegrityEffect DEF IntegritySet, SameTexts
  <2>3. OthersRest(w) /\ worker'[w].job \in {"alert", "idle"}
    BY <1>11, ContinueEffect, LeaveEffect DEF WriteCheck, Kept, Freed
  <2> QED
    BY <1>11, <2>1, <2>2, <2>3 DEF WriteCheck, OtherWork, Extracts
<1>12. ASSUME Alert(w) PROVE OtherWork(w)
  BY <1>12, LeaveEffect DEF Alert, Freed, OtherWork, Extracts, SameTexts
<1> QED
  BY <1>1, <1>2, <1>3, <1>4, <1>5, <1>6, <1>7, <1>8, <1>9, <1>10, <1>11, <1>12 DEF Work

LEMMA WorkLoaded ==
  ASSUME TableOK, MemoryOK, RestOK, WorkersHold, OneExtractor, Loaded, NEW w \in Workers, Work(w)
  PROVE  Loaded'
<1>0. current' = current /\ current \in 0..MaxVersions
  BY WorkRows DEF RestOK
<1> SUFFICES ASSUME NEW x \in Workers
             PROVE  /\ worker'[x].job \in {"store", "index"} =>
                         worker'[x].v <= worker'[x].current /\ worker'[x].current <= current
                    /\ worker'[x].job = "index" =>
                         worker'[x].v = worker'[x].current /\ version'[worker'[x].v].text \in {"DONE", "FAILED"}
  BY <1>0 DEF Loaded
<1> USE DEF OthersRest
<1>1. ASSUME NEW y \in Workers, worker[y].job = "index"
      PROVE  worker[y].v \in Versions /\ worker[y].v = worker[y].current /\ version[worker[y].v].text \in {"DONE", "FAILED"}
  BY <1>1 DEF Loaded, MemoryOK
<1>2. CASE OtherWork(w)
  BY <1>1, <1>2 DEF OtherWork, Extracts, SameTexts, Loaded
<1>3. CASE TextDropped(w) \/ TextIndexed(w)
  BY <1>1, <1>3 DEF TextDropped, TextIndexed, Freed, SameTexts, Loaded
<1>4. CASE TextFailed(w)
  BY <1>1, <1>4 DEF TextFailed, TextSet, Freed, Loaded
<1>5. CASE TextStored(w)
  BY <1>1, <1>5 DEF TextStored, TextSet, Freed, Kept, Loaded
<1>6. CASE TextLoaded(w)
  <2>1. worker[w].v <= current /\ current <= current
    BY <1>0, <1>6, PipelineConstants DEF PipelineConstants, TextLoaded, WorkersHold
  <2> QED
    BY <1>1, <1>6, <2>1 DEF TextLoaded, Kept, SameTexts, Loaded
<1>7. ASSUME NEW v \in Versions, TextClaimed(w, v)
      PROVE  /\ worker'[x].job \in {"store", "index"} =>
                  worker'[x].v <= worker'[x].current /\ worker'[x].current <= current
             /\ worker'[x].job = "index" =>
                  worker'[x].v = worker'[x].current /\ version'[worker'[x].v].text \in {"DONE", "FAILED"}
  BY <1>1, <1>7 DEF TextClaimed, TextSet, Took, Loaded
<1> QED
  BY <1>2, <1>3, <1>4, <1>5, <1>6, <1>7, TextSteps

LEMMA WorkAbandoned ==
  ASSUME TableOK, MemoryOK, RestOK, OneExtractor, Loaded, AbandonedRows, NEW w \in Workers, Work(w)
  PROVE  AbandonedRows'
<1> USE DEF AbandonedRows
<1>0. abandoned \subseteq Versions
  BY DEF RestOK
<1>1. CASE OtherWork(w) \/ TextLoaded(w) \/ TextIndexed(w)
  BY <1>0, <1>1 DEF OtherWork, TextLoaded, TextIndexed, SameTexts, SameAbandoned
<1>2. CASE TextFailed(w) \/ TextStored(w)
  BY <1>0, <1>2 DEF TextFailed, TextStored, TextSet, SameAbandoned
<1>3. ASSUME NEW v \in Versions, TextClaimed(w, v) PROVE AbandonedRows'
  BY <1>0, <1>3 DEF TextClaimed, TextSet, SameAbandoned
<1>4. CASE TextDropped(w)
  <2>1. ASSUME Extracts(w) PROVE worker[w].v \in Versions /\ version[worker[w].v].text # "PENDING"
    <3>1. worker[w].v \in Versions
      BY <2>1 DEF Extracts, MemoryOK
    <3> QED
      BY <2>1, <3>1 DEF Extracts, OneExtractor, Extracting, Loaded
  <2> QED
    BY <1>0, <1>4, <2>1 DEF TextDropped, SameTexts
<1> QED
  BY <1>1, <1>2, <1>3, <1>4, TextSteps

LEMMA WorkExtractor ==
  ASSUME TableOK, MemoryOK, RestOK, OneExtractor, Loaded, AbandonedRows, NEW w \in Workers, Work(w)
  PROVE  OneExtractor'
<1> SUFFICES ASSUME NEW v \in Versions
             PROVE  /\ version'[v].text = "PROCESSING" => v \in abandoned' \/ \E x \in Workers : Extracting(x, v)'
                    /\ \A x \in Workers : Extracting(x, v)' => version'[v].text = "PROCESSING" /\ v \notin abandoned'
                    /\ \A x, y \in Workers : Extracting(x, v)' /\ Extracting(y, v)' => x = y
  BY DEF OneExtractor
<1>0. /\ version[v].text = "PROCESSING" => v \in abandoned \/ \E x \in Workers : Extracting(x, v)
      /\ \A x \in Workers : Extracting(x, v) => version[v].text = "PROCESSING" /\ v \notin abandoned
      /\ \A x, y \in Workers : Extracting(x, v) /\ Extracting(y, v) => x = y
  BY DEF OneExtractor
<1> DEFINE Goal == /\ version'[v].text = "PROCESSING" => v \in abandoned' \/ \E x \in Workers : Extracting(x, v)'
                   /\ \A x \in Workers : Extracting(x, v)' => version'[v].text = "PROCESSING" /\ v \notin abandoned'
                   /\ \A x, y \in Workers : Extracting(x, v)' /\ Extracting(y, v)' => x = y
<1> USE DEF Extracting, OthersRest
<1>1. CASE OtherWork(w)
  <2>1. \A x \in Workers : Extracting(x, v)' <=> Extracting(x, v)
    BY <1>1 DEF OtherWork, Extracts
  <2> QED
    BY <1>0, <1>1, <2>1 DEF OtherWork, SameTexts, SameAbandoned
<1>2. CASE TextLoaded(w)
  <2>1. \A x \in Workers : Extracting(x, v)' <=> Extracting(x, v)
    BY <1>2 DEF TextLoaded, Kept
  <2> QED
    BY <1>0, <1>2, <2>1 DEF TextLoaded, SameTexts, SameAbandoned
<1>3. CASE TextIndexed(w)
  <2>1. \A x \in Workers : Extracting(x, v)' <=> Extracting(x, v)
    BY <1>3 DEF TextIndexed, Freed
  <2> QED
    BY <1>0, <1>3, <2>1 DEF TextIndexed, SameTexts, SameAbandoned
<1>4. CASE TextStored(w)
  <2>1. \A x \in Workers : Extracting(x, v)' <=> Extracting(x, v) /\ x # w
    BY <1>4 DEF TextStored, Freed, Kept
  <2>2. worker[w].v # v => version'[v] = version[v]
    BY <1>4 DEF TextStored, TextSet
  <2>3. worker[w].v = v => version'[v].text = "DONE" /\ Extracting(w, v)
    BY <1>4 DEF TextStored, TextSet
  <2>4. worker[w].v # v => ~Extracting(w, v)
    OBVIOUS
  <2> QED
    BY <1>0, <1>4, <2>1, <2>2, <2>3, <2>4 DEF TextStored, SameAbandoned
<1>5. CASE TextFailed(w)
  <2>1. \A x \in Workers : Extracting(x, v)' <=> Extracting(x, v) /\ x # w
    BY <1>5 DEF TextFailed, Freed
  <2>2. worker[w].v # v => version'[v] = version[v]
    BY <1>5 DEF TextFailed, TextSet
  <2>3. worker[w].v = v => version'[v].text = "FAILED" /\ (Extracting(w, v) \/ version[v].text # "PROCESSING")
    BY <1>5 DEF TextFailed, TextSet, Loaded
  <2>4. worker[w].v # v => ~Extracting(w, v)
    OBVIOUS
  <2> QED
    BY <1>0, <1>5, <2>1, <2>2, <2>3, <2>4 DEF TextFailed, SameAbandoned
<1>6. CASE TextDropped(w)
  <2>1. \A x \in Workers : Extracting(x, v)' <=> Extracting(x, v) /\ x # w
    BY <1>6 DEF TextDropped, Freed
  <2>2. v \in abandoned' <=> v \in abandoned \/ (Extracts(w) /\ worker[w].v = v)
    BY <1>6 DEF TextDropped
  <2>3. Extracts(w) /\ worker[w].v = v => Extracting(w, v) \/ version[v].text # "PROCESSING"
    BY DEF Extracts, Loaded
  <2>4. Extracting(w, v) => Extracts(w) /\ worker[w].v = v
    BY DEF Extracts
  <2>5. version'[v].text = version[v].text
    BY <1>6 DEF TextDropped, SameTexts
  <2> HIDE DEF Extracting
  <2> QED
    BY <1>0, <2>1, <2>2, <2>3, <2>4, <2>5
<1>7. ASSUME NEW u \in Versions, TextClaimed(w, u) PROVE Goal
  <2>1. \A x \in Workers : Extracting(x, v)' <=> Extracting(x, v) \/ (x = w /\ u = v)
    BY <1>7 DEF TextClaimed, Took
  <2>2. u # v => version'[v] = version[v]
    BY <1>7 DEF TextClaimed, TextSet
  <2>3. u = v => version[v].text = "PENDING" /\ version'[v].text = "PROCESSING" /\ v \notin abandoned
    BY <1>7 DEF TextClaimed, TextSet, AbandonedRows
  <2>4. abandoned' = abandoned
    BY <1>7 DEF TextClaimed, SameAbandoned
  <2> HIDE DEF Extracting
  <2> QED
    BY <1>0, <2>1, <2>2, <2>3, <2>4
<1> QED
  BY <1>1, <1>2, <1>3, <1>4, <1>5, <1>6, <1>7, TextSteps

LEMMA WorkIndex ==
  ASSUME TableOK, MemoryOK, RestOK, WorkersHold, OneExtractor, Loaded, IndexFollowsCurrent, NEW w \in Workers, Work(w)
  PROVE  IndexFollowsCurrent'
<1>0. current' = current
  BY WorkRows
<1> DEFINE Indexing == \E x \in Workers : worker[x].job = "index" /\ worker[x].v = current
           Goal == index' = current \/ late' \/ current \in abandoned' \/ Indexing'
<1> SUFFICES ASSUME current # 0, version'[current].text = "DONE" PROVE Goal
  BY <1>0 DEF IndexFollowsCurrent
<1>00. current \in Versions /\ current \in Nat
  BY PipelineConstants DEF PipelineConstants, RestOK, Versions
<1>1. version[current].text = "DONE" => index = current \/ late \/ current \in abandoned \/ Indexing
  BY DEF IndexFollowsCurrent
<1>2. ASSUME NEW x \in Workers, worker[x].job = "index", worker[x].v = current, x # w, OthersRest(w) PROVE Indexing'
  BY <1>0, <1>2 DEF OthersRest
<1>3. CASE OtherWork(w)
  <2>1. worker[w].job # "index" /\ OthersRest(w) /\ version[current].text = "DONE" /\ SameIndex /\ SameAbandoned
    BY <1>00, <1>3 DEF OtherWork, Extracts, SameTexts
  <2> QED
    BY <1>1, <1>2, <2>1 DEF SameIndex, SameAbandoned
<1>4. CASE TextLoaded(w)
  <2>1. worker[w].job # "index" /\ OthersRest(w) /\ version[current].text = "DONE" /\ SameIndex /\ SameAbandoned
    BY <1>00, <1>4 DEF TextLoaded, SameTexts, Kept
  <2> QED
    BY <1>1, <1>2, <2>1 DEF SameIndex, SameAbandoned
<1>5. CASE TextIndexed(w)
  <2>1. worker[w].v = worker[w].current /\ version[current].text = "DONE" /\ OthersRest(w) /\ SameAbandoned
    BY <1>00, <1>5 DEF TextIndexed, SameTexts, Freed, Loaded
  <2>2. CASE worker[w].v = current
    BY <1>5, <2>2 DEF TextIndexed
  <2>3. CASE worker[w].v # current
    BY <1>5, <2>1, <2>3 DEF TextIndexed
  <2> QED
    BY <2>2, <2>3
<1>6. CASE TextDropped(w)
  <2>1. version[current].text = "DONE" /\ OthersRest(w) /\ SameIndex /\ abandoned \subseteq abandoned'
    BY <1>00, <1>6 DEF TextDropped, SameTexts, Freed
  <2>2. worker[w].job = "index" /\ worker[w].v = current => current \in abandoned'
    BY <1>6 DEF TextDropped, Extracts
  <2> QED
    BY <1>1, <1>2, <2>1, <2>2 DEF SameIndex
<1>7. CASE TextFailed(w)
  <2>1. worker[w].v # current /\ version[current].text = "DONE"
    <3>1. worker[w].v # current
      BY <1>00, <1>7 DEF TextFailed, TextSet
    <3> QED
      BY <1>00, <1>7, <3>1 DEF TextFailed, TextSet
  <2> QED
    BY <1>1, <1>2, <1>7, <2>1 DEF TextFailed, Freed, SameIndex, SameAbandoned
<1>8. CASE TextStored(w)
  <2>0. OthersRest(w) /\ worker[w].job = "store" /\ SameIndex /\ SameAbandoned
    BY <1>8 DEF TextStored, Freed, Kept
  <2>1. CASE worker[w].v = current
    <3>1. worker[w].v \in Nat /\ worker[w].current \in Nat
      BY <1>00, <2>1, PipelineConstants DEF PipelineConstants, MemoryOK, WorkerType
    <3>2. worker[w].v = worker[w].current
      BY <1>00, <2>0, <2>1, <3>1 DEF Loaded
    <3>3. worker'[w].job = "index" /\ worker'[w].v = current
      BY <1>8, <2>1, <3>2 DEF TextStored, Kept
    <3> QED
      BY <1>0, <3>3
  <2>2. CASE worker[w].v # current
    <3>1. version[current].text = "DONE"
      BY <1>00, <1>8, <2>2 DEF TextStored, TextSet
    <3> QED
      BY <1>1, <1>2, <2>0, <3>1 DEF SameIndex, SameAbandoned
  <2> QED
    BY <2>1, <2>2
<1>9. ASSUME NEW v \in Versions, TextClaimed(w, v) PROVE Goal
  <2>1. version[current].text = "DONE"
    BY <1>00, <1>9 DEF TextClaimed, TextSet
  <2>2. OthersRest(w) /\ worker[w].job = "idle" /\ SameIndex /\ SameAbandoned
    BY <1>9 DEF TextClaimed, Took
  <2> QED
    BY <1>1, <1>2, <2>1, <2>2 DEF SameIndex, SameAbandoned
<1> QED
  BY <1>3, <1>4, <1>5, <1>6, <1>7, <1>8, <1>9, TextSteps

----------------------------------------------------------------------------
(* The steps of nobody in particular, and the theorems *)

LEMMA RegisterStep == PipelineInv /\ PipelineTypeOK' /\ Register => PipelineInv'
<1> SUFFICES ASSUME PipelineInv, PipelineTypeOK', Register PROVE PipelineInv'
  OBVIOUS
<1> DEFINE n == current + 1
<1>0. /\ TableOK /\ MemoryOK /\ RestOK
      /\ WorkersHold /\ UnusedRows /\ ScannerState /\ Quarantine
      /\ BeforeTold /\ FindingsAlerted /\ OneExtractor /\ Loaded /\ AbandonedRows /\ IndexFollowsCurrent
  BY TypeParts DEF PipelineInv, ScanInv, AlertInv, TextInv
<1>1. /\ worker' = worker /\ scannerOn' = scannerOn /\ alerted' = alerted /\ lost' = lost /\ abandoned' = abandoned
      /\ index' = index /\ late' = late /\ current' = n /\ file' = [file EXCEPT ![n] = "STORED"]
  BY DEF Register
<1>2. /\ n \in Versions /\ current \in Nat
      /\ \A v \in Versions : v \in Nat /\ (v > n <=> v > current /\ v # n) /\ (v <= n <=> v <= current \/ v = n)
      /\ \A v \in 1..current : v # n /\ v \in 1..n
  BY <1>0, <1>1, PipelineConstants DEF PipelineConstants, RestOK, Versions, Register
<1>3. /\ version'[n].text = "PENDING" /\ version'[n].integrity = "NONE"
      /\ version'[n].scan = IF scannerOn THEN "PENDING" ELSE "NOT_SCANNED"
      /\ \A u \in Versions : u # n => version'[u] = version[u]
  BY <1>0, RegisterEffect
<1>fresh. version[n].text = "PENDING"
  <2>1. n > current
    BY <1>2
  <2> QED
    BY <1>0, <1>2, <2>1 DEF UnusedRows, NoRow
<1> HIDE DEF n
<1>4. \A w \in Workers : worker[w].job # "idle" => worker[w].v \in Versions /\ worker[w].v # n
  BY <1>0, <1>2 DEF WorkersHold, MemoryOK
<1>5. WorkersHold'
  BY <1>0, <1>1, <1>2 DEF WorkersHold
<1>6. UnusedRows'
  BY <1>0, <1>1, <1>2, <1>3 DEF UnusedRows, RestOK
<1>7. ScannerState'
  BY <1>0, <1>1, <1>3 DEF ScannerState
<1>8. Quarantine'
  <2>1. Infected \subseteq Versions
    BY PipelineConstants DEF PipelineConstants, Versions
  <2> QED
    BY <1>0, <1>1, <1>3, <1>4, <2>1 DEF Quarantine, Extractor
<1>9. BeforeTold'
  BY <1>0, <1>1 DEF BeforeTold, Told
<1>10. FindingsAlerted'
  <2>1. ASSUME NEW v \in Versions, NEW finding \in Findings, version'[v].scan = finding \/ version'[v].integrity = finding
        PROVE  version[v].scan = finding \/ version[v].integrity = finding
    <3>1. v # n
      BY <1>3, <2>1 DEF Findings, Damages
    <3> QED
      BY <1>3, <2>1, <3>1
  <2> QED
    BY <1>0, <1>1, <2>1 DEF FindingsAlerted
<1>11. OneExtractor'
  <2>1. version[n].text # "PROCESSING" /\ \A w \in Workers : ~Extracting(w, n)
    BY <1>4, <1>fresh DEF Extracting
  <2>2. \A w \in Workers, v \in Versions : Extracting(w, v)' <=> Extracting(w, v)
    BY <1>1 DEF Extracting
  <2> QED
    BY <1>0, <1>1, <1>3, <2>1, <2>2 DEF OneExtractor
<1>12. Loaded'
  <2>1. \A x, y \in Nat : x <= y => x <= y + 1
    OBVIOUS
  <2>2. \A w \in Workers : worker[w].current \in Nat
    BY <1>0, PipelineConstants DEF PipelineConstants, MemoryOK, WorkerType
  <2>3. \A w \in Workers : worker[w].current <= current => worker[w].current <= n
    BY <1>2, <2>1, <2>2 DEF n
  <2> QED
    BY <1>0, <1>1, <1>3, <1>4, <2>3 DEF Loaded
<1>13. AbandonedRows'
  <2>1. n \notin abandoned
    BY <1>0, <1>fresh DEF AbandonedRows
  <2> QED
    BY <1>0, <1>1, <1>3, <2>1 DEF AbandonedRows, RestOK
<1>14. IndexFollowsCurrent'
  BY <1>1, <1>3 DEF IndexFollowsCurrent
<1> QED
  BY <1>5, <1>6, <1>7, <1>8, <1>9, <1>10, <1>11, <1>12, <1>13, <1>14 DEF PipelineInv, ScanInv, AlertInv, TextInv

\* Ten minutes pass, or somebody touches a file: no process and no text is concerned.
LEMMA OutsideStep ==
  ASSUME PipelineInv, PipelineTypeOK', NEW v \in Versions,
         Age(v) \/ \E state \in {"STORED"} \cup Damages : ChangeFile(v, state)
  PROVE  PipelineInv'
<1>0. /\ TableOK /\ MemoryOK /\ RestOK
      /\ WorkersHold /\ UnusedRows /\ ScannerState /\ Quarantine
      /\ BeforeTold /\ FindingsAlerted /\ OneExtractor /\ Loaded /\ AbandonedRows /\ IndexFollowsCurrent
  BY TypeParts DEF PipelineInv, ScanInv, AlertInv, TextInv
<1>1. /\ worker' = worker /\ scannerOn' = scannerOn /\ alerted' = alerted /\ lost' = lost /\ abandoned' = abandoned
      /\ index' = index /\ late' = late /\ current' = current
  BY DEF Age, ChangeFile
<1>2. \A u \in Versions : /\ version'[u].scan = version[u].scan /\ version'[u].text = version[u].text
                          /\ version'[u].integrity = version[u].integrity
  <2>1. CASE Age(v)
    BY <1>0, <2>1, AgeEffect DEF ScanSet
  <2>2. CASE version' = version
    BY <2>2
  <2> QED
    BY <2>1, <2>2 DEF ChangeFile
<1>3. WorkersHold'
  BY <1>0, <1>1 DEF WorkersHold
<1>4. UnusedRows'
  <2>1. ASSUME Age(v) PROVE UnusedRows'
    <3>1. version[v] # NoRow /\ file' = file
      BY <2>1 DEF Age, NoRow
    <3> QED
      BY <1>0, <1>1, <2>1, <3>1, AgeEffect DEF UnusedRows, ScanSet
  <2>2. ASSUME NEW state \in {"STORED"} \cup Damages, ChangeFile(v, state) PROVE UnusedRows'
    <3>1. file' = [file EXCEPT ![v] = state] /\ version' = version
      BY <2>2 DEF ChangeFile
    <3>2. state # "NONE"
      BY DEF Damages
    <3> QED
      BY <1>0, <1>1, <3>1, <3>2 DEF UnusedRows, RestOK
  <2> QED
    BY <2>1, <2>2
<1>5. ScannerState' /\ Quarantine'
  <2>1. Infected \subseteq Versions
    BY PipelineConstants DEF PipelineConstants, Versions
  <2> QED
    BY <1>0, <1>1, <1>2, <2>1 DEF ScannerState, Quarantine, Extractor
<1>6. BeforeTold' /\ FindingsAlerted'
  BY <1>0, <1>1, <1>2 DEF BeforeTold, Told, FindingsAlerted
<1>7. OneExtractor'
  BY <1>0, <1>1, <1>2 DEF OneExtractor, Extracting
<1>8. Loaded' /\ AbandonedRows'
  BY <1>0, <1>1, <1>2 DEF Loaded, AbandonedRows, MemoryOK, RestOK
<1>9. IndexFollowsCurrent'
  <2>1. current # 0 => current \in Versions
    BY <1>0, PipelineConstants DEF PipelineConstants, RestOK, Versions
  <2> QED
    BY <1>0, <1>1, <1>2, <2>1 DEF IndexFollowsCurrent
<1> QED
  BY <1>3, <1>4, <1>5, <1>6, <1>7, <1>8, <1>9 DEF PipelineInv, ScanInv, AlertInv, TextInv

\* A redeployment: every process dies, and the scanner is off.
LEMMA RedeployStep == PipelineInv /\ PipelineTypeOK' /\ Redeploy => PipelineInv'
<1> SUFFICES ASSUME PipelineInv, PipelineTypeOK', Redeploy PROVE PipelineInv'
  OBVIOUS
<1>0. /\ TableOK /\ MemoryOK /\ RestOK
      /\ WorkersHold /\ UnusedRows /\ ScannerState /\ Quarantine
      /\ BeforeTold /\ FindingsAlerted /\ OneExtractor /\ Loaded /\ AbandonedRows /\ IndexFollowsCurrent
  BY TypeParts DEF PipelineInv, ScanInv, AlertInv, TextInv
<1>1. /\ Kill(Workers) /\ version' = version /\ current' = current /\ file' = file /\ scannerOn' = FALSE
      /\ index' = index /\ late' = late /\ alerted' = alerted
  BY DEF Redeploy
<1>2. \A w \in Workers : worker'[w].job = "idle"
  BY <1>0, <1>1, KillEffect
<1>3. /\ lost' = lost \cup {<<worker[w].v, worker[w].found>> : w \in {x \in Workers : worker[x].job = "alert"}}
      /\ abandoned' = abandoned \cup {worker[w].v : w \in {x \in Workers : Extracts(x)}}
  BY <1>1 DEF Kill, Extracts
<1>4. WorkersHold' /\ UnusedRows' /\ Loaded' /\ BeforeTold'
  BY <1>0, <1>1, <1>2 DEF WorkersHold, UnusedRows, Loaded, BeforeTold
<1>5. ScannerState' /\ Quarantine'
  BY <1>0, <1>1, <1>2 DEF ScannerState, Quarantine, Extractor
<1>6. \A v, finding : Told(v, finding) => <<v, finding>> \in alerted' \cup lost'
  BY <1>1, <1>3 DEF Told
<1>7. FindingsAlerted'
  BY <1>0, <1>1, <1>6, FindingsTold DEF FindingsAlerted
<1>8. AbandonedRows'
  <2>1. \A w \in Workers : Extracts(w) => worker[w].v \in Versions /\ version[worker[w].v].text # "PENDING"
    <3>1. \A w \in Workers : Extracts(w) => worker[w].v \in Versions
      BY <1>0 DEF Extracts, MemoryOK
    <3> QED
      BY <1>0, <3>1 DEF Extracts, OneExtractor, Extracting, Loaded
  <2> QED
    BY <1>0, <1>1, <1>3, <2>1 DEF AbandonedRows
<1>9. OneExtractor'
  <2>1. ASSUME NEW v \in Versions, version[v].text = "PROCESSING" PROVE v \in abandoned'
    BY <1>0, <1>3, <2>1 DEF OneExtractor, Extracting, Extracts
  <2> QED
    BY <1>1, <1>2, <2>1 DEF OneExtractor, Extracting
<1>10. IndexFollowsCurrent'
  BY <1>0, <1>1, <1>3 DEF IndexFollowsCurrent, Extracts
<1> QED
  BY <1>4, <1>5, <1>7, <1>8, <1>9, <1>10 DEF PipelineInv, ScanInv, AlertInv, TextInv

LEMMA WorkStep ==
  ASSUME PipelineInv, PipelineTypeOK', NEW w \in Workers, Work(w)
  PROVE  PipelineInv'
<1>0. /\ TableOK /\ MemoryOK /\ RestOK
      /\ WorkersHold /\ UnusedRows /\ ScannerState /\ Quarantine
      /\ BeforeTold /\ FindingsAlerted /\ OneExtractor /\ Loaded /\ AbandonedRows /\ IndexFollowsCurrent
  BY TypeParts DEF PipelineInv, ScanInv, AlertInv, TextInv
<1>1. WorkersHold' /\ UnusedRows' /\ ScannerState' /\ Quarantine'
  BY <1>0, WorkHolds, WorkUnused, WorkScanner, WorkQuarantine
<1>2. BeforeTold' /\ FindingsAlerted'
  BY <1>0, WorkBefore, WorkFindings
<1>3. OneExtractor' /\ Loaded' /\ AbandonedRows' /\ IndexFollowsCurrent'
  BY <1>0, WorkExtractor, WorkLoaded, WorkAbandoned, WorkIndex
<1> QED
  BY <1>1, <1>2, <1>3 DEF PipelineInv, ScanInv, AlertInv, TextInv

LEMMA PipelineInitInv == PipelineInit => PipelineInv
<1> SUFFICES ASSUME PipelineInit PROVE PipelineInv
  OBVIOUS
<1>1. PipelineTypeOK
  BY PipelineInitType
<1>2. \A w \in Workers : worker[w].job = "idle"
  BY IdleType DEF PipelineInit
<1>3. \A v \in Versions : version[v] = NoRow /\ v > 0
  BY DEF PipelineInit, Versions
<1>4. Infected \subseteq Versions
  BY PipelineConstants DEF PipelineConstants, Versions
<1>5. WorkersHold /\ UnusedRows /\ ScannerState /\ Quarantine
  <2>1. current = 0 /\ scannerOn
    BY DEF PipelineInit
  <2>2. UnusedRows
    BY <1>3, <2>1 DEF UnusedRows, Versions
  <2> QED
    BY <1>2, <1>3, <1>4, <2>1, <2>2 DEF WorkersHold, ScannerState, Quarantine, Extractor, NoRow
<1>6. BeforeTold /\ FindingsAlerted
  BY <1>2, <1>3 DEF BeforeTold, FindingsAlerted, Findings, Damages, NoRow
<1>7. OneExtractor /\ Loaded /\ AbandonedRows /\ IndexFollowsCurrent
  <2>1. current = 0 /\ abandoned = {}
    BY DEF PipelineInit
  <2> QED
    BY <1>2, <1>3, <2>1 DEF OneExtractor, Extracting, Loaded, AbandonedRows, IndexFollowsCurrent, NoRow
<1> QED
  BY <1>1, <1>5, <1>6, <1>7 DEF PipelineInv, ScanInv, AlertInv, TextInv

LEMMA PipelineStep == PipelineInv /\ [PipelineNext]_pipelineVars => PipelineInv'
<1> SUFFICES ASSUME PipelineInv, [PipelineNext]_pipelineVars PROVE PipelineInv'
  OBVIOUS
<1>0. PipelineTypeOK /\ WorkersHold
  BY DEF PipelineInv, ScanInv
<1>1. CASE Register
  BY <1>0, <1>1, RegisterType, RegisterStep
<1>2. CASE Process
  <2>1. PipelineTypeOK'
    BY <1>0, <1>2, ProcessType
  <2> QED
    BY <1>2, <2>1, WorkStep, OutsideStep, RedeployStep DEF Process
<1>3. CASE UNCHANGED pipelineVars
  BY <1>3 DEF pipelineVars, PipelineInv, ScanInv, AlertInv, TextInv, PipelineTypeOK, WorkersHold, UnusedRows, ScannerState,
     Quarantine, Extractor, BeforeTold, Told, FindingsAlerted, OneExtractor, Extracting, Loaded, AbandonedRows,
     IndexFollowsCurrent
<1> QED
  BY <1>1, <1>2, <1>3 DEF PipelineNext

\* The inductive invariant of the document pipeline (malware.ts, documents-processing.ts, integrity.ts).
THEOREM PipelineSafe == PipelineSpec => []PipelineInv
BY PipelineInitInv, PipelineStep, PTL DEF PipelineSpec

\* An infected version is never served and never parsed while the scanner is on (malware.ts, lines 15-21;
\* documents-processing.ts, lines 59-60).
THEOREM InfectedStaysOutHolds == PipelineSpec => []InfectedStaysOut
<1>1. PipelineInv => InfectedStaysOut
  BY DEF PipelineInv, ScanInv, Quarantine, InfectedStaysOut, Servable, Cleared
<1> QED
  BY <1>1, PipelineSafe, PTL

\* Every finding is told to the administrators, unless its teller died (malware.ts, lines 106-125;
\* integrity.ts, lines 32-43).
THEOREM FindingsAlertedHolds == PipelineSpec => []FindingsAlerted
<1>1. PipelineInv => FindingsAlerted
  BY DEF PipelineInv, AlertInv
<1> QED
  BY <1>1, PipelineSafe, PTL

\* A claimed version has one extractor (documents-processing.ts, line 64).
THEOREM OneExtractorHolds == PipelineSpec => []OneExtractor
<1>1. PipelineInv => OneExtractor
  BY DEF PipelineInv, TextInv
<1> QED
  BY <1>1, PipelineSafe, PTL

\* The text searched is that of the current version, but for the extractors that were overtaken
\* or died (documents-processing.ts, lines 66-73).
THEOREM IndexFollowsCurrentHolds == PipelineSpec => []IndexFollowsCurrent
<1>1. PipelineInv => IndexFollowsCurrent
  BY DEF PipelineInv, TextInv
<1> QED
  BY <1>1, PipelineSafe, PTL
=============================================================================
