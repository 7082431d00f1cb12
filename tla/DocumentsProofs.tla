--------------------------- MODULE DocumentsProofs ---------------------------
(* Theorems about Documents, for every number of requests, processes and versions. *)
EXTENDS Documents, DocumentPipelineProofs

----------------------------------------------------------------------------
(* The inductive invariant of the workflow *)

WorkflowTypeOK ==
  /\ doc \in Document
  /\ vstatus \in [Versions -> Statuses]
  /\ approval \in [Requests -> Approval]
  /\ request \in [Requests -> Request]
  /\ stray \subseteq Requests

\* Before the first upload nothing waits for a decision; versions to come are drafts.
NothingYet ==
  /\ current = 0 => Pending = {} /\ doc.status = "DRAFT"
  /\ \A v \in Versions : v > current => vstatus[v] = "DRAFT"

\* A transition under way was allowed from the status it read, of a version that exists, and has
\* seen approvals that were asked for; its request has none yet.
MovesAllowed ==
  \A r \in Requests :
    /\ request[r].pc = "loaded" /\ request[r].op = "move" => request[r].current \in 1..current
    /\ request[r].pc = "open" => request[r].current \in 1..current /\ request[r].to \in Moves(request[r].status)
    /\ request[r].pc = "open" => \A p \in request[r].seen : approval[p].status # "NONE"
    /\ request[r].pc # "done" => approval[r].status = "NONE"

\* An edit that was checked turns the sharing on of nothing that is highly confidential.
EditsAllowed ==
  \A r \in Requests :
    request[r].pc = "checked" /\ request[r].input.shared /\ ~request[r].shared => ~request[r].input.secret

WorkflowInv ==
  /\ WorkflowTypeOK /\ NothingYet /\ MovesAllowed /\ EditsAllowed
  /\ InboxMatchesWorkflow /\ StatusIsVersionStatus /\ NoOrphanFiles /\ SecretsNotShared

----------------------------------------------------------------------------
(* The pipeline inside: every step of Documents is a step of the pipeline, or leaves it alone *)

LEMMA DocumentsStep == [Next]_vars => [PipelineNext]_pipelineVars
BY DEF Next, Create, Serve, Pick, Load, StoreFile, AddVersion, AbandonUpload, OpenMove, RefuseMove, CommitMove,
   CheckEdit, CommitEdit, Delete, Die, PipelineNext, vars

\* Documents implements the pipeline it is built on (storeUpload registers a version, and
\* nothing else of documents.ts and approvals.ts writes what the pipeline keeps).
THEOREM DocumentsImplementPipeline == Spec => PipelineSpec
<1>1. Init => PipelineInit
  BY DEF Init
<1> QED
  BY <1>1, DocumentsStep, PTL DEF Spec, PipelineSpec

----------------------------------------------------------------------------
(* What requests hold, field by field *)

RequestsOK == request \in [Requests -> Request]
RequestsRest(r) == \A x \in Requests : x # r => request'[x] = request[x]

LEMMA FreshType == Fresh \in Request /\ NoInput \in [shared : BOOLEAN, secret : BOOLEAN]
BY PipelineConstants DEF PipelineConstants, Fresh, Request, NoInput, Statuses

LEMMA CloseEffect ==
  ASSUME RequestsOK, NEW r \in Requests, NEW pc \in {"done", "dead"}, Close(r, pc)
  PROVE  RequestsOK' /\ RequestsRest(r) /\ request'[r].pc = pc
<1>1. [Fresh EXCEPT !.pc = pc] \in Request /\ [Fresh EXCEPT !.pc = pc].pc = pc
  BY FreshType DEF Fresh, Request
<1> QED
  BY <1>1 DEF RequestsOK, Close, RequestsRest

LEMMA PickEffect ==
  ASSUME RequestsOK, NEW r \in Requests, NEW p \in Requests, NEW decision \in Decisions, Pick(r, p, decision)
  PROVE  RequestsOK' /\ RequestsRest(r) /\ request[r].pc = "new" /\ request'[r].pc = "picked"
<1>1. request[r] \in Request /\ decision \in Statuses
  BY DEF RequestsOK, Decisions, Statuses
<1>2. [request[r] EXCEPT !.pc = "picked", !.op = "move", !.to = decision] \in Request
  BY <1>1 DEF Request, Ops
<1> QED
  BY <1>1, <1>2 DEF RequestsOK, Pick, RequestsRest, Request

LEMMA LoadEffect ==
  ASSUME RequestsOK, doc \in Document, current \in 0..MaxVersions,
         NEW r \in Requests, NEW op \in Ops, NEW to \in Statuses, Load(r, op, to)
  PROVE  /\ RequestsOK' /\ RequestsRest(r) /\ request[r].pc \in {"new", "picked"}
         /\ request'[r].pc = "loaded" /\ request'[r].op = op
         /\ op = "move" => request'[r].current = current
<1> DEFINE row == [Fresh EXCEPT !.pc = "loaded", !.op = op, !.to = to, !.status = doc.status,
                                !.current = IF op \in {"move", "edit"} THEN current ELSE 0,
                                !.shared = doc.shared /\ op = "edit"]
<1>1. doc.status \in Statuses /\ (IF op \in {"move", "edit"} THEN current ELSE 0) \in 0..MaxVersions
  BY PipelineConstants DEF PipelineConstants, Document
<1>2. row \in Request /\ row.pc = "loaded" /\ row.op = op /\ row.current = IF op \in {"move", "edit"} THEN current ELSE 0
  BY <1>1, FreshType DEF Request, Fresh
<1>3. request' = [request EXCEPT ![r] = row] /\ request[r].pc \in {"new", "picked"}
  BY DEF Load, Fresh
<1> HIDE DEF row
<1> QED
  BY <1>2, <1>3 DEF RequestsOK, RequestsRest

LEMMA StoreFileEffect ==
  ASSUME RequestsOK, NEW r \in Requests, StoreFile(r)
  PROVE  RequestsOK' /\ RequestsRest(r) /\ request'[r].pc = "stored" /\ request[r].pc = "loaded"
<1>1. [request[r] EXCEPT !.pc = "stored"] \in Request /\ [request[r] EXCEPT !.pc = "stored"].pc = "stored"
  BY DEF RequestsOK, Request
<1> QED
  BY <1>1 DEF RequestsOK, StoreFile, RequestsRest

LEMMA OpenMoveEffect ==
  ASSUME RequestsOK, NEW r \in Requests, OpenMove(r)
  PROVE  /\ RequestsOK' /\ RequestsRest(r) /\ request'[r].pc = "open" /\ request[r].pc = "loaded"
         /\ request'[r].current = request[r].current /\ request'[r].to = request[r].to
         /\ request'[r].status = request[r].status /\ request'[r].seen = Pending
<1>1. request[r] \in Request /\ Pending \in SUBSET Requests
  BY DEF RequestsOK, Pending
<1>2. [request[r] EXCEPT !.pc = "open", !.seen = Pending] \in Request
  BY <1>1 DEF Request
<1> QED
  BY <1>1, <1>2 DEF RequestsOK, OpenMove, RequestsRest, Request

LEMMA CheckEditEffect ==
  ASSUME RequestsOK, NEW r \in Requests, NEW input \in [shared : BOOLEAN, secret : BOOLEAN], CheckEdit(r, input)
  PROVE  /\ RequestsOK' /\ RequestsRest(r) /\ request'[r].pc = "checked" /\ request[r].pc = "loaded"
         /\ request'[r].input = input /\ request'[r].shared = request[r].shared
<1>1. request[r] \in Request
  BY DEF RequestsOK
<1>2. [request[r] EXCEPT !.pc = "checked", !.input = input] \in Request
  BY <1>1 DEF Request
<1> QED
  BY <1>1, <1>2 DEF RequestsOK, CheckEdit, RequestsRest, Request

\* The approvals after a transition, and after an upload.
LEMMA ResolvedEffect ==
  ASSUME approval \in [Requests -> Approval], RequestsOK, NEW r \in Requests, NEW p \in Requests
  PROVE  /\ Resolved(r, p) \in Approval /\ Resolved(r, p).made = approval[p].made /\ Resolved(r, p).overtaken = approval[p].overtaken
         /\ p \in request[r].seen => Resolved(r, p).status \notin {"PENDING", "NONE"} /\ Resolved(r, p).missed = approval[p].missed
         /\ p \notin request[r].seen => /\ Resolved(r, p).status = approval[p].status
                                        /\ p \in Pending => Resolved(r, p).missed
                                        /\ p \notin Pending => Resolved(r, p) = approval[p]
<1>1. approval[p] \in Approval /\ approval[p].missed \in BOOLEAN
  BY DEF Approval
<1>2. CASE p \in request[r].seen
  <2> DEFINE outcome == IF request[r].to \in Decisions THEN request[r].to ELSE "CANCELLED"
  <2>1. Resolved(r, p) = [approval[p] EXCEPT !.status = outcome]
    BY <1>2 DEF Resolved
  <2>2. outcome \in Decisions \cup {"CANCELLED"}
    OBVIOUS
  <2> HIDE DEF outcome
  <2> QED
    BY <1>1, <1>2, <2>1, <2>2 DEF Approval, Decisions
<1>3. CASE p \notin request[r].seen
  <2>1. Resolved(r, p) = [approval[p] EXCEPT !.missed = approval[p].missed \/ p \in Pending]
    BY <1>3 DEF Resolved
  <2>2. CASE p \in Pending
    <3>1. (approval[p].missed \/ p \in Pending) = TRUE
      BY <2>2
    <3> QED
      BY <1>1, <1>3, <2>1, <2>2, <3>1 DEF Approval
  <2>3. CASE p \notin Pending
    <3>1. (approval[p].missed \/ p \in Pending) = approval[p].missed
      BY <1>1, <2>3
    <3> QED
      BY <1>1, <1>3, <2>1, <2>3, <3>1 DEF Approval
  <2> QED
    BY <2>2, <2>3
<1> QED
  BY <1>2, <1>3

LEMMA CancelledEffect ==
  ASSUME approval \in [Requests -> Approval], NEW p \in Requests
  PROVE  /\ Cancelled(p) \in Approval /\ Cancelled(p).status # "PENDING" /\ (p \notin Pending => Cancelled(p) = approval[p])
         /\ approval[p].status # "NONE" => Cancelled(p).status # "NONE"
<1>1. approval[p] \in Approval
  OBVIOUS
<1> QED
  BY <1>1 DEF Cancelled, Pending, Approval

----------------------------------------------------------------------------
(* The invariant holds initially, and every step preserves it *)

LEMMA WorkflowInit == Init => WorkflowInv
<1> SUFFICES ASSUME Init PROVE WorkflowInv
  OBVIOUS
<1>0. current = 0 /\ \A r \in Requests : request[r] = Fresh /\ approval[r] = NoApproval
  BY DEF Init, PipelineInit
<1>1. doc \in Document /\ vstatus \in [Versions -> Statuses] /\ stray \subseteq Requests
  BY DEF Init, Document, Statuses
<1>2. approval \in [Requests -> Approval]
  BY PipelineConstants DEF PipelineConstants, Init, NoApproval, Approval
<1>3. request \in [Requests -> Request]
  BY FreshType DEF Init
<1>4. Pending = {}
  BY <1>0 DEF Pending, NoApproval
<1>5. NothingYet /\ InboxMatchesWorkflow /\ StatusIsVersionStatus /\ NoOrphanFiles /\ SecretsNotShared
  BY <1>0, <1>4 DEF Init, NothingYet, InboxMatchesWorkflow, StatusIsVersionStatus, NoOrphanFiles, SecretsNotShared
<1>6. MovesAllowed /\ EditsAllowed
  BY <1>0 DEF MovesAllowed, EditsAllowed, Fresh, NoApproval
<1> QED
  BY <1>1, <1>2, <1>3, <1>5, <1>6 DEF WorkflowInv, WorkflowTypeOK

LEMMA ProcessStep == WorkflowInv /\ Process /\ UNCHANGED workflowVars => WorkflowInv'
<1> SUFFICES ASSUME WorkflowInv, Process, UNCHANGED workflowVars PROVE WorkflowInv'
  OBVIOUS
<1>1. current' = current
  BY DEF Process, Work, ClaimScan, ClaimText, ReadFile, FinishScan, Alert, ReleaseQuarantine, LoadText, StoreText,
     IndexText, FailText, WriteCheck, Crash, Age, ChangeFile, Redeploy
<1> QED
  BY <1>1 DEF workflowVars, WorkflowInv, WorkflowTypeOK, NothingYet, MovesAllowed, EditsAllowed, InboxMatchesWorkflow,
     StatusIsVersionStatus, NoOrphanFiles, SecretsNotShared, Pending

\* A step that changes nothing but the memory of one request, which now neither moves nor edits.
Quiet(r) ==
  /\ doc' = doc /\ vstatus' = vstatus /\ approval' = approval /\ current' = current
  /\ RequestsOK' /\ RequestsRest(r) /\ request[r].pc # "done"

LEMMA QuietStep ==
  ASSUME WorkflowInv, NEW r \in Requests, Quiet(r), stray' \subseteq Requests,
         request'[r].pc = "loaded" /\ request'[r].op = "move" => request'[r].current \in 1..current,
         request'[r].pc = "open" =>
           request'[r].current \in 1..current /\ request'[r].to \in Moves(request'[r].status) /\ request'[r].seen \subseteq Pending,
         request'[r].pc = "checked" /\ request'[r].input.shared /\ ~request'[r].shared => ~request'[r].input.secret,
         NoOrphanFiles'
  PROVE  WorkflowInv'
<1>1. WorkflowTypeOK'
  BY DEF WorkflowInv, WorkflowTypeOK, Quiet, RequestsOK
<1>2. NothingYet' /\ InboxMatchesWorkflow' /\ StatusIsVersionStatus' /\ SecretsNotShared'
  BY DEF WorkflowInv, NothingYet, InboxMatchesWorkflow, StatusIsVersionStatus, SecretsNotShared, Quiet, Pending
<1>3. MovesAllowed'
  <2>1. \A p \in Pending : approval[p].status # "NONE"
    BY DEF Pending
  <2> QED
    BY <2>1 DEF WorkflowInv, MovesAllowed, Quiet, RequestsRest
<1>4. EditsAllowed'
  BY DEF WorkflowInv, EditsAllowed, Quiet, RequestsRest
<1> QED
  BY <1>1, <1>2, <1>3, <1>4 DEF WorkflowInv

LEMMA LoadStep ==
  ASSUME WorkflowInv, PipelineTypeOK, NEW r \in Requests, NEW op \in Ops, NEW to \in Statuses, Load(r, op, to)
  PROVE  WorkflowInv'
<1>0. doc \in Document /\ RequestsOK /\ stray \subseteq Requests /\ current \in 0..MaxVersions /\ NoOrphanFiles
  BY DEF WorkflowInv, WorkflowTypeOK, RequestsOK, PipelineTypeOK
<1>1. /\ RequestsOK' /\ RequestsRest(r) /\ request[r].pc \in {"new", "picked"} /\ request'[r].pc = "loaded"
      /\ request'[r].op = "move" => request'[r].current = current
  BY <1>0, LoadEffect
<1>2. current \in 1..current /\ doc' = doc /\ vstatus' = vstatus /\ approval' = approval /\ current' = current /\ stray' = stray
  BY <1>0, PipelineConstants DEF PipelineConstants, Load, Found, pipelineVars
<1>3. Quiet(r)
  BY <1>1, <1>2 DEF Quiet
<1>4. NoOrphanFiles'
  BY <1>0, <1>1, <1>2 DEF NoOrphanFiles, RequestsRest
<1> QED
  BY <1>0, <1>1, <1>2, <1>3, <1>4, QuietStep

LEMMA OpenMoveStep ==
  ASSUME WorkflowInv, NEW r \in Requests, OpenMove(r)
  PROVE  WorkflowInv'
<1>0. RequestsOK /\ stray \subseteq Requests /\ NoOrphanFiles
  BY DEF WorkflowInv, WorkflowTypeOK, RequestsOK
<1>1. /\ RequestsOK' /\ RequestsRest(r) /\ request'[r].pc = "open" /\ request[r].pc = "loaded"
      /\ request'[r].current = request[r].current /\ request'[r].to = request[r].to
      /\ request'[r].status = request[r].status /\ request'[r].seen = Pending
  BY <1>0, OpenMoveEffect
<1>2. /\ doc' = doc /\ vstatus' = vstatus /\ approval' = approval /\ current' = current /\ stray' = stray
      /\ request[r].op = "move" /\ request[r].to \in Moves(request[r].status)
  BY DEF OpenMove, pipelineVars
<1>3. request[r].current \in 1..current
  BY <1>1, <1>2 DEF WorkflowInv, MovesAllowed
<1>4. Quiet(r)
  BY <1>1, <1>2 DEF Quiet
<1>5. NoOrphanFiles'
  BY <1>0, <1>1, <1>2 DEF NoOrphanFiles, RequestsRest
<1>6. /\ request'[r].current \in 1..current
      /\ request'[r].to \in Moves(request'[r].status) /\ request'[r].seen \subseteq Pending
  BY <1>1, <1>2, <1>3
<1> QED
  BY <1>0, <1>1, <1>2, <1>4, <1>5, <1>6, QuietStep

LEMMA CheckEditStep ==
  ASSUME WorkflowInv, NEW r \in Requests, NEW input \in [shared : BOOLEAN, secret : BOOLEAN], CheckEdit(r, input)
  PROVE  WorkflowInv'
<1>0. RequestsOK /\ stray \subseteq Requests /\ NoOrphanFiles
  BY DEF WorkflowInv, WorkflowTypeOK, RequestsOK
<1>1. /\ RequestsOK' /\ RequestsRest(r) /\ request'[r].pc = "checked" /\ request[r].pc = "loaded"
      /\ request'[r].input = input /\ request'[r].shared = request[r].shared
  BY <1>0, CheckEditEffect
<1>2. /\ doc' = doc /\ vstatus' = vstatus /\ approval' = approval /\ current' = current /\ stray' = stray
      /\ input.shared /\ ~request[r].shared => ~input.secret
  BY DEF CheckEdit, MayWrite, pipelineVars
<1>3. Quiet(r)
  BY <1>1, <1>2 DEF Quiet
<1>4. NoOrphanFiles'
  BY <1>0, <1>1, <1>2 DEF NoOrphanFiles, RequestsRest
<1> QED
  BY <1>0, <1>1, <1>2, <1>3, <1>4, QuietStep

\* The other quiet steps.
LEMMA QuietSteps ==
  ASSUME WorkflowInv, NEW r \in Requests,
         \/ \E p \in Requests, decision \in Decisions : Pick(r, p, decision)
         \/ StoreFile(r) \/ AbandonUpload(r) \/ RefuseMove(r) \/ Die(r)
  PROVE  WorkflowInv'
<1>0. RequestsOK /\ stray \subseteq Requests /\ NoOrphanFiles
  BY DEF WorkflowInv, WorkflowTypeOK, RequestsOK
<1>1. doc' = doc /\ vstatus' = vstatus /\ approval' = approval /\ current' = current
  BY DEF Pick, StoreFile, AbandonUpload, RefuseMove, Die, pipelineVars
<1>2. /\ RequestsOK' /\ RequestsRest(r) /\ request[r].pc # "done"
      /\ request'[r].pc \in {"picked", "stored", "done", "dead"}
  <2>1. ASSUME NEW p \in Requests, NEW decision \in Decisions, Pick(r, p, decision)
        PROVE  RequestsOK' /\ RequestsRest(r) /\ request[r].pc # "done" /\ request'[r].pc = "picked"
    BY <1>0, <2>1, PickEffect
  <2>2. ASSUME StoreFile(r)
        PROVE  RequestsOK' /\ RequestsRest(r) /\ request[r].pc # "done" /\ request'[r].pc = "stored"
    BY <1>0, <2>2, StoreFileEffect
  <2>3. ASSUME AbandonUpload(r) \/ RefuseMove(r)
        PROVE  RequestsOK' /\ RequestsRest(r) /\ request[r].pc # "done" /\ request'[r].pc = "done"
    BY <1>0, <2>3, CloseEffect DEF AbandonUpload, RefuseMove
  <2>4. ASSUME Die(r)
        PROVE  RequestsOK' /\ RequestsRest(r) /\ request[r].pc # "done" /\ request'[r].pc = "dead"
    BY <1>0, <2>4, CloseEffect DEF Die
  <2> QED
    BY <2>1, <2>2, <2>3, <2>4
<1>3. stray' \subseteq Requests /\ NoOrphanFiles'
  <2>1. ASSUME NEW p \in Requests, NEW decision \in Decisions, Pick(r, p, decision)
        PROVE  stray' \subseteq Requests /\ NoOrphanFiles'
    <3>1. stray' = stray /\ r \notin stray
      BY <1>0, <2>1 DEF Pick, NoOrphanFiles
    <3> QED
      BY <1>0, <1>2, <3>1 DEF NoOrphanFiles, RequestsRest
  <2>2. ASSUME StoreFile(r) PROVE stray' \subseteq Requests /\ NoOrphanFiles'
    <3>1. stray' = stray \cup {r} /\ request'[r].pc = "stored"
      BY <1>0, <2>2, StoreFileEffect DEF StoreFile
    <3> QED
      BY <1>0, <1>2, <3>1 DEF NoOrphanFiles, RequestsRest
  <2>3. ASSUME AbandonUpload(r) PROVE stray' \subseteq Requests /\ NoOrphanFiles'
    <3>1. stray' = stray \ {r}
      BY <2>3 DEF AbandonUpload, Removed
    <3> QED
      BY <1>0, <1>2, <3>1 DEF NoOrphanFiles, RequestsRest
  <2>4. ASSUME RefuseMove(r) PROVE stray' \subseteq Requests /\ NoOrphanFiles'
    <3>1. stray' = stray /\ r \notin stray
      BY <1>0, <2>4 DEF RefuseMove, NoOrphanFiles
    <3> QED
      BY <1>0, <1>2, <3>1 DEF NoOrphanFiles, RequestsRest
  <2>5. ASSUME Die(r) PROVE stray' \subseteq Requests /\ NoOrphanFiles'
    <3>1. stray' = stray /\ request'[r].pc = "dead"
      BY <1>0, <2>5, CloseEffect DEF Die
    <3> QED
      BY <1>0, <1>2, <3>1 DEF NoOrphanFiles, RequestsRest
  <2> QED
    BY <2>1, <2>2, <2>3, <2>4, <2>5
<1>4. Quiet(r)
  BY <1>1, <1>2 DEF Quiet
<1> QED
  BY <1>2, <1>3, <1>4, QuietStep

LEMMA CreateStep ==
  ASSUME WorkflowInv, PipelineTypeOK, NEW byClient \in BOOLEAN, NEW secret \in BOOLEAN, Create(byClient, secret)
  PROVE  WorkflowInv'
<1>0. /\ current = 0 /\ current' = 1 /\ vstatus' = vstatus /\ approval' = approval /\ request' = request /\ stray' = stray
      /\ Pending = {} /\ doc.status = "DRAFT" /\ \A v \in Versions : v > 0 => vstatus[v] = "DRAFT"
      /\ doc' = [doc EXCEPT !.shared = byClient, !.kept = byClient, !.secret = secret /\ ~byClient]
      /\ 1 \in Versions
  BY PipelineConstants DEF PipelineConstants, Create, Register, WorkflowInv, NothingYet, Versions
<1>1. /\ doc' \in Document /\ doc'.status = "DRAFT" /\ doc'.shared = byClient /\ doc'.kept = byClient
  <2>1. doc \in Document /\ (secret /\ ~byClient) \in BOOLEAN
    BY DEF WorkflowInv, WorkflowTypeOK
  <2> QED
    BY <1>0, <2>1 DEF Document
<1>2. WorkflowTypeOK'
  BY <1>0, <1>1 DEF WorkflowInv, WorkflowTypeOK
<1>3. Pending' = {}
  BY <1>0 DEF Pending
<1>4. NothingYet' /\ InboxMatchesWorkflow' /\ StatusIsVersionStatus'
  BY <1>0, <1>1, <1>3 DEF NothingYet, InboxMatchesWorkflow, StatusIsVersionStatus, Versions
<1>5. MovesAllowed'
  BY <1>0 DEF WorkflowInv, MovesAllowed
<1>6. EditsAllowed' /\ NoOrphanFiles'
  BY <1>0 DEF WorkflowInv, EditsAllowed, NoOrphanFiles
<1>7. SecretsNotShared'
  BY <1>1 DEF SecretsNotShared
<1> QED
  BY <1>2, <1>4, <1>5, <1>6, <1>7 DEF WorkflowInv

LEMMA AddVersionStep ==
  ASSUME WorkflowInv, PipelineTypeOK, NEW r \in Requests, AddVersion(r)
  PROVE  WorkflowInv'
<1>0. /\ doc \in Document /\ vstatus \in [Versions -> Statuses] /\ approval \in [Requests -> Approval] /\ RequestsOK
      /\ stray \subseteq Requests /\ current \in 0..MaxVersions
  BY DEF WorkflowInv, WorkflowTypeOK, RequestsOK, PipelineTypeOK
<1>1. /\ current' = current + 1 /\ vstatus' = vstatus /\ stray' = stray \ {r}
      /\ doc' = [doc EXCEPT !.status = "DRAFT", !.carried = FALSE]
      /\ approval' = [p \in Requests |-> Cancelled(p)]
      /\ request[r].pc = "stored"
  BY DEF AddVersion, Register, Restarted
<1>2. /\ current + 1 \in Versions /\ current + 1 > current /\ current' # 0
      /\ \A v \in Versions : v > current + 1 => v > current
      /\ 1..current \subseteq 1..(current + 1)
  BY <1>0, PipelineConstants DEF PipelineConstants, AddVersion, Register, Versions
<1>3. RequestsOK' /\ RequestsRest(r) /\ request'[r].pc = "done"
  BY <1>0, CloseEffect DEF AddVersion
<1>4. /\ doc' \in Document /\ doc'.status = "DRAFT" /\ doc'.shared = doc.shared
      /\ doc'.secret = doc.secret /\ doc'.kept = doc.kept
  BY <1>0, <1>1 DEF Document, Statuses
<1>5. /\ approval' \in [Requests -> Approval]
      /\ \A p \in Requests : /\ approval'[p].status # "PENDING" /\ (p \notin Pending => approval'[p] = approval[p])
                             /\ approval[p].status # "NONE" => approval'[p].status # "NONE"
  BY <1>0, <1>1, CancelledEffect
<1>6. Pending' = {}
  BY <1>5 DEF Pending
<1>7. WorkflowTypeOK'
  BY <1>0, <1>1, <1>3, <1>4, <1>5 DEF WorkflowTypeOK, RequestsOK
<1>8. NothingYet'
  BY <1>1, <1>2, <1>4, <1>6 DEF WorkflowInv, NothingYet
<1>9. InboxMatchesWorkflow'
  BY <1>4, <1>6 DEF InboxMatchesWorkflow
<1>10. StatusIsVersionStatus'
  BY <1>1, <1>2, <1>4 DEF WorkflowInv, NothingYet, StatusIsVersionStatus
<1>11. MovesAllowed'
  <2> SUFFICES ASSUME NEW x \in Requests
               PROVE  /\ request'[x].pc = "loaded" /\ request'[x].op = "move" => request'[x].current \in 1..(current + 1)
                      /\ request'[x].pc = "open" =>
                           request'[x].current \in 1..(current + 1) /\ request'[x].to \in Moves(request'[x].status)
                      /\ request'[x].pc = "open" => \A p \in request'[x].seen : approval'[p].status # "NONE"
                      /\ request'[x].pc # "done" => approval'[x].status = "NONE"
    BY <1>1 DEF MovesAllowed
  <2>1. CASE x = r
    BY <1>3, <2>1
  <2>2. CASE x # r
    <3>1. request'[x] = request[x]
      BY <1>3, <2>2 DEF RequestsRest
    <3>2. approval[x].status = "NONE" => approval'[x] = approval[x]
      BY <1>5 DEF Pending
    <3>3. request[x].seen \subseteq Requests
      BY <1>0 DEF RequestsOK, Request
    <3>4. \A c \in 1..current : c \in 1..(current + 1)
      BY <1>2
    <3> QED
      BY <1>5, <3>1, <3>2, <3>3, <3>4 DEF WorkflowInv, MovesAllowed
  <2> QED
    BY <2>1, <2>2
<1>12. EditsAllowed' /\ NoOrphanFiles'
  BY <1>0, <1>1, <1>3 DEF WorkflowInv, EditsAllowed, NoOrphanFiles, RequestsRest
<1>13. SecretsNotShared'
  BY <1>4 DEF WorkflowInv, SecretsNotShared
<1> QED
  BY <1>7, <1>8, <1>9, <1>10, <1>11, <1>12, <1>13 DEF WorkflowInv

\* What a transition writes to the approvals: an approval is changed only when it was seen pending,
\* missed, or is the new one.
LEMMA CommitMoveApprovals ==
  ASSUME WorkflowInv, PipelineTypeOK, NEW r \in Requests, CommitMove(r)
  PROVE  /\ approval' \in [Requests -> Approval]
         /\ \A p \in Requests : approval[p].status # "NONE" => approval'[p].status # "NONE"
         /\ \A p \in Requests : p # r /\ approval[p].status = "NONE" => approval'[p].status = "NONE"
         /\ request[r].to = "UNDER_REVIEW" =>
              /\ r \in Pending' /\ approval'[r] = Asked(r)
              /\ \A p \in Requests : p # r => approval'[p] = approval[p]
         /\ request[r].to # "UNDER_REVIEW" =>
              \A p \in Requests :
                /\ p \in Pending' => /\ p \in Pending /\ approval'[p].missed
                                    /\ approval'[p].made = approval[p].made /\ approval'[p].overtaken = approval[p].overtaken
                /\ p \notin Pending /\ p \notin request[r].seen => approval'[p] = approval[p]
<1>0. approval \in [Requests -> Approval] /\ RequestsOK /\ current \in 0..MaxVersions
  BY DEF WorkflowInv, WorkflowTypeOK, RequestsOK, PipelineTypeOK
<1>a. \A p \in request[r].seen : approval[p].status # "NONE"
  BY DEF CommitMove, WorkflowInv, MovesAllowed
<1>1. CASE request[r].to = "UNDER_REVIEW"
  <2>1. Asked(r) \in Approval /\ Asked(r).status = "PENDING"
    <3>1. request[r].current \in 0..MaxVersions /\ (request[r].current # current) \in BOOLEAN
      BY <1>0 DEF RequestsOK, Request
    <3> QED
      BY <3>1 DEF Asked, Approval
  <2>2. approval' = [approval EXCEPT ![r] = Asked(r)]
    BY <1>1 DEF CommitMove
  <2> HIDE DEF Asked
  <2> QED
    BY <1>0, <1>1, <2>1, <2>2 DEF Pending
<1>2. CASE request[r].to # "UNDER_REVIEW"
  <2>1. approval' = [p \in Requests |-> Resolved(r, p)]
    BY <1>2 DEF CommitMove
  <2>2. ASSUME NEW p \in Requests
        PROVE  /\ Resolved(r, p) \in Approval /\ Resolved(r, p).made = approval[p].made /\ Resolved(r, p).overtaken = approval[p].overtaken
               /\ p \in request[r].seen => Resolved(r, p).status \notin {"PENDING", "NONE"}
               /\ p \notin request[r].seen => /\ Resolved(r, p).status = approval[p].status
                                              /\ p \in Pending => Resolved(r, p).missed
                                              /\ p \notin Pending => Resolved(r, p) = approval[p]
    BY <1>0, ResolvedEffect
  <2> QED
    BY <1>a, <1>2, <2>1, <2>2 DEF Pending
<1> QED
  BY <1>1, <1>2

LEMMA CommitMoveStep ==
  ASSUME WorkflowInv, PipelineTypeOK, NEW r \in Requests, CommitMove(r)
  PROVE  WorkflowInv'
<1>0. /\ doc \in Document /\ vstatus \in [Versions -> Statuses] /\ approval \in [Requests -> Approval] /\ RequestsOK
      /\ stray \subseteq Requests /\ current \in 0..MaxVersions /\ request[r] \in Request
  BY DEF WorkflowInv, WorkflowTypeOK, RequestsOK, PipelineTypeOK
<1> DEFINE to == request[r].to  c == request[r].current
<1>1. /\ current' = current /\ stray' = stray /\ request[r].pc = "open"
      /\ doc' = [doc EXCEPT !.status = to, !.carried = c # current]
      /\ vstatus' = [vstatus EXCEPT ![c] = to]
  BY DEF CommitMove, VersionMoved, pipelineVars
<1>2. to \in Statuses /\ c \in 1..current
  BY <1>0, <1>1 DEF Request, WorkflowInv, MovesAllowed
<1>3. /\ c \in Versions /\ c <= current /\ current # 0 /\ current \in Versions
      /\ \A v \in Versions : v > current => v # c
  BY <1>0, <1>2, PipelineConstants DEF PipelineConstants, Versions
<1>4. RequestsOK' /\ RequestsRest(r) /\ request'[r].pc = "done"
  BY <1>0, CloseEffect DEF CommitMove
<1> HIDE DEF to, c
<1>5. /\ doc' \in Document /\ doc'.status = to /\ doc'.carried = (c # current) /\ doc'.shared = doc.shared
      /\ doc'.secret = doc.secret /\ doc'.kept = doc.kept
  <2>1. (c # current) \in BOOLEAN
    OBVIOUS
  <2> QED
    BY <1>0, <1>1, <1>2, <2>1 DEF Document
<1>6. WorkflowTypeOK'
  BY <1>0, <1>1, <1>2, <1>4, <1>5, CommitMoveApprovals DEF WorkflowTypeOK, RequestsOK
<1>7. NothingYet'
  BY <1>0, <1>1, <1>3 DEF WorkflowInv, NothingYet
<1>8. InboxMatchesWorkflow'
  <2>1. CASE to = "UNDER_REVIEW"
    <3>1. r \in Pending' /\ approval'[r] = Asked(r) /\ \A p \in Requests : p # r => approval'[p] = approval[p]
      BY <2>1, CommitMoveApprovals DEF to
    <3>2. approval'[r].made = current \/ approval'[r].overtaken
      <4>1. Asked(r).made = request[r].current /\ Asked(r).overtaken = (request[r].current # current)
        BY DEF Asked
      <4> QED
        BY <3>1, <4>1
    <3>3. \A p \in Pending' : p = r \/ (p \in Pending /\ approval'[p] = approval[p])
      BY <3>1 DEF Pending
    <3>4. \A p \in Pending' : approval'[p].made = current' \/ approval'[p].overtaken
      BY <1>1, <3>2, <3>3 DEF WorkflowInv, InboxMatchesWorkflow
    <3>5. Pending' # {} /\ doc'.status = "UNDER_REVIEW"
      BY <1>5, <2>1, <3>1
    <3> QED
      BY <3>4, <3>5 DEF InboxMatchesWorkflow
  <2>2. CASE to # "UNDER_REVIEW"
    <3>1. \A p \in Pending' : /\ p \in Pending /\ approval'[p].missed
                              /\ approval'[p].made = approval[p].made /\ approval'[p].overtaken = approval[p].overtaken
      BY <2>2, CommitMoveApprovals DEF to, Pending
    <3> QED
      BY <1>1, <1>5, <2>2, <3>1 DEF WorkflowInv, InboxMatchesWorkflow
  <2> QED
    BY <2>1, <2>2
<1>9. StatusIsVersionStatus'
  BY <1>0, <1>1, <1>3, <1>5 DEF StatusIsVersionStatus
<1>10. MovesAllowed'
  <2> SUFFICES ASSUME NEW x \in Requests
               PROVE  /\ request'[x].pc = "loaded" /\ request'[x].op = "move" => request'[x].current \in 1..current
                      /\ request'[x].pc = "open" =>
                           request'[x].current \in 1..current /\ request'[x].to \in Moves(request'[x].status)
                      /\ request'[x].pc = "open" => \A p \in request'[x].seen : approval'[p].status # "NONE"
                      /\ request'[x].pc # "done" => approval'[x].status = "NONE"
    BY <1>1 DEF MovesAllowed
  <2>1. CASE x = r
    BY <1>4, <2>1
  <2>2. CASE x # r
    <3>1. request'[x] = request[x]
      BY <1>4, <2>2 DEF RequestsRest
    <3>2. approval[x].status = "NONE" => approval'[x].status = "NONE"
      BY <2>2, CommitMoveApprovals
    <3>3. \A p \in request[x].seen : approval[p].status # "NONE" => approval'[p].status # "NONE"
      BY <1>0, CommitMoveApprovals DEF RequestsOK, Request
    <3> QED
      BY <3>1, <3>2, <3>3 DEF WorkflowInv, MovesAllowed
  <2> QED
    BY <2>1, <2>2
<1>11. EditsAllowed' /\ NoOrphanFiles'
  BY <1>0, <1>1, <1>4 DEF WorkflowInv, EditsAllowed, NoOrphanFiles, RequestsRest
<1>12. SecretsNotShared'
  BY <1>5 DEF WorkflowInv, SecretsNotShared
<1> QED
  BY <1>6, <1>7, <1>8, <1>9, <1>10, <1>11, <1>12 DEF WorkflowInv

LEMMA EditStep ==
  ASSUME WorkflowInv, NEW r \in Requests, CommitEdit(r) \/ Delete(r)
  PROVE  WorkflowInv'
<1>0. doc \in Document /\ RequestsOK /\ stray \subseteq Requests /\ NoOrphanFiles /\ request[r] \in Request
  BY DEF WorkflowInv, WorkflowTypeOK, RequestsOK
<1>1. vstatus' = vstatus /\ approval' = approval /\ current' = current /\ stray' = stray /\ request[r].pc \in {"checked", "loaded"}
  BY DEF CommitEdit, Delete, pipelineVars
<1>2. RequestsOK' /\ RequestsRest(r) /\ request'[r].pc = "done"
  BY <1>0, CloseEffect DEF CommitEdit, Delete
<1>3. doc' \in Document /\ doc'.status = doc.status /\ doc'.carried = doc.carried
  <2>1. request[r].input.shared \in BOOLEAN /\ request[r].input.secret \in BOOLEAN /\ request[r].shared \in BOOLEAN
    BY <1>0 DEF Request
  <2>2. CASE CommitEdit(r)
    <3>1. doc' = [doc EXCEPT !.shared = request[r].input.shared, !.secret = request[r].input.secret,
                             !.kept = request[r].shared]
      BY <2>2 DEF CommitEdit
    <3> QED
      BY <1>0, <2>1, <3>1 DEF Document
  <2>3. CASE Delete(r)
    <3>1. doc' = [doc EXCEPT !.deleted = TRUE]
      BY <2>3 DEF Delete
    <3> QED
      BY <1>0, <3>1 DEF Document
  <2> QED
    BY <2>2, <2>3
<1>4. WorkflowTypeOK'
  BY <1>1, <1>2, <1>3 DEF WorkflowInv, WorkflowTypeOK, RequestsOK
<1>5. NothingYet' /\ InboxMatchesWorkflow' /\ StatusIsVersionStatus'
  BY <1>1, <1>3 DEF WorkflowInv, NothingYet, InboxMatchesWorkflow, StatusIsVersionStatus, Pending
<1>6. MovesAllowed' /\ EditsAllowed' /\ NoOrphanFiles'
  BY <1>0, <1>1, <1>2 DEF WorkflowInv, MovesAllowed, EditsAllowed, NoOrphanFiles, RequestsRest
<1>7. SecretsNotShared'
  <2>1. CASE CommitEdit(r)
    <3>1. /\ doc'.shared = request[r].input.shared /\ doc'.secret = request[r].input.secret
          /\ doc'.kept = request[r].shared
      BY <1>0, <2>1 DEF CommitEdit, Document
    <3>2. request[r].input.shared /\ ~request[r].shared => ~request[r].input.secret
      BY <2>1 DEF CommitEdit, WorkflowInv, EditsAllowed
    <3> QED
      BY <3>1, <3>2 DEF SecretsNotShared
  <2>2. CASE Delete(r)
    <3>1. doc'.shared = doc.shared /\ doc'.secret = doc.secret /\ doc'.kept = doc.kept
      BY <1>0, <2>2 DEF Delete, Document
    <3> QED
      BY <3>1 DEF WorkflowInv, SecretsNotShared
  <2> QED
    BY <2>1, <2>2
<1> QED
  BY <1>4, <1>5, <1>6, <1>7 DEF WorkflowInv

LEMMA WorkflowStep == WorkflowInv /\ PipelineTypeOK /\ [Next]_vars => WorkflowInv'
<1> SUFFICES ASSUME WorkflowInv, PipelineTypeOK, [Next]_vars PROVE WorkflowInv'
  OBVIOUS
<1>1. CASE Process /\ UNCHANGED workflowVars
  BY <1>1, ProcessStep
<1>2. ASSUME NEW byClient \in BOOLEAN, NEW secret \in BOOLEAN, Create(byClient, secret) PROVE WorkflowInv'
  BY <1>2, CreateStep
<1>3. ASSUME NEW r \in Requests, Serve(r) PROVE WorkflowInv'
  <2>1. ASSUME NEW op \in Ops, NEW to \in Statuses, Load(r, op, to) PROVE WorkflowInv'
    BY <2>1, LoadStep
  <2>2. "DRAFT" \in Statuses /\ "move" \in Ops
    BY DEF Statuses, Ops
  <2>3. ASSUME NEW input \in [shared : BOOLEAN, secret : BOOLEAN], CheckEdit(r, input) PROVE WorkflowInv'
    BY <2>3, CheckEditStep
  <2> QED
    BY <1>3, <2>1, <2>2, <2>3, QuietSteps, OpenMoveStep, AddVersionStep, CommitMoveStep, EditStep DEF Serve
<1>4. CASE UNCHANGED vars
  BY <1>4 DEF vars, pipelineVars, workflowVars, WorkflowInv, WorkflowTypeOK, NothingYet, MovesAllowed, EditsAllowed,
     InboxMatchesWorkflow, StatusIsVersionStatus, NoOrphanFiles, SecretsNotShared, Pending
<1> QED
  BY <1>1, <1>2, <1>3, <1>4 DEF Next

----------------------------------------------------------------------------
(* The theorems *)

\* The inductive invariant of the approval workflow (documents.ts, approvals.ts, portal.ts).
THEOREM WorkflowSafe == Spec => [](WorkflowInv /\ PipelineInv)
<1>1. WorkflowInv /\ PipelineInv /\ [Next]_vars => (WorkflowInv /\ PipelineInv)'
  BY WorkflowStep, DocumentsStep, PipelineStep DEF PipelineInv, ScanInv
<1>2. Init => WorkflowInv /\ PipelineInv
  BY WorkflowInit, PipelineInitInv DEF Init
<1> QED
  BY <1>1, <1>2, PTL DEF Spec

\* Every variable keeps its type.
THEOREM DocumentsTyped == Spec => []TypeOK
<1>1. WorkflowInv /\ PipelineInv => TypeOK
  BY DEF WorkflowInv, WorkflowTypeOK, PipelineInv, ScanInv, TypeOK
<1> QED
  BY <1>1, WorkflowSafe, PTL

\* The inbox and the workflow agree (documents.ts, lines 245 and 344-364), but for an approval whose
\* request was overtaken by an upload, or which a transition with an older snapshot did not see.
THEOREM InboxMatches == Spec => []InboxMatchesWorkflow
<1>1. WorkflowInv => InboxMatchesWorkflow
  BY DEF WorkflowInv
<1> QED
  BY <1>1, WorkflowSafe, PTL

\* The document's status is that of its current version (documents.ts, line 243).
THEOREM StatusMatches == Spec => []StatusIsVersionStatus
<1>1. WorkflowInv => StatusIsVersionStatus
  BY DEF WorkflowInv
<1> QED
  BY <1>1, WorkflowSafe, PTL

\* No stored file is without a row and without a request (documents.ts, lines 233-253).
THEOREM FilesNamed == Spec => []NoOrphanFiles
<1>1. WorkflowInv => NoOrphanFiles
  BY DEF WorkflowInv
<1> QED
  BY <1>1, WorkflowSafe, PTL

\* A document that is highly confidential and shared was found shared by the edit that wrote it last
\* (documents.ts, lines 315-321).
THEOREM SecretsKept == Spec => []SecretsNotShared
<1>1. WorkflowInv => SecretsNotShared
  BY DEF WorkflowInv
<1> QED
  BY <1>1, WorkflowSafe, PTL

\* Whatever is pipelined for a document is safe: the pipeline's theorems hold of its vault.
THEOREM VaultInfectedStaysOut == Spec => []InfectedStaysOut
BY DocumentsImplementPipeline, InfectedStaysOutHolds, PTL

\* A decision stands, but for a transition that had seen it pending (documents.ts, lines 360-362).
THEOREM DecisionsStandHolds == Spec => DecisionsStand
<1> DEFINE Stands ==
      \A p \in Requests :
        approval[p].status \in Decisions \cup {"CANCELLED"} /\ approval'[p] # approval[p] =>
          \E r \in Requests : request[r].pc = "open" /\ p \in request[r].seen
<1>1. WorkflowInv /\ PipelineTypeOK /\ [Next]_vars => [Stands]_vars
  <2> SUFFICES ASSUME WorkflowInv, PipelineTypeOK, Next, NEW p \in Requests,
                      approval[p].status \in Decisions \cup {"CANCELLED"}, approval'[p] # approval[p]
               PROVE  \E r \in Requests : request[r].pc = "open" /\ p \in request[r].seen
    BY DEF vars
  <2>0. p \notin Pending /\ approval[p].status # "NONE" /\ approval \in [Requests -> Approval]
    BY DEF Pending, Decisions, WorkflowInv, WorkflowTypeOK
  <2>1. PICK r \in Requests : AddVersion(r) \/ CommitMove(r)
    BY DEF Next, Serve, workflowVars, Create, Pick, Load, StoreFile, AbandonUpload, OpenMove, RefuseMove, CheckEdit,
       CommitEdit, Delete, Die
  <2>2. ~AddVersion(r)
    BY <2>0, CancelledEffect DEF AddVersion
  <2>3. CommitMove(r) /\ request[r].pc = "open"
    BY <2>1, <2>2 DEF CommitMove
  <2>4. p # r
    BY <2>0, <2>3 DEF WorkflowInv, MovesAllowed
  <2>5. p \in request[r].seen
    BY <2>0, <2>3, <2>4, CommitMoveApprovals
  <2> QED
    BY <2>3, <2>5
<1>2. WorkflowInv /\ PipelineInv => WorkflowInv /\ PipelineTypeOK
  BY DEF PipelineInv, ScanInv
<1> QED
  BY <1>1, <1>2, WorkflowSafe, PTL DEF Spec, DecisionsStand

\* A filed document is final (documents.ts, lines 340 and 375).
THEOREM FiledStaysHolds == Spec => FiledStays
<1> DEFINE Stays ==
      doc.status = "SUBMITTED" /\ (doc'.status # "SUBMITTED" \/ doc'.deleted # doc.deleted) =>
        \/ current' # current
        \/ \E r \in Requests : request[r].pc \in {"loaded", "open"} /\ request[r].status # "SUBMITTED"
<1>1. WorkflowInv /\ PipelineTypeOK /\ [Next]_vars => [Stays]_vars
  <2> SUFFICES ASSUME WorkflowInv, PipelineTypeOK, Next, doc.status = "SUBMITTED", current' = current,
                      doc'.status # "SUBMITTED" \/ doc'.deleted # doc.deleted
               PROVE  \E r \in Requests : request[r].pc \in {"loaded", "open"} /\ request[r].status # "SUBMITTED"
    BY DEF vars
  <2>0. doc \in Document /\ current' # current + 1
    <3>1. doc \in Document
      BY DEF WorkflowInv, WorkflowTypeOK
    <3>2. current' # current + 1
      BY PipelineConstants DEF PipelineConstants, PipelineTypeOK
    <3> QED
      BY <3>1, <3>2
  <2>1. PICK r \in Requests : CommitMove(r) \/ CommitEdit(r) \/ Delete(r)
    BY <2>0 DEF Next, Serve, workflowVars, Create, Register, Pick, Load, StoreFile, AddVersion, AbandonUpload, OpenMove,
       RefuseMove, CheckEdit, Die
  <2>2. ASSUME CommitMove(r) PROVE request[r].pc = "open" /\ request[r].status # "SUBMITTED"
    <3>1. request[r].pc = "open" /\ request[r].to \in Moves(request[r].status)
      BY <2>2 DEF CommitMove, WorkflowInv, MovesAllowed
    <3>2. Moves("SUBMITTED") = {}
      BY DEF Moves
    <3> QED
      BY <3>1, <3>2
  <2>3. ~CommitEdit(r)
    <3>1. ASSUME CommitEdit(r) PROVE doc'.status = doc.status /\ doc'.deleted = doc.deleted
      BY <2>0, <3>1 DEF CommitEdit, Document
    <3> QED
      BY <3>1
  <2>4. ASSUME Delete(r) PROVE request[r].pc = "loaded" /\ request[r].status # "SUBMITTED"
    BY <2>4 DEF Delete, Deletable
  <2> QED
    BY <2>1, <2>2, <2>3, <2>4
<1>2. WorkflowInv /\ PipelineInv => WorkflowInv /\ PipelineTypeOK
  BY DEF PipelineInv, ScanInv
<1> QED
  BY <1>1, <1>2, WorkflowSafe, PTL DEF Spec, FiledStays
=============================================================================
