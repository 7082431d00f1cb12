----------------------------- MODULE Documents -----------------------------
(***************************************************************************)
(* The vault and the approval workflow of one document                      *)
(* (src/src/server/services/documents.ts, approvals.ts, portal.ts), on top  *)
(* of the pipeline its versions go through.  A request reads the document,  *)
(* checks what it read, and only then opens its transaction.  A transaction *)
(* of a transition is its snapshot, which the pending approvals are read    *)
(* from, and one step with its writes, which the lock on the document's row *)
(* puts one after another; an upload takes that lock before it reads.       *)
(*                                                                          *)
(* Capabilities are not modelled: every request comes from somebody who may *)
(* make it.                                                                 *)
(***************************************************************************)
EXTENDS DocumentPipeline

CONSTANTS
  Requests \* requests served, each of them once

VARIABLES
  doc,      \* the Document row
  vstatus,  \* DocumentVersion.status
  approval, \* the Approval created by each request that sent the document to review
  request,  \* local state of each request
  stray     \* requests whose stored file no row names

workflowVars == <<doc, vstatus, approval, request, stray>>
vars == <<pipelineVars, workflowVars>>

Statuses  == {"DRAFT", "UNDER_REVIEW", "CHANGES_REQUESTED", "APPROVED", "SUBMITTED"}
Decisions == {"APPROVED", "CHANGES_REQUESTED"}
Ops       == {"upload", "move", "edit", "delete"}

\* carried: history, the status was last written by a request that had read another version as
\* the current one.  kept: history, the last edit found the document shared already.
Document == [status : Statuses, shared : BOOLEAN, secret : BOOLEAN, deleted : BOOLEAN,
             carried : BOOLEAN, kept : BOOLEAN]

\* made: the version in the approval's title.  overtaken: history, by then there was a newer one.
\* missed: history, a transition resolved the pending approvals from a snapshot older than this one.
Approval == [status : {"NONE", "PENDING", "CANCELLED"} \cup Decisions, made : 0..MaxVersions,
             overtaken : BOOLEAN, missed : BOOLEAN]

\* What a request has read (status, current, shared, seen) and what it was asked for (to, input).
Request == [pc : {"new", "picked", "loaded", "stored", "checked", "open", "done", "dead"}, op : Ops \cup {"none"},
            to : Statuses, status : Statuses, current : 0..MaxVersions, shared : BOOLEAN,
            seen : SUBSET Requests, input : [shared : BOOLEAN, secret : BOOLEAN]]

NoApproval == [status |-> "NONE", made |-> 0, overtaken |-> FALSE, missed |-> FALSE]
NoInput    == [shared |-> FALSE, secret |-> FALSE]
Fresh      == [pc |-> "new", op |-> "none", to |-> "DRAFT", status |-> "DRAFT", current |-> 0,
               shared |-> FALSE, seen |-> {}, input |-> NoInput]

Init ==
  /\ PipelineInit
  /\ doc = [status |-> "DRAFT", shared |-> FALSE, secret |-> FALSE, deleted |-> FALSE,
            carried |-> FALSE, kept |-> FALSE]
  /\ vstatus = [v \in Versions |-> "DRAFT"]
  /\ approval = [r \in Requests |-> NoApproval]
  /\ request = [r \in Requests |-> Fresh]
  /\ stray = {}

Pending == {r \in Requests : approval[r].status = "PENDING"}
Found == current # 0 /\ ~doc.deleted

\* A new document, by the staff or, shared from the start, by the client in the portal.
Create(byClient, secret) ==
  /\ current = 0
  /\ Register
  /\ doc' = [doc EXCEPT !.shared = byClient, !.kept = byClient, !.secret = secret /\ ~byClient]
  /\ UNCHANGED <<vstatus, approval, request, stray>>

\* A request is over, or its process dies; both leave nothing in hand.
Close(r, pc) == request' = [request EXCEPT ![r] = [Fresh EXCEPT !.pc = pc]]

\* decideApproval: the approval is pending; what follows is a transition of its document.
Pick(r, p, decision) ==
  /\ request[r].pc = "new" /\ p \in Pending
  /\ request' = [request EXCEPT ![r].pc = "picked", ![r].op = "move", ![r].to = decision]
  /\ UNCHANGED <<pipelineVars, doc, vstatus, approval, stray>>

\* loadDocumentForUser: the row every later check of the request looks at.
Load(r, op, to) ==
  /\ request[r] = Fresh \/ (request[r].pc = "picked" /\ op = "move" /\ to = request[r].to)
  /\ Found
  /\ request' = [request EXCEPT ![r] =
                   [Fresh EXCEPT !.pc = "loaded", !.op = op, !.to = to, !.status = doc.status,
                                 !.current = IF op \in {"move", "edit"} THEN current ELSE 0,
                                 !.shared = doc.shared /\ op = "edit"]]
  /\ UNCHANGED <<pipelineVars, doc, vstatus, approval, stray>>

----------------------------------------------------------------------------
(* storeUpload: a new version *)

StoreFile(r) ==
  /\ request[r].pc = "loaded" /\ request[r].op = "upload" /\ current < MaxVersions
  /\ request' = [request EXCEPT ![r].pc = "stored"]
  /\ stray' = stray \cup {r}
  /\ UNCHANGED <<pipelineVars, doc, vstatus, approval>>

MutantKeepPending(r) == approval[r]

MutantKeepStatus == [doc EXCEPT !.carried = FALSE]

\* A new version restarts the workflow.
Cancelled(r) == IF r \in Pending THEN [approval[r] EXCEPT !.status = "CANCELLED"] ELSE approval[r]

Restarted == [doc EXCEPT !.status = "DRAFT", !.carried = FALSE]

AddVersion(r) ==
  /\ request[r].pc = "stored"
  /\ Register
  /\ doc' = Restarted
  /\ approval' = [p \in Requests |-> Cancelled(p)]
  /\ stray' = stray \ {r}
  /\ Close(r, "done")
  /\ UNCHANGED vstatus

MutantLeaveFile(r) == stray

Removed(r) == stray \ {r}

\* The transaction fails: the file just stored is removed.
AbandonUpload(r) ==
  /\ request[r].pc = "stored"
  /\ stray' = Removed(r)
  /\ Close(r, "done")
  /\ UNCHANGED <<pipelineVars, doc, vstatus, approval>>

----------------------------------------------------------------------------
(* transitionDocument *)

\* TRANSITIONS
Moves(status) ==
  CASE status \in {"DRAFT", "CHANGES_REQUESTED"} -> {"UNDER_REVIEW"}
    [] status = "UNDER_REVIEW" -> {"APPROVED", "CHANGES_REQUESTED", "DRAFT"}
    [] status = "APPROVED"     -> {"SUBMITTED", "UNDER_REVIEW"}
    [] status = "SUBMITTED"    -> {}

\* The transaction begins: its snapshot is taken.
OpenMove(r) ==
  /\ request[r].pc = "loaded" /\ request[r].op = "move" /\ request[r].to \in Moves(request[r].status)
  /\ request' = [request EXCEPT ![r].pc = "open", ![r].seen = Pending]
  /\ UNCHANGED <<pipelineVars, doc, vstatus, approval, stray>>

\* A move that is not allowed is refused; decideApproval fails with it.
RefuseMove(r) ==
  /\ request[r].pc = "loaded" /\ request[r].op = "move" /\ request[r].to \notin Moves(request[r].status)
  /\ Close(r, "done")
  /\ UNCHANGED <<pipelineVars, doc, vstatus, approval, stray>>

MutantResolveAll(r, p) == [approval[p] EXCEPT !.status = IF request[r].to \in Decisions THEN request[r].to ELSE @]

\* An approval after the transition r: those seen pending are resolved by id, whatever they are now.
Resolved(r, p) ==
  LET outcome == IF request[r].to \in Decisions THEN request[r].to ELSE "CANCELLED" IN
  IF p \in request[r].seen THEN [approval[p] EXCEPT !.status = outcome]
  ELSE [approval[p] EXCEPT !.missed = @ \/ p \in Pending]

\* The approval is asked for the version that was current when the document was read.
Asked(r) == [status |-> "PENDING", made |-> request[r].current, overtaken |-> request[r].current # current,
             missed |-> FALSE]

\* The version that was current when the document was read.
VersionMoved(r) == [vstatus EXCEPT ![request[r].current] = request[r].to]

CommitMove(r) ==
  /\ request[r].pc = "open"
  /\ doc' = [doc EXCEPT !.status = request[r].to, !.carried = request[r].current # current]
  /\ vstatus' = VersionMoved(r)
  /\ approval' = IF request[r].to = "UNDER_REVIEW" THEN [approval EXCEPT ![r] = Asked(r)]
                 ELSE [p \in Requests |-> Resolved(r, p)]
  /\ Close(r, "done")
  /\ UNCHANGED <<pipelineVars, stray>>

----------------------------------------------------------------------------
(* updateDocumentMeta, deleteDocument *)

\* Turning the sharing on asks for a document that is not highly confidential and whose current
\* version is servable; one that was read as shared is not asked again.
MayWrite(r, input) ==
  (input.shared /\ ~request[r].shared) => ~input.secret /\ Servable(request[r].current)

CheckEdit(r, input) ==
  /\ request[r].pc = "loaded" /\ request[r].op = "edit" /\ MayWrite(r, input)
  /\ request' = [request EXCEPT ![r].pc = "checked", ![r].input = input]
  /\ UNCHANGED <<pipelineVars, doc, vstatus, approval, stray>>

\* Every field of the form is written, changed or not.
CommitEdit(r) ==
  /\ request[r].pc = "checked"
  /\ doc' = [doc EXCEPT !.shared = request[r].input.shared, !.secret = request[r].input.secret,
                        !.kept = request[r].shared]
  /\ Close(r, "done")
  /\ UNCHANGED <<pipelineVars, vstatus, approval, stray>>

Deletable(r) == request[r].status # "SUBMITTED"

\* A soft delete: approvals and versions stay as they are.
Delete(r) ==
  /\ request[r].pc = "loaded" /\ request[r].op = "delete" /\ Deletable(r)
  /\ doc' = [doc EXCEPT !.deleted = TRUE]
  /\ Close(r, "done")
  /\ UNCHANGED <<pipelineVars, vstatus, approval, stray>>

Die(r) ==
  /\ request[r].pc \notin {"new", "done", "dead"}
  /\ Close(r, "dead")
  /\ UNCHANGED <<pipelineVars, doc, vstatus, approval, stray>>

Serve(r) ==
  \/ \E p \in Requests, decision \in Decisions : Pick(r, p, decision)
  \/ \E op \in Ops \ {"move"} : Load(r, op, "DRAFT")
  \/ \E to \in Statuses : Load(r, "move", to)
  \/ StoreFile(r) \/ AddVersion(r) \/ AbandonUpload(r)
  \/ OpenMove(r) \/ RefuseMove(r) \/ CommitMove(r)
  \/ \E input \in [shared : BOOLEAN, secret : BOOLEAN] : CheckEdit(r, input)
  \/ CommitEdit(r) \/ Delete(r) \/ Die(r)

Next ==
  \/ Process /\ UNCHANGED workflowVars
  \/ \E byClient, secret \in BOOLEAN : Create(byClient, secret)
  \/ \E r \in Requests : Serve(r)

Spec == Init /\ [][Next]_vars

----------------------------------------------------------------------------
(* Properties *)

TypeOK ==
  /\ PipelineTypeOK
  /\ doc \in Document
  /\ vstatus \in [Versions -> Statuses]
  /\ approval \in [Requests -> Approval]
  /\ request \in [Requests -> Request]
  /\ stray \subseteq Requests

\* The inbox and the workflow agree: a document under review has an approval waiting; an approval
\* waits for the version that is current now, unless an upload overtook the request that asked for
\* it; and it waits while the document is under review, unless a transition with an older snapshot
\* did not see it (documents.ts, lines 245, 344-364).
InboxMatchesWorkflow ==
  /\ doc.status = "UNDER_REVIEW" => Pending # {}
  /\ \A p \in Pending : /\ approval[p].made = current \/ approval[p].overtaken
                        /\ doc.status = "UNDER_REVIEW" \/ approval[p].missed

\* The status shown for the document is that of its current version: "approvals never carry over
\* silently" (documents.ts, line 243), but for a transition overtaken by an upload.
StatusIsVersionStatus == current # 0 => doc.status = vstatus[current] \/ doc.carried

\* A decision on an approval stands unless another transition had seen it pending before
\* (documents.ts, lines 360-362; approvals.ts, line 32).
DecisionsStand ==
  [][\A p \in Requests :
       approval[p].status \in Decisions \cup {"CANCELLED"} /\ approval'[p] # approval[p] =>
         \E r \in Requests : request[r].pc = "open" /\ p \in request[r].seen]_vars

\* A filed document is final: only a new version, or a request that had read the document before
\* it was filed, changes its status or deletes it (documents.ts, lines 340 and 375).
FiledStays ==
  [][doc.status = "SUBMITTED" /\ (doc'.status # "SUBMITTED" \/ doc'.deleted # doc.deleted) =>
       \/ current' # current
       \/ \E r \in Requests : request[r].pc \in {"loaded", "open"} /\ request[r].status # "SUBMITTED"]_vars

\* Every stored file is named by a version, belongs to an upload under way, or was left by one that
\* died between the file and the row (documents.ts, lines 233-253).
NoOrphanFiles == \A r \in stray : request[r].pc \in {"stored", "dead"}

\* A document that is highly confidential and shared with the client was shared already when whoever
\* wrote it last had read it (documents.ts, lines 315-321): of two edits that cross, the later one may
\* keep what the earlier has taken back.
SecretsNotShared == doc.shared /\ doc.secret => doc.kept
=============================================================================
