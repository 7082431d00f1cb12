-------------------------------- MODULE Desk --------------------------------
(***************************************************************************)
(* Daily work on the matter of Practice: a task (services/tasks.ts), the    *)
(* timers of one lawyer (services/finance.ts) and one court import          *)
(* (services/court-import.ts).  Two steps of Practice reach over here:      *)
(* offboarding hands open tasks to the colleague, and closing the matter    *)
(* runs the automation that cancels them (services/automation.ts).  Requests *)
(* also open clients, matters and invoices, as Intake says.                 *)
(***************************************************************************)
EXTENDS Practice, Intake

CONSTANT Mixed \* openings are interleaved with other requests (they share no row)

ASSUME DeskConstants == Mixed \in BOOLEAN

VARIABLES
  task,    \* one Task of the matter
  prior,   \* the tasks it depends on
  timer,   \* the lawyer's TimeEntry rows, under the request that started them
  court    \* one CourtImport

deskVars == <<task, prior, timer, court, intakeVars>>
vars == <<practiceVars, deskVars>>

\* carried: history, the task was last given to somebody, or opened, when its assignee had left.
Task == [status : {"OPEN", "DONE", "CANCELLED", "DELETED"}, who : Users, carried : BOOLEAN]

\* open: one of them is not finished.  The rest is history: the completions that were under way when
\* one of them came to be open, and those committed while one was.
Prior == [open : BOOLEAN, overtaken : SUBSET Requests, early : SUBSET Requests]

\* rivals: history, when this start looked for a running timer, the other starts under way and what ran
\* beside the timer that it found.
Timer == [status : {"NONE", "RUNNING", "STOPPED"}, rivals : SUBSET Refs]

\* applied: the requests that created deadlines and timeline events from it.
Court == [status : {"PENDING_REVIEW", "APPLIED", "DISCARDED"}, applied : SUBSET Requests]

Init ==
  /\ PracticeInit
  /\ task = [status |-> "OPEN", who |-> matter.lead, carried |-> FALSE]
  /\ prior = [open |-> FALSE, overtaken |-> {}, early |-> {}]
  /\ timer = [k \in Refs |-> [status |-> IF k = Earlier THEN "RUNNING" ELSE "NONE", rivals |-> {}]]
  /\ court = [status |-> "PENDING_REVIEW", applied |-> {}]
  /\ IntakeInit

\* A step of a request that changes nothing of Practice but the request.
Local == UNCHANGED <<user, matter, member, ask, token, sweep, overlap>>

----------------------------------------------------------------------------
(* The steps that reach over *)

HandedTask(r) ==
  IF task.status = "OPEN" /\ task.who = request[r].u
  THEN [task EXCEPT !.who = request[r].v, !.carried = user[request[r].v].left] ELSE task

Offboard(r) == CommitOffboard(r) /\ task' = HandedTask(r) /\ UNCHANGED <<prior, timer, court, intakeVars>>

\* The automation of a matter that is closed, cancel_open_tasks; dependencies may be of other matters.
ChangeMatter(r) ==
  /\ WriteMatter(r)
  /\ task' = IF Closing(r) /\ task.status = "OPEN" THEN [task EXCEPT !.status = "CANCELLED"] ELSE task
  /\ prior' \in {prior} \cup IF Closing(r) THEN {[prior EXCEPT !.open = FALSE]} ELSE {}
  /\ UNCHANGED <<timer, court, intakeVars>>

----------------------------------------------------------------------------
(* saveTask, setTaskStatus, deleteTask *)

\* setTaskStatus to DONE has counted the open dependencies.
Completing(r) == At(r, "loaded", "task") /\ request[r].yes

\* The assignee is an active colleague when the form is checked.
CheckAssignee(r, u) ==
  /\ New(r) /\ Active(u)
  /\ Go(r, [Fresh EXCEPT !.pc = "checked", !.op = "task", !.u = u])
  /\ Local /\ UNCHANGED deskVars

\* Other tasks are reopened or finished, or the task comes to depend on others.
Depends(open) ==
  [prior EXCEPT !.open = open,
                !.overtaken = IF open /\ ~prior.open THEN @ \cup {r \in Requests : Completing(r)} ELSE @]

\* The form replaces the dependencies and sets any status: whether they are open is not looked at.
SaveTask(r, status, open) ==
  /\ At(r, "checked", "task") /\ task.status # "DELETED"
  /\ task' = [status |-> status, who |-> request[r].u, carried |-> user[request[r].u].left]
  /\ prior' = Depends(open)
  /\ Close(r)
  /\ Local /\ UNCHANGED <<timer, court, intakeVars>>

\* setTaskStatus or saveTask of a task this one depends on.
SetPrior(r, open) ==
  /\ New(r)
  /\ prior' = Depends(open)
  /\ Close(r)
  /\ Local /\ UNCHANGED <<task, timer, court, intakeVars>>

\* Found not deleted, and written by id later; yes, to be completed.
LoadTask(r, yes) ==
  /\ New(r) /\ task.status # "DELETED" /\ (yes => ~prior.open)
  /\ Go(r, [Fresh EXCEPT !.pc = "loaded", !.op = "task", !.yes = yes])
  /\ Local /\ UNCHANGED deskVars

\* setTaskStatus leaves deletedAt alone.
SetTask(r, status) ==
  /\ At(r, "loaded", "task") /\ (Completing(r) <=> status = "DONE")
  /\ prior' = IF Completing(r) /\ prior.open THEN [prior EXCEPT !.early = @ \cup {r}] ELSE prior
  /\ task' = IF task.status = "DELETED" THEN task
             ELSE [task EXCEPT !.status = status, !.carried = @ \/ user[task.who].left]
  /\ Close(r)
  /\ Local /\ UNCHANGED <<timer, court, intakeVars>>

----------------------------------------------------------------------------
(* startTimer, stopTimer *)

Running == {k \in Refs : timer[k].status = "RUNNING"}
Starting == {r \in Requests : request[r].op = "timer" /\ request[r].pc \notin {"done", "dead"}}

\* startTimer looks for a running entry; row is 0 when there is none.
FindRunning(r, k) ==
  /\ New(r) /\ IF Running = {} THEN k = Earlier ELSE k \in Running
  /\ Go(r, [Fresh EXCEPT !.pc = "loaded", !.op = "timer", !.k = k, !.row = IF Running = {} THEN 0 ELSE 1])
  /\ timer' = [timer EXCEPT ![r].rivals = Starting \cup (Running \ {k})]
  /\ Local /\ UNCHANGED <<task, prior, court, intakeVars>>

MutantStartAnyway(r) == request[r].pc \in {"loaded", "checked", "granted"}

MayStart(r) == request[r].pc = "granted" \/ (request[r].pc = "loaded" /\ request[r].row = 0)

\* stopTimer looks for the entry again: it still runs, or the start fails.
FindTimer(r) ==
  /\ At(r, "loaded", "timer") /\ request[r].row = 1
  /\ IF request[r].k \in Running THEN Go(r, [request[r] EXCEPT !.pc = "checked"]) ELSE Close(r)
  /\ Local /\ UNCHANGED deskVars

StopTimer(r) ==
  /\ At(r, "checked", "timer")
  /\ timer' = [timer EXCEPT ![request[r].k].status = "STOPPED"]
  /\ Go(r, [request[r] EXCEPT !.pc = "granted"])
  /\ Local /\ UNCHANGED <<task, prior, court, intakeVars>>

StartTimer(r) ==
  /\ request[r].op = "timer" /\ MayStart(r)
  /\ timer' = [timer EXCEPT ![r].status = "RUNNING"]
  /\ Close(r)
  /\ Local /\ UNCHANGED <<task, prior, court, intakeVars>>

----------------------------------------------------------------------------
(* applyImport, discardImport *)

FindImport(r) ==
  /\ New(r) /\ court.status = "PENDING_REVIEW"
  /\ Go(r, [Fresh EXCEPT !.pc = "loaded", !.op = "import"])
  /\ Local /\ UNCHANGED deskVars

\* The items and the status are written whatever the status is now.
ApplyImport(r) ==
  /\ At(r, "loaded", "import")
  /\ court' = [status |-> "APPLIED", applied |-> court.applied \cup {r}]
  /\ Close(r)
  /\ Local /\ UNCHANGED <<task, prior, timer, intakeVars>>

\* discardImport is one conditional update.
Discardable == court.status = "PENDING_REVIEW"

DiscardImport(r) ==
  /\ New(r) /\ Discardable
  /\ court' = [court EXCEPT !.status = "DISCARDED"]
  /\ Close(r)
  /\ Local /\ UNCHANGED <<task, prior, timer, intakeVars>>

----------------------------------------------------------------------------
(* Intake *)

\* A request that is a transaction of Intake from here on.
Opened(r) == tx[r].at # "new"

\* Unless openings are mixed with other requests, all requests of a behaviour open something, or none.
OthersMayRun == Mixed \/ \A r \in Requests : ~Opened(r)
OpeningsMayRun == Mixed \/ \A q \in Requests : New(q) \/ Opened(q)

BeginOpening(r, kind) ==
  /\ New(r) /\ OpeningsMayRun
  /\ Begin(r, kind)
  /\ Close(r)
  /\ Local /\ UNCHANGED <<task, prior, timer, court>>

Elsewhere == UNCHANGED <<practiceVars, task, prior, timer, court>>

----------------------------------------------------------------------------

PracticeStep(r) ==
  \/ Die(r)
  \/ \E u \in Users, yes, was \in BOOLEAN : GuardUser(r, u, yes, was)
  \/ CommitUser(r) \/ CreateUser(r) \/ OpenOffboard(r)
  \/ \E u, v \in Users : LoadOffboard(r, u, v)
  \/ \E u \in Users, ends \in BOOLEAN : CheckMember(r, u, ends)
  \/ \E u \in Users : LoadRemoval(r, u) \/ LoadAccess(r, u) \/ OpenIssue(r, u)
  \/ WriteMember(r) \/ RemoveMember(r) \/ RequestAccess(r) \/ DecideAccess(r)
  \/ \E k \in Refs : FindToken(r, k) \/ \E yes \in BOOLEAN : LoadAsk(r, k, yes)
  \/ \E yes \in BOOLEAN : CopyMatter(r, yes) \/ \E lead \in Users : LoadMatter(r, lead, yes)
  \/ IssueToken(r) \/ ConsumeToken(r)

DeskStep(r) ==
  \/ Offboard(r) \/ ChangeMatter(r)
  \/ \E u \in Users : CheckAssignee(r, u)
  \/ \E yes \in BOOLEAN : LoadTask(r, yes) \/ SetPrior(r, yes)
  \/ \E status \in {"OPEN", "DONE", "CANCELLED", "DELETED"} : SetTask(r, status)
  \/ \E status \in {"OPEN", "DONE", "CANCELLED"}, open \in BOOLEAN : SaveTask(r, status, open)
  \/ \E k \in Refs : FindRunning(r, k)
  \/ FindTimer(r) \/ StopTimer(r) \/ StartTimer(r)
  \/ FindImport(r) \/ ApplyImport(r) \/ DiscardImport(r)

OpeningStep(r) == (\E kind \in Kinds : BeginOpening(r, kind)) \/ (IntakeStep(r) /\ Elsewhere)

Worker == ReadExpired \/ \E u \in Users : SweepOne(u)

Next ==
  \/ OthersMayRun /\ \E r \in Requests : DeskStep(r) \/ (PracticeStep(r) /\ UNCHANGED deskVars)
  \/ \E r \in Requests : OpeningStep(r)
  \/ (Worker \/ \E u \in Users : Expire(u)) /\ UNCHANGED deskVars

\* The tick of the worker sweeps every minute, whatever the other jobs of the tick do (jobs.ts, lines
\* 25-40).  A transaction that need not wait goes on, and InnoDB resolves every deadlock.
Fairness ==
  /\ WF_vars(Worker /\ UNCHANGED deskVars)
  /\ \A r \in Requests : WF_vars(Advance(r) /\ Elsewhere)
  /\ WF_vars(\E r \in Requests : Victim(r) /\ Elsewhere)

Spec == Init /\ [][Next]_vars /\ Fairness

----------------------------------------------------------------------------
(* Properties *)

TypeOK ==
  /\ user \in [Users -> User] /\ matter \in Matter /\ member \in [Users -> Member]
  /\ ask \in [Refs -> Ask] /\ token \in [Refs -> Token] /\ request \in [Requests -> Request]
  /\ sweep \subseteq Users \X Nat /\ overlap \in BOOLEAN
  /\ task \in Task /\ prior \in Prior /\ timer \in [Refs -> Timer] /\ court \in Court
  /\ IntakeTypeOK

\* The office keeps an active owner unless two removals of owners overlapped: each counts the others
\* in its own snapshot (admin.ts, lines 17-26; account.ts, lines 179-182).
OwnerRemains == Owners # {} \/ overlap

\* A decided access request has the access its decision says: what is approved was granted; what
\* was granted and is still pending has a decider between the two transactions, or one that died
\* there; what was granted and is rejected had two deciders (matters.ts, lines 424-438).
AccessDecisionsKept ==
  \A k \in Refs :
    /\ ask[k].status = "APPROVED" => ask[k].granted
    /\ ask[k].granted /\ ask[k].status = "PENDING" => \E r \in ask[k].deciders : request[r].pc \in {"granted", "dead"}
    /\ ask[k].granted /\ ask[k].status = "REJECTED" => Cardinality(ask[k].deciders) > 1

\* A token is claimed once, and the newcomer's account is made from at most one invitation, exactly
\* when it was not created by an administrator (tokens.ts, lines 61-64; account.ts, lines 91-104).
InvitationsOnce ==
  /\ \A k \in Refs : token[k].claims = (IF token[k].status = "USED" THEN 1 ELSE 0)
  /\ Cardinality({k \in Refs : token[k].made}) = (IF user[Newcomer].origin = "invited" THEN 1 ELSE 0)

\* Nothing open stays with somebody who was offboarded, but what was given to them or opened again
\* afterwards: by a request that had read them active, or by a transfer to somebody who was leaving
\* too (account.ts, lines 183-185).
WorkTransferred ==
  \A u \in Users : user[u].left =>
    /\ matter.open /\ u \in {matter.lead, matter.owner} => matter.carried
    /\ task.status = "OPEN" /\ task.who = u => task.carried

\* The lawyer's timers run one at a time, unless two starts overlapped (finance.ts, lines 193-195);
\* an import has created something exactly when it is applied, discarded or not before, and twice
\* only by two requests that had found it pending (court-import.ts, lines 48-84); setTaskStatus
\* completes a task with an open dependency only if that came to be open after the count, which is
\* outside the transaction (tasks.ts, lines 86-91).
OneTimer ==
  \A j, k \in Running : j = k \/ j \in timer[k].rivals \/ k \in timer[j].rivals
ImportMatches == court.applied # {} <=> court.status = "APPLIED"
PriorsFirst == prior.early \subseteq prior.overtaken
DeskConsistent == OneTimer /\ ImportMatches /\ PriorsFirst

\* A membership whose end date has passed is removed or renewed in the end (reminders.ts,
\* lines 257-270).
TemporaryAccessEnds == \A u \in Users : member[u].ends = "passed" ~> member[u].ends # "passed"
=============================================================================
