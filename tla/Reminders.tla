----------------------------- MODULE Reminders -----------------------------
(***************************************************************************)
(* The reminder engine of src/src/server/services/reminders.ts for one     *)
(* hearing: the request transactions that move, close or reassign the      *)
(* hearing and rebuild its Reminder rows, the settings screen that rebuilds *)
(* them outside a transaction, and the workers that claim due rows under a *)
(* lease, notify the recipient and record the result.                      *)
(*                                                                         *)
(* One step is one SQL statement or one transaction.  A worker reads the   *)
(* clock once per batch (the `now` argument of dispatchDueReminders), so   *)
(* every lease and backoff it writes is relative to worker[w].now, not to  *)
(* the clock.  Times are minutes; the value 0 of lockedUntil is SQL's NULL *)
(* (the clock starts at 1, so "NULL or < now" is "< now").                 *)
(***************************************************************************)
EXTENDS Integers, FiniteSets, Functions

CONSTANTS
  Workers,        \* processes that run the scheduler tick
  Clerks,         \* requests that may be under way at once
  Ids,            \* identities of Reminder rows (bounds how many are created)
  Users,          \* staff members
  NoUser, NoId,   \* absent values
  Offsets,        \* ReminderPolicy.offsetsMinutes
  EscalateBefore, \* ReminderPolicy.escalateBeforeMinutes, 0 when null
  NotifyOwner,    \* ReminderPolicy.notifyOwner
  EventTimes,     \* start times a user may choose for the hearing
  Lease,          \* LEASE_MS
  BackoffCap,     \* the 60 of backoffMs
  MaxAttempts,    \* MAX_ATTEMPTS
  BatchLimit,     \* the `limit` argument
  MaxTime,        \* bound: the clock stops here
  MaxEdits,       \* bound: number of requests
  MaxFaults,      \* bound: number of failures and crashes
  LastFault       \* bound: no failure or crash after this time

ASSUME ConstantsAssumption ==
  /\ NoUser \notin Users /\ NoId \notin Ids
  /\ Offsets \subseteq Nat /\ EscalateBefore \in Nat /\ NotifyOwner \in BOOLEAN
  /\ EventTimes \subseteq Nat \ {0}
  /\ Lease \in Nat /\ BackoffCap \in Nat
  /\ MaxAttempts \in Nat /\ BatchLimit \in Nat
  /\ MaxTime \in Nat /\ MaxEdits \in Nat /\ MaxFaults \in Nat /\ LastFault \in Nat

VARIABLES
  clock,    \* wall-clock time
  event,    \* the hearing: startsAt, active status, acknowledged, its people, and
            \* whether its matter is CLOSED or ARCHIVED
  staff,    \* users whose status is ACTIVE
  row,      \* the Reminder table
  notified, \* Notification rows carrying dedupeKey `reminder:<id>`
  muted,    \* history: rows marked SENT while the recipient was not ACTIVE
  worker,   \* local state of each dispatcher
  request,  \* local state of each request that has several steps
  resync,   \* local state of the settings screen's re-materialisation
  gap,      \* history: what last left the hearing without rebuilt reminders
  edits, faults

vars == <<clock, event, staff, row, notified, muted, worker, request, resync, gap, edits, faults>>

Status == {"NONE", "PENDING", "PROCESSING", "SENT", "CANCELLED", "FAILED"}
Kinds  == {"REMINDER", "ESCALATION"}
Live   == {"PENDING", "PROCESSING"}

NoRow == [status |-> "NONE", user |-> NoUser, kind |-> "REMINDER", fireAt |-> 0,
          eventAt |-> 0, origin |-> "tx", attempts |-> 0, lockedUntil |-> 0]
Idle  == [pc |-> "ready", now |-> 0, batch |-> {}, id |-> NoId, attempts |-> 0,
          go |-> FALSE, seen |-> FALSE, reach |-> FALSE]
NoEvent == [at |-> 0, active |-> FALSE, acked |-> FALSE,
            lawyer |-> NoUser, lead |-> NoUser, owner |-> NoUser, closed |-> FALSE]
NoRequest == [pc |-> "idle", event |-> NoEvent, now |-> 0, from |-> NoUser, to |-> NoUser]
NoSync == [pc |-> "idle", event |-> NoEvent, now |-> 0]

----------------------------------------------------------------------------
(* Scheduling rules *)

\* Operators named Mutant... are faulty variants of the definition after them;
\* a property of the runs fails when one takes that definition's place.

MutantUncapped(n) == 2^n

\* backoffMs: exponential, capped.
Backoff(n) == IF 2^n \in 0..BackoffCap THEN 2^n ELSE BackoffCap

\* reminderSchedule: past offsets are dropped, except that an event created
\* inside its reminder window still gets one immediate reminder.
Schedule(at, now) ==
  LET future == {t \in {at - o : o \in Offsets} : t > now}
  IN  IF future # {} THEN future
      ELSE IF Offsets # {} /\ at > now THEN {now} ELSE {}

\* The attending lawyer, the lead lawyer and, if the policy says so, the owner.
Recipients(ev) == {ev.lawyer, ev.lead} \cup (IF NotifyOwner THEN {ev.owner} ELSE {})

\* The rows syncReminders creates for an event, as of `now`.
Wanted(ev, now) ==
  IF ~ev.active \/ ev.at <= now THEN {}
  ELSE [user : Recipients(ev), fireAt : Schedule(ev.at, now), kind : {"REMINDER"}]
       \cup {s \in [user : {ev.owner}, fireAt : {ev.at - EscalateBefore}, kind : {"ESCALATION"}] :
               EscalateBefore > 0 /\ s.fireAt > now}

MutantKeepPending(rows) == rows

\* cancelReminders: only PENDING rows are touched.
Cancelled(rows) ==
  [i \in Ids |-> IF rows[i].status = "PENDING" THEN [rows[i] EXCEPT !.status = "CANCELLED"]
                 ELSE rows[i]]

\* reminder.createMany: each wanted row takes a fresh id.
Create(rows, want, at, origin) ==
  \E fresh \in SUBSET {i \in Ids : rows[i].status = "NONE"} :
    \E spec \in Bijection(fresh, want) :
      row' = [i \in Ids |->
                IF i \in fresh
                THEN [NoRow EXCEPT !.status = "PENDING", !.user = spec[i].user,
                                   !.kind = spec[i].kind, !.fireAt = spec[i].fireAt,
                                   !.eventAt = at, !.origin = origin]
                ELSE rows[i]]

MutantSyncBeforeUpdate(subject) == Create(Cancelled(row), Wanted(event, clock), subject.at, "tx")

\* syncReminders inside the caller's transaction, for the hearing as loadSubject
\* sees it there.
Sync(subject) == Create(Cancelled(row), Wanted(subject, clock), subject.at, "tx")

\* The hearing agrees with ev in all that its reminders depend on.
SameSubject(ev, hearing) == [ev EXCEPT !.acked = hearing.acked, !.closed = hearing.closed] = hearing

----------------------------------------------------------------------------
Init ==
  /\ clock = 1
  /\ \E lawyer, lead, owner \in Users :
       event = [NoEvent EXCEPT !.lawyer = lawyer, !.lead = lead, !.owner = owner]
  /\ staff = Users
  /\ row = [i \in Ids |-> NoRow]
  /\ notified = [i \in Ids |-> 0]
  /\ muted = {}
  /\ worker = [w \in Workers |-> Idle]
  /\ request = [c \in Clerks |-> NoRequest]
  /\ resync = NoSync
  /\ gap = "none"
  /\ edits = 0
  /\ faults = 0

Tick ==
  /\ clock < MaxTime
  /\ clock' = clock + 1
  /\ UNCHANGED <<event, staff, row, notified, muted, worker, request, resync, gap, edits, faults>>

----------------------------------------------------------------------------
(* Requests on the hearing and its matter.  A request that decides on what  *)
(* it read before its transaction, or whose transaction reads a snapshot,  *)
(* has a step for each of its reads and one for all its writes; plain      *)
(* reads see the snapshot, but a row the transaction has written is seen   *)
(* as it is.                                                               *)

Edit ==
  /\ edits < MaxEdits
  /\ edits' = edits + 1
  /\ UNCHANGED <<clock, notified, muted, worker, resync, faults>>

\* A request of several steps begins with a read.
Begin(c, me) ==
  /\ Edit
  /\ request[c] = NoRequest
  /\ request' = [request EXCEPT ![c] = me]
  /\ UNCHANGED <<event, staff, row, gap>>

\* Its transaction opens: the snapshot is taken.
Open(c, me) ==
  /\ request' = [request EXCEPT ![c] = me]
  /\ UNCHANGED <<clock, event, staff, row, notified, muted, worker, resync, gap, edits, faults>>

\* Its transaction writes and commits.
Commit(c) ==
  /\ request' = [request EXCEPT ![c] = NoRequest]
  /\ UNCHANGED <<clock, notified, muted, worker, resync, edits, faults>>

\* createHearing and updateHearing before their transaction.  There is one
\* hearing: nobody else is creating it.
ReadHearing(c) ==
  /\ event.at > 0 \/ \A d \in Clerks : request[d].pc \notin {"hearing", "saving"}
  /\ Begin(c, [NoRequest EXCEPT !.pc = "hearing",
                 !.event = [NoEvent EXCEPT !.at = event.at, !.lawyer = event.lawyer]])

\* insertHearing and updateHearing open their transaction with a check of the
\* attending lawyer.  The hearing will be what the form says; the matter's
\* people are the snapshot's; an acknowledgement outlives a form that agrees in
\* time and lawyer with what was read before.
OpenSave(c, at, active, lawyer) ==
  LET before == request[c].event IN
  /\ request[c].pc = "hearing"
  /\ lawyer \in staff
  /\ Open(c, [NoRequest EXCEPT !.pc = "saving",
                !.event = [at |-> at, active |-> active, lawyer |-> lawyer,
                           acked |-> at = before.at /\ lawyer = before.lawyer,
                           lead |-> event.lead, owner |-> event.owner, closed |-> FALSE]])

\* The hearing is written by id, then syncReminders (or cancelReminders, which
\* has the same effect on an event that is not active).
WriteSave(c) ==
  LET subject == request[c].event
      ev == [event EXCEPT !.at = subject.at, !.active = subject.active,
                          !.lawyer = subject.lawyer, !.acked = @ /\ subject.acked]
  IN  /\ request[c].pc = "saving"
      /\ event' = ev
      /\ Sync(subject)
      /\ gap' = IF SameSubject(subject, ev) THEN "none" ELSE "overtaken"
      /\ Commit(c)
      /\ UNCHANGED staff

\* updateMatter before its transaction (setMatterStatus copies the row and calls
\* updateMatter).
ReadMatter(c) ==
  Begin(c, [NoRequest EXCEPT !.pc = "matter",
              !.event = [NoEvent EXCEPT !.lead = event.lead, !.closed = event.closed]])

\* The lead lawyer and the status of the form against those read before: a
\* change of lead, closing (also from CLOSED to ARCHIVED), or neither.  What the
\* transaction will see of the hearing is its snapshot.
OpenMatter(c, lead, closed, closing) ==
  LET before == request[c].event IN
  /\ request[c].pc = "matter"
  /\ closing => closed
  /\ closed /\ ~before.closed => closing
  /\ Open(c, [NoRequest EXCEPT !.pc = IF lead # before.lead THEN "reassigning"
                                      ELSE IF closing THEN "closing" ELSE "filing",
                               !.event = [event EXCEPT !.lead = lead, !.closed = closed]])

\* The matter is written by id.  A new lead rebuilds the reminders of the
\* hearing (after closing has cancelled them), closing alone cancels them, and
\* so for the hearings the snapshot shows.
WriteMatter(c) ==
  LET me == request[c]
      ev == [event EXCEPT !.lead = me.event.lead, !.closed = me.event.closed]
      subject == [me.event EXCEPT !.owner = event.owner]
  IN  /\ event' = ev
      /\ \/ /\ me.pc = "reassigning" /\ subject.at > 0
            /\ Sync(subject)
            /\ gap' = IF SameSubject(subject, ev) THEN "none" ELSE "overtaken"
         \/ /\ me.pc = "closing" /\ subject.at > 0
            /\ row' = Cancelled(row)
            /\ gap' = "closed"
         \/ /\ me.pc = "filing" \/ (me.pc \in {"reassigning", "closing"} /\ subject.at = 0)
            /\ gap' = IF ev.lead = event.lead THEN gap ELSE "overtaken"
            /\ UNCHANGED row
      /\ Commit(c)
      /\ UNCHANGED staff

\* submitHearingReport: the hearing is HELD or ADJOURNED.
ReportHearing ==
  /\ Edit
  /\ event.at > 0
  /\ event' = [event EXCEPT !.active = FALSE]
  /\ row' = Cancelled(row)
  /\ gap' = "none"
  /\ UNCHANGED <<staff, request>>

\* saveHearingPrep: PREPARING or READY, whatever the status was; reminders
\* are not rebuilt.
PrepareHearing ==
  /\ Edit
  /\ event.at > 0
  /\ event' = [event EXCEPT !.active = TRUE]
  /\ gap' = IF event.active \/ gap = "overtaken" THEN gap ELSE "prep"
  /\ UNCHANGED <<staff, row, request>>

AcknowledgeHearing ==
  /\ Edit
  /\ event.at > 0
  /\ event' = [event EXCEPT !.acked = TRUE]
  /\ UNCHANGED <<staff, row, request, gap>>

\* offboardUser before its transaction: the checks, and the time.
OpenOffboard(c, u, to) ==
  /\ u # to /\ to \in staff
  /\ Begin(c, [NoRequest EXCEPT !.pc = "offboarding", !.now = clock, !.from = u, !.to = to])

\* Matters that are not closed and hearings to come move to the colleague, the
\* leaver's PENDING reminders are cancelled, none are created for the colleague.
WriteOffboard(c) ==
  LET me == request[c]
      u  == me.from
  IN  /\ me.pc = "offboarding"
      /\ event' = [event EXCEPT !.lawyer = IF @ = u /\ event.at >= me.now THEN me.to ELSE @,
                                !.lead   = IF @ = u /\ ~event.closed THEN me.to ELSE @,
                                !.owner  = IF @ = u /\ ~event.closed THEN me.to ELSE @]
      /\ row' = [i \in Ids |-> IF row[i].status = "PENDING" /\ row[i].user = u
                               THEN [row[i] EXCEPT !.status = "CANCELLED"] ELSE row[i]]
      /\ staff' = staff \ {u}
      /\ gap' = IF gap = "none" /\ u \in {event.lawyer, event.lead, event.owner} THEN "handover" ELSE gap
      /\ Commit(c)

\* A check fails, nothing has changed, the transaction rolls back, or the
\* process dies.
GiveUp(c) ==
  /\ request[c] # NoRequest
  /\ Open(c, NoRequest)

\* saveUser: an administrator suspends or reactivates an account.
SetUserStatus(u) ==
  /\ Edit
  /\ staff' = IF u \in staff THEN staff \ {u} ELSE staff \cup {u}
  /\ UNCHANGED <<event, row, request, gap>>

----------------------------------------------------------------------------
(* saveReminderSettings re-materialises future reminders statement by      *)
(* statement on the plain client: cancel, load, create.                    *)

ResyncCancel ==
  /\ edits < MaxEdits
  /\ resync.pc = "idle"
  /\ event.at > clock
  /\ row' = Cancelled(row)
  /\ resync' = [NoSync EXCEPT !.pc = "load", !.now = clock]
  /\ gap' = "settings"
  /\ edits' = edits + 1
  /\ UNCHANGED <<clock, event, staff, notified, muted, worker, request, faults>>

ResyncLoad ==
  /\ resync.pc = "load"
  /\ IF Wanted(event, resync.now) = {}
     THEN resync' = NoSync /\ gap' = IF gap = "overtaken" THEN gap ELSE "none"
     ELSE resync' = [resync EXCEPT !.pc = "create", !.event = event] /\ UNCHANGED gap
  /\ UNCHANGED <<clock, event, staff, row, notified, muted, worker, request, edits, faults>>

ResyncCreate ==
  /\ resync.pc = "create"
  /\ Create(row, Wanted(resync.event, resync.now), resync.event.at, "resync")
  /\ resync' = NoSync
  /\ gap' = IF SameSubject(resync.event, event) /\ gap # "overtaken" THEN "none" ELSE gap
  /\ UNCHANGED <<clock, event, staff, notified, muted, worker, request, edits, faults>>

\* The request dies between two of its statements.
ResyncCrash ==
  /\ resync.pc # "idle"
  /\ faults < MaxFaults /\ clock <= LastFault
  /\ resync' = NoSync
  /\ faults' = faults + 1
  /\ UNCHANGED <<clock, event, staff, row, notified, muted, worker, request, gap, edits>>

----------------------------------------------------------------------------
(* dispatchDueReminders *)

MutantNoReclaim(r, now) == r.status = "PENDING" /\ r.lockedUntil < now

Claimable(r, now) == r.status \in Live /\ r.lockedUntil < now

Due(now) == {i \in Ids : Claimable(row[i], now) /\ row[i].fireAt <= now}

\* orderBy fireAt asc, take limit.
Batches(now) ==
  {b \in SUBSET Due(now) :
     /\ Cardinality(b) = IF Cardinality(Due(now)) <= BatchLimit THEN Cardinality(Due(now))
                         ELSE BatchLimit
     /\ \A i \in b, j \in Due(now) \ b : row[i].fireAt <= row[j].fireAt}

\* What a worker keeps when it is done with a row.
NextItem(me) == IF me.batch = {} THEN Idle ELSE [Idle EXCEPT !.now = me.now, !.batch = me.batch]

StartBatch(w) ==
  /\ worker[w] = Idle
  /\ Due(clock) # {}
  /\ \E b \in Batches(clock) : worker' = [worker EXCEPT ![w].now = clock, ![w].batch = b]
  /\ UNCHANGED <<clock, event, staff, row, notified, muted, request, resync, gap, edits, faults>>

\* The conditional updateMany: the next row of the batch, if it is still
\* claimable at the batch's `now`.
Claim(w) ==
  LET me == worker[w] IN
  /\ me.pc = "ready"
  /\ \E i \in me.batch :
       /\ \A j \in me.batch : row[i].fireAt <= row[j].fireAt
       /\ LET rest == [me EXCEPT !.batch = @ \ {i}] IN
          IF Claimable(row[i], me.now)
          THEN /\ row' = [row EXCEPT ![i].status = "PROCESSING", ![i].attempts = @ + 1,
                                     ![i].lockedUntil = me.now + Lease]
               /\ worker' = [worker EXCEPT ![w] = [rest EXCEPT !.pc = "claimed", !.id = i]]
          ELSE /\ worker' = [worker EXCEPT ![w] = NextItem(rest)]
               /\ UNCHANGED row
  /\ UNCHANGED <<clock, event, staff, notified, muted, request, resync, gap, edits, faults>>

\* findUniqueOrThrow after the claim: the attempts counter used on failure.
ReadRow(w) ==
  /\ worker[w].pc = "claimed"
  /\ worker' = [worker EXCEPT ![w].pc = "read", ![w].attempts = row[worker[w].id].attempts]
  /\ UNCHANGED <<clock, event, staff, row, notified, muted, request, resync, gap, edits, faults>>

MutantSeenOnRetry(i) == row[i].attempts > 1

\* The dedupe lookup of notify.
Seen(i) == notified[i] > 0

\* The transaction's snapshot (REPEATABLE READ): loadSubject, the recipient
\* and the dedupe lookup of notify.
Load(w) ==
  LET i == worker[w].id IN
  /\ worker[w].pc = "read"
  /\ worker' = [worker EXCEPT ![w].pc = "loaded",
                  ![w].go = event.active /\ ~(row[i].kind = "ESCALATION" /\ event.acked),
                  ![w].seen = Seen(i),
                  ![w].reach = row[i].user \in staff]
  /\ UNCHANGED <<clock, event, staff, row, notified, muted, request, resync, gap, edits, faults>>

MutantNoKey(i) == TRUE

\* The unique key (userId, dedupeKey) of Notification admits a row.
KeyFree(i) == notified[i] = 0

Finish(w, i, status) ==
  /\ row' = [row EXCEPT ![i].status = status, ![i].lockedUntil = 0]
  /\ worker' = [worker EXCEPT ![w] = NextItem(worker[w])]

\* The event is gone or acknowledged: the row is cancelled by id.
CommitCancel(w) ==
  /\ worker[w].pc = "loaded"
  /\ ~worker[w].go
  /\ Finish(w, worker[w].id, "CANCELLED")
  /\ UNCHANGED <<clock, event, staff, notified, muted, request, resync, gap, edits, faults>>

\* Notification and SENT in one transaction.  A notification this snapshot
\* has seen, or a recipient who is not ACTIVE, leaves only the SENT mark.
CommitSend(w) ==
  LET me == worker[w]
      inserts == me.reach /\ ~me.seen
  IN
  /\ me.pc = "loaded"
  /\ me.go
  /\ inserts => KeyFree(me.id)
  /\ notified' = IF inserts THEN [notified EXCEPT ![me.id] = @ + 1] ELSE notified
  /\ muted' = IF me.reach \/ me.seen THEN muted ELSE muted \cup {me.id}
  /\ Finish(w, me.id, "SENT")
  /\ UNCHANGED <<clock, event, staff, request, resync, gap, edits, faults>>

\* The unique key refuses a second notification: the transaction throws.
CommitDuplicate(w) ==
  LET me == worker[w] IN
  /\ me.pc = "loaded"
  /\ me.go /\ me.reach /\ ~me.seen
  /\ ~KeyFree(me.id)
  /\ worker' = [worker EXCEPT ![w].pc = "failed"]
  /\ UNCHANGED <<clock, event, staff, row, notified, muted, request, resync, gap, edits, faults>>

Fault ==
  /\ faults < MaxFaults /\ clock <= LastFault
  /\ faults' = faults + 1

\* Any statement of the transaction fails; it rolls back.
Fail(w) ==
  /\ Fault
  /\ worker[w].pc \in {"read", "loaded"}
  /\ worker' = [worker EXCEPT ![w].pc = "failed"]
  /\ UNCHANGED <<clock, event, staff, row, notified, muted, request, resync, gap, edits>>

MutantGiveUpEarly(attempts) == attempts + 1 >= MaxAttempts

Exhausted(attempts) == attempts >= MaxAttempts

\* The catch block: retry later or give up, written by id whatever the row
\* has become.
RecordFailure(w) ==
  LET me    == worker[w]
      final == Exhausted(me.attempts)
  IN
  /\ me.pc = "failed"
  /\ row' = [row EXCEPT ![me.id].status = IF final THEN "FAILED" ELSE "PENDING",
                        ![me.id].lockedUntil = IF final THEN 0 ELSE me.now + Backoff(me.attempts)]
  /\ worker' = [worker EXCEPT ![w] = NextItem(me)]
  /\ UNCHANGED <<clock, event, staff, notified, muted, request, resync, gap, edits, faults>>

\* The process dies, or an error escapes the loop: the batch is abandoned.
Crash(w) ==
  /\ Fault
  /\ worker[w] # Idle
  /\ worker' = [worker EXCEPT ![w] = Idle]
  /\ UNCHANGED <<clock, event, staff, row, notified, muted, request, resync, gap, edits>>

Dispatch(w) ==
  \/ StartBatch(w) \/ Claim(w) \/ ReadRow(w) \/ Load(w)
  \/ CommitCancel(w) \/ CommitSend(w) \/ CommitDuplicate(w) \/ RecordFailure(w)

----------------------------------------------------------------------------
UpdateHearing(c) ==
  \/ ReadHearing(c)
  \/ \E at \in EventTimes, active \in BOOLEAN, u \in Users : OpenSave(c, at, active, u)
  \/ WriteSave(c)

UpdateMatter(c) ==
  \/ ReadMatter(c)
  \/ \E lead \in Users, closed, closing \in BOOLEAN : OpenMatter(c, lead, closed, closing)
  \/ WriteMatter(c)

OffboardUser(c) == WriteOffboard(c) \/ \E u, to \in Users : OpenOffboard(c, u, to)

Request ==
  \/ \E c \in Clerks : UpdateHearing(c) \/ UpdateMatter(c) \/ OffboardUser(c) \/ GiveUp(c)
  \/ ReportHearing
  \/ PrepareHearing
  \/ AcknowledgeHearing
  \/ \E u \in Users : SetUserStatus(u)

Resync == ResyncCancel \/ ResyncLoad \/ ResyncCreate \/ ResyncCrash

Next ==
  \/ Tick
  \/ Request
  \/ Resync
  \/ \E w \in Workers : Dispatch(w) \/ Fail(w) \/ Crash(w)

Spec == Init /\ [][Next]_vars

\* The scheduler runs a tick every interval in every worker process
\* (setInterval in worker/index.ts and instrumentation-node.ts) and a tick
\* works through its batch; nothing makes requests, faults or crashes happen.
Fairness == WF_vars(Tick) /\ \A w \in Workers : WF_vars(Dispatch(w))

FairSpec == Spec /\ Fairness

----------------------------------------------------------------------------
(* Properties *)

RowType == [status : Status, user : Users \cup {NoUser}, kind : Kinds, fireAt : Int,
            eventAt : Nat, origin : {"tx", "resync"}, attempts : Nat, lockedUntil : Nat]

EventType == [at : Nat, active : BOOLEAN, acked : BOOLEAN,
              lawyer : Users \cup {NoUser}, lead : Users \cup {NoUser}, owner : Users \cup {NoUser},
              closed : BOOLEAN]

ClerkType == [pc : {"idle", "hearing", "saving", "matter", "reassigning", "closing", "filing",
                      "offboarding"},
                event : EventType, now : Nat, from : Users \cup {NoUser}, to : Users \cup {NoUser}]

WorkerType == [pc : {"ready", "claimed", "read", "loaded", "failed"}, now : Nat,
               batch : SUBSET Ids, id : Ids \cup {NoId}, attempts : Nat,
               go : BOOLEAN, seen : BOOLEAN, reach : BOOLEAN]

\* Every variable has the type of the table, clock or local variable it models,
\* and a worker past its claim holds a row.
TypeOK ==
  /\ clock \in Nat /\ edits \in Nat /\ faults \in Nat
  /\ event \in EventType
  /\ staff \subseteq Users
  /\ row \in [Ids -> RowType]
  /\ notified \in [Ids -> Nat]
  /\ muted \subseteq Ids
  /\ worker \in [Workers -> WorkerType]
  /\ \A w \in Workers : worker[w].pc # "ready" => worker[w].id \in Ids
  /\ request \in [Clerks -> ClerkType]
  /\ \A c \in Clerks : request[c].pc = "offboarding" => request[c].to \in Users
  /\ resync \in [pc : {"idle", "load", "create"}, event : EventType, now : Nat]
  /\ gap \in {"none", "prep", "handover", "settings", "closed", "overtaken"}

Consistent(me) ==
  /\ me.now <= clock
  /\ \A i \in me.batch : row[i].status # "NONE" /\ row[i].fireAt <= me.now
  /\ IF me.pc = "ready" THEN me.attempts = 0 /\ ~me.seen
     ELSE /\ row[me.id].status # "NONE" /\ row[me.id].fireAt <= me.now
          /\ row[me.id].attempts >= 1 /\ row[me.id].attempts >= me.attempts
          /\ me.seen => notified[me.id] > 0

\* What a worker remembers is never ahead of the table, however old its batch:
\* the rows it will claim were due at its batch's time, the row it holds has
\* counted its claim, and a notification it has seen is still there
\* (the stale reads between reminders.ts:145, 151, 157 and 160).
HoldersConsistent == \A w \in Workers : Consistent(worker[w])

\* Several workers, expired leases, retries and crashes never give one user
\* two notifications for one reminder (reminders.ts:139-141).
NotifiedOnce == \A i \in Ids : notified[i] <= 1

\* A reminder is SENT only if its recipient was notified or was not an ACTIVE
\* user when the transaction looked (reminders.ts:139, notifications.ts:31).
SentMeansNotified ==
  \A i \in Ids : row[i].status = "SENT" => notified[i] = 1 \/ i \in muted

\* A reminder is given up only after MAX_ATTEMPTS claims, however stale the
\* counter the failing worker read (reminders.ts:142, 192).
FailedMeansExhausted ==
  \A i \in Ids : row[i].status = "FAILED" => row[i].attempts >= MaxAttempts

\* No crash, late write or failure puts a live reminder out of reach for longer
\* than the longer of a lease and the backoff cap (reminders.ts:132-133).
LockBounded ==
  \A i \in Ids : row[i].lockedUntil <= clock + Lease \/ row[i].lockedUntil <= clock + BackoffCap

\* A reminder no worker has claimed yet, made by a transaction that changed the
\* hearing or its matter, is for the hearing's present time and for one of its
\* present people, and the hearing is still on (reminders.ts:92-97, matters.ts:334),
\* unless that transaction, or the last to change the lead lawyer, was overtaken:
\* another one committed between its reads and its writes.
UnclaimedFollowsEvent ==
  gap # "overtaken" =>
    \A i \in Ids :
      row[i].status = "PENDING" /\ row[i].attempts = 0 /\ row[i].origin = "tx"
        => /\ event.active /\ row[i].eventAt = event.at
           /\ row[i].user \in {event.lawyer, event.lead, event.owner}

Upcoming == {s \in Wanted(event, clock) : s.fireAt > clock}

Scheduled(s) ==
  \E i \in Ids : /\ row[i].status = "PENDING"
                 /\ row[i].eventAt = event.at
                 /\ row[i].user = s.user /\ row[i].fireAt = s.fireAt /\ row[i].kind = s.kind

\* Every reminder the policy asks for that is not yet due is PENDING, in every
\* state whose last change of the hearing or its matter went through
\* syncReminders and was not overtaken (reminders.ts:93-94, matters.ts:334).
UpcomingCovered == gap = "none" => \A s \in Upcoming : Scheduled(s)

----------------------------------------------------------------------------
(* The engine implements the abstract contract *)

OutcomeOf(i) ==
  IF notified[i] > 0 THEN "told"
  ELSE IF row[i].status = "NONE" THEN "absent"
  ELSE IF row[i].status \in Live THEN "open"
  ELSE "closed"

Contract == INSTANCE ReminderOutcome WITH outcome <- [i \in Ids |-> OutcomeOf(i)]

\* Every step of requests, workers, failures and crashes is a step of the
\* contract or changes no outcome (reminders.ts:135-143).
ImplementsContractSafely == Contract!Safety

\* Under the scheduler's fairness no due reminder stays open for ever: a crash
\* or a failure only delays it (reminders.ts:137-138).
ImplementsContract == Contract!Spec

----------------------------------------------------------------------------
(* What the documentation promises and the code does not keep *)

\* "Called on every create/update/reschedule/status change, so reminders always
\* follow the current event time" (reminders.ts:93-94): every pending reminder
\* of a hearing that is on is for its present time.
PendingFollowsEvent ==
  event.active => \A i \in Ids : row[i].status = "PENDING" => row[i].eventAt = event.at

\* "Reminders are materialised rows (syncReminders) created whenever a hearing,
\* deadline, task or appointment changes" (docs/ARCHITECTURE.md:91): a hearing
\* handed over to a colleague has its reminders.
HandoverCovered == gap \in {"none", "handover"} => \A s \in Upcoming : Scheduled(s)
=============================================================================
