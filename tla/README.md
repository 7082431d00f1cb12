# Verification of the legal-management system

TLA+ models of the parts of this application in which several requests,
background workers and outside services meet on the same rows, TLC runs that
explore them on small instances, and TLAPS proofs of their safety properties
for instances of any size.

The application is a Next.js server with Prisma on MySQL 8.4 (InnoDB,
REPEATABLE READ). Requests run the services in `src/src/server/services`; a
scheduler in the web process or in a separate worker process
(`src/src/worker`) runs the same background jobs every interval. There may be
several such processes and they coordinate through the database only.

Paths below are relative to the repository's root directory, `src/`, unless
they begin with `src/`; the module column names files of this directory.

## 1. The system and its parts

| Component | Code | State | Operations | What is hard |
|---|---|---|---|---|
| Reminder engine | `services/reminders.ts`, `lib/deadline.ts`, callers in `services/events.ts`, `services/matters.ts`, `services/admin.ts`, `auth/account.ts` | `Reminder` rows, `Notification` rows with a dedupe key, the hearing and its matter's people, the people's status | `syncReminders`, `cancelReminders`, `dispatchDueReminders`; create, move, report, prepare, acknowledge a hearing; change the lead of its matter, close it; offboard, suspend; save reminder settings | leases that expire under a live worker, crashes, retries, stale counters, a rebuild outside a transaction, a rebuild from a snapshot that another request has overtaken |
| Delivery queue | `reminders.ts` 206-254, `services/notifications.ts`, `services/channels.ts` | `NotificationDelivery` rows; what the provider accepted | queue a message, claim, send or skip, record | an outside effect that cannot be rolled back, lost answers, late answers of two holders |
| Billing | `services/finance.ts` 20-207 | `Invoice`, `InvoiceItem`, `Payment`, `TimeEntry` | `saveInvoice`, `setInvoiceStatus`, `recordPayment`, `startTimer`, `stopTimer` | checks on snapshots and on reads before the transaction, idempotency keys, unique indexes |
| Scheduler | `worker/index.ts`, `worker/jobs.ts`, `instrumentation-node.ts` | none that lasts | `tick`, `drain` | several processes, death between statements |
| Document vault and workflow | `services/documents.ts`, `approvals.ts`, `portal.ts` | `Document`, `DocumentVersion`, `Approval`, stored files | upload, transition, decide, edit, delete | checks on a read before the transaction; a file that no transaction can roll back |
| Document pipeline | `services/documents-processing.ts`, `malware.ts`, `integrity.ts` | scan, extraction and integrity status of versions, search text, alerts | claim, scan, alert, release, extract, index, verify | claims with a lease and without one, results that arrive late, alerts lost with their sender |
| Matters and access | `services/matters.ts`, `access.ts` | matters, memberships with expiry, access requests | open, update, close; add, remove, request, decide, expire | expiry racing a renewal, two deciders, a decision in two transactions |
| Deadlines, tasks, automations | `services/tasks.ts`, `automation.ts`, `agenda.ts`, `workspace.ts` | tasks, dependencies, deadlines | assign, complete, reopen, automate | checks outside transactions, work given to somebody who leaves |
| Accounts and tokens | `auth/*.ts`, `services/admin.ts` | users, sessions, single-use tokens | create, suspend, offboard, invite, accept, reset; log in | the last owner, a token used twice |
| Numbers and audit log | `matters.ts` 18-45, `server/audit.ts`, `server/db.ts` | counters, one hash chain per organisation | take the next number, append, retry a transaction | locks in different orders, deadlock, retry and rollback |
| Backups | `server/backup`, `worker/backup-requests.ts`, `scripts/backup.ts` | backup records, a directory of archives | ask, claim, dump, pack, seal, prune, test a restore | a directory that two processes prune, a worker that dies in between |
| CRM, clients, court import, knowledge, queries, assistant, platform, user interface | the rest | single rows or none | create, read, update, convert a lead, apply an import | little or nothing: unique keys decide their few races |

How they interact: a request changes a hearing and, in the same transaction,
its reminders; a worker turns a due reminder into a notification and, in the
same transaction, queues external messages; a later job of the same tick
delivers them. An upload registers a version, scans it inline and leaves the
rest to the jobs of the tick; transitions decide on the version that they read
as current. Offboarding, closing a matter and expiry reach over into
memberships, tasks, tokens, hearings and reminders. Whatever opens a client, a
matter or an invoice meets every other such transaction at the counters and at
the audit log. There are no messages between processes; every hand-over is a
row, or a file in the storage.

`PROJECT.json` lists every component with its status and, under `hazards`, what
in this code is hard to test, each at its line and with the properties that
would catch it.

What makes each component correct:

* **Reminders.** Nobody is told twice; what is SENT was told; what is FAILED was
  tried often enough; nothing stays locked out; reminders nobody has picked up
  follow the hearing and its people, and every reminder still to come is planned, but
  for named gaps; every due one is settled in the end.
* **Deliveries.** A message reaches the provider a second time only for a named
  reason; recorded statuses are true; retries are not put off for ever; every
  message is settled in the end.
* **Billing.** The balance is the sum of the payments; the status follows from
  the balance; an entry is billed once; a form pays once; void is final and
  releases what it billed; one timer of a lawyer runs at a time.
* **Documents.** Nothing infected is served or parsed; findings are reported; a
  version is extracted by one process and the search text is the current
  version's; the approvals waiting, the document's status and its versions agree;
  a decision stands; every stored file has an owner; every version is processed
  in the end.
* **Access and accounts.** There is always an owner; a decided request has the
  access that its decision says; a token is claimed once and makes one account;
  work is not left with somebody who was offboarded; temporary access ends.
* **Numbers and audit log.** Numbers are given once, in order and without a gap; the
  chain is linked at every moment; only openings of different kinds deadlock; every
  opening is answered.
* **Backups.** A record says what happened; the newest backup is never pruned; what
  was asked for is made or fails visibly.

## 2. Modules

| Module | What it is |
|---|---|
| `Reminders` | one hearing with its reminders, people, requests, settings rebuild and dispatchers |
| `ReminderOutcome` | the abstract contract: each reminder is absent, open, told or closed |
| `RemindersProofs` | theorems about `Reminders` |
| `Deliveries`, `DeliveriesProofs` | the queue of external messages and its dispatchers |
| `Billing`, `BillingProofs` | invoices, billed entries and payments under concurrent requests |
| `DocumentPipeline`, `DocumentPipelineProofs` | scan, extraction and integrity check of the versions of one document |
| `Documents`, `DocumentsProofs` | the vault and the approval workflow of that document; extends `DocumentPipeline` and implements it |
| `Office` | the requests, which the next two modules share |
| `Practice` | the people of an office and their access to one matter |
| `Intake`, `IntakeProofs` | opening clients, matters and invoices: counters, locks, audit chain, retries |
| `Desk`, `DeskProofs` | a task, timers and a court import; extends `Practice` and `Intake`, and implements `Intake`; the theorems are about all three |
| `Backups`, `BackupsProofs` | requested and nightly backups in one directory |
| `MCReminders`, `MCDeliveries`, `MCBilling`, `MCDocumentPipeline`, `MCDocuments`, `MCDesk`, `MCBackups` | constants and symmetry for TLC |

In every module an operator named `Mutant...` is a faulty variant of the
definition that follows it. It is used nowhere; put in that definition's place
it makes the property that `PROJECT.json` pairs with it fail.

In all modules plain reads of a transaction come from the snapshot of its first
one, writes and locking reads work on current, locked rows; so a transaction is
its snapshot and one step with all its writes, unless a lock makes it a single
step. Only `Intake` is finer: there the locks themselves are the subject. The
requests of every instance come from somebody who may make them: permissions
and capabilities are not modelled.

### 2.1 Reminders

One step is one SQL statement or one transaction. `row` is the `Reminder` table,
`notified[i]` counts the notifications with the dedupe key of reminder `i`,
`worker[w]` holds the local variables of `dispatchDueReminders`, `request[c]` what a
request of several steps has read, and `resync` the local variables of
`saveReminderSettings`.

| Code | Actions |
|---|---|
| `insertHearing`, `createHearing`, `updateHearing` (`events.ts` 25-108), with `syncReminders` | `ReadHearing` (before the transaction), `OpenSave` (its first read, the snapshot), `WriteSave` |
| `updateMatter` (`matters.ts` 293-341): a change of lead, closing, opening again | `ReadMatter`, `OpenMatter` (snapshot), `WriteMatter` |
| `offboardUser` (`account.ts` 170-205) | `OpenOffboard` (the checks and the time, before the transaction), `WriteOffboard` |
| any of these is refused, changes nothing, rolls back or dies | `GiveUp` |
| `submitHearingReport`, `saveHearingPrep`, `acknowledgeHearing`, `saveUser` | `ReportHearing`, `PrepareHearing`, `AcknowledgeHearing`, `SetUserStatus` |
| `saveReminderSettings` calling `syncReminders` on the plain client | `ResyncCancel`, `ResyncLoad`, `ResyncCreate`, `ResyncCrash` |
| `dispatchDueReminders`: the query for due rows | `StartBatch` |
| the conditional claim | `Claim` |
| `findUniqueOrThrow` after the claim | `ReadRow` |
| the transaction's reads | `Load` |
| the transaction's end | `CommitSend`, `CommitCancel`, `CommitDuplicate`, `Fail` |
| the catch block | `RecordFailure` |
| death of the process | `Crash` |

Details that decide what is true and are kept: a batch reads the clock once, so
leases and backoffs count from the batch's start; the row is finished and
failures are recorded by id, whatever another worker has made of it meanwhile;
the dedupe lookup reads the snapshot, so that a second insert is refused only by
the unique key and then becomes a recorded failure; a recipient who is not ACTIVE
is not notified although the row becomes SENT (history variable `muted`). The
hearing's other columns, the text of notifications and time zones are left out, and a
hearing names its attending lawyer (`loadSubject` takes the lead where it does not).
Deadlines, appointments and tasks go through the same functions with other
recipients; one hearing stands for any subject.

A save of a hearing and a change of its matter are transactions at REPEATABLE READ:
`syncReminders` sees the row that its own transaction has written as it is, and all
other rows as they were at the transaction's first read. So the people of the matter
for whom `WriteSave` makes reminders, and the hearing for which `WriteMatter` makes
them, are those of the snapshot; what another request has changed in between is in
the table and not in the reminders.

`gap` is a history variable: it names the last request that left the hearing
without rebuilt reminders, until a request or a settings rebuild that ran undisturbed
replaces them. Four values are gaps by design of the code: `prep`, `handover`,
`settings` and `closed` (a matter that was closed, and is perhaps open again, which
rebuilds nothing). `overtaken` is the one by accident: the transaction that rebuilt
the reminders was overtaken, so that what it had read is no longer so when it
writes, or a form that had read the old lead wrote it back without a rebuild.
`UpcomingCovered` is about states without a gap, `UnclaimedFollowsEvent` about all but
`overtaken` ones; both would fail without that exception, which section 6 lists.

### 2.2 Deliveries

`Enqueue` is `notify`'s insert; `StartBatch`, `Claim`, `ReadRow`, `Skip`, `Send`,
`SendFails`, `Record` and `Crash` are the steps of `dispatchPendingDeliveries`
and of the adapters in `channels.ts`. The provider is outside the code: the
model has only how often it `accepted` each message. `SendFails` covers both a
refusal and an answer lost after acceptance. `reclaims`, `unanswered` and
`crashes` are histories that say why a message could be sent again. Message texts
and the three channels are one kind of message with or without a configured
adapter.

### 2.3 Billing

Every request is a `clerk` with a local state. Plain reads of a transaction see
the snapshot of its first plain read, writes and `FOR UPDATE` work on current,
locked rows, so a transaction is its snapshot read followed by one step with all
its writes; where `FOR UPDATE` comes first, the read after it is current too and
the transaction is one step.

| Code | Actions |
|---|---|
| `saveInvoice`, new | `OpenNew` (count of billed entries), `WriteNew` |
| `saveInvoice`, edit | `OpenEdit` (draft check and snapshot), `WriteEdit` |
| `setInvoiceStatus` | `ReadStatus` (before the transaction), `WriteStatus` (under the lock) |
| `recordPayment` | `ReadInvoice`, `LookupKey`, `Pay` (under the lock), `LoseKey` (P2002, then `LookupKey` again) |
| any rejected check, rollback, deadlock or death; `withTxRetry` is this and a new request | `GiveUp` |

An item row carries the number of the save that wrote it, which stands for its
id: a row that was deleted and written again is another row, and an old snapshot
still holds the first. A payment's idempotency key is the form opened on the
invoice. A refund is a negative amount. VAT, rounding, item texts, invoice
numbers (they are in `Intake`) and permissions are left out; totals are any of a set of naturals. The
histories are `late` (invoices whose draft was saved after they left DRAFT) and
`answered` (forms answered with a payment id).

### 2.4 DocumentPipeline

The rows are `version` (`DocumentVersion`), `current` (`Document.currentVersion`)
and `index` (whose text `Document.searchText` is); `file` is what the storage
holds; `worker` is the local state of a process, be it a tick of the scheduler or
the request that has just uploaded; `alerted` are the notifications under their
dedupe keys.

| Code | Actions |
|---|---|
| `scanVersion` (`malware.ts` 85-125) | `ClaimScan`, `FinishScan`, `Alert` |
| `scanPendingVersions` (`malware.ts` 133-139) | `ReleaseQuarantine` |
| ten minutes pass over a claim | `Age` |
| `processPendingDocuments` (`documents-processing.ts` 58-77) | `ClaimText`, `LoadText`, `StoreText`, `FailText`, `IndexText` |
| `verifyVersionIntegrity` (`integrity.ts` 13-45) | `ReadFile`, `WriteCheck` |
| the storage, a process, the deployment | `ChangeFile`, `Crash`, `Redeploy` |

Claims are conditional updates and results are written by id, as in the code. The
scan's claim runs out, the extraction's never does: `abandoned` is a history of
versions whose extractor died, `lost` of alerts whose sender died, `late` of a
search text written by an extractor that an upload had overtaken. The properties
name these three as the only exceptions. Contents, checksums, text and OCR are
the verdict, the damage and the version that they stand for.

### 2.5 Documents

`Documents` extends the pipeline: an upload registers the version that the
pipeline then processes. `doc`, `vstatus`, `approval` are rows, `request` the local
variables of each request, `stray` the requests whose file no row names.

| Code | Actions |
|---|---|
| first upload, by the staff or the portal | `Create` |
| `loadDocumentForUser`, before each of the following | `Load` |
| `storeUpload` of a new version (`documents.ts` 227-253) | `StoreFile`, `AddVersion`, `AbandonUpload` |
| `transitionDocument` (343-370) | `OpenMove`, `RefuseMove`, `CommitMove` |
| `decideApproval` (`approvals.ts` 31-38) | `Pick`, then a transition |
| `updateDocumentMeta` (312-329) | `CheckEdit`, `CommitEdit` |
| `deleteDocument` (372-381) | `Delete` |
| the process dies | `Die` |

The pending approvals that a transition resolves come from its snapshot
(`OpenMove`), its writes go to what is there at `CommitMove`. The approval that it asks
for is `made` for the version in its title, the one that was current when the document
was read (`documents.ts` 344, 356), whatever is current by then. The histories
`overtaken` (an approval asked for a version that an upload had replaced meanwhile),
`carried` (the status was written by a request that had read another current
version), `missed` (an approval that a transition's snapshot did not show) and
`kept` (an edit that found the document shared) name what the checks before the
transaction let through.

### 2.6 Practice and Desk

`Practice` has the tables `user`, `matter`, `member`, `ask` (access requests) and
`token`; `sweep` is what `expireTemporaryAccess` has read and not yet deleted.
`Desk` adds `task`, `prior` (whether a task it depends on is open), `timer` and
`court`.

| Code | Actions |
|---|---|
| `saveUser` with `ownerGuard` (`admin.ts` 17-60) | `GuardUser`, `CommitUser`, `CreateUser` |
| `offboardUser` (`account.ts` 170-205) | `LoadOffboard`, `OpenOffboard`, `CommitOffboard`; in `Desk`, with the task, `Offboard` |
| `upsertMember`, `removeMember` (`matters.ts` 360-396) | `CheckMember`, `WriteMember`, `LoadRemoval`, `RemoveMember` |
| `requestAccess`, `decideAccess` (398-438) | `LoadAccess`, `RequestAccess`, `LoadAsk`, the grant as above, `DecideAccess` |
| `setMatterStatus`, `updateMatter` (293-340, 508-519) | `CopyMatter`, `LoadMatter`, `WriteMatter`; in `Desk`, with the automation, `ChangeMatter` |
| `inviteUser`, `issueToken`, `consumeToken`, `acceptInvitation`, `resetPassword` | `OpenIssue`, `IssueToken`, `FindToken`, `ConsumeToken` |
| `expireTemporaryAccess` (`reminders.ts` 256-270) | `Expire`, `ReadExpired`, `SweepOne` |
| `saveTask`, `setTaskStatus`, `deleteTask` | `CheckAssignee`, `SaveTask`, `LoadTask`, `SetTask`; of a task it depends on `SetPrior` |
| `startTimer`, `stopTimer` (`finance.ts` 191-207) | `FindRunning`, `FindTimer`, `StopTimer`, `StartTimer` |
| `applyImport`, `discardImport` | `FindImport`, `ApplyImport`, `DiscardImport` |

A membership carries the number of its row, because the sweep deletes by id what
may have been deleted and added again. The histories `overlap` (two removals of
owners under way at once), `left` and `carried` (work given to somebody who had
left), `deciders`, `claims`, `rivals`, `applied`, `early` and `overtaken` (completions
overtaken by a dependency that opened) name the cases that the code lets through, and
the properties exclude exactly those. `rivals` names both the starts that were under
way when a start looked for a running timer and the timers that ran beside the one it
found: `startTimer` stops only one, so with three requests a timer left behind by two
overlapping starts may run beside a third that overlapped neither.

### 2.7 Intake

The transactions of `createClient`, `convertLead`, `createMatter` (with a given
client or a new one), `saveInvoice` of a new invoice, and a single audit entry.
`counter` is the `Counter` table including what is not committed, `made` the
committed rows, `log` the audit table, `lastSeq` the AUTO_INCREMENT behind its `seq`
(a rollback takes its entries back but not their numbers), `tx` the place, locks,
numbers and attempts of each transaction.

| Code | Actions |
|---|---|
| `nextCounter` (`matters.ts` 27-35): the UPDATE, the INSERT IGNORE with the second UPDATE | `Number`, `InsertCounter` |
| the insert of the client, the matter or the invoice | `Write` |
| `audit` (`audit.ts` 31-72): `FOR UPDATE` on the office, the entry | `LockLog`, `Chain` |
| commit; `withTxRetry` (`db.ts` 22-34) | `Commit`, `Victim` |
| any other error; the unique key of a lead's client | `Abort`, `Duplicate` |

What is assumed of InnoDB: an update of a row locks it to the end of the
transaction; an update that finds none locks the gap, which does not exclude
other such locks but keeps others from inserting; an insert with a foreign key
to the office shares its row; `FOR UPDATE` takes that row alone; a transaction on
a cycle of waiting ones is rolled back. Counters without a row count as
neighbours in the index, so any of their gaps is the same gap; a lock request does
not queue behind another that waits. Both make more deadlocks possible than
there need be, never fewer. A lock-wait timeout is the `Abort` of a transaction,
which may happen anywhere; that `withTxRetry` would try again is left out there.

`Desk` extends the module: a request of `Desk` may become a transaction of `Intake`
(`BeginOpening`). Openings touch no row that the other requests of `Desk` change, so
the constant `Mixed` chooses whether the two are interleaved or, in one behaviour, every
request opens something or none does. The run has `Mixed = FALSE`, to stay small; with
`TRUE` the same properties hold over 326k states, and the theorems are about either.
`convertLead`
(`crm.ts` 56) is the one caller of `nextCounter` that is not wrapped in
`withTxRetry`, although the comment at `matters.ts` 25 says that callers retry;
`Retries` keeps the difference.

### 2.8 Backups

`record` is the `BackupRecord` table, `archive` the archives with the files that
are left of each, `process` a worker or the nightly command, `asking` the uses of
the button between their look and their insert.

| Code | Actions |
|---|---|
| `runDatabaseBackup` (`services/backup.ts`) | `Ask`, `Queue` |
| `runRequestedBackups` (`worker/backup-requests.ts`) | `Claim`, `Report`, `Fail` |
| `runDb`, `runStorage`, `runRestoreTest` (`scripts/backup.ts`) | `Start`, `Succeed`, `Fail` |
| `backupDatabase`, `backupLocalStorage` (`server/backup/index.ts`) | `CountRows`, `Dump`, `Pack`, `Seal` |
| `pruneBackups` | `List`, `Prune` |
| `restoreTest` | `PickArchive`, `FinishTest` |
| time, an error, the death of a process | `Age`, `Fail`, `Crash` |

Nothing keeps a worker and the nightly command apart, so they prune one directory
together. An archive is `short` when rows were deleted between their count and the
snapshot of the dump; `restoreTest` compares with `>=`. The off-site copy with its
own retention, keys and the other checks of a restore are left out; archives are
assumed to have distinct names.

## 3. Runs

| Run | Question | Instance | Result |
|---|---|---|---|
| `reminders_requests` | Do unclaimed reminders follow the hearing and its people and is everything to come planned, when two requests cross, with a settings rebuild and a worker? | 1 worker, 2 crossing requests of 3, no fault, 3 rows, 2 users, escalation, 2 times | holds, 1.7M states |
| `reminders_dispatch` | Is nobody told twice, is every outcome honest and every due reminder settled when leases expire under two workers? Does the engine implement its contract? | 2 workers, 2 rows, 2 requests, 1 fault until time 3 of 5, lease 1, batch of 1 | holds, 292k states |
| `reminders_stale` | Do pending reminders always follow the hearing, as the comment says? | 1 worker, 3 rows | **violated** |
| `reminders_gap` | Are there reminders after every change, as the architecture document says? | 1 worker, 3 rows | **violated** |
| `deliveries` | Are resends explained, statuses true, messages settled? | 2 workers, 1 message, 2 faults, 1 suspension | holds, 108k states |
| `delivery_resend` | Does a resend need a crash, as the comment says? | 2 workers, 2 messages, no faults | **violated** |
| `billing` | Do balances, statuses, billed entries and forms stay right under two concurrent requests? | 2 clerks, 2 invoices, 1 entry, 1 form, totals 0 and 2, amounts -1, 1, 2 | holds, 1.4M states |
| `billing_locked` | Is an issued invoice locked, as the message to the user says? | 1 invoice | **violated** |
| `pipeline` | Does nothing infected get out, is every finding reported, every version processed? | 2 processes, 2 versions, the second infected, 1 fault | holds, 81k states |
| `documents` | Do inbox, workflow, versions and files agree, and do decisions stand? | 3 requests, 1 process, 2 versions, the second infected, no fault of the pipeline | holds, 516k states |
| `desk` | Is nothing given twice or left behind when two requests cross, does temporary access end, are numbers in order, the chain linked and openings answered? | 3 people (one of them still without an account), 2 requests, one earlier request and token; 2 attempts, one counter that exists | holds, 190k states |
| `backups` | Are records true, does the newest backup stay, is what was asked for made? | 1 worker, 1 nightly command, 3 records, 2 uses of the button at once, 1 fault | holds, 365k states |

Why the bounds are enough to matter. Reminders: two workers and a lease of one
minute let a lease expire in every local state of the other worker, so that a fault of
one and a stall of the other interrupt a retry as well; `MaxAttempts` 2 reaches both the retry
and the final failure; a batch limit of 1 with two rows leaves a due row for a
later batch; the requests make a row created, closed and created again, a
settings rebuild with an edit between its statements, or a save, a change of lead and an
offboarding any two of which cross; the clock runs past the
hearing. Deliveries: as above, and the provider may accept while the answer is
lost. Billing: two clerks are any pair of racing requests; two invoices compete
for one entry and void one to bill the other; total 2 with amounts 1 and 2
reaches every status, full payment, part payment and refund; total 0 is the
boundary of `statusFor`. Pipeline: two processes are a claim and its replacement,
two versions an upload that overtakes; a fault is any of crash, error, damage and
redeployment, and every one of them alone is enough for the exceptions that the
properties name. Documents: three requests are one that sends to review, one that
decides and one that crosses them. Desk: two requests and the sweep are any pair
that races, and the state before them holds an open access request, a token and a
temporary membership for each of them to act on; of the counters one has a row and
two have none, so both ways of a deadlock are reached. Backups: three archives are
the newest, an older one and one being made. The mutants are the evidence that each
property can fail within these bounds.

Symmetry (rows, users, clerks and invoices, or requests) is used only in runs
without liveness. `CHECK_DEADLOCK FALSE` is set everywhere because the bounds on
clock, edits, requests, faults and records let every instance run out of steps, and
the real system may be idle. Type invariants are not among the runs' properties:
they are proved.

### Fairness

* `reminders_dispatch` and `deliveries` assume that the clock advances and that each
  worker's dispatch steps are weakly fair. `worker/index.ts` 32 and
  `instrumentation-node.ts` start a tick with `setInterval` for the life of the
  process, `jobs.ts` 20-50 runs both dispatchers in each tick and survives an error
  of any job, and a dispatcher loops over its batch. A process that dies is started
  again by its supervisor: `Crash` puts the worker back to `Idle`. Faults stop at
  `LastFault`: with a worker that dies for ever nothing could be promised. Fairness
  is per worker, not per row: that no row is starved follows from the order and
  limit of a batch.
* `pipeline` assumes weak fairness of what a process does once it has a claim, and of
  the ten minutes that age a claim. The claims themselves and the integrity sweep
  are strongly fair, for each version: the ticks come back for ever and each looks at
  every version that is waiting, in the order of its rows, but between two ticks
  another process may take it.
* `desk` assumes weak fairness of the worker's sweep (`jobs.ts` 25-40: every tick runs it,
  whatever the other jobs do), of a transaction that need not wait, and of InnoDB,
  which resolves every deadlock.
* `backups` assumes weak fairness of each process's next step and of a worker's claim.
  Nobody has to press the button, and nothing is assumed of the nightly command's
  start.

No fairness is assumed of requests, faults or crashes.

## 4. Findings

Four runs show that the code does not do what a comment or a text of the
repository says. The exact lines are in `PROJECT.json`.

1. `reminders_stale`: `saveReminderSettings` (`admin.ts` 165) rebuilds reminders
   one statement at a time. Cancel, load, **a request moves the hearing**, create:
   the inserted rows are for the old time, next to the right ones. The comment at
   `reminders.ts` 93-94 says that reminders always follow the event time.
2. `reminders_gap`: `offboardUser` (`account.ts` 196) moves hearings to a
   colleague and cancels the leaver's reminders; none are created for the
   colleague until the hearing is next saved. `docs/ARCHITECTURE.md` 91 says that
   they are created whenever a hearing changes.
3. `delivery_resend`: the lease of a message is counted from the start of the
   batch (`reminders.ts` 212, 228). Late in a slow batch a message is claimed with
   a lease that has already run out, and a second worker sends it as well, with no
   crash. The comment at 208-210 names a crash as the cause of a resend. The
   weaker `ResendsExplained` holds.
4. `billing_locked`: `saveInvoice` checks DRAFT on an unlocked snapshot read and
   updates by id (`finance.ts` 66-79). A save that read the draft before another
   request issued it replaces the issued invoice's items and total, even after a
   payment; the invoice's status then need not match its balance. The message to
   the user says "Issued invoices are locked". `StatusMatchesBalance` and
   `VoidReleases` therefore exempt the invoices in `late`, and hold for all others.

## 5. Proofs

Proved with TLAPS for every value of the constants that meets the `ASSUME`s of
the modules (types, and sentinels that are not members of the sets).

### Reminders (`RemindersProofs`)

`Spec => []IInv` by induction over every action, where

    IInv == TypeOK /\ HoldersConsistent /\ UnusedUntold /\ NotifiedOnce
            /\ SentMeansNotified /\ FailedMeansExhausted /\ LockBounded
            /\ UnclaimedFollowsEvent

`UnclaimedFollowsEvent` is the one about requests. A request either rebuilds the
reminders (`Rebuilds`) or only cancels some and changes nothing that they depend on, and of
a rebuild `gap` knows whether the hearing it was made for (`SameSubject`) is the one
that is written; so the reminders made are for the present time and people, or `gap` says
`overtaken` (`RequestUnclaimed`, over `SaveRebuilds`, `MatterWrites`, `OffboardWrites`).

Most of the other properties are not inductive alone. A worker writes by id long
after it claimed, so each step needs what the worker may still believe:
`HoldersConsistent` says that the row it holds exists, that its attempts counter
has counted the claim and is never below the one the worker remembers (hence
`FailedMeansExhausted` although the counter is stale), that its clock is not
ahead (hence `LockBounded` although leases count from the batch's start) and
that a notification seen is still there (hence `SentMeansNotified`).
`UnusedUntold` says that a row that does not exist yet was never told of; it keeps
`NotifiedOnce` and the refinement when a row is created. Each property is
preserved in a lemma of its own over all actions.

Theorems: `TypeCorrect`, `Invariance`, `ToldOnce`, `SentIsTold`,
`FailedIsExhausted`, `LocksExpire`, `UnclaimedIsCurrent`, `HoldersAreConsistent`,
and `RefinesContract`: the engine implements the safety part of
`ReminderOutcome`, each step being a step of the contract or a stutter under
`OutcomeOf`. Helper lemmas state what `Cancelled`, `Create`, `Wanted` and
`Backoff` return.

`UpcomingIsCovered` has an induction of its own on top of `IInv`. What `Wanted` asks
for depends on the clock, which moves while a settings rebuild is between two
statements; `Asked(ev)` is what it asks for with the clock left out, and
`AskedIsWanted` says that of reminders still to come the two are the same. Then only two
things can happen to coverage: nothing but the clock and rows that are due change
(`CoverageStays`), or everything asked for is made from some state of the hearing that
asks for the same (`CoverageMade`). A worker touches only rows that are due at its
batch's time, which is not ahead of the clock, and the settings rebuild computes with a
time that is not ahead either (`SyncBehind`, the one addition to the invariant); if the
hearing changes between its statements, or between the snapshot of a request and its
writes, `gap` says so.

### Billing (`BillingProofs`)

`Spec => []IInv` with

    IInv == TypeOK /\ ClerkReads /\ UnusedUnpaid /\ BilledOnce
            /\ StatusMatchesBalance /\ VoidReleases /\ SubmittedOnce

`ClerkReads` carries what a clerk read before the transaction to the check under
the lock: someone about to issue read a draft, someone about to void read an
invoice that was not void. With `StillValid` it gives that only drafts are issued
and that void is final. `UnusedUnpaid` starts a new invoice from a zero balance.
A draft's balance is zero by `StatusMatchesBalance` itself, which is why an edit
of a draft may choose any total. Four lemmas say what a well-formed change of
one invoice, of one clerk, of the items and of the payments keeps; each writing
action has its lemma on top of them, and all reading actions share one.

The ledger of an invoice, the sum of its payments, is stated as a count: one unit for
each unit of money paid, less one for each refunded (`Units`, `Ledger`). A count over a
table of any length is within the prover's reach where a fold is not: `PayLedger` adds
the finite set of units of one payment, whose number is its amount.

Theorems: `TypeCorrect`, `Invariance`, `EntriesBilledOnce`, `StatusIsBalance`,
`VoidIsReleased`, `FormsPaidOnce`, `LedgerIsBalance`, and the action property
`VoidStaysVoid`.

### Deliveries (`DeliveriesProofs`)

    IInv == TypeOK /\ ClocksBehind /\ CountersBehind /\ AnswersTrue /\ RightsCounted
            /\ SentMeansAccepted /\ FailedMeansExhausted /\ RetryBounded

`RightsCounted` treats the right to send a message as a token. A row that was not
claimed has it to give; a worker has it from its claim until the provider accepts, or
until it has recorded a failure, which gives it back to the row. Acceptances, workers
with the right and the row's own right together never exceed one plus the reclaims and
the acceptances answered with an error, and `ResendsExplained` is that count without
the two middle terms. That finitely many workers have the right is itself part of the
invariant, so nothing is assumed of `Workers`. The lemma `RightsStep` follows the
token through each action.

The other parts say what a worker's memory is worth: its clock and its attempts
counter are never ahead of the table's (`ClocksBehind`, `CountersBehind`), which gives
`RetryBounded` and `FailedMeansExhausted` although both are computed from old values,
and an answer SENT comes from the provider (`AnswersTrue`), hence `SentMeansAccepted`
even where a late answer is recorded over another worker's. Theorems: `TypeCorrect`,
`Invariance`, `ResendsHaveCauses`, `SentIsAccepted`, `FailedIsExhausted`,
`RetriesAreBounded`. The only assumption is `DeliveryConstants`.

### Documents (`DocumentPipelineProofs`, `DocumentsProofs`)

The pipeline's invariant is in three parts, each proved over all actions:

    PipelineInv == ScanInv /\ AlertInv /\ TextInv

`ScanInv` is `PipelineTypeOK` with what workers hold (`WorkersHold`), rows not used
yet (`UnusedRows`), the scanner's setting (`ScannerState`) and `Quarantine`: a
verdict other than CLEAN or NOT_SCANNED stays until the file is scanned again.
`AlertInv` carries a finding from the write to the alert (`BeforeTold`,
`FindingsAlerted`). `TextInv` ties each claimed version to the one extractor that
holds it (`OneExtractor`, `Loaded`, `AbandonedRows`) and the search text to what that
extractor loaded (`IndexFollowsCurrent`). Theorems: `PipelineSafe`,
`InfectedStaysOutHolds`, `FindingsAlertedHolds`, `OneExtractorHolds`,
`IndexFollowsCurrentHolds`.

`DocumentsImplementPipeline` proves `Spec => PipelineSpec`: every step of the vault
is one of the pipeline's or leaves it alone, so its theorems hold of the composed
system (`VaultInfectedStaysOut`). The workflow's invariant `WorkflowInv` adds
`NothingYet` (before the first upload there is nothing to decide), `MovesAllowed`
(what an open transition read allowed its move) and `EditsAllowed` to the properties
`InboxMatchesWorkflow`, `StatusIsVersionStatus`, `NoOrphanFiles` and
`SecretsNotShared`. Theorems: `WorkflowSafe`, `DocumentsTyped`, `InboxMatches`,
`StatusMatches`, `FilesNamed`, `SecretsKept`, and the action properties
`DecisionsStandHolds` and `FiledStaysHolds`. The only assumption is
`PipelineConstants`.

### Backups (`BackupsProofs`)

    IInv == TypeOK /\ HoldInv /\ ArchiveInv /\ PruneInv /\ VerdictsHonest /\ NewestKept

A record has one holder because only records in REQUESTED or not there yet are taken
(`HoldInv`). An archive has one maker, who finishes it before it prunes
(`ArchiveInv`). `PruneInv` says that only old files are being deleted, that a pruner's
own archive is complete, of the database and not old, and that whoever deletes what
another expects to find has noted the overlap; since archives grow old in the order
in which they were begun, the newest complete one is never among what is deleted
(`NewestKept`), and a missing file has a cause (`VerdictsHonest`). Theorems:
`BackupsSafe`, `BackupsTyped`, `RecordsAreHonest`, `NewestStays`. The only assumption
is `BackupConstants`.

### Intake (`IntakeProofs`)

    IntakeInv == IntakeTypeOK /\ AllPlaced /\ OneHolder /\ CountersMatch /\ RowsGiven
                 /\ LogInv

`AllPlaced` says for each place in a transaction which locks and numbers it has: a
number is guarded by the row of its counter, an entry in the log by the office's row,
and nothing is kept when the transaction is over. With `OneHolder` (an exclusive lock
has one holder) it follows that at most one number of a counter and one writer of the
log are under way. `CountersMatch` and `RowsGiven` then give `NumbersInOrder`: the
number under way is the counter's and the committed rows have all the others.
`LogInv` says that the entries of a transaction under way are at the end of the log,
so a rollback cuts its tail and whatever is seen is linked (`ChainLinked`).
`DeadlocksExplained` follows from `AllPlaced` and `OneHolder`: two members of a cycle
hold locks, each of them then holds the row of the counter that it began with, and
that row has one holder. Each action has a lemma that says what it
does to one transaction (`NumberEffect`, `ChainEffect`, `EndingEffect` and so on);
lemmas about the counters and about the log are stated over these effects. Theorem:
`IntakeInvariant`. The only assumption is `IntakeConstants`.

### Practice and Desk (`DeskProofs`)

`DeskImplementsIntake` proves `Spec => IntakeSpec`, each step of `Desk` being one of
`Intake` or a stutter, so `IntakeInv` holds of the composed system:
`NumbersStayInOrder`, `ChainStaysLinked`, `DeadlocksStayExplained`. `DeskTypes` is the
type invariant of the three modules. The lemma `ServesStep` says that a step serves one
request, which goes on or is over, and which tables it leaves alone; the following
inductions, one for each group of tables, then look only at the actions that touch the
group.

* `OwnerStays`: `OwnersInv`, until two removals overlap, what a removal has counted is
  still there.
* `DecisionsKept`: `AskInv` says where each decider of an access request is
  (`DecidersInPlace`) and what its status says of them (`AsksExplained`).
* `InvitedOnce`: `TokenInv`. A token is used exactly when it was claimed
  (`ClaimsCounted`); whoever has no account is the newcomer (`Strangers`), so the
  account is made from one token at most (`MadeOnce`).
* `WorkHandedOver`: `WorkTransferred` with `TransfersAway` (nobody's successor is
  themselves).
* `DeskStaysConsistent`: `PriorInv`, whoever completes a task while a dependency is open
  had counted before; `ImportMatches`; and `TimerInv`: of two starts under way one has
  seen the other (`StartsMet`), and a start and a timer that runs have met unless it is
  about to stop it (`StartsMeetRunning`). The last is where the first version of the
  property failed: it named only overlapping starts, and was false of three requests
  (2.6).

Assumptions: `PracticeConstants`, `IntakeConstants`, `DeskConstants`.

### Only model-checked

Every invariant and action property of the passing runs is a theorem. What remains with
TLC is liveness, which is out of the prover's reach: `ImplementsContract` (its safety
part is proved), `EventuallySettled`, `EventuallyProcessed`, `TemporaryAccessEnds`,
`RequestsAnswered`, `QueuedIsMade`.

## 6. What is not modelled, and why

Left out for good: pages, forms and translations, searches and reports (they read or
only call services); the assistant (an outside model's text); storage, encryption,
configuration and rate limits; parsing and formatting; permissions and capabilities,
except where a change of status or membership alters what a concurrent step does.
More than two thirds of the repository's lines are of these kinds. MySQL itself is
taken as documented: REPEATABLE READ snapshots, row locks to the commit, unique
indexes that check current rows.

Not modelled in what is: sessions, logins, lockout and second factors; generic
approvals, decisions on timeline entries; leads other than their conversion,
consultations and bookings; automations other than that of closing a matter; deadlines
and appointments, whose reminders go through the code of `Reminders`.

Simplifications that a reader of the code should know of:

* The first upload of a document is one step. (`portalUpload` stores the file and,
  unlike `storeUpload`, does not remove it when its transaction fails.)
* A lock-wait timeout is not retried in `Intake` (above); a deadlock is.

What the models show of the code against a text of the repository, beyond the four runs
of section 4. Each is a case that a property names as its exception, so that the property
holds of everything else; none has a run of its own.

* "Reminders follow the responsible lawyer" (`matters.ts` 334). A save of the hearing, or
  a change of lead, that another change of lead or an offboarding overtakes between its
  first read and its writes makes reminders for the old lead and none for the new; and
  a form that had read the old lead writes it back without a rebuild (`overtaken` of `gap`).
  The cause is the snapshot: `loadSubject` reads the matter as it was.
* "[A]pprovals never carry over silently" (`documents.ts` 243). An approval asked for by
  somebody who read the document before an upload is created after the upload has
  cancelled the others: it waits for the old version in the inbox of a document whose new
  version nobody sent to review (`overtaken` of `approval`).
* "The office must keep at least one active owner" (`i18n/messages/en.ts` 244). `ownerGuard`
  and `offboardUser` (`account.ts` 178-182) count the other owners in their snapshot
  without a lock: two removals that overlap count each other, and no owner is left
  (`overlap`).
* "Highly confidential material [...] can never be shared" (`documents.ts` 316-317) is
  checked when sharing is turned on; whoever finds the document shared may keep it so
  while making it highly confidential, and of two edits that cross, the later may keep what
  the earlier has taken back (`kept`).
* "[A] restart never loses work" (`jobs.ts` 12-13). A worker that dies while it extracts
  leaves its version claimed for ever (`abandoned`), and one that dies during a requested
  backup leaves its record RUNNING, with which later uses of the button are answered
  (`dropped`).
* `docs/BACKUP-RESTORE.md` 29 speaks of the two newest backups; the code keeps the
  last two file names (`slice(-2)`), which are the manifest and the data of one
  archive, and archives of documents sort after those of the database. `NewestKept` is
  about one archive, and assumes a retention longer than a backup takes.
* The comment at `server/backup/index.ts` 197-198 speaks of equality for some tables;
  the test is `>=` for all.

Cases that cross and that no text speaks of; they, too, are exceptions of the properties:

* Two starts of a timer leave two timers running (`rivals`).
* Two deciders of one approval, or of one access request, replace each other's decision;
  of an access request the access may then not be what its status says (`deciders`). A
  transition that had seen an approval pending may replace its decision.
* A task is completed while a task it depends on is opened again (`early`,
  `overtaken` of `prior`).
* An import applied twice at once creates its deadlines twice (`applied`).
* The sweep deletes a membership that was renewed after it had read it.
* Two offboardings that cross, or an assignment decided before somebody left, leave work
  with somebody who left (`carried`).
* Two processes that prune together fail on a file that the other has deleted, and a good
  backup is recorded as FAILED.
* `InfectedStaysOut` is about an office with a scanner. After a redeployment without one
  versions become NOT_SCANNED, which may be served.
* The alert of a damaged file has one dedupe key for each version and kind of damage: the same
  damage that comes back after a repair is not alerted again.

Further:

* A matter that is closed and opened again has no reminders until its hearings are saved
  or its lead changes (`closed`), nor has a cancelled hearing that is prepared again
  (`prep`).
* A document deleted while it is under review leaves its approvals pending
  (`documents.ts` 372-381).
* `setTaskStatus` refuses to complete a task with an open dependency (`tasks.ts`
  86-89), `saveTask` does not look (48-63); and a dependency that is deleted while it
  is open stays open, since the count does not look at `deletedAt`.
* Making the matter's owner its lead replaces the OWNER membership by a LEAD one.

## 7. Plan

The safety properties of everything modelled are proved. What is left is breadth, each
part with its run, mutants and proofs: tasks with their reminders as requests of the
same modules; generic approvals; consultations and bookings; enrolment and one-time
codes.
