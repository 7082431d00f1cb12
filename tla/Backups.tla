------------------------------- MODULE Backups -------------------------------
(***************************************************************************)
(* Backups of one office: the button that asks for one                      *)
(* (src/src/server/services/backup.ts), the worker job that makes it        *)
(* (src/src/worker/backup-requests.ts), the nightly command                 *)
(* (src/scripts/backup.ts: db, storage and restore-test, one after another  *)
(* or each alone) and what they do in the one directory they share          *)
(* (src/src/server/backup/index.ts).  Nothing keeps a worker and the        *)
(* nightly command apart.                                                   *)
(*                                                                          *)
(* An archive is two files: the data, written while the dump runs, and the  *)
(* manifest, written afterwards.  Names carry the time at which the archive *)
(* was begun; sorted, they are the database archives in that order, then    *)
(* the document archives, each manifest before its data.                    *)
(*                                                                          *)
(* One step is one statement on the database or one operation on the        *)
(* directory.  The off-site copy is left out but for its failures.          *)
(***************************************************************************)
EXTENDS Integers, FiniteSets

CONSTANTS
  Workers,    \* processes that run the worker's jobs
  Jobs,       \* processes of the nightly command
  MaxAsking,  \* bound: uses of the button at one time
  MaxRecords, \* bound: BackupRecord rows, and so archives
  MaxFaults   \* bound: errors and deaths

ASSUME BackupConstants == MaxAsking \in Nat /\ MaxRecords \in Nat /\ MaxFaults \in Nat /\ Workers \cap Jobs = {}

VARIABLES
  record,  \* the BackupRecord table, in the order of creation
  archive, \* the archives, in the order in which they were begun
  process, \* local state of each process
  asking,  \* uses of the button that found nothing waiting and have not recorded theirs yet
  faults

vars == <<record, archive, process, asking, faults>>

Processes == Workers \cup Jobs
Ids   == 1..MaxRecords
Parts == {"manifest", "data"}
Made  == {"DATABASE", "DOCUMENTS"}

\* arc: the archive made or tested, 0 before.  The rest is history.  fault: something failed while
\* it was worked on.  overlap: another process pruned while its process did.  dropped: its process
\* died or was stopped by an exception.
Record == [kind : {"NONE", "RESTORE_TEST"} \cup Made, status : {"NONE", "REQUESTED", "RUNNING", "SUCCEEDED", "FAILED"},
           arc : 0..MaxRecords, fault : BOOLEAN, overlap : BOOLEAN, dropped : BOOLEAN]

\* files: what is in the directory now.  complete: both were written to the end.  short: rows were
\* deleted between their count, kept in the manifest, and the snapshot of the dump.  old: older
\* than the retention.
Archive == [kind : {"NONE"} \cup Made, files : SUBSET Parts, complete : BOOLEAN, short : BOOLEAN, old : BOOLEAN]

Process == [at : {"idle", "count", "dump", "write", "list", "prune", "report", "pack", "pick", "test"},
            rec : 0..MaxRecords, todo : SUBSET (Ids \X Parts)]

NoRecord  == [kind |-> "NONE", status |-> "NONE", arc |-> 0, fault |-> FALSE, overlap |-> FALSE, dropped |-> FALSE]
NoArchive == [kind |-> "NONE", files |-> {}, complete |-> FALSE, short |-> FALSE, old |-> FALSE]
Idle      == [at |-> "idle", rec |-> 0, todo |-> {}]

Init ==
  /\ record = [b \in Ids |-> NoRecord]
  /\ archive = [a \in Ids |-> NoArchive]
  /\ process = [p \in Processes |-> Idle]
  /\ asking = 0
  /\ faults = 0

Recorded == {b \in Ids : record[b].kind # "NONE"}
Begun    == {a \in Ids : archive[a].kind # "NONE"}

\* Rows and archives are numbered in the order in which they come.
IsNext(i, used) == i \notin used /\ 1..(i - 1) \subseteq used

Insert(b, kind, status) ==
  /\ IsNext(b, Recorded)
  /\ record' = [record EXCEPT ![b].kind = kind, ![b].status = status]

At(p, stage) == process[p].at = stage
Go(p, stage) == process' = [process EXCEPT ![p].at = stage]
Leave(p)     == process' = [process EXCEPT ![p] = Idle]
Mine(p)      == record[process[p].rec].arc \* the archive that p is making or testing

----------------------------------------------------------------------------
(* runDatabaseBackup *)

Waiting == {b \in Recorded : record[b].kind = "DATABASE" /\ record[b].status \in {"REQUESTED", "RUNNING"}}

\* Where a backup is waiting or running the answer is that one is queued, and nothing changes.
Ask ==
  /\ asking < MaxAsking /\ Waiting = {}
  /\ asking' = asking + 1
  /\ UNCHANGED <<record, archive, process, faults>>

Queue ==
  /\ asking > 0
  /\ \E b \in Ids : Insert(b, "DATABASE", "REQUESTED")
  /\ asking' = asking - 1
  /\ UNCHANGED <<archive, process, faults>>

----------------------------------------------------------------------------
(* runRequestedBackups; runDb, runStorage and runRestoreTest *)

MutantOneAtATime == {b \in Recorded : record[b].status = "REQUESTED" /\ \A c \in Recorded : record[c].status # "RUNNING"}

Claimable == {b \in Recorded : record[b].status = "REQUESTED"}

\* The oldest request is looked up and claimed; the loser of a race for it does nothing.
Claim(w) ==
  /\ At(w, "idle")
  /\ \E b \in Claimable :
       /\ \A c \in Claimable : b <= c
       /\ record' = [record EXCEPT ![b].status = "RUNNING"]
       /\ process' = [process EXCEPT ![w] = [at |-> "count", rec |-> b, todo |-> {}]]
  /\ UNCHANGED <<archive, asking, faults>>

Begin(kind) == CASE kind = "DATABASE" -> "count" [] kind = "DOCUMENTS" -> "pack" [] kind = "RESTORE_TEST" -> "pick"

Start(j, b, kind) ==
  /\ At(j, "idle")
  /\ Insert(b, kind, "RUNNING")
  /\ process' = [process EXCEPT ![j] = [at |-> Begin(kind), rec |-> b, todo |-> {}]]
  /\ UNCHANGED <<archive, asking, faults>>

----------------------------------------------------------------------------
(* backupDatabase, backupLocalStorage *)

Open(p, a, files) ==
  /\ IsNext(a, Begun)
  /\ archive' = [archive EXCEPT ![a] = [NoArchive EXCEPT !.kind = record[process[p].rec].kind, !.files = files]]
  /\ record' = [record EXCEPT ![process[p].rec].arc = a]

\* The name is chosen and the rows are counted; there is no file yet.
CountRows(p, a) ==
  /\ At(p, "count")
  /\ Open(p, a, {})
  /\ Go(p, "dump")
  /\ UNCHANGED <<asking, faults>>

\* The dump takes its snapshot and its file is there.
Dump(p, short) ==
  /\ At(p, "dump")
  /\ archive' = [archive EXCEPT ![Mine(p)].files = {"data"}, ![Mine(p)].short = short]
  /\ Go(p, "write")
  /\ UNCHANGED <<record, asking, faults>>

Pack(p, a) ==
  /\ At(p, "pack")
  /\ Open(p, a, {"data"})
  /\ Go(p, "write")
  /\ UNCHANGED <<asking, faults>>

\* The data is written to the end, then the manifest; data without a manifest is of no use either
\* way.  A document archive has no retention of its own.
Seal(p) ==
  /\ At(p, "write")
  /\ archive' = [archive EXCEPT ![Mine(p)].complete = TRUE, ![Mine(p)].files = Parts]
  /\ Go(p, IF record[process[p].rec].kind = "DATABASE" THEN "list" ELSE "prune")
  /\ UNCHANGED <<record, asking, faults>>

----------------------------------------------------------------------------
(* pruneBackups *)

Files == {f \in Ids \X Parts : f[2] \in archive[f[1]].files}

\* The place of a file among the sorted names.
Place(f) == 2 * (IF archive[f[1]].kind = "DOCUMENTS" THEN MaxRecords + f[1] ELSE f[1]) + (IF f[2] = "data" THEN 1 ELSE 0)

Newest == {f \in Files : Cardinality({g \in Files : Place(g) > Place(f)}) < 2}

MutantAnyAge == Files \ Newest

\* What one pass deletes: the cutoff is that of its start.
Expired == {f \in Files \ Newest : archive[f[1]].old}

Pruning == {p \in Processes : process[p].todo # {}}

\* The directory is read.
List(p) ==
  /\ At(p, "list")
  /\ process' = [process EXCEPT ![p].at = "prune", ![p].todo = Expired]
  /\ record' = [b \in Ids |->
                  IF Expired # {} /\ Pruning # {} /\ b \in {process[q].rec : q \in Pruning \cup {p}}
                  THEN [record[b] EXCEPT !.overlap = TRUE] ELSE record[b]]
  /\ UNCHANGED <<archive, asking, faults>>

\* One file after another; one that somebody else has deleted is an error, and the backup fails.
Prune(p) ==
  /\ At(p, "prune")
  /\ \E f \in process[p].todo :
       /\ \A g \in process[p].todo : Place(f) <= Place(g)
       /\ IF f \in Files
          THEN /\ archive' = [archive EXCEPT ![f[1]].files = @ \ {f[2]}]
               /\ process' = [process EXCEPT ![p].todo = @ \ {f}]
               /\ UNCHANGED record
          ELSE /\ record' = [record EXCEPT ![process[p].rec].status = "FAILED"]
               /\ Leave(p)
               /\ UNCHANGED archive
  /\ UNCHANGED <<asking, faults>>

Succeed(p) ==
  /\ At(p, "prune") /\ process[p].todo = {}
  /\ record' = [record EXCEPT ![process[p].rec].status = "SUCCEEDED"]
  /\ Go(p, "report")
  /\ UNCHANGED <<archive, asking, faults>>

\* SystemStatus and the audit entry.
Report(p) ==
  /\ At(p, "report")
  /\ Leave(p)
  /\ UNCHANGED <<record, archive, asking, faults>>

----------------------------------------------------------------------------
(* restoreTest *)

DataFiles == {a \in Begun : archive[a].kind = "DATABASE" /\ "data" \in archive[a].files}

\* The last database archive by name, finished or not; without its manifest the command ends with
\* an exception and the record stays as it is.
PickArchive(p) ==
  /\ At(p, "pick")
  /\ LET found == {a \in DataFiles : \A c \in DataFiles : c <= a}
         good == {a \in found : "manifest" \in archive[a].files} IN
     /\ record' = [record EXCEPT ![process[p].rec].arc = IF found = {} THEN 0 ELSE CHOOSE a \in found : TRUE,
                                 ![process[p].rec].dropped = good = {}]
     /\ IF good = {} THEN Leave(p) ELSE Go(p, "test")
  /\ UNCHANGED <<archive, asking, faults>>

MutantNoCount(a) == "data" \in archive[a].files

\* The data matches its checksum and restores, with at least the rows that were counted.
Restores(a) == "data" \in archive[a].files /\ ~archive[a].short

\* Data deleted since the manifest was read is an error or, before the checksum, an exception.
FinishTest(p, thrown) ==
  LET a == Mine(p) IN
  /\ At(p, "test")
  /\ thrown => "data" \notin archive[a].files
  /\ record' = [record EXCEPT ![process[p].rec].dropped = thrown,
                              ![process[p].rec].status = IF thrown THEN @ ELSE IF Restores(a) THEN "SUCCEEDED" ELSE "FAILED"]
  /\ Leave(p)
  /\ UNCHANGED <<archive, asking, faults>>

----------------------------------------------------------------------------
(* Faults and time *)

MayFault == faults < MaxFaults /\ faults' = faults + 1

\* A tool, the disk, the bucket or the database fails; what is in the directory stays there.
Fail(p) ==
  /\ process[p].at \notin {"idle", "pick"}
  /\ MayFault
  /\ record' = [record EXCEPT ![process[p].rec].status = "FAILED", ![process[p].rec].fault = TRUE]
  /\ Leave(p)
  /\ UNCHANGED <<archive, asking>>

Crash(p) ==
  /\ ~At(p, "idle")
  /\ MayFault
  /\ record' = [record EXCEPT ![process[p].rec].dropped = TRUE]
  /\ Leave(p)
  /\ UNCHANGED <<archive, asking>>

\* The retention passes, which is longer than any backup takes.
Age ==
  /\ \A p \in Processes : At(p, "idle")
  /\ \E a \in Begun : ~archive[a].old
  /\ archive' = [a \in Ids |-> IF a \in Begun THEN [archive[a] EXCEPT !.old = TRUE] ELSE archive[a]]
  /\ UNCHANGED <<record, process, asking, faults>>

Work(p) ==
  \/ \E a \in Ids : CountRows(p, a) \/ Pack(p, a)
  \/ \E short \in BOOLEAN : Dump(p, short)
  \/ Seal(p)
  \/ List(p) \/ Prune(p) \/ Succeed(p) \/ Report(p)
  \/ PickArchive(p) \/ \E thrown \in BOOLEAN : FinishTest(p, thrown)

Next ==
  \/ Ask \/ Queue
  \/ \E w \in Workers : Claim(w)
  \/ \E j \in Jobs, b \in Ids, kind \in Made \cup {"RESTORE_TEST"} : Start(j, b, kind)
  \/ \E p \in Processes : Work(p) \/ Fail(p) \/ Crash(p)
  \/ Age

\* A process that has begun goes on, and the worker's tick looks for requests every minute
\* (jobs.ts, lines 25-40); nobody has to press the button or run the command.
Fairness == (\A p \in Processes : WF_vars(Work(p))) /\ \A w \in Workers : WF_vars(Claim(w))

Spec == Init /\ [][Next]_vars

FairSpec == Spec /\ Fairness

----------------------------------------------------------------------------
(* Properties *)

TypeOK ==
  /\ record \in [Ids -> Record] /\ archive \in [Ids -> Archive]
  /\ process \in [Processes -> Process] /\ asking \in 0..MaxAsking
  /\ faults \in 0..MaxFaults

\* Processes that work on the backup or the test that b records.
Busy(b) == {p \in Processes : process[p].at \notin {"idle", "report"} /\ process[p].rec = b}
SucceededIsMade(r) ==
  r.status = "SUCCEEDED" => archive[r.arc].complete /\ (r.kind = "RESTORE_TEST" => ~archive[r.arc].short)
FailedHasCause(r) ==
  r.status = "FAILED" =>
    \/ r.fault \/ r.overlap
    \/ r.kind = "RESTORE_TEST" /\ (archive[r.arc].short \/ "data" \notin archive[r.arc].files)
RunningIsHeld(b) ==
  record[b].status = "RUNNING" => IF record[b].dropped THEN Busy(b) = {} ELSE \E p \in Processes : Busy(b) = {p}

\* The history of backups is true: what succeeded was made to the end, or restored with all the rows
\* counted; what failed met a fault, pruned while another process did, or is a test of an archive
\* whose rows were deleted while it was made; what runs has exactly one process, or was dropped by
\* one (backup-requests.ts, lines 12-28; scripts/backup.ts, lines 34-46 and 74-95).
RecordsHonest == \A b \in Recorded : SucceededIsMade(record[b]) /\ FailedHasCause(record[b]) /\ RunningIsHeld(b)

Done == {a \in Ids : archive[a].kind = "DATABASE" /\ archive[a].complete}

\* "Never touches the newest backup" (index.ts, line 263): of all complete database archives the
\* newest keeps both its files, whichever processes prune, in whatever order archives were finished.
NewestKept ==
  \A a \in Done : (\A c \in Done : c <= a) => archive[a].files = Parts

\* A backup that is waiting or running, and so the answer to whoever asks for one, is made or fails
\* visibly, unless the process that makes it dies: then the record runs for ever and every later use
\* of the button is answered with it (services/backup.ts, lines 10-13 and 18-19).
QueuedIsMade ==
  \A b \in Ids : b \in Waiting ~> record[b].status \in {"SUCCEEDED", "FAILED"} \/ record[b].dropped
=============================================================================
