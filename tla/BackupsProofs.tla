---------------------------- MODULE BackupsProofs ----------------------------
(* Theorems about Backups, for every number of processes, records and faults. *)
EXTENDS Backups, TLAPS

----------------------------------------------------------------------------
(* The inductive invariant *)

Working(p) == process[p].at # "idle"
Held(p)    == record[process[p].rec]

\* Rows to come are untouched; only a backup of the database is requested, and nobody has it yet.
RowsHonest ==
  \A b \in Ids :
    /\ record[b].kind = "NONE" => record[b] = NoRecord
    /\ record[b].status = "NONE" => record[b].kind = "NONE"
    /\ record[b].status = "REQUESTED" => record[b].kind = "DATABASE" /\ ~record[b].dropped

\* What each stage is for.
Kinds(stage) ==
  CASE stage \in {"count", "dump", "list"}    -> {"DATABASE"}
    [] stage = "pack"                         -> {"DOCUMENTS"}
    [] stage \in {"pick", "test"}             -> {"RESTORE_TEST"}
    [] stage \in {"write", "prune", "report"} -> Made

\* A process has a record of its own, of its kind, which is RUNNING until it is reported.
Holders ==
  \A p \in Processes : Working(p) =>
    /\ process[p].rec \in Ids
    /\ Held(p).kind \in Kinds(process[p].at)
    /\ IF process[p].at = "report" THEN Held(p).status = "SUCCEEDED" ELSE Held(p).status = "RUNNING" /\ ~Held(p).dropped

OneHolder == \A p, q \in Processes : Working(p) /\ Working(q) /\ process[p].rec = process[q].rec => p = q

RunningKept ==
  \A b \in Ids : record[b].status = "RUNNING" /\ ~record[b].dropped =>
    \E p \in Processes : Working(p) /\ process[p].at # "report" /\ process[p].rec = b

HoldInv == RowsHonest /\ Holders /\ OneHolder /\ RunningKept

\* Archives to come are untouched, those begun are the first ones, and age comes in their order;
\* a manifest is written last.
ArchivesHonest ==
  \A a \in Ids :
    /\ archive[a].kind = "NONE" => archive[a] = NoArchive
    /\ \A c \in Ids : c < a /\ archive[a].kind # "NONE" => archive[c].kind # "NONE"
    /\ \A c \in Ids : c < a /\ archive[a].old => archive[c].old
    /\ "manifest" \in archive[a].files => archive[a].complete

\* What a process has made of its archive.
Making ==
  \A p \in Processes :
    /\ process[p].at \in {"dump", "write"} => Mine(p) \in Ids /\ ~archive[Mine(p)].complete
    /\ process[p].at \in {"list", "prune", "test"} => Mine(p) \in Ids /\ archive[Mine(p)].complete
    /\ process[p].at \in {"dump", "write", "list", "prune"} =>
         archive[Mine(p)].kind = Held(p).kind /\ ~archive[Mine(p)].old

OneMaker ==
  \A p, q \in Processes :
    process[p].at \in {"dump", "write"} /\ process[q].at \in {"dump", "write"} /\ Mine(p) = Mine(q) => p = q

ArchiveInv == ArchivesHonest /\ Making /\ OneMaker

\* Only old files are deleted, by a process that has made a backup since; a file that is gone, or
\* may go, under somebody's hands has been noted.
Deleting ==
  \A p \in Processes :
    /\ process[p].todo # {} => process[p].at = "prune" /\ Held(p).kind = "DATABASE"
    /\ \A f \in process[p].todo : archive[f[1]].old /\ (f \in Files \/ Held(p).overlap)

Overlaps ==
  \A p, q \in Processes : p # q /\ process[p].todo # {} /\ process[q].todo # {} => Held(p).overlap /\ Held(q).overlap

PruneInv == Deleting /\ Overlaps

\* What succeeded, and a test that came to a verdict, had a complete archive; the rest is
\* RecordsHonest but for what HoldInv says of running records.
Judged(r) == r.status = "SUCCEEDED" \/ (r.status = "FAILED" /\ r.kind = "RESTORE_TEST")
Verdict(b) ==
  /\ Judged(record[b]) => record[b].arc \in Ids /\ archive[record[b].arc].complete
  /\ SucceededIsMade(record[b]) /\ FailedHasCause(record[b])
VerdictsHonest == \A b \in Ids : Verdict(b)

IInv == TypeOK /\ HoldInv /\ ArchiveInv /\ PruneInv /\ VerdictsHonest /\ NewestKept

----------------------------------------------------------------------------
(* Types *)

LEMMA ConstantTypes ==
  /\ NoRecord \in Record /\ NoArchive \in Archive /\ Idle \in Process
  /\ Idle.at = "idle" /\ Idle.rec = 0 /\ Idle.todo = {}
BY BackupConstants DEF BackupConstants, NoRecord, Record, NoArchive, Archive, Idle, Process, Made, Parts, Ids

(* What the steps do *)

\* Only the row b, the archive a, the process p may change.
RowOnly(b)     == record' \in [Ids -> Record] /\ \A c \in Ids : c # b => record'[c] = record[c]
ArchiveOnly(a) == archive' \in [Ids -> Archive] /\ \A c \in Ids : c # a => archive'[c] = archive[c]
ProcessOnly(p) == process' \in [Processes -> Process] /\ \A q \in Processes : q # p => process'[q] = process[q]

\* The process p is at another stage, with the same record and the same files to delete.
Steps(p, stage) ==
  /\ ProcessOnly(p)
  /\ process'[p].at = stage /\ process'[p].rec = process[p].rec /\ process'[p].todo = process[p].todo

LEMMA GoEffect ==
  ASSUME process \in [Processes -> Process], NEW p \in Processes,
         NEW stage \in {"count", "dump", "write", "list", "prune", "report", "pack", "pick", "test"}, Go(p, stage)
  PROVE  Steps(p, stage)
BY DEF Go, Steps, ProcessOnly, Process

LEMMA LeaveEffect ==
  ASSUME process \in [Processes -> Process], NEW p \in Processes, Leave(p)
  PROVE  ProcessOnly(p) /\ process'[p] = Idle
BY ConstantTypes DEF Leave, ProcessOnly

LEMMA FreshEffect ==
  ASSUME process \in [Processes -> Process], NEW p \in Processes, NEW b \in Ids, NEW stage \in {"count", "pack", "pick"},
         process' = [process EXCEPT ![p] = [at |-> stage, rec |-> b, todo |-> {}]]
  PROVE  ProcessOnly(p) /\ process'[p].at = stage /\ process'[p].rec = b /\ process'[p].todo = {}
<1> DEFINE fresh == [at |-> stage, rec |-> b, todo |-> {}]
<1>1. fresh \in Process /\ fresh.at = stage /\ fresh.rec = b /\ fresh.todo = {}
  BY BackupConstants DEF BackupConstants, Process, Ids
<1>2. process' = [process EXCEPT ![p] = fresh]
  OBVIOUS
<1> HIDE DEF fresh
<1> QED
  BY <1>1, <1>2 DEF ProcessOnly

\* What a change of its status leaves of a row.
SameBut(b) ==
  /\ RowOnly(b)
  /\ record'[b].kind = record[b].kind /\ record'[b].arc = record[b].arc /\ record'[b].overlap = record[b].overlap

LEMMA InsertEffect ==
  ASSUME TypeOK, NEW b \in Ids, NEW kind \in Made \cup {"RESTORE_TEST"}, NEW status \in {"REQUESTED", "RUNNING"},
         Insert(b, kind, status), RowsHonest
  PROVE  /\ RowOnly(b) /\ record[b] = NoRecord
         /\ record'[b].kind = kind /\ record'[b].status = status /\ ~record'[b].dropped
BY DEF TypeOK, Insert, IsNext, Recorded, RowOnly, Record, RowsHonest, NoRecord

LEMMA ClaimEffect ==
  ASSUME IInv, NEW w \in Workers, Claim(w)
  PROVE  \E b \in Ids :
           /\ record[b].status = "REQUESTED" /\ record[b].kind = "DATABASE" /\ ~Working(w)
           /\ SameBut(b) /\ record'[b].status = "RUNNING" /\ ~record'[b].dropped
           /\ ProcessOnly(w) /\ process'[w].at = "count" /\ process'[w].rec = b /\ process'[w].todo = {}
           /\ archive' = archive
<1>1. PICK b \in Claimable :
        /\ record' = [record EXCEPT ![b].status = "RUNNING"]
        /\ process' = [process EXCEPT ![w] = [at |-> "count", rec |-> b, todo |-> {}]]
  BY DEF Claim
<1>2. b \in Ids /\ record[b].status = "REQUESTED" /\ record[b].kind = "DATABASE" /\ ~record[b].dropped
  BY DEF Claimable, Recorded, IInv, HoldInv, RowsHonest
<1>3. SameBut(b) /\ record'[b].status = "RUNNING" /\ ~record'[b].dropped
  BY <1>1, <1>2 DEF IInv, TypeOK, Record, SameBut, RowOnly
<1>4. ProcessOnly(w) /\ process'[w].at = "count" /\ process'[w].rec = b /\ process'[w].todo = {}
  BY <1>1, <1>2, FreshEffect DEF IInv, TypeOK, Processes
<1> QED
  BY <1>2, <1>3, <1>4 DEF Claim, At, Working

LEMMA StartEffect ==
  ASSUME IInv, NEW j \in Jobs, NEW b \in Ids, NEW kind \in Made \cup {"RESTORE_TEST"}, Start(j, b, kind)
  PROVE  /\ RowOnly(b) /\ record[b] = NoRecord /\ ~Working(j)
         /\ record'[b].kind = kind /\ record'[b].status = "RUNNING" /\ ~record'[b].dropped
         /\ ProcessOnly(j) /\ process'[j].rec = b /\ process'[j].todo = {}
         /\ process'[j].at \in {"count", "pack", "pick"} /\ kind \in Kinds(process'[j].at)
         /\ archive' = archive
<1>1. Begin(kind) \in {"count", "pack", "pick"} /\ kind \in Kinds(Begin(kind))
  BY DEF Begin, Made, Kinds
<1>2. process' = [process EXCEPT ![j] = [at |-> Begin(kind), rec |-> b, todo |-> {}]]
  BY DEF Start
<1>3. ProcessOnly(j) /\ process'[j].at = Begin(kind) /\ process'[j].rec = b /\ process'[j].todo = {}
  BY <1>1, <1>2, FreshEffect DEF IInv, TypeOK, Processes
<1> QED
  BY <1>1, <1>3, InsertEffect DEF Start, IInv, HoldInv, At, Working

\* Where a process is at work, the record and the archive in its hands.
LEMMA HandsType ==
  ASSUME IInv, NEW p \in Processes, Working(p)
  PROVE  /\ process[p].rec \in Ids /\ Held(p) \in Record /\ process[p] \in Process
         /\ process[p].at \in {"dump", "write", "list", "prune", "test"} => Mine(p) \in Ids /\ archive[Mine(p)] \in Archive
BY DEF IInv, TypeOK, HoldInv, Holders, ArchiveInv, Making, Working, Held

\* The archive a is begun by p.
Opens(p, a, files) ==
  /\ ArchiveOnly(a) /\ archive[a] = NoArchive /\ \A c \in Ids : c < a => archive[c].kind # "NONE"
  /\ archive'[a].kind = Held(p).kind /\ archive'[a].files = files
  /\ ~archive'[a].complete /\ ~archive'[a].short /\ ~archive'[a].old
  /\ RowOnly(process[p].rec) /\ Held(p)'.arc = a
  /\ Held(p)'.kind = Held(p).kind /\ Held(p)'.status = Held(p).status /\ Held(p)'.dropped = Held(p).dropped

LEMMA OpenEffect ==
  ASSUME IInv, NEW p \in Processes, NEW a \in Ids, NEW files \in SUBSET Parts, Open(p, a, files), 
         Held(p).kind \in Made, Working(p), process'[p].rec = process[p].rec
  PROVE  Opens(p, a, files)
<1> DEFINE new == [NoArchive EXCEPT !.kind = Held(p).kind, !.files = files]
<1>1. new \in Archive /\ new.kind = Held(p).kind /\ new.files = files /\ ~new.complete /\ ~new.short /\ ~new.old
  BY DEF NoArchive, Archive
<1>2. archive' = [archive EXCEPT ![a] = new] /\ IsNext(a, Begun) /\ record' = [record EXCEPT ![process[p].rec].arc = a]
  BY DEF Open, Held
<1> HIDE DEF new
<1>3. a \notin Begun /\ \A c \in Ids : c < a => c \in Begun
  BY <1>2, BackupConstants DEF IsNext, Ids, BackupConstants
<1>4. archive[a] = NoArchive /\ \A c \in Ids : c < a => archive[c].kind # "NONE"
  BY <1>3 DEF Begun, IInv, ArchiveInv, ArchivesHonest
<1>5. ArchiveOnly(a) /\ archive'[a] = new
  BY <1>1, <1>2 DEF IInv, TypeOK, ArchiveOnly
<1>6. /\ RowOnly(process[p].rec) /\ Held(p)'.arc = a
      /\ Held(p)'.kind = Held(p).kind /\ Held(p)'.status = Held(p).status /\ Held(p)'.dropped = Held(p).dropped
  BY <1>2, HandsType DEF IInv, TypeOK, RowOnly, Held, Record, Ids
<1> QED
  BY <1>1, <1>4, <1>5, <1>6 DEF Opens

LEMMA CountRowsEffect ==
  ASSUME IInv, NEW p \in Processes, NEW a \in Ids, CountRows(p, a)
  PROVE  process[p].at = "count" /\ Opens(p, a, {}) /\ Steps(p, "dump")
<1>1. process[p].at = "count" /\ Held(p).kind \in Made /\ Working(p)
  BY DEF CountRows, At, Working, IInv, HoldInv, Holders, Kinds, Made
<1>2. Steps(p, "dump")
  BY GoEffect DEF CountRows, IInv, TypeOK
<1> QED
  BY <1>1, <1>2, OpenEffect DEF CountRows, Steps

LEMMA PackEffect ==
  ASSUME IInv, NEW p \in Processes, NEW a \in Ids, Pack(p, a)
  PROVE  process[p].at = "pack" /\ Opens(p, a, {"data"}) /\ Steps(p, "write")
<1>1. process[p].at = "pack" /\ Held(p).kind \in Made /\ Working(p)
  BY DEF Pack, At, Working, IInv, HoldInv, Holders, Kinds, Made
<1>2. Steps(p, "write")
  BY GoEffect DEF Pack, IInv, TypeOK
<1> QED
  BY <1>1, <1>2, OpenEffect DEF Pack, Steps, Parts

\* The archive a keeps its kind and its age.
Continues(a) == ArchiveOnly(a) /\ archive'[a].kind = archive[a].kind /\ archive'[a].old = archive[a].old

LEMMA DumpEffect ==
  ASSUME IInv, NEW p \in Processes, NEW short \in BOOLEAN, Dump(p, short)
  PROVE  /\ process[p].at = "dump" /\ Mine(p) \in Ids /\ Continues(Mine(p))
         /\ archive'[Mine(p)].files = {"data"} /\ archive'[Mine(p)].complete = archive[Mine(p)].complete
         /\ Steps(p, "write") /\ record' = record
<1>1. process[p].at = "dump" /\ Mine(p) \in Ids
  BY DEF Dump, At, IInv, ArchiveInv, Making
<1>2. /\ Continues(Mine(p)) /\ archive'[Mine(p)].files = {"data"}
      /\ archive'[Mine(p)].complete = archive[Mine(p)].complete
  BY <1>1 DEF Dump, IInv, TypeOK, Archive, Parts, Continues, ArchiveOnly
<1> QED
  BY <1>1, <1>2, GoEffect DEF Dump, IInv, TypeOK

LEMMA SealEffect ==
  ASSUME IInv, NEW p \in Processes, Seal(p)
  PROVE  /\ process[p].at = "write" /\ Mine(p) \in Ids /\ Continues(Mine(p))
         /\ archive'[Mine(p)].files = Parts /\ archive'[Mine(p)].complete
         /\ archive'[Mine(p)].short = archive[Mine(p)].short
         /\ Steps(p, IF Held(p).kind = "DATABASE" THEN "list" ELSE "prune") /\ record' = record
<1>1. process[p].at = "write" /\ Mine(p) \in Ids
  BY DEF Seal, At, IInv, ArchiveInv, Making
<1>2. /\ Continues(Mine(p)) /\ archive'[Mine(p)].files = Parts /\ archive'[Mine(p)].complete
      /\ archive'[Mine(p)].short = archive[Mine(p)].short
  BY <1>1 DEF Seal, IInv, TypeOK, Archive, Continues, ArchiveOnly
<1> QED
  BY <1>1, <1>2, GoEffect DEF Seal, IInv, TypeOK, Held

LEMMA ListEffect ==
  ASSUME IInv, NEW p \in Processes, List(p)
  PROVE  /\ process[p].at = "list" /\ ProcessOnly(p)
         /\ process'[p].at = "prune" /\ process'[p].rec = process[p].rec /\ process'[p].todo = Expired
         /\ record' \in [Ids -> Record]
         /\ \A b \in Ids :
              /\ record'[b].kind = record[b].kind /\ record'[b].status = record[b].status
              /\ record'[b].arc = record[b].arc /\ record'[b].fault = record[b].fault
              /\ record'[b].dropped = record[b].dropped
              /\ record[b].overlap => record'[b].overlap
              /\ record[b].kind = "NONE" => record'[b] = record[b]
         /\ Expired # {} => \A q \in Pruning : Held(p)'.overlap /\ record'[process[q].rec].overlap
         /\ archive' = archive
<1>1. process[p].at = "list" /\ Working(p) /\ archive' = archive
  BY DEF List, At, Working
<1>2. ProcessOnly(p) /\ process'[p].at = "prune" /\ process'[p].rec = process[p].rec /\ process'[p].todo = Expired
  BY DEF List, ProcessOnly, IInv, TypeOK, Process, Expired, Files
<1> DEFINE noted == IF Expired # {} /\ Pruning # {} THEN {process[q].rec : q \in Pruning \cup {p}} ELSE {}
<1>3. record' = [b \in Ids |-> IF b \in noted THEN [record[b] EXCEPT !.overlap = TRUE] ELSE record[b]]
  BY DEF List
<1>4. \A b \in noted : record[b].kind # "NONE"
  BY <1>1, HandsType DEF Pruning, IInv, HoldInv, Holders, PruneInv, Deleting, Working, Kinds, Made, Held
<1>5. Expired # {} => \A q \in Pruning : process[p].rec \in noted /\ process[q].rec \in noted
  OBVIOUS
<1>6. \A q \in Pruning : process[q].rec \in Ids
  BY HandsType DEF Pruning, IInv, PruneInv, Deleting, Working
<1> HIDE DEF noted
<1>7. record' \in [Ids -> Record]
  BY <1>3 DEF IInv, TypeOK, Record
<1>8. \A b \in Ids :
        /\ record'[b].kind = record[b].kind /\ record'[b].status = record[b].status
        /\ record'[b].arc = record[b].arc /\ record'[b].fault = record[b].fault
        /\ record'[b].dropped = record[b].dropped
        /\ record[b].overlap => record'[b].overlap
        /\ b \in noted => record'[b].overlap
        /\ record[b].kind = "NONE" => record'[b] = record[b]
  BY <1>3, <1>4 DEF IInv, TypeOK, Record
<1>9. Expired # {} => \A q \in Pruning : Held(p)'.overlap /\ record'[process[q].rec].overlap
  BY <1>1, <1>2, <1>5, <1>6, <1>8, HandsType DEF Held
<1> QED
  BY <1>1, <1>2, <1>7, <1>8, <1>9

\* A row is given a status and perhaps noted as failed or dropped.
LEMMA SucceedEffect ==
  ASSUME IInv, NEW p \in Processes, Succeed(p)
  PROVE  /\ process[p].at = "prune" /\ SameBut(process[p].rec) /\ Held(p)'.status = "SUCCEEDED"
         /\ Steps(p, "report") /\ process[p].todo = {} /\ archive' = archive
<1>1. process[p].at = "prune" /\ process[p].todo = {} /\ archive' = archive /\ Working(p)
  BY DEF Succeed, At, Working
<1>2. Steps(p, "report")
  BY GoEffect DEF Succeed, IInv, TypeOK
<1> QED
  BY <1>1, <1>2, HandsType DEF Succeed, SameBut, RowOnly, Record, IInv, TypeOK, Held, Steps

LEMMA FailEffect ==
  ASSUME IInv, NEW p \in Processes, Fail(p)
  PROVE  /\ Working(p) /\ SameBut(process[p].rec)
         /\ process[p].at # "pick"
         /\ record'[process[p].rec].status = "FAILED" /\ record'[process[p].rec].fault
         /\ ProcessOnly(p) /\ process'[p] = Idle /\ archive' = archive
<1>1. Working(p) /\ archive' = archive /\ process[p].at # "pick"
  BY DEF Fail, Working
<1>2. ProcessOnly(p) /\ process'[p] = Idle
  BY LeaveEffect DEF Fail, IInv, TypeOK
<1> QED
  BY <1>1, <1>2, HandsType DEF Fail, SameBut, RowOnly, Record, IInv, TypeOK

LEMMA CrashEffect ==
  ASSUME IInv, NEW p \in Processes, Crash(p)
  PROVE  /\ Working(p) /\ SameBut(process[p].rec)
         /\ record'[process[p].rec].status = record[process[p].rec].status
         /\ record'[process[p].rec].fault = record[process[p].rec].fault
         /\ record'[process[p].rec].dropped
         /\ ProcessOnly(p) /\ process'[p] = Idle /\ archive' = archive
<1>1. Working(p) /\ archive' = archive
  BY DEF Crash, Working, At
<1>2. ProcessOnly(p) /\ process'[p] = Idle
  BY LeaveEffect DEF Crash, IInv, TypeOK
<1> QED
  BY <1>1, <1>2, HandsType DEF Crash, SameBut, RowOnly, Record, IInv, TypeOK

\* A pass deletes a file that is there, or fails.
Deletes(p, f) ==
  /\ f \in Files /\ Continues(f[1]) /\ archive'[f[1]].complete = archive[f[1]].complete
  /\ archive'[f[1]].short = archive[f[1]].short
  /\ archive'[f[1]].files = archive[f[1]].files \ {f[2]}
  /\ ProcessOnly(p) /\ process'[p].at = "prune" /\ process'[p].rec = process[p].rec
  /\ process'[p].todo = process[p].todo \ {f}
  /\ record' = record

Misses(p, f) ==
  /\ f \notin Files /\ SameBut(process[p].rec) /\ record'[process[p].rec].status = "FAILED"
  /\ ProcessOnly(p) /\ process'[p] = Idle /\ archive' = archive

LEMMA PruneEffect ==
  ASSUME IInv, NEW p \in Processes, Prune(p)
  PROVE  process[p].at = "prune" /\ \E f \in process[p].todo : Deletes(p, f) \/ Misses(p, f)
<1>1. process[p].at = "prune" /\ Working(p)
  BY DEF Prune, At, Working
<1>2. PICK f \in process[p].todo :
        IF f \in Files
        THEN /\ archive' = [archive EXCEPT ![f[1]].files = @ \ {f[2]}]
             /\ process' = [process EXCEPT ![p].todo = @ \ {f}]
             /\ UNCHANGED record
        ELSE /\ record' = [record EXCEPT ![process[p].rec].status = "FAILED"]
             /\ Leave(p)
             /\ UNCHANGED archive
  BY DEF Prune
<1>3. CASE f \in Files
  <2>1. f[1] \in Ids
    BY <1>3 DEF Files
  <2>2. ProcessOnly(p) /\ process'[p].at = "prune" /\ process'[p].rec = process[p].rec /\ process'[p].todo = process[p].todo \ {f}
    BY <1>1, <1>2, <1>3 DEF IInv, TypeOK, Process, ProcessOnly
  <2>3. /\ Continues(f[1]) /\ archive'[f[1]].complete = archive[f[1]].complete
        /\ archive'[f[1]].short = archive[f[1]].short
        /\ archive'[f[1]].files = archive[f[1]].files \ {f[2]}
    <3> DEFINE rest == archive[f[1]].files \ {f[2]}
    <3>1. rest \in SUBSET Parts /\ archive' = [archive EXCEPT ![f[1]].files = rest]
      BY <1>2, <1>3, <2>1 DEF IInv, TypeOK, Archive
    <3> HIDE DEF rest
    <3>2. /\ Continues(f[1]) /\ archive'[f[1]].complete = archive[f[1]].complete
          /\ archive'[f[1]].short = archive[f[1]].short /\ archive'[f[1]].files = rest
      BY <2>1, <3>1 DEF IInv, TypeOK, Archive, Continues, ArchiveOnly
    <3> QED
      BY <3>2 DEF rest
  <2> QED
    BY <1>1, <1>2, <1>3, <2>2, <2>3 DEF Deletes
<1>4. CASE f \notin Files
  <2>1. ProcessOnly(p) /\ process'[p] = Idle
    BY <1>2, <1>4, LeaveEffect DEF IInv, TypeOK
  <2>2. SameBut(process[p].rec) /\ record'[process[p].rec].status = "FAILED"
    BY <1>1, <1>2, <1>4, HandsType DEF SameBut, RowOnly, Record, IInv, TypeOK
  <2> QED
    BY <1>1, <1>2, <1>4, <2>1, <2>2 DEF Misses
<1> QED
  BY <1>1, <1>3, <1>4

LEMMA PickArchiveEffect ==
  ASSUME IInv, NEW p \in Processes, PickArchive(p)
  PROVE  /\ process[p].at = "pick" /\ RowOnly(process[p].rec)
         /\ record'[process[p].rec].kind = Held(p).kind /\ record'[process[p].rec].status = Held(p).status
         /\ \/ /\ record'[process[p].rec].dropped /\ ProcessOnly(p) /\ process'[p] = Idle
            \/ /\ ~record'[process[p].rec].dropped /\ Steps(p, "test")
               /\ record'[process[p].rec].arc \in Ids /\ archive[record'[process[p].rec].arc].complete
         /\ archive' = archive
<1> DEFINE found == {a \in DataFiles : \A c \in DataFiles : c <= a}
           good == {a \in found : "manifest" \in archive[a].files}
           arc == IF found = {} THEN 0 ELSE CHOOSE a \in found : TRUE
           none == good = {}
<1>1. process[p].at = "pick" /\ archive' = archive /\ Working(p)
  BY DEF PickArchive, At, Working
<1>2. record' = [record EXCEPT ![process[p].rec].arc = arc, ![process[p].rec].dropped = none]
  BY DEF PickArchive
<1>3. IF none THEN Leave(p) ELSE Go(p, "test")
  BY DEF PickArchive
<1>4. found \subseteq Ids /\ (found # {} => arc \in found) /\ (found = {} => arc = 0)
  BY DEF DataFiles, Begun
<1>5. ~none => arc \in Ids /\ archive[arc].complete
  <2> SUFFICES ASSUME ~none PROVE arc \in Ids /\ archive[arc].complete
    OBVIOUS
  <2>1. PICK a \in found : "manifest" \in archive[a].files
    OBVIOUS
  <2>2. arc \in found /\ arc <= a /\ a <= arc
    BY <1>4
  <2>3. arc = a /\ arc \in Ids
    BY <1>4, <2>2, BackupConstants DEF Ids, BackupConstants
  <2> QED
    BY <2>1, <2>3 DEF IInv, ArchiveInv, ArchivesHonest
<1>6. arc \in 0..MaxRecords /\ none \in BOOLEAN
  BY <1>4, BackupConstants DEF Ids, BackupConstants
<1>7. none => ProcessOnly(p) /\ process'[p] = Idle
  BY <1>3, LeaveEffect DEF IInv, TypeOK
<1>8. ~none => Steps(p, "test")
  BY <1>3, GoEffect DEF IInv, TypeOK
<1> HIDE DEF found, arc, none
<1>9. /\ RowOnly(process[p].rec)
      /\ record'[process[p].rec].kind = Held(p).kind /\ record'[process[p].rec].status = Held(p).status
      /\ record'[process[p].rec].dropped = none /\ record'[process[p].rec].arc = arc
  BY <1>1, <1>2, <1>6, HandsType DEF RowOnly, Record, IInv, TypeOK, Held
<1> QED
  BY <1>1, <1>5, <1>7, <1>8, <1>9

LEMMA FinishTestEffect ==
  ASSUME IInv, NEW p \in Processes, NEW thrown \in BOOLEAN, FinishTest(p, thrown)
  PROVE  /\ process[p].at = "test" /\ SameBut(process[p].rec)
         /\ record'[process[p].rec].dropped = thrown
         /\ IF thrown THEN record'[process[p].rec].status = Held(p).status
            ELSE IF Restores(Mine(p)) THEN record'[process[p].rec].status = "SUCCEEDED"
            ELSE record'[process[p].rec].status = "FAILED"
         /\ ProcessOnly(p) /\ process'[p] = Idle /\ archive' = archive
<1>1. process[p].at = "test" /\ archive' = archive /\ Working(p)
  BY DEF FinishTest, At, Working
<1>2. ProcessOnly(p) /\ process'[p] = Idle
  BY LeaveEffect DEF FinishTest, IInv, TypeOK
<1>3. Held(p) \in Record /\ process[p].rec \in Ids
  BY <1>1, HandsType DEF IInv, TypeOK, Held
<1> DEFINE status == IF thrown THEN Held(p).status ELSE IF Restores(Mine(p)) THEN "SUCCEEDED" ELSE "FAILED"
<1>4. record' = [record EXCEPT ![process[p].rec].dropped = thrown, ![process[p].rec].status = status]
  BY DEF FinishTest, Held
<1>5. status \in {"NONE", "REQUESTED", "RUNNING", "SUCCEEDED", "FAILED"}
  BY <1>3 DEF Record
<1> HIDE DEF status
<1>6. SameBut(process[p].rec)
  <2>1. RowOnly(process[p].rec)
    BY <1>3, <1>4, <1>5 DEF RowOnly, Record, IInv, TypeOK
  <2> QED
    BY <1>3, <1>4, <2>1 DEF SameBut, Record, IInv, TypeOK
<1>7. record'[process[p].rec].dropped = thrown /\ record'[process[p].rec].status = status
  <2> DEFINE r1 == [record[process[p].rec] EXCEPT !.dropped = thrown]
  <2>1. record \in [Ids -> Record]
    BY DEF IInv, TypeOK
  <2>2. record'[process[p].rec] = [r1 EXCEPT !.status = status]
    BY <1>3, <1>4, <2>1 DEF Held
  <2>3. "dropped" \in DOMAIN record[process[p].rec] /\ "status" \in DOMAIN record[process[p].rec]
    BY <1>3, <2>1 DEF Record
  <2> QED
    BY <2>2, <2>3
<1> QED
  BY <1>1, <1>2, <1>6, <1>7 DEF status

LEMMA AgeEffect ==
  ASSUME IInv, Age
  PROVE  /\ \A p \in Processes : ~Working(p)
         /\ archive' \in [Ids -> Archive]
         /\ \A a \in Ids :
              /\ archive'[a].kind = archive[a].kind /\ archive'[a].files = archive[a].files
              /\ archive'[a].complete = archive[a].complete /\ archive'[a].short = archive[a].short
              /\ archive'[a].old = (archive[a].kind # "NONE")
              /\ archive[a].kind = "NONE" => archive'[a] = archive[a]
         /\ record' = record /\ process' = process
<1>1. (\A p \in Processes : ~Working(p)) /\ record' = record /\ process' = process
  BY DEF Age, At, Working
<1>2. archive' = [a \in Ids |-> IF archive[a].kind # "NONE" THEN [archive[a] EXCEPT !.old = TRUE] ELSE archive[a]]
  BY DEF Age, Begun
<1>3. \A a \in Ids : archive[a].kind = "NONE" => ~archive[a].old
  BY DEF IInv, ArchiveInv, ArchivesHonest, NoArchive
<1>4. \A a \in Ids : archive'[a] = IF archive[a].kind # "NONE" THEN [archive[a] EXCEPT !.old = TRUE] ELSE archive[a]
  BY <1>2
<1>5. \A a \in Ids : archive[a] \in Archive
  BY DEF IInv, TypeOK
<1>6. \A a \in Ids :
        /\ archive'[a] \in Archive
        /\ archive'[a].kind = archive[a].kind /\ archive'[a].files = archive[a].files
        /\ archive'[a].complete = archive[a].complete /\ archive'[a].short = archive[a].short
        /\ archive'[a].old = (archive[a].kind # "NONE")
        /\ archive[a].kind = "NONE" => archive'[a] = archive[a]
  BY <1>3, <1>4, <1>5 DEF Archive
<1>7. archive' \in [Ids -> Archive]
  BY <1>2, <1>6
<1> QED
  BY <1>1, <1>6, <1>7

----------------------------------------------------------------------------
(* Types *)

LEMMA StepType == IInv /\ [Next]_vars => TypeOK'
<1> SUFFICES ASSUME IInv, [Next]_vars PROVE TypeOK'
  OBVIOUS
<1>0. TypeOK
  BY DEF IInv
<1>1. CASE UNCHANGED vars
  BY <1>0, <1>1 DEF vars, TypeOK
<1>2. CASE Next
  <2>1. asking' \in 0..MaxAsking /\ faults' \in 0..MaxFaults
    <3>1. \/ asking' = asking /\ faults' = faults
          \/ asking < MaxAsking /\ asking' = asking + 1 /\ faults' = faults
          \/ asking > 0 /\ asking' = asking - 1 /\ faults' = faults
          \/ asking' = asking /\ MayFault
      BY <1>2
         DEF Next, Ask, Queue, Claim, Start, Work, CountRows, Pack, Dump, Seal, List, Prune,
             Succeed, Report, PickArchive, FinishTest, Fail, Crash, Age
    <3> QED
      BY <1>0, <3>1, BackupConstants DEF BackupConstants, TypeOK, MayFault
  <2> DEFINE TablesOK == record \in [Ids -> Record] /\ archive \in [Ids -> Archive] /\ process \in [Processes -> Process]
  <2>2. TablesOK
    BY <1>0 DEF TypeOK
  <2> SUFFICES TablesOK'
    BY <2>1 DEF TypeOK
  <2>3. CASE Ask
    BY <2>2, <2>3 DEF Ask
  <2>4. CASE Queue
    BY <2>2, <2>4, <1>0, InsertEffect DEF Queue, RowOnly, Made, IInv, HoldInv
  <2>5. ASSUME NEW w \in Workers, Claim(w) PROVE TablesOK'
    BY <2>2, <2>5, ClaimEffect DEF SameBut, RowOnly, ProcessOnly
  <2>6. ASSUME NEW j \in Jobs, NEW b \in Ids, NEW kind \in Made \cup {"RESTORE_TEST"}, Start(j, b, kind) PROVE TablesOK'
    BY <2>2, <2>6, StartEffect DEF RowOnly, ProcessOnly
  <2>7. ASSUME NEW p \in Processes, Work(p) PROVE TablesOK'
    <3>1. ASSUME NEW a \in Ids, CountRows(p, a) \/ Pack(p, a) PROVE TablesOK'
      BY <3>1, CountRowsEffect, PackEffect DEF Opens, RowOnly, ArchiveOnly, Steps, ProcessOnly
    <3>2. ASSUME NEW short \in BOOLEAN, Dump(p, short) PROVE TablesOK'
      BY <2>2, <3>2, DumpEffect DEF Continues, ArchiveOnly, Steps, ProcessOnly
    <3>3. CASE Seal(p)
      BY <2>2, <3>3, SealEffect DEF Continues, ArchiveOnly, Steps, ProcessOnly
    <3>4. CASE List(p)
      BY <2>2, <3>4, ListEffect DEF ProcessOnly
    <3>5. CASE Prune(p)
      BY <2>2, <3>5, PruneEffect DEF Deletes, Misses, SameBut, RowOnly, Continues, ArchiveOnly, ProcessOnly
    <3>6. CASE Succeed(p)
      BY <2>2, <3>6, SucceedEffect DEF SameBut, RowOnly, Steps, ProcessOnly
    <3>7. CASE Report(p)
      BY <2>2, <3>7, LeaveEffect DEF Report, ProcessOnly
    <3>8. CASE PickArchive(p)
      BY <2>2, <3>8, PickArchiveEffect DEF RowOnly, Steps, ProcessOnly
    <3>9. ASSUME NEW thrown \in BOOLEAN, FinishTest(p, thrown) PROVE TablesOK'
      BY <2>2, <3>9, FinishTestEffect DEF SameBut, RowOnly, ProcessOnly
    <3> QED
      BY <2>7, <3>1, <3>2, <3>3, <3>4, <3>5, <3>6, <3>7, <3>8, <3>9 DEF Work
  <2>8. ASSUME NEW p \in Processes, Fail(p) \/ Crash(p) PROVE TablesOK'
    BY <2>2, <2>8, FailEffect, CrashEffect DEF SameBut, RowOnly, ProcessOnly
  <2>9. CASE Age
    BY <2>2, <2>9, AgeEffect
  <2> QED
    BY <1>2, <2>3, <2>4, <2>5, <2>6, <2>7, <2>8, <2>9 DEF Next
<1> QED
  BY <1>1, <1>2

----------------------------------------------------------------------------
(* Who holds a record *)

LEMMA HeldKind ==
  ASSUME IInv, NEW p \in Processes, Working(p)
  PROVE  /\ Held(p).kind \in Made \cup {"RESTORE_TEST"} /\ Held(p).kind # "NONE"
         /\ Held(p).status \in {"RUNNING", "SUCCEEDED"}
<1>1. process[p].at \in {"count", "dump", "write", "list", "prune", "report", "pack", "pick", "test"}
  BY DEF IInv, TypeOK, Process, Working
<1>2. Kinds(process[p].at) \subseteq Made \cup {"RESTORE_TEST"}
  BY <1>1 DEF Kinds, Made
<1> QED
  BY <1>2 DEF IInv, HoldInv, Holders, Made

\* A process goes on with its record.
LEMMA HoldGoesOn ==
  ASSUME IInv, NEW p \in Processes, Working(p), process[p].at # "report",
         \A b \in Ids :
           /\ record'[b].kind = record[b].kind /\ record'[b].status = record[b].status
           /\ record'[b].dropped = record[b].dropped
           /\ record[b].kind = "NONE" => record'[b] = record[b],
         ProcessOnly(p), process'[p].rec = process[p].rec,
         process'[p].at \notin {"idle", "report"}, Held(p).kind \in Kinds(process'[p].at)
  PROVE  HoldInv'
<1>1. RowsHonest'
  BY DEF IInv, HoldInv, RowsHonest
<1>2. Holders' /\ OneHolder' /\ RunningKept'
  BY DEF IInv, HoldInv, Holders, OneHolder, RunningKept, ProcessOnly, Working, Held
<1> QED
  BY <1>1, <1>2 DEF HoldInv

\* A process leaves its record, which it has brought to an end or drops.
LEMMA HoldLeft ==
  ASSUME IInv, NEW p \in Processes, Working(p), ProcessOnly(p), process'[p] = Idle,
         RowOnly(process[p].rec), record'[process[p].rec].kind = Held(p).kind,
         \/ record'[process[p].rec].status \in {"SUCCEEDED", "FAILED"}
         \/ record'[process[p].rec].status = Held(p).status /\ record'[process[p].rec].dropped
  PROVE  HoldInv'
<1>0. /\ process[p].rec \in Ids /\ Held(p).status \in {"RUNNING", "SUCCEEDED"} /\ Held(p).kind # "NONE"
      /\ ~Working(p)' /\ \A q \in Processes : q # p => process'[q] = process[q] /\ (Working(q) => process[q].rec # process[p].rec)
  BY HeldKind, ConstantTypes DEF IInv, HoldInv, Holders, OneHolder, Working, ProcessOnly
<1>1. RowsHonest'
  BY <1>0 DEF IInv, HoldInv, RowsHonest, RowOnly
<1>2. Holders' /\ OneHolder'
  BY <1>0 DEF IInv, HoldInv, Holders, OneHolder, Working, Held, RowOnly
<1>3. RunningKept'
  BY <1>0 DEF IInv, HoldInv, RunningKept, Working, Held, RowOnly
<1> QED
  BY <1>1, <1>2, <1>3 DEF HoldInv

\* An idle process takes a record that nobody has had.
LEMMA HoldTaken ==
  ASSUME IInv, NEW p \in Processes, ~Working(p), NEW b \in Ids, record[b].status \in {"NONE", "REQUESTED"},
         RowOnly(b), record'[b].status = "RUNNING", ~record'[b].dropped, record'[b].kind \in Kinds(process'[p].at),
         ProcessOnly(p), process'[p].rec = b, process'[p].at \in {"count", "pack", "pick"}
  PROVE  HoldInv'
<1>0. record'[b].kind # "NONE" /\ \A q \in Processes : Working(q) => process[q].rec # b
  BY DEF IInv, HoldInv, Holders, Kinds, Made, Held
<1>1. RowsHonest'
  BY <1>0 DEF IInv, HoldInv, RowsHonest, RowOnly
<1>2. Holders' /\ OneHolder'
  BY <1>0 DEF IInv, HoldInv, Holders, OneHolder, Working, Held, RowOnly, ProcessOnly
<1>3. RunningKept'
  BY <1>0 DEF IInv, HoldInv, RunningKept, Working, Held, RowOnly, ProcessOnly
<1> QED
  BY <1>1, <1>2, <1>3 DEF HoldInv

LEMMA StepHold == IInv /\ Next => HoldInv'
<1> SUFFICES ASSUME IInv, Next PROVE HoldInv'
  OBVIOUS
<1>0. HoldInv /\ \A b \in Ids : record[b] \in Record
  BY DEF IInv, TypeOK
<1>1. CASE record' = record /\ process' = process
  BY <1>0, <1>1 DEF HoldInv, RowsHonest, Holders, OneHolder, RunningKept, Working, Held
<1>2. CASE Queue
  <2> PICK b \in Ids : Insert(b, "DATABASE", "REQUESTED")
    BY <1>2 DEF Queue
  <2>1. /\ RowOnly(b) /\ record[b] = NoRecord /\ process' = process
        /\ record'[b].kind = "DATABASE" /\ record'[b].status = "REQUESTED" /\ ~record'[b].dropped
    BY <1>2, InsertEffect DEF Queue, Made, IInv, HoldInv
  <2>2. \A q \in Processes : Working(q) => process[q].rec # b
    BY <1>0, <2>1 DEF HoldInv, Holders, Held, NoRecord
  <2> QED
    BY <1>0, <2>1, <2>2 DEF HoldInv, RowsHonest, Holders, OneHolder, RunningKept, Working, Held, RowOnly
<1>3. ASSUME NEW w \in Workers, Claim(w) PROVE HoldInv'
  BY <1>3, ClaimEffect, HoldTaken DEF Processes, SameBut, Kinds
<1>4. ASSUME NEW j \in Jobs, NEW b \in Ids, NEW kind \in Made \cup {"RESTORE_TEST"}, Start(j, b, kind) PROVE HoldInv'
  BY <1>4, StartEffect, HoldTaken DEF Processes, NoRecord
<1>5. ASSUME NEW p \in Processes, Work(p) PROVE HoldInv'
  <2>1. ASSUME NEW a \in Ids, CountRows(p, a) \/ Pack(p, a) PROVE HoldInv'
    <3>1. /\ Working(p) /\ process[p].at # "report" /\ (Opens(p, a, {}) \/ Opens(p, a, {"data"}))
          /\ ProcessOnly(p) /\ process'[p].rec = process[p].rec
          /\ \/ process[p].at = "count" /\ process'[p].at = "dump"
             \/ process[p].at = "pack" /\ process'[p].at = "write"
      BY <2>1, CountRowsEffect, PackEffect DEF Steps, Working
    <3>2. /\ RowOnly(process[p].rec) /\ Held(p)'.kind = Held(p).kind
          /\ Held(p)'.status = Held(p).status /\ Held(p)'.dropped = Held(p).dropped
      BY <3>1 DEF Opens
    <3>3. Held(p).kind # "NONE" /\ Held(p).kind \in Kinds(process[p].at)
      BY <1>0, <3>1, HeldKind DEF HoldInv, Holders
    <3>4. Held(p).kind \in Kinds(process'[p].at)
      BY <3>1, <3>3 DEF Kinds, Made
    <3>5. process'[p].at \notin {"idle", "report"}
      BY <3>1
    <3> QED
      BY <3>1, <3>2, <3>3, <3>4, <3>5, HoldGoesOn DEF RowOnly, Held
  <2>2. ASSUME NEW short \in BOOLEAN, Dump(p, short) PROVE HoldInv'
    <3>1. Working(p) /\ process[p].at = "dump" /\ Held(p).kind \in Kinds("write")
      BY <1>0, <2>2, DumpEffect DEF HoldInv, Holders, Working, Kinds, Made
    <3> QED
      BY <2>2, <3>1, DumpEffect, HoldGoesOn DEF Steps
  <2>3. CASE Seal(p)
    <3>1. Working(p) /\ process[p].at = "write" /\ Held(p).kind \in Kinds(IF Held(p).kind = "DATABASE" THEN "list" ELSE "prune")
      BY <1>0, <2>3, SealEffect DEF HoldInv, Holders, Working, Kinds, Made
    <3> QED
      BY <2>3, <3>1, SealEffect, HoldGoesOn DEF Steps
  <2>4. CASE List(p)
    <3>1. Working(p) /\ process[p].at = "list" /\ Held(p).kind \in Kinds("prune")
      BY <1>0, <2>4, ListEffect DEF HoldInv, Holders, Working, Kinds, Made
    <3> QED
      BY <2>4, <3>1, ListEffect, HoldGoesOn
  <2>5. CASE Prune(p)
    <3>1. Working(p) /\ process[p].at = "prune" /\ Held(p).kind \in Kinds("prune")
      BY <1>0, <2>5, PruneEffect DEF HoldInv, Holders, Working
    <3>2. PICK f \in process[p].todo : Deletes(p, f) \/ Misses(p, f)
      BY <2>5, PruneEffect
    <3>3. CASE Deletes(p, f)
      BY <3>1, <3>3, HoldGoesOn DEF Deletes
    <3>4. CASE Misses(p, f)
      BY <3>1, <3>4, HoldLeft DEF Misses, SameBut, Held
    <3> QED
      BY <3>2, <3>3, <3>4
  <2>6. CASE Succeed(p)
    <3>1. /\ Working(p) /\ process[p].at = "prune" /\ Held(p).kind \in Made /\ process[p].rec \in Ids
          /\ \A q \in Processes : q # p => process'[q] = process[q] /\ (Working(q) => process[q].rec # process[p].rec)
      BY <1>0, <2>6, SucceedEffect DEF HoldInv, Holders, OneHolder, Working, Kinds, Steps, ProcessOnly
    <3>2. /\ RowOnly(process[p].rec) /\ record'[process[p].rec].kind = Held(p).kind /\ record'[process[p].rec].status = "SUCCEEDED"
          /\ process'[p].at = "report" /\ process'[p].rec = process[p].rec
      BY <2>6, SucceedEffect DEF SameBut, Held, Steps
    <3>3. RowsHonest'
      BY <1>0, <3>1, <3>2 DEF HoldInv, RowsHonest, RowOnly, Made
    <3>4. Made = Kinds("report")
      BY DEF Kinds
    <3>5. Holders'
      BY <1>0, <3>1, <3>2, <3>4 DEF HoldInv, Holders, Working, Held, RowOnly
    <3>6. OneHolder' /\ RunningKept'
      BY <1>0, <3>1, <3>2 DEF HoldInv, OneHolder, RunningKept, Working, RowOnly
    <3> QED
      BY <3>3, <3>5, <3>6 DEF HoldInv
  <2>7. CASE Report(p)
    <3>1. Working(p) /\ Held(p).status = "SUCCEEDED" /\ record' = record /\ ProcessOnly(p) /\ process'[p] = Idle
      BY <1>0, <2>7, LeaveEffect DEF Report, At, Working, HoldInv, Holders, IInv, TypeOK
    <3>2. RowOnly(process[p].rec)
      BY <3>1 DEF RowOnly, IInv, TypeOK
    <3> QED
      BY <3>1, <3>2, HoldLeft DEF Held
  <2>8. CASE PickArchive(p)
    <3>1. Working(p) /\ process[p].at = "pick" /\ ~Held(p).dropped /\ Held(p).kind \in Kinds("test") /\ Held(p).kind # "NONE"
      BY <1>0, <2>8, PickArchiveEffect DEF HoldInv, Holders, Working, Kinds
    <3>2. CASE process'[p] = Idle
      BY <2>8, <3>1, <3>2, PickArchiveEffect, HoldLeft, ConstantTypes DEF Steps
    <3>3. CASE process'[p] # Idle
      <4>1. /\ RowOnly(process[p].rec) /\ Steps(p, "test") /\ record'[process[p].rec].kind = Held(p).kind
            /\ record'[process[p].rec].status = Held(p).status /\ ~record'[process[p].rec].dropped
        BY <2>8, <3>3, PickArchiveEffect
      <4>2. record'[process[p].rec].dropped = Held(p).dropped
        BY <3>1, <4>1, HandsType DEF RowOnly, Record
      <4> QED
        BY <3>1, <4>1, <4>2, HoldGoesOn DEF Steps, RowOnly, Held
    <3> QED
      BY <3>2, <3>3
  <2>9. ASSUME NEW thrown \in BOOLEAN, FinishTest(p, thrown) PROVE HoldInv'
    BY <2>9, FinishTestEffect, HoldLeft DEF SameBut, Held, Working
  <2> QED
    BY <1>5, <2>1, <2>2, <2>3, <2>4, <2>5, <2>6, <2>7, <2>8, <2>9 DEF Work
<1>6. ASSUME NEW p \in Processes, Fail(p) \/ Crash(p) PROVE HoldInv'
  BY <1>6, FailEffect, CrashEffect, HoldLeft DEF SameBut, Held
<1>7. CASE Ask \/ Age
  BY <1>1, <1>7 DEF Ask, Age
<1> QED
  BY <1>2, <1>3, <1>4, <1>5, <1>6, <1>7 DEF Next

----------------------------------------------------------------------------
(* What happens to archives *)

\* A complete archive stays so, and files of it only disappear.
CompleteKept ==
  \A a \in Ids : archive[a].complete =>
    /\ archive'[a].complete /\ archive'[a].kind = archive[a].kind /\ archive'[a].short = archive[a].short
    /\ archive'[a].files \subseteq archive[a].files

LEMMA StepComplete == IInv /\ Next => CompleteKept
<1> SUFFICES ASSUME IInv, Next PROVE CompleteKept
  OBVIOUS
<1>1. CASE archive' = archive
  BY <1>1 DEF CompleteKept
<1>2. ASSUME NEW p \in Processes, NEW a \in Ids, Opens(p, a, {}) \/ Opens(p, a, {"data"}) PROVE CompleteKept
  <2>1. archive[a] = NoArchive /\ \A c \in Ids : c # a => archive'[c] = archive[c]
    BY <1>2 DEF Opens, ArchiveOnly
  <2> QED
    BY <2>1 DEF CompleteKept, NoArchive
<1>3. ASSUME NEW p \in Processes, NEW short \in BOOLEAN, Dump(p, short) PROVE CompleteKept
  <2>1. Mine(p) \in Ids /\ ~archive[Mine(p)].complete /\ \A c \in Ids : c # Mine(p) => archive'[c] = archive[c]
    BY <1>3, DumpEffect DEF IInv, ArchiveInv, Making, Continues, ArchiveOnly
  <2> QED
    BY <2>1 DEF CompleteKept
<1>4. ASSUME NEW p \in Processes, Seal(p) PROVE CompleteKept
  <2>1. Mine(p) \in Ids /\ ~archive[Mine(p)].complete /\ \A c \in Ids : c # Mine(p) => archive'[c] = archive[c]
    BY <1>4, SealEffect DEF IInv, ArchiveInv, Making, Continues, ArchiveOnly
  <2> QED
    BY <2>1 DEF CompleteKept
<1>5. ASSUME NEW p \in Processes, NEW f, Deletes(p, f) PROVE CompleteKept
  BY <1>5 DEF Deletes, Continues, ArchiveOnly, CompleteKept
<1>6. ASSUME NEW p \in Processes, Prune(p) PROVE CompleteKept
  BY <1>1, <1>5, <1>6, PruneEffect DEF Misses
<1>7. CASE Age
  BY <1>7, AgeEffect DEF CompleteKept
<1>8. ASSUME NEW p \in Processes, NEW a \in Ids, CountRows(p, a) \/ Pack(p, a) PROVE CompleteKept
  BY <1>2, <1>8, CountRowsEffect, PackEffect
<1> QED
  BY <1>1, <1>3, <1>4, <1>6, <1>7, <1>8
     DEF Next, Ask, Queue, Claim, Start, Work, List, Succeed, Report, PickArchive, FinishTest, Fail, Crash

LEMMA StepArchives == IInv /\ Next => ArchivesHonest'
<1> SUFFICES ASSUME IInv, Next PROVE ArchivesHonest'
  OBVIOUS
<1>0. ArchivesHonest
  BY DEF IInv, ArchiveInv
<1>1. CASE archive' = archive
  BY <1>0, <1>1 DEF ArchivesHonest
<1>2. ASSUME NEW a \in Ids, Continues(a), "manifest" \in archive'[a].files => archive'[a].complete,
             archive[a].kind # "NONE"
      PROVE  ArchivesHonest'
  BY <1>0, <1>2 DEF ArchivesHonest, Continues, ArchiveOnly
<1>3. ASSUME NEW p \in Processes, Working(p), process[p].at \in {"dump", "write"} PROVE archive[Mine(p)].kind # "NONE"
  BY <1>3, HeldKind DEF IInv, ArchiveInv, Making
<1>4. ASSUME NEW p \in Processes, NEW a \in Ids, NEW files \in SUBSET {"data"}, Opens(p, a, files), Held(p).kind # "NONE"
      PROVE  ArchivesHonest'
  <2>1. /\ archive[a] = NoArchive /\ \A c \in Ids : c < a => archive[c].kind # "NONE"
        /\ archive'[a].kind # "NONE" /\ "manifest" \notin archive'[a].files /\ ~archive'[a].old
        /\ \A c \in Ids : c # a => archive'[c] = archive[c]
    BY <1>4 DEF Opens, ArchiveOnly
  <2>2. \A c \in Ids : a < c => archive[c].kind = "NONE" /\ ~archive[c].old
    BY <1>0, <2>1 DEF ArchivesHonest, NoArchive
  <2> SUFFICES ASSUME NEW c \in Ids
               PROVE  /\ archive'[c].kind = "NONE" => archive'[c] = NoArchive
                      /\ \A d \in Ids : d < c /\ archive'[c].kind # "NONE" => archive'[d].kind # "NONE"
                      /\ \A d \in Ids : d < c /\ archive'[c].old => archive'[d].old
                      /\ "manifest" \in archive'[c].files => archive'[c].complete
    BY DEF ArchivesHonest
  <2>3. archive'[c].kind = "NONE" => archive'[c] = NoArchive
    BY <1>0, <2>1 DEF ArchivesHonest
  <2>4. ASSUME NEW d \in Ids, d < c, archive'[c].kind # "NONE" PROVE archive'[d].kind # "NONE"
    BY <1>0, <2>1, <2>4 DEF ArchivesHonest
  <2>5. ASSUME NEW d \in Ids, d < c, archive'[c].old PROVE archive'[d].old
    BY <1>0, <2>1, <2>2, <2>5 DEF ArchivesHonest
  <2>6. "manifest" \in archive'[c].files => archive'[c].complete
    BY <1>0, <2>1 DEF ArchivesHonest
  <2> QED
    BY <2>3, <2>4, <2>5, <2>6
<1>5. ASSUME NEW p \in Processes, NEW a \in Ids, CountRows(p, a) \/ Pack(p, a) PROVE ArchivesHonest'
  <2>1. Working(p) /\ (Opens(p, a, {}) \/ Opens(p, a, {"data"}))
    BY <1>5, CountRowsEffect, PackEffect DEF Working
  <2> QED
    BY <1>4, <2>1, HeldKind
<1>6. ASSUME NEW p \in Processes, NEW short \in BOOLEAN, Dump(p, short) PROVE ArchivesHonest'
  BY <1>2, <1>3, <1>6, DumpEffect DEF Working
<1>7. ASSUME NEW p \in Processes, Seal(p) PROVE ArchivesHonest'
  BY <1>2, <1>3, <1>7, SealEffect DEF Working
<1>8. ASSUME NEW p \in Processes, Prune(p) PROVE ArchivesHonest'
  <2>1. PICK f \in process[p].todo : Deletes(p, f) \/ Misses(p, f)
    BY <1>8, PruneEffect
  <2>2. CASE Deletes(p, f)
    <3>1. f[1] \in Ids /\ archive[f[1]].files # {}
      BY <2>2 DEF Deletes, Files
    <3>2. archive[f[1]].kind # "NONE"
      BY <1>0, <3>1 DEF ArchivesHonest, NoArchive
    <3>3. "manifest" \in archive'[f[1]].files => archive'[f[1]].complete
      BY <1>0, <2>2, <3>1 DEF ArchivesHonest, Deletes
    <3> QED
      BY <1>2, <2>2, <3>1, <3>2, <3>3 DEF Deletes
  <2>3. CASE Misses(p, f)
    BY <1>1, <2>3 DEF Misses
  <2> QED
    BY <2>1, <2>2, <2>3
<1>9. CASE Age
  <2>1. \A a \in Ids :
          /\ archive'[a].kind = archive[a].kind /\ archive'[a].files = archive[a].files
          /\ archive'[a].complete = archive[a].complete
          /\ archive'[a].old <=> archive[a].kind # "NONE"
          /\ archive[a].kind = "NONE" => archive'[a] = archive[a]
    BY <1>9, AgeEffect
  <2> QED
    BY <1>0, <2>1 DEF ArchivesHonest
<1> QED
  BY <1>1, <1>5, <1>6, <1>7, <1>8, <1>9
     DEF Next, Ask, Queue, Claim, Start, Work, List, Succeed, Report, PickArchive, FinishTest, Fail, Crash

\* What Making says of one process.
Hands(p) ==
  /\ process[p].at \in {"dump", "write"} => Mine(p) \in Ids /\ ~archive[Mine(p)].complete
  /\ process[p].at \in {"list", "prune", "test"} => Mine(p) \in Ids /\ archive[Mine(p)].complete
  /\ process[p].at \in {"dump", "write", "list", "prune"} =>
       archive[Mine(p)].kind = Held(p).kind /\ ~archive[Mine(p)].old

MakingBy(p) == process[p].at \in {"dump", "write"}

\* A step of another process, or none, leaves p's hands alone.
LEMMA HandsKept ==
  ASSUME IInv, Next, NEW p \in Processes, Working(p), process'[p] = process[p],
         Held(p)'.arc = Held(p).arc, Held(p)'.kind = Held(p).kind,
         \A a \in Ids :
           /\ archive[a].kind # "NONE" => archive'[a].kind = archive[a].kind /\ archive'[a].old = archive[a].old
           /\ MakingBy(p) /\ a = Mine(p) => archive'[a].complete = archive[a].complete
  PROVE  Hands(p)' /\ Mine(p)' = Mine(p)
<1>1. Mine(p)' = Mine(p) /\ Hands(p)
  BY DEF Mine, Held, IInv, ArchiveInv, Making, Hands
<1>2. process[p].at \in {"dump", "write", "list", "prune"} => archive[Mine(p)].kind # "NONE"
  BY HeldKind DEF IInv, ArchiveInv, Making
<1>3. CompleteKept
  BY StepComplete
<1> QED
  BY <1>1, <1>2, <1>3 DEF Hands, MakingBy, CompleteKept

LEMMA OthersRows ==
  ASSUME IInv, NEW p \in Processes, Working(p), RowOnly(process[p].rec), ProcessOnly(p)
  PROVE  \A q \in Processes : q # p /\ Working(q) => Held(q)' = Held(q)
BY DEF IInv, HoldInv, Holders, OneHolder, RowOnly, ProcessOnly, Held

LEMMA HeldRows ==
  ASSUME IInv, NEW p \in Processes, ProcessOnly(p), NEW b \in Ids, record[b].status \in {"NONE", "REQUESTED"}, RowOnly(b)
  PROVE  \A q \in Processes : q # p /\ Working(q) => Held(q)' = Held(q)
BY DEF IInv, HoldInv, Holders, RowOnly, ProcessOnly, Held

\* A step of p that leaves the rows of others and, but for what p itself makes, the archives alone.
LEMMA MakingGoesOn ==
  ASSUME IInv, Next, NEW p \in Processes, ProcessOnly(p),
         \A q \in Processes : q # p /\ Working(q) => Held(q)'.arc = Held(q).arc /\ Held(q)'.kind = Held(q).kind,
         \A a \in Ids :
           /\ archive[a].kind # "NONE" => archive'[a].kind = archive[a].kind /\ archive'[a].old = archive[a].old
           /\ \A q \in Processes : q # p /\ MakingBy(q) /\ a = Mine(q) => archive'[a].complete = archive[a].complete,
         Hands(p)',
         MakingBy(p)' => \/ MakingBy(p) /\ Mine(p)' = Mine(p)
                        \/ archive[Mine(p)'].kind = "NONE"
  PROVE  Making' /\ OneMaker'
<1>1. ASSUME NEW q \in Processes, q # p
      PROVE  Hands(q)' /\ (MakingBy(q)' => MakingBy(q) /\ Mine(q)' = Mine(q) /\ archive[Mine(q)].kind # "NONE")
  <2>1. process'[q] = process[q]
    BY <1>1 DEF ProcessOnly
  <2>2. CASE Working(q)
    <3>1. Hands(q)' /\ Mine(q)' = Mine(q)
      BY <1>1, <2>1, <2>2, HandsKept
    <3>2. MakingBy(q) => archive[Mine(q)].kind # "NONE"
      BY <2>2, HeldKind DEF IInv, ArchiveInv, Making, MakingBy
    <3> QED
      BY <2>1, <3>1, <3>2 DEF MakingBy
  <2>3. CASE ~Working(q)
    BY <2>1, <2>3 DEF Working, Hands, MakingBy
  <2> QED
    BY <2>2, <2>3
<1>2. Making'
  <2>1. \A q \in Processes : Hands(q)'
    BY <1>1
  <2> QED
    BY <2>1 DEF Making, Hands
<1>3. OneMaker
  BY DEF IInv, ArchiveInv
<1>4. OneMaker'
  <2> SUFFICES ASSUME NEW q \in Processes, NEW r \in Processes, MakingBy(q)', MakingBy(r)', Mine(q)' = Mine(r)', q # r PROVE FALSE
    BY DEF OneMaker, MakingBy
  <2>1. CASE q # p /\ r # p
    BY <1>1, <1>3, <2>1 DEF OneMaker, MakingBy
  <2>2. CASE q = p
    BY <1>1, <1>3, <2>2 DEF OneMaker, MakingBy
  <2>3. CASE r = p
    BY <1>1, <1>3, <2>3 DEF OneMaker, MakingBy
  <2> QED
    BY <2>1, <2>2, <2>3
<1> QED
  BY <1>2, <1>4

LEMMA StepMaking == IInv /\ Next => Making' /\ OneMaker'
<1> SUFFICES ASSUME IInv, Next PROVE Making' /\ OneMaker'
  OBVIOUS
<1> DEFINE ArchivesKept == \A a \in Ids : archive[a].kind # "NONE" => archive'[a].kind = archive[a].kind /\ archive'[a].old = archive[a].old
           OthersHeld(p) == \A q \in Processes : q # p /\ Working(q) => Held(q)'.arc = Held(q).arc /\ Held(q)'.kind = Held(q).kind
           OthersOwn(p) == \A a \in Ids : \A q \in Processes : q # p /\ MakingBy(q) /\ a = Mine(q) => archive'[a].complete = archive[a].complete
<1>0. \A p \in Processes : Hands(p)
  BY DEF IInv, ArchiveInv, Making, Hands
<1>1. ASSUME NEW p \in Processes, ProcessOnly(p), archive' = archive, OthersHeld(p), Hands(p)', ~MakingBy(p)'
      PROVE  Making' /\ OneMaker'
  <2>1. ArchivesKept /\ OthersOwn(p)
    BY <1>1
  <2> QED
    BY <1>1, <2>1, MakingGoesOn
<1>2. ASSUME NEW p \in Processes, ProcessOnly(p), archive' = archive, Working(p), RowOnly(process[p].rec), process'[p] = Idle
      PROVE  Making' /\ OneMaker'
  <2>1. OthersHeld(p)
    BY <1>2, OthersRows
  <2>2. Hands(p)' /\ ~MakingBy(p)'
    BY <1>2, ConstantTypes DEF Hands, MakingBy
  <2> QED
    BY <1>1, <1>2, <2>1, <2>2
<1>3. ASSUME NEW p \in Processes, ProcessOnly(p), archive' = archive, NEW b \in Ids, record[b].status \in {"NONE", "REQUESTED"},
             RowOnly(b), process'[p].at \in {"count", "pack", "pick"}
      PROVE  Making' /\ OneMaker'
  <2>1. OthersHeld(p)
    BY <1>3, HeldRows
  <2>2. Hands(p)' /\ ~MakingBy(p)'
    BY <1>3 DEF Hands, MakingBy
  <2> QED
    BY <1>1, <1>3, <2>1, <2>2
<1>4. CASE Ask \/ Age \/ Queue
  <2>1. process' = process
    BY <1>4, AgeEffect DEF Ask, Queue
  <2>2. CASE \A p \in Processes : ~Working(p)
    BY <2>1, <2>2 DEF Making, OneMaker, Working
  <2>3. CASE ~Age
    <3>1. archive' = archive
      BY <1>4, <2>3 DEF Ask, Queue
    <3>2. \A q \in Processes : Working(q) => Held(q)' = Held(q)
      <4>1. CASE Ask
        BY <2>1, <4>1 DEF Ask, Held
      <4>2. CASE Queue
        <5> PICK b \in Ids : Insert(b, "DATABASE", "REQUESTED")
          BY <4>2 DEF Queue
        <5>1. RowOnly(b) /\ record[b] = NoRecord
          BY InsertEffect DEF Made, IInv, HoldInv
        <5> QED
          BY <2>1, <5>1 DEF IInv, HoldInv, Holders, NoRecord, Held, RowOnly
      <4> QED
        BY <1>4, <2>3, <4>1, <4>2
    <3> QED
      BY <2>1, <3>1, <3>2 DEF IInv, ArchiveInv, Making, OneMaker, Mine, Held, Working
  <2> QED
    BY <2>2, <2>3, AgeEffect
<1>5. ASSUME NEW w \in Workers, Claim(w) PROVE Making' /\ OneMaker'
  BY <1>3, <1>5, ClaimEffect DEF SameBut, Processes
<1>6. ASSUME NEW j \in Jobs, NEW b \in Ids, NEW kind \in Made \cup {"RESTORE_TEST"}, Start(j, b, kind) PROVE Making' /\ OneMaker'
  BY <1>3, <1>6, StartEffect DEF Processes, NoRecord
<1>7. ASSUME NEW p \in Processes, Work(p) PROVE Making' /\ OneMaker'
  <2>1. ASSUME NEW a \in Ids, CountRows(p, a) \/ Pack(p, a) PROVE Making' /\ OneMaker'
    <3>1. /\ Working(p) /\ (Opens(p, a, {}) \/ Opens(p, a, {"data"}))
          /\ ProcessOnly(p) /\ process'[p].rec = process[p].rec /\ process'[p].at \in {"dump", "write"}
      BY <2>1, CountRowsEffect, PackEffect DEF Working, Steps
    <3>2. /\ ArchiveOnly(a) /\ archive[a].kind = "NONE" /\ archive'[a].kind = Held(p).kind
          /\ ~archive'[a].complete /\ ~archive'[a].old
          /\ RowOnly(process[p].rec) /\ Mine(p)' = a /\ Held(p)'.kind = Held(p).kind
      BY <3>1 DEF Opens, NoArchive, Mine, Held
    <3>3. OthersHeld(p)
      BY <3>1, <3>2, OthersRows
    <3>4. \A q \in Processes : MakingBy(q) => Mine(q) # a
      BY <3>2, HeldKind DEF MakingBy, IInv, ArchiveInv, Making, Working
    <3>5. ArchivesKept /\ OthersOwn(p)
      BY <3>2, <3>4 DEF ArchiveOnly
    <3>6. Hands(p)'
      BY <3>1, <3>2 DEF Hands
    <3> QED
      BY <3>1, <3>2, <3>3, <3>5, <3>6, MakingGoesOn
  <2>2. ASSUME Working(p), MakingBy(p), Steps(p, process'[p].at), record' = record, Continues(Mine(p)), Hands(p)'
        PROVE  Making' /\ OneMaker'
    <3>1. OthersHeld(p) /\ Mine(p)' = Mine(p) /\ ProcessOnly(p)
      BY <2>2 DEF Steps, ProcessOnly, Held, Mine
    <3>2. \A q \in Processes : q # p /\ MakingBy(q) => Mine(q) # Mine(p)
      BY <2>2 DEF IInv, ArchiveInv, OneMaker, MakingBy
    <3>3. ArchivesKept /\ OthersOwn(p)
      BY <2>2, <3>2 DEF Continues, ArchiveOnly
    <3> QED
      BY <2>2, <3>1, <3>3, MakingGoesOn
  <2>3. ASSUME NEW short \in BOOLEAN, Dump(p, short) PROVE Making' /\ OneMaker'
    <3>1. Working(p) /\ MakingBy(p) /\ process'[p].at = "write" /\ Mine(p)' = Mine(p) /\ Held(p)' = Held(p)
      BY <2>3, DumpEffect DEF Working, MakingBy, Steps, Mine, Held
    <3>2. Hands(p)'
      BY <1>0, <2>3, <3>1, DumpEffect DEF Hands, MakingBy, Continues
    <3> QED
      BY <2>2, <2>3, <3>1, <3>2, DumpEffect
  <2>4. CASE Seal(p)
    <3>1. /\ Working(p) /\ MakingBy(p) /\ process'[p].at \in {"list", "prune"} /\ Mine(p)' = Mine(p) /\ Held(p)' = Held(p)
          /\ Steps(p, process'[p].at)
      BY <2>4, SealEffect DEF Working, MakingBy, Steps, Mine, Held
    <3>2. Hands(p)'
      BY <1>0, <2>4, <3>1, SealEffect DEF Hands, MakingBy, Continues
    <3> QED
      BY <2>2, <2>4, <3>1, <3>2, SealEffect
  <2>5. CASE List(p)
    <3>1. /\ process[p].at = "list" /\ Working(p) /\ process'[p].at = "prune" /\ process'[p].rec = process[p].rec
          /\ ProcessOnly(p) /\ archive' = archive
      BY <2>5, ListEffect DEF Working
    <3>2. OthersHeld(p)
      BY <2>5, <3>1, HandsType, ListEffect DEF Held, ProcessOnly
    <3>3. Mine(p)' = Mine(p) /\ Held(p)'.kind = Held(p).kind
      BY <2>5, <3>1, HandsType, ListEffect DEF Held, Mine
    <3>4. Hands(p)' /\ ~MakingBy(p)'
      BY <1>0, <3>1, <3>3 DEF Hands, MakingBy
    <3> QED
      BY <1>1, <3>1, <3>2, <3>4
  <2>6. CASE Prune(p)
    <3>1. process[p].at = "prune" /\ Working(p)
      BY <2>6, PruneEffect DEF Working
    <3>2. PICK f \in process[p].todo : Deletes(p, f) \/ Misses(p, f)
      BY <2>6, PruneEffect
    <3>3. CASE Misses(p, f)
      BY <1>2, <3>1, <3>3 DEF Misses, SameBut
    <3>4. CASE Deletes(p, f)
      <4>1. /\ f[1] \in Ids /\ \A a \in Ids : /\ archive'[a].kind = archive[a].kind /\ archive'[a].old = archive[a].old
                                            /\ archive'[a].complete = archive[a].complete
        BY <3>4 DEF Deletes, Files, Continues, ArchiveOnly
      <4>2. OthersHeld(p) /\ ProcessOnly(p) /\ process'[p].at = "prune" /\ Mine(p)' = Mine(p) /\ Held(p)' = Held(p)
        BY <3>4 DEF Deletes, ProcessOnly, Held, Mine
      <4>3. Hands(p)' /\ ~MakingBy(p)'
        BY <1>0, <3>1, <4>1, <4>2 DEF Hands, MakingBy
      <4> QED
        BY <4>1, <4>2, <4>3, MakingGoesOn
    <3> QED
      BY <3>2, <3>3, <3>4
  <2>7. CASE Succeed(p)
    <3>1. /\ Working(p) /\ RowOnly(process[p].rec) /\ ProcessOnly(p) /\ process'[p].at = "report" /\ archive' = archive
      BY <2>7, SucceedEffect DEF Working, SameBut, Steps
    <3>2. OthersHeld(p) /\ Hands(p)' /\ ~MakingBy(p)'
      BY <3>1, OthersRows DEF Hands, MakingBy
    <3> QED
      BY <1>1, <3>1, <3>2
  <2>8. CASE Report(p)
    <3>1. Working(p) /\ record' = record /\ archive' = archive /\ ProcessOnly(p) /\ process'[p] = Idle
      BY <2>8, LeaveEffect DEF Report, At, Working, IInv, TypeOK
    <3>2. RowOnly(process[p].rec)
      BY <3>1 DEF RowOnly, IInv, TypeOK
    <3> QED
      BY <1>2, <3>1, <3>2
  <2>9. CASE PickArchive(p)
    <3>1. Working(p) /\ RowOnly(process[p].rec) /\ archive' = archive
      BY <2>9, PickArchiveEffect DEF Working
    <3>2. CASE process'[p] = Idle
      BY <1>2, <2>9, <3>1, <3>2, PickArchiveEffect DEF Steps
    <3>3. CASE process'[p] # Idle
      <4>1. Steps(p, "test") /\ record'[process[p].rec].arc \in Ids /\ archive[record'[process[p].rec].arc].complete
        BY <2>9, <3>3, PickArchiveEffect
      <4>2. OthersHeld(p) /\ ProcessOnly(p)
        BY <3>1, <4>1, OthersRows DEF Steps
      <4>3. Hands(p)' /\ ~MakingBy(p)'
        BY <3>1, <4>1 DEF Hands, MakingBy, Steps, Mine
      <4> QED
        BY <1>1, <3>1, <4>2, <4>3
    <3> QED
      BY <3>2, <3>3
  <2>10. ASSUME NEW thrown \in BOOLEAN, FinishTest(p, thrown) PROVE Making' /\ OneMaker'
    BY <1>2, <2>10, FinishTestEffect DEF Working, SameBut
  <2> QED
    BY <1>7, <2>1, <2>3, <2>4, <2>5, <2>6, <2>7, <2>8, <2>9, <2>10 DEF Work
<1>8. ASSUME NEW p \in Processes, Fail(p) \/ Crash(p) PROVE Making' /\ OneMaker'
  BY <1>2, <1>8, FailEffect, CrashEffect DEF SameBut
<1> QED
  BY <1>4, <1>5, <1>6, <1>7, <1>8 DEF Next

----------------------------------------------------------------------------
(* Pruning *)

\* Only old files go, which is none that is being made.
LEMMA OldFiles ==
  ASSUME IInv, Next
  PROVE  /\ \A a \in Ids : archive[a].old => archive'[a].old
         /\ \/ \A f \in Files : archive[f[1]].old => f \in Files'
            \/ \E p \in Processes : \E g \in process[p].todo : Deletes(p, g) /\ process[p].at = "prune" /\ Prune(p)
<1>1. ASSUME NEW p \in Processes, Working(p), MakingBy(p), Continues(Mine(p))
      PROVE  (\A a \in Ids : archive[a].old => archive'[a].old) /\ \A f \in Files : archive[f[1]].old => f \in Files'
  <2>1. ~archive[Mine(p)].old /\ \A a \in Ids : a # Mine(p) => archive'[a] = archive[a]
    BY <1>1 DEF IInv, ArchiveInv, Making, MakingBy, Continues, ArchiveOnly
  <2> QED
    BY <2>1 DEF Files
<1>2. ASSUME NEW p \in Processes, NEW a \in Ids, CountRows(p, a) \/ Pack(p, a)
      PROVE  (\A c \in Ids : archive[c].old => archive'[c].old) /\ \A f \in Files : archive[f[1]].old => f \in Files'
  <2>1. ~archive[a].old /\ \A c \in Ids : c # a => archive'[c] = archive[c]
    BY <1>2, CountRowsEffect, PackEffect DEF Opens, ArchiveOnly, NoArchive
  <2> QED
    BY <2>1 DEF Files
<1>3. ASSUME NEW p \in Processes, Prune(p)
      PROVE  /\ \A a \in Ids : archive[a].old => archive'[a].old
             /\ \/ archive' = archive
                \/ \E g \in process[p].todo : Deletes(p, g) /\ process[p].at = "prune" /\ Prune(p)
  BY <1>3, PruneEffect DEF Deletes, Misses, Continues, ArchiveOnly
<1>4. CASE Age
  BY <1>4, AgeEffect DEF Files, IInv, ArchiveInv, ArchivesHonest, NoArchive
<1>5. ASSUME archive' = archive
      PROVE  (\A c \in Ids : archive[c].old => archive'[c].old) /\ \A f \in Files : archive[f[1]].old => f \in Files'
  BY <1>5 DEF Files
<1>6. ASSUME NEW p \in Processes, Work(p)
      PROVE  /\ \A a \in Ids : archive[a].old => archive'[a].old
             /\ \/ \A f \in Files : archive[f[1]].old => f \in Files'
                \/ \E g \in process[p].todo : Deletes(p, g) /\ process[p].at = "prune" /\ Prune(p)
  <2>1. ASSUME NEW short \in BOOLEAN, Dump(p, short)
        PROVE  (\A c \in Ids : archive[c].old => archive'[c].old) /\ \A f \in Files : archive[f[1]].old => f \in Files'
    BY <1>1, <2>1, DumpEffect DEF Working, MakingBy
  <2>2. CASE Seal(p)
    BY <1>1, <2>2, SealEffect DEF Working, MakingBy
  <2>3. CASE Prune(p)
    BY <1>3, <1>5, <2>3
  <2>4. CASE List(p) \/ Succeed(p) \/ Report(p) \/ PickArchive(p) \/ \E thrown \in BOOLEAN : FinishTest(p, thrown)
    BY <1>5, <2>4 DEF List, Succeed, Report, PickArchive, FinishTest
  <2>5. CASE \E a \in Ids : CountRows(p, a) \/ Pack(p, a)
    BY <1>2, <2>5
  <2> QED
    BY <1>6, <2>1, <2>2, <2>3, <2>4, <2>5 DEF Work
<1>7. CASE Ask \/ Queue \/ (\E w \in Workers : Claim(w)) \/ (\E p \in Processes : Fail(p) \/ Crash(p))
           \/ \E j \in Jobs, b \in Ids, kind \in Made \cup {"RESTORE_TEST"} : Start(j, b, kind)
  BY <1>5, <1>7 DEF Ask, Queue, Claim, Start, Fail, Crash
<1> QED
  BY <1>4, <1>6, <1>7 DEF Next

\* What Deleting says of one process.
Deletion(p) ==
  /\ process[p].todo # {} => process[p].at = "prune" /\ Held(p).kind = "DATABASE"
  /\ \A f \in process[p].todo : archive[f[1]].old /\ (f \in Files \/ Held(p).overlap)

LEMMA TodoFiles ==
  ASSUME IInv, NEW p \in Processes, NEW f \in process[p].todo
  PROVE  f \in Ids \X Parts /\ f[1] \in Ids
BY DEF IInv, TypeOK, Process

\* A process that keeps its files to delete.
LEMMA DeletionKept ==
  ASSUME IInv, Next, NEW p \in Processes, process'[p].todo = process[p].todo, process'[p].at = process[p].at,
         process[p].todo # {} => Held(p)'.kind = Held(p).kind /\ (Held(p).overlap => Held(p)'.overlap),
         \A q \in Processes : Prune(q) => q # p
  PROVE  Deletion(p)'
<1>1. Deletion(p)
  BY DEF IInv, PruneInv, Deleting, Deletion
<1>2. ASSUME NEW f \in process[p].todo PROVE archive'[f[1]].old /\ (f \in Files' \/ Held(p)'.overlap)
  <2>1. archive[f[1]].old /\ (f \in Files \/ Held(p).overlap) /\ f \in Ids \X Parts /\ f[1] \in Ids
    BY <1>1, TodoFiles DEF Deletion
  <2>2. archive'[f[1]].old
    BY <2>1, OldFiles
  <2>3. CASE \A g \in Files : archive[g[1]].old => g \in Files'
    BY <2>1, <2>2, <2>3
  <2>4. ASSUME NEW q \in Processes, NEW g \in process[q].todo, Prune(q) PROVE Held(p)'.overlap
    BY <2>4 DEF IInv, PruneInv, Overlaps
  <2> QED
    BY <2>2, <2>3, <2>4, OldFiles
<1> QED
  BY <1>1, <1>2 DEF Deletion

\* The steps after which the process p has nothing to delete, or what it had.
LEMMA PruneGoesOn ==
  ASSUME IInv, Next, NEW p \in Processes, ProcessOnly(p),
         \A q \in Processes : q # p /\ process[q].todo # {} =>
           Held(q)'.kind = Held(q).kind /\ (Held(q).overlap => Held(q)'.overlap),
         Deletion(p)',
         process'[p].todo # {} => \A q \in Processes : q # p /\ process[q].todo # {} => Held(p)'.overlap /\ Held(q)'.overlap,
         \A q \in Processes : Prune(q) => q = p
  PROVE  PruneInv'
<1>1. \A q \in Processes : q # p => process'[q] = process[q]
  BY DEF ProcessOnly
<1>2. \A q \in Processes : Deletion(q)'
  BY <1>1, DeletionKept
<1>3. Deleting'
  BY <1>2 DEF Deletion, Deleting
<1>4. Overlaps'
  BY <1>1 DEF IInv, PruneInv, Overlaps
<1> QED
  BY <1>3, <1>4 DEF PruneInv

LEMMA Todo ==
  ASSUME IInv, NEW p \in Processes, process[p].at # "prune"
  PROVE  process[p].todo = {}
BY DEF IInv, PruneInv, Deleting

\* Only one process takes a step of pruning.
LEMMA PruneMoves ==
  ASSUME IInv, NEW q \in Processes, Prune(q)
  PROVE  process'[q] # process[q]
<1>1. PICK f \in process[q].todo : Deletes(q, f) \/ Misses(q, f)
  BY PruneEffect
<1>2. CASE Deletes(q, f)
  BY <1>2 DEF Deletes
<1>3. CASE Misses(q, f)
  BY <1>3, ConstantTypes DEF Misses
<1> QED
  BY <1>1, <1>2, <1>3

LEMMA OnePrunes ==
  ASSUME IInv, NEW p \in Processes, NEW q \in Processes, Prune(q), ProcessOnly(p)
  PROVE  q = p
BY PruneMoves DEF ProcessOnly

LEMMA StepPrune == IInv /\ Next => PruneInv'
<1> SUFFICES ASSUME IInv, Next PROVE PruneInv'
  OBVIOUS
<1> DEFINE OthersHeld(p) == \A q \in Processes : q # p /\ process[q].todo # {} =>
             Held(q)'.kind = Held(q).kind /\ (Held(q).overlap => Held(q)'.overlap)
<1>1. ASSUME NEW p \in Processes, ProcessOnly(p), OthersHeld(p), process'[p].todo = {} PROVE PruneInv'
  BY <1>1, PruneGoesOn, OnePrunes DEF Deletion
<1>2. \A q \in Processes : process[q].todo # {} => Working(q)
  BY Todo DEF Working
<1>3. ASSUME NEW p \in Processes, ProcessOnly(p), Working(p), RowOnly(process[p].rec), process'[p].todo = {} PROVE PruneInv'
  BY <1>1, <1>2, <1>3, OthersRows
<1>4. ASSUME NEW p \in Processes, ProcessOnly(p), NEW b \in Ids, record[b].status \in {"NONE", "REQUESTED"}, RowOnly(b),
             process'[p].todo = {} PROVE PruneInv'
  BY <1>1, <1>2, <1>4, HeldRows
<1>5. record' = record => \A b : RowOnly(b)
  BY DEF RowOnly, IInv, TypeOK
<1>6. CASE Ask \/ Age \/ Queue
  <2>1. process' = process /\ \A q \in Processes : ~Prune(q)
    BY <1>6, AgeEffect, PruneMoves DEF Ask, Queue
  <2>2. \A q \in Processes : Working(q) => Held(q)' = Held(q)
    <3>1. CASE Ask \/ Age
      BY <2>1, <3>1 DEF Ask, Age, Held
    <3>2. CASE Queue
      <4> PICK b \in Ids : Insert(b, "DATABASE", "REQUESTED")
        BY <3>2 DEF Queue
      <4>1. RowOnly(b) /\ record[b] = NoRecord
        BY InsertEffect DEF Made, IInv, HoldInv
      <4> QED
        BY <2>1, <4>1 DEF IInv, HoldInv, Holders, NoRecord, Held, RowOnly
    <3> QED
      BY <1>6, <3>1, <3>2
  <2>3. \A q \in Processes : Deletion(q)'
    BY <1>2, <2>1, <2>2, DeletionKept
  <2>4. Overlaps'
    BY <1>2, <2>1, <2>2 DEF IInv, PruneInv, Overlaps
  <2> QED
    BY <2>3, <2>4 DEF PruneInv, Deleting, Deletion
<1>7. ASSUME NEW w \in Workers, Claim(w) PROVE PruneInv'
  BY <1>4, <1>7, ClaimEffect DEF SameBut, Processes
<1>8. ASSUME NEW j \in Jobs, NEW b \in Ids, NEW kind \in Made \cup {"RESTORE_TEST"}, Start(j, b, kind) PROVE PruneInv'
  BY <1>4, <1>8, StartEffect DEF Processes, NoRecord
<1>9. ASSUME NEW p \in Processes, Work(p) PROVE PruneInv'
  <2>1. ASSUME NEW a \in Ids, CountRows(p, a) \/ Pack(p, a) PROVE PruneInv'
    <3>1. /\ ProcessOnly(p) /\ Working(p) /\ RowOnly(process[p].rec) /\ process'[p].todo = process[p].todo
          /\ process[p].at # "prune"
      BY <2>1, CountRowsEffect, PackEffect DEF Opens, Steps, Working
    <3> QED
      BY <1>3, <3>1, Todo
  <2>2. ASSUME NEW short \in BOOLEAN, Dump(p, short) PROVE PruneInv'
    BY <1>3, <1>5, <2>2, DumpEffect, Todo DEF Steps, Working
  <2>3. CASE Seal(p)
    BY <1>3, <1>5, <2>3, SealEffect, Todo DEF Steps, Working
  <2>4. CASE List(p)
    <3>1. /\ process[p].at = "list" /\ Working(p) /\ ProcessOnly(p) /\ process'[p].at = "prune"
          /\ process'[p].rec = process[p].rec /\ process'[p].todo = Expired /\ archive' = archive
      BY <2>4, ListEffect DEF Working
    <3>2. OthersHeld(p)
      BY <1>2, <2>4, <3>1, HandsType, ListEffect DEF ProcessOnly, Held
    <3>3. Held(p)'.kind = "DATABASE"
      <4>1. Kinds("list") = {"DATABASE"}
        BY DEF Kinds
      <4> QED
        BY <2>4, <3>1, <4>1, HandsType, ListEffect DEF Held, IInv, HoldInv, Holders
    <3>4. Deletion(p)'
      BY <3>1, <3>3 DEF Deletion, Expired, Files
    <3>5. ASSUME Expired # {}, NEW q \in Processes, q # p, process[q].todo # {} PROVE Held(p)'.overlap /\ Held(q)'.overlap
      BY <2>4, <3>1, <3>5, ListEffect DEF Pruning, ProcessOnly, Held
    <3> QED
      BY <3>1, <3>2, <3>4, <3>5, PruneGoesOn, OnePrunes
  <2>5. CASE Prune(p)
    <3>1. process[p].at = "prune" /\ Working(p)
      BY <2>5, PruneEffect DEF Working
    <3>2. PICK f \in process[p].todo : Deletes(p, f) \/ Misses(p, f)
      BY <2>5, PruneEffect
    <3>3. CASE Misses(p, f)
      BY <1>3, <3>1, <3>3, ConstantTypes DEF Misses, SameBut
    <3>4. CASE Deletes(p, f)
      <4>1. /\ ProcessOnly(p) /\ record' = record /\ process'[p].at = "prune" /\ process'[p].rec = process[p].rec
            /\ process'[p].todo = process[p].todo \ {f}
        BY <3>4 DEF Deletes
      <4>2. OthersHeld(p) /\ Held(p)' = Held(p)
        BY <4>1 DEF ProcessOnly, Held
      <4>3. Deletion(p)
        BY DEF IInv, PruneInv, Deleting, Deletion
      <4>4. ASSUME NEW g \in process[p].todo, g # f PROVE archive'[g[1]].old /\ (g \in Files' \/ Held(p)'.overlap)
        <5>1. g \in Ids \X Parts /\ f \in Ids \X Parts /\ archive[g[1]].old
          BY <4>3, TodoFiles DEF Deletion
        <5>2. archive'[g[1]].old
          BY <5>1, OldFiles
        <5>3. g \in Files => g \in Files'
          <6>1. g[1] = f[1] => g[2] # f[2]
            BY <4>4, <5>1
          <6> QED
            BY <3>4, <5>1, <6>1 DEF Deletes, Continues, ArchiveOnly, Files
        <5> QED
          BY <4>2, <4>3, <5>2, <5>3 DEF Deletion
      <4>5. Deletion(p)'
        BY <4>1, <4>2, <4>3, <4>4 DEF Deletion
      <4>6. \A q \in Processes : q # p /\ process[q].todo # {} => Held(p)'.overlap /\ Held(q)'.overlap
        BY <3>2, <4>1, <4>2 DEF IInv, PruneInv, Overlaps, ProcessOnly, Held
      <4> QED
        BY <4>1, <4>2, <4>5, <4>6, PruneGoesOn, OnePrunes
    <3> QED
      BY <3>2, <3>3, <3>4
  <2>6. CASE Succeed(p)
    BY <1>3, <2>6, SucceedEffect DEF Steps, SameBut, Working
  <2>7. CASE Report(p)
    BY <1>3, <1>5, <2>7, LeaveEffect, ConstantTypes DEF Report, At, Working, IInv, TypeOK
  <2>8. CASE PickArchive(p)
    <3>1. process[p].todo = {} /\ Working(p)
      BY <2>8, PickArchiveEffect, Todo DEF Working
    <3> QED
      BY <1>3, <2>8, <3>1, PickArchiveEffect, ConstantTypes DEF Steps
  <2>9. ASSUME NEW thrown \in BOOLEAN, FinishTest(p, thrown) PROVE PruneInv'
    BY <1>3, <2>9, FinishTestEffect, ConstantTypes DEF SameBut, Working
  <2> QED
    BY <1>9, <2>1, <2>2, <2>3, <2>4, <2>5, <2>6, <2>7, <2>8, <2>9 DEF Work
<1>10. ASSUME NEW p \in Processes, Fail(p) \/ Crash(p) PROVE PruneInv'
  BY <1>3, <1>10, FailEffect, CrashEffect, ConstantTypes DEF SameBut
<1> QED
  BY <1>6, <1>7, <1>8, <1>9, <1>10 DEF Next

----------------------------------------------------------------------------
(* The newest archive *)

LEMMA StepNewest == IInv /\ Next => NewestKept'
<1> SUFFICES ASSUME IInv, Next PROVE NewestKept'
  OBVIOUS
<1> DEFINE Last(a) == a \in Done /\ \A c \in Done : c <= a
<1>0. \A a \in Ids : Last(a) => archive[a].files = Parts
  BY DEF IInv, NewestKept, Done
<1>1. ASSUME \A a \in Ids : (archive'[a].complete <=> archive[a].complete) /\ (archive[a].complete => archive'[a].kind = archive[a].kind),
             \A a \in Ids : Last(a) => archive'[a].files = archive[a].files
      PROVE  NewestKept'
  <2>1. Done' = Done
    BY <1>1 DEF Done
  <2> QED
    BY <1>0, <1>1, <2>1 DEF NewestKept, Done
<1>2. CASE archive' = archive
  BY <1>1, <1>2
<1>3. ASSUME NEW p \in Processes, NEW a \in Ids, CountRows(p, a) \/ Pack(p, a) PROVE NewestKept'
  <2>1. ~archive[a].complete /\ ~archive'[a].complete /\ \A c \in Ids : c # a => archive'[c] = archive[c]
    BY <1>3, CountRowsEffect, PackEffect DEF Opens, ArchiveOnly, NoArchive
  <2> QED
    BY <1>1, <2>1 DEF Done
<1>4. ASSUME NEW p \in Processes, NEW short \in BOOLEAN, Dump(p, short) PROVE NewestKept'
  <2>1. ~archive[Mine(p)].complete
    BY <1>4, DumpEffect DEF IInv, ArchiveInv, Making
  <2> QED
    BY <1>1, <1>4, <2>1, DumpEffect DEF Continues, ArchiveOnly, Done
<1>5. ASSUME NEW p \in Processes, Seal(p) PROVE NewestKept'
  <2>1. /\ Mine(p) \in Ids /\ archive'[Mine(p)].files = Parts /\ archive'[Mine(p)].complete
        /\ archive'[Mine(p)].kind = archive[Mine(p)].kind
        /\ \A c \in Ids : c # Mine(p) => archive'[c] = archive[c]
    BY <1>5, SealEffect DEF Continues, ArchiveOnly
  <2>2. Done \subseteq Done'
    BY <2>1 DEF Done
  <2> SUFFICES ASSUME NEW a \in Done', \A c \in Done' : c <= a, a # Mine(p) PROVE archive'[a].files = Parts
    BY <2>1 DEF NewestKept
  <2>3. a \in Ids /\ Last(a)
    BY <2>1, <2>2 DEF Done
  <2> QED
    BY <1>0, <2>1, <2>3
<1>6. ASSUME NEW p \in Processes, Prune(p) PROVE NewestKept'
  <2>1. PICK f \in process[p].todo : Deletes(p, f) \/ Misses(p, f)
    BY <1>6, PruneEffect
  <2>2. CASE Deletes(p, f)
    <3>1. /\ f[1] \in Ids /\ archive[f[1]].old
          /\ process[p].at = "prune" /\ Working(p) /\ Held(p).kind = "DATABASE"
      BY <1>6, TodoFiles, PruneEffect DEF IInv, PruneInv, Deleting, Working
    <3>2. Mine(p) \in Done /\ ~archive[Mine(p)].old
      BY <3>1 DEF IInv, ArchiveInv, Making, Done
    <3>3. ~Last(f[1])
      BY <3>1, <3>2, BackupConstants DEF IInv, ArchiveInv, ArchivesHonest, Done, Ids, BackupConstants
    <3> QED
      BY <1>1, <2>2, <3>1, <3>3 DEF Deletes, Continues, ArchiveOnly
  <2>3. CASE Misses(p, f)
    BY <1>2, <2>3 DEF Misses
  <2> QED
    BY <2>1, <2>2, <2>3
<1>7. CASE Age
  BY <1>1, <1>7, AgeEffect
<1> QED
  BY <1>2, <1>3, <1>4, <1>5, <1>6, <1>7
     DEF Next, Ask, Queue, Claim, Start, Work, List, Succeed, Report, PickArchive, FinishTest, Fail, Crash

----------------------------------------------------------------------------
(* What the records say *)

\* A row that keeps its verdict, or gains a cause of it.
LEMMA VerdictKept ==
  ASSUME IInv, Next, NEW b \in Ids,
         record'[b].kind = record[b].kind, record'[b].status = record[b].status, record'[b].arc = record[b].arc,
         record[b].fault => record'[b].fault, record[b].overlap => record'[b].overlap
  PROVE  Verdict(b)'
<1>1. Verdict(b) /\ CompleteKept
  BY StepComplete DEF IInv, VerdictsHonest
<1>2. record[b].arc \in Ids /\ archive[record[b].arc].complete =>
        /\ archive'[record[b].arc].complete /\ archive'[record[b].arc].short = archive[record[b].arc].short
        /\ archive'[record[b].arc].files \subseteq archive[record[b].arc].files
  BY <1>1 DEF CompleteKept
<1> QED
  BY <1>1, <1>2 DEF Verdict, Judged, SucceededIsMade, FailedHasCause

LEMMA StepVerdicts == IInv /\ Next => VerdictsHonest'
<1> SUFFICES ASSUME IInv, Next PROVE VerdictsHonest'
  OBVIOUS
<1>0. CompleteKept
  BY StepComplete
<1>1. ASSUME NEW b \in Ids, RowOnly(b), Verdict(b)' PROVE VerdictsHonest'
  <2>1. \A c \in Ids : c # b => Verdict(c)'
    BY <1>1, VerdictKept DEF RowOnly
  <2> QED
    BY <1>1, <2>1 DEF VerdictsHonest
<1>2. ASSUME NEW b \in Ids, RowOnly(b), record'[b].status \notin {"SUCCEEDED", "FAILED"} PROVE VerdictsHonest'
  <2>1. Verdict(b)'
    BY <1>2 DEF Verdict, Judged, SucceededIsMade, FailedHasCause
  <2> QED
    BY <1>1, <1>2, <2>1
<1>3. CASE record' = record
  BY <1>3, VerdictKept DEF VerdictsHonest
<1>4. CASE Queue
  <2> PICK b \in Ids : Insert(b, "DATABASE", "REQUESTED")
    BY <1>4 DEF Queue
  <2> QED
    BY <1>2, InsertEffect DEF Made, IInv, HoldInv
<1>5. ASSUME NEW w \in Workers, Claim(w) PROVE VerdictsHonest'
  BY <1>2, <1>5, ClaimEffect DEF SameBut
<1>6. ASSUME NEW j \in Jobs, NEW b \in Ids, NEW kind \in Made \cup {"RESTORE_TEST"}, Start(j, b, kind) PROVE VerdictsHonest'
  BY <1>2, <1>6, StartEffect
<1>7. ASSUME NEW p \in Processes, Work(p) PROVE VerdictsHonest'
  <2>1. ASSUME NEW a \in Ids, CountRows(p, a) \/ Pack(p, a) PROVE VerdictsHonest'
    <3>1. /\ Working(p) /\ process[p].at # "report"
          /\ RowOnly(process[p].rec) /\ Held(p)'.status = Held(p).status /\ process'[p].rec = process[p].rec
      BY <2>1, CountRowsEffect, PackEffect DEF Opens, Working, Steps
    <3>2. Held(p).status = "RUNNING" /\ process[p].rec \in Ids
      BY <3>1 DEF IInv, HoldInv, Holders
    <3> QED
      BY <1>2, <3>1, <3>2 DEF Held
  <2>2. CASE List(p)
    BY <2>2, VerdictKept, ListEffect DEF VerdictsHonest
  <2>3. CASE Prune(p)
    <3>1. process[p].at = "prune" /\ Working(p) /\ process[p].rec \in Ids
      BY <2>3, PruneEffect DEF IInv, HoldInv, Holders, Working
    <3>2. PICK f \in process[p].todo : Deletes(p, f) \/ Misses(p, f)
      BY <2>3, PruneEffect
    <3>3. CASE Deletes(p, f)
      BY <1>3, <3>3 DEF Deletes
    <3>4. CASE Misses(p, f)
      <4>1. Held(p).kind = "DATABASE" /\ Held(p).overlap
        BY <3>4 DEF Misses, IInv, PruneInv, Deleting
      <4>0. PICK b \in Ids : b = process[p].rec
        BY <3>1
      <4>2. Verdict(b)'
        BY <4>0, <3>4, <4>1 DEF Misses, SameBut, Held, Verdict, Judged, SucceededIsMade, FailedHasCause
      <4> QED
        BY <4>0, <1>1, <3>1, <3>4, <4>2 DEF Misses, SameBut
    <3> QED
      BY <3>2, <3>3, <3>4
  <2>4. CASE Succeed(p)
    <3>1. /\ process[p].at = "prune" /\ Working(p) /\ process[p].rec \in Ids /\ SameBut(process[p].rec) /\ archive' = archive
          /\ record'[process[p].rec].status = "SUCCEEDED"
      BY <2>4, SucceedEffect DEF IInv, HoldInv, Holders, Working, Steps, Held
    <3>2. Kinds("prune") = Made
      BY DEF Kinds
    <3>3. Mine(p) \in Ids /\ archive[Mine(p)].complete /\ Held(p).kind # "RESTORE_TEST"
      BY <3>1, <3>2 DEF IInv, ArchiveInv, Making, HoldInv, Holders, Made
    <3>0. PICK b \in Ids : b = process[p].rec
      BY <3>1
    <3>4. Verdict(b)'
      BY <3>0, <3>1, <3>3 DEF SameBut, Held, Mine, Verdict, Judged, SucceededIsMade, FailedHasCause
    <3> QED
      BY <3>0, <1>1, <3>1, <3>4 DEF SameBut
  <2>5. CASE PickArchive(p)
    <3>1. /\ process[p].at = "pick" /\ Working(p) /\ process[p].rec \in Ids /\ Held(p).status = "RUNNING"
          /\ RowOnly(process[p].rec) /\ record'[process[p].rec].status = Held(p).status
      BY <2>5, PickArchiveEffect DEF IInv, HoldInv, Holders, Working
    <3> QED
      BY <1>2, <3>1
  <2>6. ASSUME NEW thrown \in BOOLEAN, FinishTest(p, thrown) PROVE VerdictsHonest'
    <3>1. /\ process[p].at = "test" /\ Working(p) /\ process[p].rec \in Ids /\ Held(p).status = "RUNNING"
          /\ SameBut(process[p].rec) /\ archive' = archive
      BY <2>6, FinishTestEffect DEF IInv, HoldInv, Holders, Working
    <3>2. Kinds("test") = {"RESTORE_TEST"}
      BY DEF Kinds
    <3>3. Mine(p) \in Ids /\ archive[Mine(p)].complete /\ Held(p).kind = "RESTORE_TEST"
      BY <3>1, <3>2 DEF IInv, ArchiveInv, Making, HoldInv, Holders
    <3>4. CASE thrown
      BY <1>2, <2>6, <3>1, <3>4, FinishTestEffect DEF SameBut
    <3>5. CASE ~thrown
      <4>1. record'[process[p].rec].status = IF Restores(Mine(p)) THEN "SUCCEEDED" ELSE "FAILED"
        BY <2>6, <3>5, FinishTestEffect
      <4>0. PICK b \in Ids : b = process[p].rec
        BY <3>1
      <4>2. Verdict(b)'
        BY <4>0, <3>1, <3>3, <4>1 DEF SameBut, Held, Mine, Restores, Verdict, Judged, SucceededIsMade, FailedHasCause
      <4> QED
        BY <4>0, <1>1, <3>1, <4>2 DEF SameBut
    <3> QED
      BY <3>4, <3>5
  <2> QED
    BY <1>3, <1>7, <2>1, <2>2, <2>3, <2>4, <2>5, <2>6 DEF Work, Dump, Seal, Report
<1>8. ASSUME NEW p \in Processes, Fail(p) PROVE VerdictsHonest'
  <2>1. /\ Working(p) /\ process[p].at # "pick" /\ process[p].rec \in Ids /\ SameBut(process[p].rec) /\ archive' = archive
        /\ record'[process[p].rec].status = "FAILED" /\ record'[process[p].rec].fault
    BY <1>8, FailEffect DEF IInv, HoldInv, Holders
  <2>2. \A stage \in {"count", "dump", "write", "list", "prune", "report", "pack"} : "RESTORE_TEST" \notin Kinds(stage)
    BY DEF Kinds, Made
  <2>3. process[p].at \in {"count", "dump", "write", "list", "prune", "report", "pack", "test"}
    BY <2>1 DEF Working, IInv, TypeOK, Process
  <2>4. Held(p).kind = "RESTORE_TEST" => Mine(p) \in Ids /\ archive[Mine(p)].complete
    BY <2>1, <2>2, <2>3 DEF IInv, HoldInv, Holders, ArchiveInv, Making
  <2>0. PICK b \in Ids : b = process[p].rec
    BY <2>1
  <2>5. Verdict(b)'
    BY <2>0, <2>1, <2>4 DEF SameBut, Held, Mine, Verdict, Judged, SucceededIsMade, FailedHasCause
  <2> QED
    BY <2>0, <1>1, <2>1, <2>5 DEF SameBut
<1>9. ASSUME NEW p \in Processes, Crash(p) PROVE VerdictsHonest'
  <2>1. Working(p) /\ process[p].rec \in Ids /\ SameBut(process[p].rec)
    BY <1>9, CrashEffect DEF IInv, HoldInv, Holders
  <2>0. PICK b \in Ids : b = process[p].rec
    BY <2>1
  <2>2. Verdict(b)'
    BY <2>0, <1>9, <2>1, CrashEffect, VerdictKept DEF SameBut
  <2> QED
    BY <2>0, <1>1, <2>1, <2>2 DEF SameBut
<1> QED
  BY <1>3, <1>4, <1>5, <1>6, <1>7, <1>8, <1>9 DEF Next, Ask, Age

----------------------------------------------------------------------------
(* The theorems *)

LEMMA InitIInv == Init => IInv
<1> SUFFICES ASSUME Init PROVE IInv
  OBVIOUS
<1>1. TypeOK
  BY ConstantTypes, BackupConstants DEF BackupConstants, Init, TypeOK
<1>2. /\ \A b \in Ids : record[b] = NoRecord
      /\ \A a \in Ids : archive[a] = NoArchive
      /\ \A p \in Processes : process[p] = Idle
  BY DEF Init
<1>3. HoldInv
  BY <1>2, ConstantTypes DEF HoldInv, RowsHonest, Holders, OneHolder, RunningKept, Working, NoRecord
<1>4. ArchiveInv
  BY <1>2, ConstantTypes DEF ArchiveInv, ArchivesHonest, Making, OneMaker, NoArchive
<1>5. PruneInv /\ VerdictsHonest
  BY <1>2, ConstantTypes
     DEF PruneInv, Deleting, Overlaps, VerdictsHonest, Verdict, Judged, SucceededIsMade, FailedHasCause, NoRecord
<1>6. NewestKept
  BY <1>2 DEF NewestKept, Done, NoArchive
<1> QED
  BY <1>1, <1>3, <1>4, <1>5, <1>6 DEF IInv

LEMMA Stutter == IInv /\ UNCHANGED vars => IInv'
BY DEF vars, IInv, TypeOK, HoldInv, RowsHonest, Holders, OneHolder, RunningKept, ArchiveInv, ArchivesHonest, Making,
       OneMaker, PruneInv, Deleting, Overlaps, VerdictsHonest, Verdict, SucceededIsMade, FailedHasCause, Judged,
       NewestKept, Done, Working, Held, Mine, Files

\* The inductive invariant, for every number of workers, commands, records, uses of the button and faults.
THEOREM BackupsSafe == Spec => []IInv
<1>1. IInv /\ [Next]_vars => IInv'
  BY StepType, StepHold, StepArchives, StepMaking, StepPrune, StepVerdicts, StepNewest, Stutter DEF IInv, ArchiveInv
<1> QED
  BY <1>1, InitIInv, PTL DEF Spec

\* The variables of Backups have their types: the record that a process works on exists while it
\* writes to it, and the files it is to delete are files of archives.
THEOREM BackupsTyped == Spec => []TypeOK
<1>1. IInv => TypeOK
  BY DEF IInv
<1> QED
  BY <1>1, BackupsSafe, PTL

\* The history of backups is true (backup-requests.ts, lines 12-28; scripts/backup.ts, lines 34-46
\* and 74-95): what succeeded was made or restored, what failed has a cause, what runs is held by
\* exactly one process unless its process dropped it.
THEOREM RecordsAreHonest == Spec => []RecordsHonest
<1>1. IInv => RecordsHonest
  <2> SUFFICES ASSUME IInv, NEW b \in Recorded
               PROVE  SucceededIsMade(record[b]) /\ FailedHasCause(record[b]) /\ RunningIsHeld(b)
    BY DEF RecordsHonest
  <2>1. b \in Ids /\ SucceededIsMade(record[b]) /\ FailedHasCause(record[b])
    BY DEF Recorded, IInv, VerdictsHonest, Verdict
  <2>2. ASSUME record[b].status = "RUNNING", record[b].dropped PROVE Busy(b) = {}
    BY <2>2 DEF Busy, IInv, HoldInv, Holders, Working, Held
  <2>3. ASSUME record[b].status = "RUNNING", ~record[b].dropped PROVE \E p \in Processes : Busy(b) = {p}
    <3>1. PICK p \in Processes : Working(p) /\ process[p].at # "report" /\ process[p].rec = b
      BY <2>1, <2>3 DEF IInv, HoldInv, RunningKept
    <3>2. Busy(b) = {p}
      BY <3>1 DEF Busy, IInv, HoldInv, OneHolder, Working
    <3> QED
      BY <3>2
  <2> QED
    BY <2>1, <2>2, <2>3 DEF RunningIsHeld
<1> QED
  BY <1>1, BackupsSafe, PTL

\* Of all complete database archives the newest keeps both its files (index.ts, lines 258-281),
\* with any number of processes pruning at once.
THEOREM NewestStays == Spec => []NewestKept
<1>1. IInv => NewestKept
  BY DEF IInv
<1> QED
  BY <1>1, BackupsSafe, PTL
====
