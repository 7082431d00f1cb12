------------------------------- MODULE Intake -------------------------------
(***************************************************************************)
(* Opening a client, a matter or an invoice: transactions that take the     *)
(* next number of a counter (nextCounter in                                 *)
(* src/src/server/services/matters.ts), write their rows and append to the  *)
(* office's hash-chained audit log (src/src/server/audit.ts), with the      *)
(* retries of src/src/server/db.ts.                                         *)
(*                                                                          *)
(* What decides here are InnoDB's locks, so this module has a step for each *)
(* statement that can wait.  A transaction locks                            *)
(*   the row of a counter, exclusively, by its UPDATE;                      *)
(*   the gap where the row would be, when the counter has no row yet: such  *)
(*   locks do not exclude each other, but nobody else inserts there;        *)
(*   the Organization row, shared, by every insert that refers to it;       *)
(*   the Organization row, exclusively, before it appends to the log;       *)
(* and keeps them until it ends.  A transaction in a cycle of waiting ones  *)
(* is rolled back.  Counters without a row are taken to be neighbours.      *)
(***************************************************************************)
EXTENDS Integers, FiniteSets, Office

CONSTANTS
  Attempts, \* of withTxRetry
  Existing  \* counters that have a row already

VARIABLES
  counter, \* Counter.value, 0 where there is no row
  made,    \* committed Client, Matter and Invoice rows
  log,     \* the AuditLog table
  lastSeq, \* the AUTO_INCREMENT behind its seq, which no rollback takes back
  tx       \* local state of each request and its transaction

intakeVars == <<counter, made, log, lastSeq, tx>>

Keys  == {"client", "matter", "invoice"}

ASSUME IntakeConstants == Attempts \in Nat \ {0} /\ Existing \subseteq Keys

Locks == Keys \cup {"gap", "shared", "exclusive"}

\* note: an entry in the audit log and nothing else.  Conversions are all of one lead.
Kinds == {"note", "client", "lead", "matter", "both", "invoice"}

\* createMatter opens a client too ("both") if it is given a new one: the client comes first.
FirstKey == [note |-> "none", client |-> "client", lead |-> "client", matter |-> "matter", both |-> "client",
             invoice |-> "invoice"]

Over == {"done", "refused", "failed"}

Tx == [kind : Kinds, at : {"new", "number", "insert", "write", "audit", "append", "commit"} \cup Over,
       key : Keys \cup {"none"}, number : [Keys -> Nat], held : SUBSET Locks, tries : 1..Attempts]

Unused == [kind |-> "note", at |-> "new", key |-> "none", number |-> [k \in Keys |-> 0], held |-> {}, tries |-> 1]

\* A transaction of this kind at its first statement.
Start(kind, tries) == [Unused EXCEPT !.kind = kind, !.at = IF kind = "note" THEN "audit" ELSE "number",
                                     !.key = FirstKey[kind], !.tries = tries]

\* The log begins after whatever it holds already.
IntakeInit ==
  /\ counter = [k \in Keys |-> IF k \in Existing THEN 1 ELSE 0]
  /\ made = [key : Existing, number : {1}, lead : {FALSE}]
  /\ log = {} /\ lastSeq = 0
  /\ tx = [r \in Requests |-> Unused]

Doing(r, place) == tx[r].at = place
Converted == \E m \in made : m.lead

----------------------------------------------------------------------------
(* Locks *)

MutantUpsert(k) == FALSE

HasRow(k) == counter[k] # 0

MutantUnlocked(r) ==
  CASE Doing(r, "number") -> IF HasRow(tx[r].key) THEN {tx[r].key} ELSE {"gap"}
    [] Doing(r, "insert") -> {tx[r].key, "insertion", "shared"}
    [] Doing(r, "write")  -> {"shared"}
    [] OTHER           -> {}

\* The locks that the next statement asks for.
Wanted(r) ==
  CASE Doing(r, "number") -> IF HasRow(tx[r].key) THEN {tx[r].key} ELSE {"gap"}
    [] Doing(r, "insert") -> {tx[r].key, "insertion", "shared"}
    [] Doing(r, "write")  -> {"shared"}
    [] Doing(r, "audit")  -> {"exclusive"}
    [] OTHER           -> {}

Conflicts(lock) ==
  CASE lock \in Keys       -> {lock}
    [] lock = "insertion"  -> {"gap"}
    [] lock = "shared"     -> {"exclusive"}
    [] lock = "exclusive"  -> {"shared", "exclusive"}
    [] OTHER               -> {}

WaitsFor(r) == {q \in Requests \ {r} : \E lock \in Wanted(r) : Conflicts(lock) \cap tx[q].held # {}}

\* Transactions that wait for one another, directly or through others of them.
Cycles ==
  {S \in SUBSET Requests :
     /\ Cardinality(S) > 1
     /\ \A T \in SUBSET S : T \notin {{}, S} => \E r \in T : WaitsFor(r) \cap (S \ T) # {}}

\* A statement that need not wait: r goes on at another place, with the locks it asked for.
Proceed(r, change) ==
  /\ WaitsFor(r) = {}
  /\ tx' = [tx EXCEPT ![r] = [change EXCEPT !.held = @ \cup (Wanted(r) \cap Locks)]]

----------------------------------------------------------------------------
(* createClient, convertLead, createMatter, saveInvoice, audit *)

\* A lead that was converted before is answered with its client.
Begin(r, kind) ==
  /\ Doing(r, "new")
  /\ tx' = [tx EXCEPT ![r] = IF kind = "lead" /\ Converted THEN [Unused EXCEPT !.kind = kind, !.at = "done"]
                             ELSE Start(kind, 1)]
  /\ UNCHANGED <<counter, made, log, lastSeq>>

\* A transaction that has its number n.
Numbering(t, n) == [t EXCEPT !.at = "write", !.number[t.key] = n]

\* nextCounter: the UPDATE and, of a row that is there, the number.
Number(r) ==
  LET k == tx[r].key IN
  /\ Doing(r, "number")
  /\ IF HasRow(k)
     THEN /\ Proceed(r, Numbering(tx[r], counter[k] + 1))
          /\ counter' = [counter EXCEPT ![k] = @ + 1]
     ELSE Proceed(r, [tx[r] EXCEPT !.at = "insert"]) /\ UNCHANGED counter
  /\ UNCHANGED <<made, log, lastSeq>>

\* The row is created and updated.
InsertCounter(r) ==
  LET k == tx[r].key IN
  /\ Doing(r, "insert")
  /\ Proceed(r, Numbering(tx[r], counter[k] + 1))
  /\ counter' = [counter EXCEPT ![k] = @ + 1]
  /\ UNCHANGED <<made, log, lastSeq>>

\* The client, the matter or the invoice; a second client of one lead meets the unique key.
Write(r) ==
  /\ Doing(r, "write")
  /\ ~(tx[r].kind = "lead" /\ Converted)
  /\ Proceed(r, [tx[r] EXCEPT !.at = "audit"])
  /\ UNCHANGED <<counter, made, log, lastSeq>>

LockLog(r) ==
  /\ Doing(r, "audit")
  /\ Proceed(r, [tx[r] EXCEPT !.at = "append"])
  /\ UNCHANGED <<counter, made, log, lastSeq>>

Genesis == <<>>

\* The hash of the last of some entries.
LastHash(entries) ==
  IF entries = {} THEN Genesis ELSE (CHOOSE e \in entries : \A f \in entries : f.seq <= e.seq).hash

\* Entries before a place in the log.
Before(entries, seq) == {e \in entries : e.seq < seq}

\* The hash of an entry stands for the entry: no two are the same.  After the client of a new
\* matter comes the matter.
Chain(r) ==
  LET me == tx[r] IN
  /\ Doing(r, "append")
  /\ lastSeq' = lastSeq + 1
  /\ log' = log \cup {[seq |-> lastSeq + 1, by |-> r, hash |-> <<r, me.tries, me.key>>, prev |-> LastHash(log)]}
  /\ tx' = [tx EXCEPT ![r] = IF me.kind = "both" /\ me.key = "client" THEN [me EXCEPT !.at = "number", !.key = "matter"]
                             ELSE [me EXCEPT !.at = "commit"]]
  /\ UNCHANGED <<counter, made>>

Numbered(r) == {k \in Keys : tx[r].number[k] # 0}
Rows(r) == {[key |-> k, number |-> tx[r].number[k], lead |-> tx[r].kind = "lead"] : k \in Numbered(r)}

\* A transaction that is over keeps nothing.
Ended(t, how) == [Unused EXCEPT !.kind = t.kind, !.at = how, !.tries = t.tries]
End(r, how) == tx' = [tx EXCEPT ![r] = Ended(tx[r], how)]

Commit(r) ==
  /\ Doing(r, "commit")
  /\ made' = made \cup Rows(r)
  /\ End(r, "done")
  /\ UNCHANGED <<counter, log, lastSeq>>

----------------------------------------------------------------------------
(* Rollback and retry *)

MutantKeepNumber(r) == counter

\* The counters without the numbers that r has taken.
Returned(r) == [k \in Keys |-> IF k \in Numbered(r) THEN counter[k] - 1 ELSE counter[k]]

RollBack(r) ==
  /\ counter' = Returned(r)
  /\ log' = {e \in log : e.by # r}
  /\ UNCHANGED <<made, lastSeq>>

MutantUncounted(r) == tx[r].tries

NextTry(r) == tx[r].tries + 1

\* convertLead and a single entry are not wrapped in withTxRetry.
Retries(r) == tx[r].kind \notin {"lead", "note"} /\ tx[r].tries < Attempts

\* InnoDB chooses one transaction of a cycle.
Victim(r) ==
  /\ \E S \in Cycles : r \in S
  /\ RollBack(r)
  /\ IF Retries(r) THEN tx' = [tx EXCEPT ![r] = Start(tx[r].kind, NextTry(r))] ELSE End(r, "refused")

\* Another error, a timeout or the death of the process, at any place.
Abort(r) ==
  /\ tx[r].at \notin {"new"} \cup Over
  /\ RollBack(r)
  /\ End(r, "failed")

Duplicate(r) == Doing(r, "write") /\ tx[r].kind = "lead" /\ Converted /\ Abort(r)

Advance(r) == Number(r) \/ InsertCounter(r) \/ Write(r) \/ LockLog(r) \/ Chain(r) \/ Commit(r) \/ Duplicate(r)

IntakeStep(r) == Advance(r) \/ Victim(r) \/ Abort(r)

IntakeNext == \E r \in Requests : IntakeStep(r) \/ \E kind \in Kinds : Begin(r, kind)

IntakeSpec == IntakeInit /\ [][IntakeNext]_intakeVars

----------------------------------------------------------------------------
(* Properties *)

IntakeTypeOK ==
  /\ counter \in [Keys -> Nat]
  /\ made \subseteq [key : Keys, number : Nat, lead : BOOLEAN]
  /\ lastSeq \in Nat
  /\ \A e \in log : e.seq \in 1..lastSeq /\ e.by \in Requests
  /\ tx \in [Requests -> Tx]

Open(r) == tx[r].at \notin {"new"} \cup Over

\* Numbers are given once and in order: those of the committed rows of a counter are 1, 2, 3 and so
\* on without a gap, whatever was rolled back, retried or refused, and at most one more is under
\* way (matters.ts, lines 18-26; "AH-YYYY-XXXXX" in tests/security/concurrency-accounts.test.ts).
Given(k) == {m \in made : m.key = k}
NumbersInOrder ==
  \A k \in Keys :
    LET taken == {r \in Requests : k \in Numbered(r)} IN
    /\ Cardinality(taken) <= 1
    /\ \A r \in taken : tx[r].number[k] = counter[k]
    /\ {m.number : m \in Given(k)} = 1..(counter[k] - Cardinality(taken))
    /\ Cardinality(Given(k)) = counter[k] - Cardinality(taken)

\* verifyAuditChain finds no broken link, at any time: each entry that it sees names the one before
\* it that it sees, although transactions that had appended are rolled back (audit.ts, lines 26-38).
ChainLinked ==
  LET seen == {e \in log : ~Open(e.by)} IN
  \A e \in seen : e.prev = LastHash(Before(seen, e.seq))

\* Openings deadlock only over the first row of a counter, or if they began with different counters:
\* two of the same kind, or two that take a number from the same counter first, are put one after
\* another by its row (matters.ts, lines 20-25).
DeadlocksExplained ==
  \A S \in Cycles :
    \/ \E r \in S : Doing(r, "insert") /\ counter[tx[r].key] = 0
    \/ \E q, r \in S : FirstKey[tx[q].kind] # FirstKey[tx[r].kind]

\* Every request is answered: cycles are broken and the attempts of withTxRetry are counted.
RequestsAnswered == \A r \in Requests : Open(r) ~> tx[r].at \in Over
=============================================================================
