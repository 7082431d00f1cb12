---------------------------- MODULE IntakeProofs ----------------------------
(* Theorems about Intake, for every number of requests and attempts. *)
EXTENDS Intake, FiniteSetTheorems, TLAPS

----------------------------------------------------------------------------
(* The inductive invariant *)

IsOpen(t) == t.at \notin {"new"} \cup Over

\* Where a transaction is says which locks and numbers it has: a number is guarded by its counter's
\* row, an entry in the log by the lock of the log, and nothing is kept once it is over.
Placed(t) ==
  LET first == FirstKey[t.kind] IN
  /\ ~IsOpen(t) => t.held = {} /\ \A k \in Keys : t.number[k] = 0
  /\ IsOpen(t) /\ t.kind = "note" => t.key = "none" /\ t.at \in {"audit", "append", "commit"} /\ (t.at = "audit" => t.held = {})
  /\ IsOpen(t) /\ t.kind # "note" =>
       /\ t.key = first \/ (t.kind = "both" /\ t.key = "matter")
       /\ first \in t.held \/ (t.key = first /\ t.at \in {"number", "insert"})
       /\ t.key = first /\ t.at = "number" => t.held = {}
  /\ t.at \in {"number", "insert"} => t.key \in Keys /\ t.number[t.key] = 0
  /\ t.at = "insert" => "gap" \in t.held
  /\ t.at \in {"append", "commit"} => "exclusive" \in t.held
  /\ \A k \in Keys : t.number[k] # 0 => k \in t.held /\ (k = t.key \/ (k = "client" /\ t.key = "matter"))

AllPlaced == \A r \in Requests : Placed(tx[r])

\* Rows of counters and the log are locked by one transaction at a time.
ExclusiveLocks == Keys \cup {"exclusive"}
OneHolder == \A q, r \in Requests : q # r => tx[q].held \cap tx[r].held \cap ExclusiveLocks = {}

\* The number that a transaction has is the counter's; a row that is about to be inserted is missing.
CountersMatch ==
  \A r \in Requests :
    /\ \A k \in Keys : tx[r].number[k] # 0 => tx[r].number[k] = counter[k]
    /\ Doing(r, "insert") => counter[tx[r].key] = 0

\* Of the numbers of a counter all but the one that is under way have their row.
Taken(k) == IF \E r \in Requests : k \in Numbered(r) THEN 1 ELSE 0
RowsGiven ==
  \A k \in Keys :
    /\ IsFiniteSet(Given(k))
    /\ {m.number : m \in Given(k)} = 1..(counter[k] - Taken(k))
    /\ Cardinality(Given(k)) = counter[k] - Taken(k)

\* Entries of transactions under way are at the end of the log, and all of one of them, which has
\* the lock; each entry names the one before it.
EntriesHeld == \A e \in log : tx[e.by].at = "done" \/ (IsOpen(tx[e.by]) /\ "exclusive" \in tx[e.by].held)
OpenIsLast == \A e, f \in log : IsOpen(tx[e.by]) /\ f.seq > e.seq => f.by = e.by
Linked == \A e \in log : e.prev = LastHash(Before(log, e.seq))

LogInv == EntriesHeld /\ OpenIsLast /\ Linked

IntakeInv == IntakeTypeOK /\ AllPlaced /\ OneHolder /\ CountersMatch /\ RowsGiven /\ LogInv

----------------------------------------------------------------------------
(* Steps *)

Changed(r, x) == tx' = [tx EXCEPT ![r] = x]

LEMMA OneChanges ==
  ASSUME IntakeTypeOK, NEW r \in Requests, NEW x \in Tx, Changed(r, x)
  PROVE  tx' \in [Requests -> Tx] /\ tx'[r] = x /\ \A q \in Requests \ {r} : tx'[q] = tx[q]
  BY DEF IntakeTypeOK, Changed

\* A transaction with the locks that it asked for: nobody else has one that excludes them.
LEMMA LocksAreFree ==
  ASSUME NEW r \in Requests, WaitsFor(r) = {}, NEW q \in Requests \ {r}, NEW lock \in Wanted(r)
  PROVE  Conflicts(lock) \cap tx[q].held = {}
  BY DEF WaitsFor

LEMMA WantedLocks ==
  ASSUME NEW r
  PROVE  /\ Doing(r, "number") => Wanted(r) = IF HasRow(tx[r].key) THEN {tx[r].key} ELSE {"gap"}
         /\ Doing(r, "insert") => Wanted(r) = {tx[r].key, "insertion", "shared"}
         /\ Doing(r, "write") => Wanted(r) = {"shared"}
         /\ Doing(r, "audit") => Wanted(r) = {"exclusive"}
         /\ tx[r].at \notin {"number", "insert", "write", "audit"} => Wanted(r) = {}
  BY DEF Wanted, Doing

LEMMA ConflictingLocks ==
  /\ \A k \in Keys : Conflicts(k) = {k}
  /\ Conflicts("insertion") = {"gap"}
  /\ Conflicts("shared") = {"exclusive"}
  /\ Conflicts("exclusive") = {"shared", "exclusive"}
  /\ Conflicts("gap") = {}
  BY DEF Conflicts, Keys

LEMMA FirstKeys ==
  /\ FirstKey["note"] = "none"
  /\ \A kind \in Kinds \ {"note"} : FirstKey[kind] \in Keys
  /\ FirstKey["both"] = "client"
  BY DEF FirstKey, Kinds, Keys

LEMMA StartIsLocal ==
  ASSUME NEW kind \in Kinds, NEW tries \in 1..Attempts
  PROVE  LET x == Start(kind, tries) IN
         /\ x \in Tx /\ Placed(x) /\ IsOpen(x) /\ x.kind = kind
         /\ x.held = {} /\ x.at \in {"number", "audit"} /\ \A k \in Keys : x.number[k] = 0
  <1> DEFINE x == Start(kind, tries)
  <1>1. /\ x.kind = kind /\ x.at = (IF kind = "note" THEN "audit" ELSE "number") /\ x.key = FirstKey[kind]
        /\ x.number = [k \in Keys |-> 0] /\ x.held = {} /\ x.tries = tries
    BY DEF Start, Unused
  <1>2. x \in Tx
    BY FirstKeys DEF Start, Unused, Tx, Kinds, Keys, Locks
  <1> QED BY <1>1, <1>2, FirstKeys DEF Placed, IsOpen, Over

LEMMA OverIsLocal ==
  ASSUME NEW t \in Tx, NEW how \in Over
  PROVE  LET x == Ended(t, how) IN
         /\ x \in Tx /\ Placed(x) /\ ~IsOpen(x) /\ x.at = how
         /\ x.held = {} /\ \A k \in Keys : x.number[k] = 0
  BY DEF Ended, Unused, Tx, Placed, IsOpen, Keys, Over, Locks

LEMMA BeginEffect ==
  ASSUME IntakeTypeOK, AllPlaced, NEW r \in Requests, NEW kind \in Kinds, Begin(r, kind)
  PROVE  /\ \E x \in Tx : /\ Changed(r, x) /\ Placed(x) /\ x.held = {} /\ x.at \in {"number", "audit", "done"}
                          /\ \A k \in Keys : x.number[k] = 0
         /\ tx[r].at = "new" /\ UNCHANGED <<counter, made, log, lastSeq>>
  <1>1. 1 \in 1..Attempts
    BY IntakeConstants
  <1>2. CASE kind = "lead" /\ Converted
    <2> DEFINE x == [Unused EXCEPT !.kind = kind, !.at = "done"]
    <2>1. Changed(r, x)
      BY <1>2 DEF Begin, Changed
    <2>2. x \in Tx /\ Placed(x) /\ x.held = {} /\ x.at = "done" /\ \A k \in Keys : x.number[k] = 0
      BY <1>1 DEF Unused, Tx, Placed, IsOpen, Kinds, FirstKey, Keys, Over, Locks
    <2> HIDE DEF x
    <2> QED BY <2>1, <2>2 DEF Begin, Doing
  <1>3. CASE ~(kind = "lead" /\ Converted)
    <2>1. Changed(r, Start(kind, 1))
      BY <1>3 DEF Begin, Changed
    <2> QED BY <1>1, <2>1, StartIsLocal DEF Begin, Doing
  <1> QED BY <1>2, <1>3

\* What the updates of a transaction's record leave.
LEMMA NumberedRecord ==
  ASSUME NEW t \in Tx, t.key \in Keys, NEW n \in Nat
  PROVE  LET y == Numbering(t, n) IN
         /\ y \in Tx /\ y.kind = t.kind /\ y.at = "write" /\ y.key = t.key /\ y.held = t.held /\ y.tries = t.tries
         /\ y.number = [t.number EXCEPT ![t.key] = n]
  <1> DEFINE f == [t.number EXCEPT ![t.key] = n]
             y == [t EXCEPT !.at = "write", !.number = f]
  <1>1. f \in [Keys -> Nat]
    BY DEF Tx
  <1>2. Numbering(t, n) = y
    BY DEF Tx, Numbering
  <1> HIDE DEF f
  <1>3. y \in Tx
    BY <1>1 DEF Tx
  <1>4. y.kind = t.kind /\ y.at = "write" /\ y.key = t.key /\ y.held = t.held /\ y.tries = t.tries /\ y.number = f
    BY DEF Tx
  <1> QED BY <1>2, <1>3, <1>4 DEF f

LEMMA ProceedEffect ==
  ASSUME NEW r, NEW t, Proceed(r, t), t.held \in SUBSET Locks, t \in Tx
  PROVE  \E x \in Tx : /\ Changed(r, x) /\ x.held = t.held \cup (Wanted(r) \cap Locks)
                       /\ x.kind = t.kind /\ x.at = t.at /\ x.key = t.key /\ x.number = t.number /\ x.tries = t.tries
  <1> DEFINE x == [t EXCEPT !.held = @ \cup (Wanted(r) \cap Locks)]
  <1>1. x \in Tx
    BY DEF Tx
  <1>2. /\ x.held = t.held \cup (Wanted(r) \cap Locks)
        /\ x.kind = t.kind /\ x.at = t.at /\ x.key = t.key /\ x.number = t.number /\ x.tries = t.tries
    BY DEF Tx
  <1>3. Changed(r, x)
    BY DEF Proceed, Changed
  <1> QED BY <1>1, <1>2, <1>3

LEMMA NumberEffect ==
  ASSUME IntakeTypeOK, AllPlaced, NEW r \in Requests, Number(r), HasRow(tx[r].key)
  PROVE  LET k == tx[r].key IN
         /\ k \in Keys /\ tx[r].number[k] = 0 /\ IsOpen(tx[r]) /\ tx[r].at = "number"
         /\ \A q \in Requests \ {r} : k \notin tx[q].held
         /\ counter' = [counter EXCEPT ![k] = @ + 1] /\ UNCHANGED <<made, log, lastSeq>>
         /\ \E x \in Tx : /\ Changed(r, x) /\ Placed(x) /\ x.at = "write" /\ x.held = tx[r].held \cup {k}
                          /\ x.number = [tx[r].number EXCEPT ![k] = counter[k] + 1]
  <1> DEFINE k == tx[r].key
             t == Numbering(tx[r], counter[k] + 1)
  <1>1. /\ tx[r] \in Tx /\ Placed(tx[r]) /\ tx[r].at = "number" /\ k \in Keys /\ counter[k] \in Nat
        /\ Wanted(r) = {k} /\ Proceed(r, t)
    BY WantedLocks DEF Number, Doing, AllPlaced, Placed, IntakeTypeOK
  <1>2. /\ t \in Tx /\ t.held = tx[r].held /\ t.at = "write" /\ t.kind = tx[r].kind /\ t.key = k
        /\ t.number = [tx[r].number EXCEPT ![k] = counter[k] + 1] /\ t.tries = tx[r].tries
    <2>1. counter[k] + 1 \in Nat
      BY <1>1
    <2> QED BY <1>1, <2>1, NumberedRecord
  <1>3. PICK x \in Tx : /\ Changed(r, x) /\ x.held = tx[r].held \cup {k} /\ x.kind = tx[r].kind /\ x.at = "write"
                        /\ x.key = k /\ x.number = [tx[r].number EXCEPT ![k] = counter[k] + 1]
    <2> HIDE DEF t
    <2>1. t.held \in SUBSET Locks /\ {k} \cap Locks = {k}
      BY <1>1, <1>2 DEF Tx, Locks
    <2>2. PICK x \in Tx : /\ Changed(r, x) /\ x.held = t.held \cup (Wanted(r) \cap Locks)
                          /\ x.kind = t.kind /\ x.at = t.at /\ x.key = t.key /\ x.number = t.number
      BY <1>1, <1>2, <2>1, ProceedEffect
    <2> QED BY <1>1, <1>2, <2>1, <2>2
  <1>4. Placed(x)
    <2>1. \A j \in Keys \ {k} : x.number[j] = tx[r].number[j]
      BY <1>1, <1>3 DEF Tx
    <2> QED BY <1>1, <1>3, <2>1, FirstKeys DEF Placed, IsOpen, Over, Tx
  <1>5. \A q \in Requests \ {r} : k \notin tx[q].held
    BY <1>1, LocksAreFree, ConflictingLocks DEF Proceed
  <1>6. counter' = [counter EXCEPT ![k] = @ + 1] /\ UNCHANGED <<made, log, lastSeq>>
    BY DEF Number
  <1> QED BY <1>1, <1>3, <1>4, <1>5, <1>6 DEF IsOpen, Over, Placed

LEMMA InsertEffect ==
  ASSUME IntakeTypeOK, AllPlaced, NEW r \in Requests, InsertCounter(r)
  PROVE  LET k == tx[r].key IN
         /\ k \in Keys /\ tx[r].number[k] = 0 /\ IsOpen(tx[r]) /\ tx[r].at = "insert"
         /\ \A q \in Requests \ {r} : k \notin tx[q].held /\ "gap" \notin tx[q].held
         /\ counter' = [counter EXCEPT ![k] = @ + 1] /\ UNCHANGED <<made, log, lastSeq>>
         /\ \E x \in Tx : /\ Changed(r, x) /\ Placed(x) /\ x.at = "write" /\ x.held = tx[r].held \cup {k, "shared"}
                          /\ x.number = [tx[r].number EXCEPT ![k] = counter[k] + 1]
  <1> DEFINE k == tx[r].key
             t == Numbering(tx[r], counter[k] + 1)
  <1>1. /\ tx[r] \in Tx /\ Placed(tx[r]) /\ tx[r].at = "insert" /\ k \in Keys /\ counter[k] \in Nat
        /\ Wanted(r) = {k, "insertion", "shared"} /\ Proceed(r, t)
    BY WantedLocks DEF InsertCounter, Doing, AllPlaced, Placed, IntakeTypeOK
  <1>2. /\ t \in Tx /\ t.held = tx[r].held /\ t.at = "write" /\ t.kind = tx[r].kind /\ t.key = k
        /\ t.number = [tx[r].number EXCEPT ![k] = counter[k] + 1] /\ t.tries = tx[r].tries
    <2>1. counter[k] + 1 \in Nat
      BY <1>1
    <2> QED BY <1>1, <2>1, NumberedRecord
  <1>3. PICK x \in Tx : /\ Changed(r, x) /\ x.held = tx[r].held \cup {k, "shared"} /\ x.kind = tx[r].kind /\ x.at = "write"
                        /\ x.key = k /\ x.number = [tx[r].number EXCEPT ![k] = counter[k] + 1]
    <2> HIDE DEF t
    <2>1. t.held \in SUBSET Locks /\ {k, "insertion", "shared"} \cap Locks = {k, "shared"}
      <3>1. k \in Locks /\ "shared" \in Locks /\ "insertion" \notin Locks
        BY <1>1 DEF Locks, Keys
      <3>2. t.held \in SUBSET Locks
        BY <1>1, <1>2 DEF Tx
      <3> QED BY <3>1, <3>2
    <2>2. PICK x \in Tx : /\ Changed(r, x) /\ x.held = t.held \cup (Wanted(r) \cap Locks)
                          /\ x.kind = t.kind /\ x.at = t.at /\ x.key = t.key /\ x.number = t.number
      BY <1>1, <1>2, <2>1, ProceedEffect
    <2> QED BY <1>1, <1>2, <2>1, <2>2
  <1>4. Placed(x)
    <2>1. \A j \in Keys \ {k} : x.number[j] = tx[r].number[j]
      BY <1>1, <1>3 DEF Tx
    <2> QED BY <1>1, <1>3, <2>1, FirstKeys DEF Placed, IsOpen, Over, Tx
  <1>5. \A q \in Requests \ {r} : k \notin tx[q].held /\ "gap" \notin tx[q].held
    <2>1. WaitsFor(r) = {} /\ k \in Wanted(r) /\ "insertion" \in Wanted(r)
      BY <1>1 DEF Proceed
    <2>2. \A q \in Requests \ {r} : Conflicts(k) \cap tx[q].held = {} /\ Conflicts("insertion") \cap tx[q].held = {}
      BY <2>1, LocksAreFree
    <2>3. Conflicts(k) = {k} /\ Conflicts("insertion") = {"gap"}
      BY <1>1, ConflictingLocks
    <2> QED BY <2>2, <2>3
  <1>6. counter' = [counter EXCEPT ![k] = @ + 1] /\ UNCHANGED <<made, log, lastSeq>>
    BY DEF InsertCounter
  <1> QED BY <1>1, <1>3, <1>4, <1>5, <1>6 DEF IsOpen, Over, Placed

\* The steps that only take locks.
Locking(r) == Number(r) \/ Write(r) \/ LockLog(r)

LEMMA LockingEffect ==
  ASSUME IntakeTypeOK, AllPlaced, NEW r \in Requests, Locking(r), ~(Doing(r, "number") /\ HasRow(tx[r].key))
  PROVE  /\ IsOpen(tx[r]) /\ UNCHANGED <<counter, made, log, lastSeq>>
         /\ \E x \in Tx : /\ Changed(r, x) /\ Placed(x) /\ IsOpen(x) /\ x.number = tx[r].number
                          /\ tx[r].held \subseteq x.held
                          /\ \A lock \in ExclusiveLocks : lock \in x.held =>
                                lock \in tx[r].held \/ \A q \in Requests \ {r} : lock \notin tx[q].held
                          /\ x.at = "insert" => x.key \in Keys /\ counter[x.key] = 0
  <1> DEFINE me == tx[r]
             next == CASE me.at = "number" -> "insert" [] me.at = "write" -> "audit" [] OTHER -> "append"
             t == [me EXCEPT !.at = next]
  <1>1. /\ me \in Tx /\ Placed(me) /\ me.at \in {"number", "write", "audit"} /\ Proceed(r, t)
        /\ UNCHANGED <<counter, made, log, lastSeq>>
    BY DEF Locking, Number, Write, LockLog, Doing, AllPlaced, IntakeTypeOK
  <1>2. /\ t \in Tx /\ t.held = me.held /\ t.at = next /\ t.kind = me.kind /\ t.key = me.key /\ t.number = me.number
    <2>1. next \in {"insert", "audit", "append"}
      BY <1>1
    <2> HIDE DEF next
    <2> QED BY <1>1, <2>1 DEF Tx
  <1>3. PICK x \in Tx : /\ Changed(r, x) /\ x.held = me.held \cup (Wanted(r) \cap Locks) /\ x.kind = me.kind /\ x.at = next
                        /\ x.key = me.key /\ x.number = me.number
    <2> HIDE DEF t, next
    <2>1. t.held \in SUBSET Locks
      BY <1>1, <1>2 DEF Tx
    <2>2. PICK x \in Tx : /\ Changed(r, x) /\ x.held = t.held \cup (Wanted(r) \cap Locks)
                          /\ x.kind = t.kind /\ x.at = t.at /\ x.key = t.key /\ x.number = t.number
      BY <1>1, <1>2, <2>1, ProceedEffect
    <2> QED BY <1>2, <2>2
  <1>4. Wanted(r) = CASE me.at = "number" -> {"gap"} [] me.at = "write" -> {"shared"} [] OTHER -> {"exclusive"}
    BY <1>1, WantedLocks DEF Doing
  <1>5. Wanted(r) \cap Locks = Wanted(r)
    BY <1>1, <1>4 DEF Locks
  <1>6. Placed(x) /\ IsOpen(x)
    BY <1>1, <1>3, <1>4, <1>5 DEF Placed, IsOpen, Over
  <1>7. \A lock \in ExclusiveLocks : lock \in x.held => lock \in me.held \/ \A q \in Requests \ {r} : lock \notin tx[q].held
    <2>1. WaitsFor(r) = {}
      BY <1>1 DEF Proceed
    <2>2. \A lock \in ExclusiveLocks : lock \in Wanted(r) => lock = "exclusive"
      BY <1>1, <1>4 DEF ExclusiveLocks, Keys
    <2> QED BY <1>3, <1>5, <2>1, <2>2, LocksAreFree, ConflictingLocks
  <1>8. x.at = "insert" => x.key \in Keys /\ counter[x.key] = 0
    BY <1>1, <1>3 DEF HasRow, Doing, Placed
  <1> QED BY <1>1, <1>3, <1>6, <1>7, <1>8 DEF IsOpen, Over

LEMMA ChainEffect ==
  ASSUME IntakeTypeOK, AllPlaced, NEW r \in Requests, Chain(r)
  PROVE  /\ IsOpen(tx[r]) /\ "exclusive" \in tx[r].held /\ UNCHANGED <<counter, made>>
         /\ lastSeq' = lastSeq + 1
         /\ \E hash :
              log' = log \cup {[seq |-> lastSeq + 1, by |-> r, hash |-> hash, prev |-> LastHash(log)]}
         /\ \E x \in Tx : /\ Changed(r, x) /\ Placed(x) /\ IsOpen(x) /\ x.number = tx[r].number /\ x.held = tx[r].held
                          /\ x.at # "insert"
  <1> DEFINE me == tx[r]
             again == me.kind = "both" /\ me.key = "client"
             x == IF again THEN [me EXCEPT !.at = "number", !.key = "matter"] ELSE [me EXCEPT !.at = "commit"]
  <1>1. me \in Tx /\ Placed(me) /\ me.at = "append" /\ Changed(r, x)
    BY DEF Chain, Doing, AllPlaced, IntakeTypeOK, Changed
  <1>2. /\ x \in Tx /\ x.kind = me.kind /\ x.number = me.number /\ x.held = me.held
        /\ x.at = (IF again THEN "number" ELSE "commit") /\ x.key = (IF again THEN "matter" ELSE me.key)
    BY <1>1 DEF Tx, Keys
  <1> HIDE DEF x
  <1>3. Placed(x)
    <2>1. \A k \in Keys : me.number[k] # 0 => k \in me.held /\ (k = me.key \/ (k = "client" /\ me.key = "matter"))
      BY <1>1 DEF Placed
    <2>2. CASE again
      <3>1. x.number["matter"] = 0 /\ "matter" \in Keys
        BY <1>2, <2>1, <2>2 DEF Keys, Tx
      <3> QED BY <1>1, <1>2, <2>1, <2>2, <3>1, FirstKeys DEF Placed, IsOpen, Over
    <2>3. CASE ~again
      BY <1>1, <1>2, <2>1, <2>3, FirstKeys DEF Placed, IsOpen, Over
    <2> QED BY <2>2, <2>3
  <1>5. /\ lastSeq' = lastSeq + 1 /\ UNCHANGED <<counter, made>>
        /\ log' = log \cup {[seq |-> lastSeq + 1, by |-> r, hash |-> <<r, me.tries, me.key>>, prev |-> LastHash(log)]}
    BY DEF Chain
  <1>6. IsOpen(x) /\ x.at # "insert" /\ IsOpen(me) /\ "exclusive" \in me.held
    BY <1>1, <1>2 DEF IsOpen, Over, Placed
  <1> QED BY <1>1, <1>2, <1>3, <1>5, <1>6

LEMMA CommitEffect ==
  ASSUME IntakeTypeOK, AllPlaced, NEW r \in Requests, Commit(r)
  PROVE  /\ IsOpen(tx[r]) /\ "exclusive" \in tx[r].held /\ UNCHANGED <<counter, log, lastSeq>>
         /\ made' = made \cup Rows(r)
         /\ \E x \in Tx : /\ Changed(r, x) /\ Placed(x) /\ x.at = "done" /\ x.held = {}
                          /\ \A k \in Keys : x.number[k] = 0
  <1> DEFINE x == Ended(tx[r], "done")
  <1>1. tx[r] \in Tx /\ Placed(tx[r]) /\ tx[r].at = "commit" /\ Changed(r, x)
    BY DEF Commit, End, Doing, AllPlaced, IntakeTypeOK, Changed
  <1>3. x \in Tx /\ Placed(x) /\ x.at = "done" /\ x.held = {} /\ \A k \in Keys : x.number[k] = 0
    BY <1>1, OverIsLocal DEF Over
  <1> HIDE DEF x
  <1> QED BY <1>1, <1>3 DEF Commit, IsOpen, Over, Placed

\* Whatever ends or restarts a transaction without its commit.
Ending(r) == Victim(r) \/ Abort(r) \/ Duplicate(r)

\* A member of a cycle waits.
LEMMA MembersWait ==
  ASSUME NEW S \in Cycles, NEW r \in S
  PROVE  r \in Requests /\ WaitsFor(r) \cap (S \ {r}) # {}
  <1>1. S \in SUBSET Requests /\ Cardinality(S) > 1
    BY DEF Cycles
  <1>2. S # {r}
    BY <1>1, FS_Singleton
  <1>3. \A T \in SUBSET S : T \notin {{}, S} => \E q \in T : WaitsFor(q) \cap (S \ T) # {}
    BY DEF Cycles
  <1> QED BY <1>1, <1>2, <1>3

LEMMA WaitersAreOpen ==
  ASSUME NEW r, WaitsFor(r) # {}
  PROVE  tx[r].at \in {"number", "insert", "write", "audit"} /\ IsOpen(tx[r])
  <1>1. Wanted(r) # {}
    BY DEF WaitsFor
  <1> QED BY <1>1, WantedLocks DEF IsOpen, Over

LEMMA EndingEffect ==
  ASSUME IntakeTypeOK, AllPlaced, NEW r \in Requests, Ending(r)
  PROVE  /\ IsOpen(tx[r]) /\ RollBack(r)
         /\ \E x \in Tx : /\ Changed(r, x) /\ Placed(x) /\ x.at \in {"number", "audit", "refused", "failed"} /\ x.held = {}
                          /\ \A k \in Keys : x.number[k] = 0
  <1>1. tx[r] \in Tx /\ tx[r].kind \in Kinds /\ tx[r].tries \in 1..Attempts
    BY DEF IntakeTypeOK, Tx
  <1>2. ASSUME NEW how \in Over \ {"done"}, End(r, how)
        PROVE  \E x \in Tx : /\ Changed(r, x) /\ Placed(x) /\ x.at \in {"number", "audit", "refused", "failed"} /\ x.held = {}
                             /\ \A k \in Keys : x.number[k] = 0
    <2> DEFINE x == Ended(tx[r], how)
    <2>1. Changed(r, x)
      BY <1>2 DEF End, Changed
    <2>2. x \in Tx /\ Placed(x) /\ x.at = how /\ x.held = {} /\ \A k \in Keys : x.number[k] = 0
      <3>1. how \in Over
        BY DEF Over
      <3> QED BY <1>1, <3>1, OverIsLocal
    <2> HIDE DEF x
    <2> QED BY <1>2, <2>1, <2>2 DEF Over
  <1>3. CASE Victim(r)
    <2>1. IsOpen(tx[r])
      BY <1>3, MembersWait, WaitersAreOpen DEF Victim
    <2>2. CASE Retries(r)
      <3>1. NextTry(r) \in 1..Attempts
        BY <1>1, <2>2, IntakeConstants DEF Retries, NextTry
      <3>2. Changed(r, Start(tx[r].kind, NextTry(r)))
        BY <1>3, <2>2 DEF Victim, Changed
      <3> QED BY <1>1, <1>3, <2>1, <3>1, <3>2, StartIsLocal DEF Victim
    <2>3. CASE ~Retries(r)
      BY <1>2, <1>3, <2>1, <2>3 DEF Victim, Over
    <2> QED BY <2>2, <2>3
  <1>4. CASE Abort(r) \/ Duplicate(r)
    <2>1. Abort(r)
      BY <1>4 DEF Duplicate
    <2> QED BY <1>2, <2>1 DEF Abort, IsOpen, Over
  <1> QED BY <1>3, <1>4 DEF Ending

LEMMA IntakeSteps ==
  ASSUME [IntakeNext]_intakeVars
  PROVE  \/ UNCHANGED intakeVars
         \/ \E r \in Requests :
              \/ \E kind \in Kinds : Begin(r, kind)
              \/ Number(r) /\ HasRow(tx[r].key)
              \/ InsertCounter(r)
              \/ Locking(r) /\ ~(Doing(r, "number") /\ HasRow(tx[r].key))
              \/ Chain(r) \/ Commit(r) \/ Ending(r)
  <1>1. \A r : (Write(r) => ~Doing(r, "number")) /\ (LockLog(r) => ~Doing(r, "number")) /\ (Number(r) => Doing(r, "number"))
    BY DEF Write, LockLog, Number, Doing
  <1> SUFFICES ASSUME NEW r \in Requests, IntakeStep(r)
               PROVE  \/ Number(r) /\ HasRow(tx[r].key)
                      \/ InsertCounter(r)
                      \/ Locking(r) /\ ~(Doing(r, "number") /\ HasRow(tx[r].key))
                      \/ Chain(r) \/ Commit(r) \/ Ending(r)
    BY DEF IntakeNext
  <1> QED BY <1>1 DEF IntakeStep, Advance, Locking, Ending

----------------------------------------------------------------------------
(* What each step preserves *)

\* A number is taken by one transaction at a time.
LEMMA TakenAlone ==
  ASSUME AllPlaced, OneHolder, NEW r \in Requests, NEW k \in Keys, k \in tx[r].held
  PROVE  \A q \in Requests \ {r} : tx[q].number[k] = 0
  BY DEF AllPlaced, Placed, OneHolder, ExclusiveLocks

LEMMA HolderStep ==
  ASSUME IntakeTypeOK, OneHolder, NEW r \in Requests, NEW x \in Tx, Changed(r, x),
         \A lock \in ExclusiveLocks : lock \in x.held => lock \in tx[r].held \/ \A q \in Requests \ {r} : lock \notin tx[q].held
  PROVE  OneHolder'
  BY OneChanges DEF OneHolder

LEMMA LocalStep ==
  ASSUME IntakeTypeOK, AllPlaced, NEW r \in Requests, NEW x \in Tx, Changed(r, x), Placed(x)
  PROVE  tx' \in [Requests -> Tx] /\ AllPlaced'
  BY OneChanges DEF AllPlaced

\* Nothing of counters, rows and numbers changes.
LEMMA SameNumbers ==
  ASSUME IntakeTypeOK, CountersMatch, RowsGiven, NEW r \in Requests, NEW x \in Tx, Changed(r, x),
         \A k \in Keys : x.number[k] = tx[r].number[k], x.at = "insert" => x.key \in Keys /\ counter[x.key] = 0,
         UNCHANGED <<counter, made>>
  PROVE  CountersMatch' /\ RowsGiven'
  <1>1. \A q \in Requests : \A k \in Keys : tx'[q].number[k] = tx[q].number[k]
    BY OneChanges
  <1>2. CountersMatch'
    BY <1>1, OneChanges DEF CountersMatch, Doing
  <1>3. \A k \in Keys : Taken(k)' = Taken(k) /\ Given(k)' = Given(k)
    BY <1>1 DEF Taken, Numbered, Given
  <1> QED BY <1>2, <1>3 DEF RowsGiven

\* r takes the next number of k.
LEMMA NextNumber ==
  ASSUME IntakeTypeOK, AllPlaced, OneHolder, CountersMatch, RowsGiven, NEW r \in Requests, NEW k \in Keys, NEW x \in Tx,
         Changed(r, x), tx[r].number[k] = 0, x.number = [tx[r].number EXCEPT ![k] = counter[k] + 1], x.at = "write",
         \A q \in Requests \ {r} : k \notin tx[q].held,
         counter[k] # 0 \/ \A q \in Requests \ {r} : "gap" \notin tx[q].held,
         counter' = [counter EXCEPT ![k] = @ + 1], UNCHANGED made
  PROVE  CountersMatch' /\ RowsGiven'
  <1>1. /\ counter' \in [Keys -> Nat] /\ counter'[k] = counter[k] + 1 /\ counter[k] \in Nat
        /\ \A j \in Keys \ {k} : counter'[j] = counter[j]
    BY DEF IntakeTypeOK
  <1>2. x.number[k] = counter[k] + 1 /\ \A j \in Keys \ {k} : x.number[j] = tx[r].number[j]
    BY DEF IntakeTypeOK, Tx
  <1>3. \A q \in Requests \ {r} : tx[q].number[k] = 0
    BY DEF AllPlaced, Placed
  <1>4. ASSUME NEW q \in Requests, NEW j \in Keys, tx'[q].number[j] # 0
        PROVE  tx'[q].number[j] = counter'[j]
    <2>1. CASE q = r
      <3>1. tx'[q].number[j] = x.number[j]
        BY <2>1, OneChanges
      <3>2. CASE j = k
        BY <1>1, <1>2, <3>1, <3>2
      <3>3. CASE j # k
        BY <1>1, <1>2, <1>4, <2>1, <3>1, <3>3 DEF CountersMatch
      <3> QED BY <3>2, <3>3
    <2>2. CASE q # r
      BY <1>1, <1>3, <1>4, <2>2, OneChanges DEF CountersMatch
    <2> QED BY <2>1, <2>2
  <1>5. ASSUME NEW q \in Requests, tx'[q].at = "insert"
        PROVE  counter'[tx'[q].key] = 0
    <2>1. q # r /\ tx'[q] = tx[q]
      BY <1>5, OneChanges
    <2>2. counter[tx[q].key] = 0 /\ tx[q].key \in Keys /\ "gap" \in tx[q].held
      BY <1>5, <2>1 DEF CountersMatch, AllPlaced, Placed, Doing
    <2> QED BY <1>1, <2>1, <2>2
  <1>6. Taken(k) = 0 /\ Taken(k)' = 1
    BY <1>1, <1>2, <1>3, OneChanges DEF Taken, Numbered
  <1>7. \A j \in Keys \ {k} : Taken(j)' = Taken(j)
    <2>1. \A q \in Requests : \A j \in Keys \ {k} : tx'[q].number[j] = tx[q].number[j]
      <3>1. \A j \in Keys \ {k} : tx'[r].number[j] = tx[r].number[j]
        <4>1. tx'[r] = x
          BY OneChanges
        <4> QED BY <1>2, <4>1
      <3>2. \A q \in Requests \ {r} : tx'[q] = tx[q]
        BY OneChanges
      <3> QED BY <3>1, <3>2
    <2> QED BY <2>1 DEF Taken, Numbered
  <1>8. \A j \in Keys : Given(j)' = Given(j) /\ counter'[j] - Taken(j)' = counter[j] - Taken(j)
    BY <1>1, <1>6, <1>7 DEF Given
  <1>9. RowsGiven'
    BY <1>8 DEF RowsGiven
  <1> QED BY <1>4, <1>5, <1>9 DEF CountersMatch, Doing

\* The counters after a rollback.
LEMMA ReturnedNumbers ==
  ASSUME IntakeTypeOK, CountersMatch, NEW r \in Requests, RollBack(r)
  PROVE  /\ counter' \in [Keys -> Nat]
         /\ \A k \in Keys : counter'[k] = IF tx[r].number[k] # 0 THEN counter[k] - 1 ELSE counter[k]
  <1>1. \A k \in Keys : counter[k] \in Nat /\ tx[r].number[k] \in Nat
    BY DEF IntakeTypeOK, Tx
  <1>2. \A k \in Keys : tx[r].number[k] # 0 => counter[k] # 0
    BY <1>1 DEF CountersMatch
  <1>3. counter' = [k \in Keys |-> IF tx[r].number[k] # 0 THEN counter[k] - 1 ELSE counter[k]]
    BY DEF RollBack, Returned, Numbered
  <1> QED BY <1>1, <1>2, <1>3

LEMMA RollBackNumbers ==
  ASSUME IntakeTypeOK, AllPlaced, OneHolder, CountersMatch, RowsGiven, NEW r \in Requests, NEW x \in Tx,
         Changed(r, x), RollBack(r), x.at # "insert", \A k \in Keys : x.number[k] = 0
  PROVE  CountersMatch' /\ RowsGiven'
  <1>1. /\ counter' \in [Keys -> Nat] /\ counter \in [Keys -> Nat]
        /\ \A k \in Keys : counter'[k] = IF tx[r].number[k] # 0 THEN counter[k] - 1 ELSE counter[k]
    BY ReturnedNumbers DEF IntakeTypeOK
  <1>2. \A k \in Keys : tx[r].number[k] # 0 => \A q \in Requests \ {r} : tx[q].number[k] = 0
    BY TakenAlone DEF AllPlaced, Placed
  <1>3. ASSUME NEW q \in Requests, NEW j \in Keys, tx'[q].number[j] # 0
        PROVE  tx'[q].number[j] = counter'[j]
    <2>1. q # r /\ tx'[q] = tx[q]
      BY <1>3, OneChanges
    <2> QED BY <1>1, <1>2, <1>3, <2>1 DEF CountersMatch
  <1>4. ASSUME NEW q \in Requests, tx'[q].at = "insert"
        PROVE  counter'[tx'[q].key] = 0
    <2>1. q # r /\ tx'[q] = tx[q]
      BY <1>4, OneChanges
    <2>2. counter[tx[q].key] = 0 /\ tx[q].key \in Keys
      BY <1>4, <2>1 DEF CountersMatch, AllPlaced, Placed, Doing
    <2>3. tx[r].number[tx[q].key] = 0
      BY <2>2 DEF CountersMatch
    <2> QED BY <1>1, <2>1, <2>2, <2>3
  <1>5. \A j \in Keys : Given(j)' = Given(j)
    BY DEF Given, RollBack
  <1>6. ASSUME NEW j \in Keys
        PROVE  counter'[j] - Taken(j)' = counter[j] - Taken(j)
    <2>1. CASE tx[r].number[j] # 0
      <3>1. Taken(j) = 1 /\ Taken(j)' = 0
        BY <1>2, <2>1, OneChanges DEF Taken, Numbered
      <3> QED BY <1>1, <2>1, <3>1
    <2>2. CASE tx[r].number[j] = 0
      <3>1. Taken(j)' = Taken(j)
        BY <2>2, OneChanges DEF Taken, Numbered
      <3> QED BY <1>1, <2>2, <3>1
    <2> QED BY <2>1, <2>2
  <1>7. RowsGiven'
    BY <1>5, <1>6 DEF RowsGiven
  <1> QED BY <1>3, <1>4, <1>7 DEF CountersMatch, Doing

\* The rows of a counter whose number is committed.
LEMMA GivenGrows ==
  ASSUME NEW S, IsFiniteSet(S), NEW n \in Nat, {m.number : m \in S} = 1..n, Cardinality(S) = n,
         NEW row, row.number = n + 1
  PROVE  LET T == S \cup {row} IN
         IsFiniteSet(T) /\ {m.number : m \in T} = 1..(n + 1) /\ Cardinality(T) = n + 1
  <1>1. row \notin S
    BY \A m \in S : m.number \in 1..n
  <1>2. IsFiniteSet(S \cup {row}) /\ Cardinality(S \cup {row}) = n + 1
    BY <1>1, FS_AddElement
  <1>3. {m.number : m \in S \cup {row}} = {m.number : m \in S} \cup {n + 1}
    OBVIOUS
  <1>4. 1..(n + 1) = (1..n) \cup {n + 1}
    OBVIOUS
  <1> QED BY <1>2, <1>3, <1>4

LEMMA CommitNumbers ==
  ASSUME IntakeTypeOK, AllPlaced, OneHolder, CountersMatch, RowsGiven, NEW r \in Requests, NEW x \in Tx,
         Changed(r, x), made' = made \cup Rows(r), UNCHANGED counter, x.at = "done", \A k \in Keys : x.number[k] = 0
  PROVE  CountersMatch' /\ RowsGiven'
  <1>1. CountersMatch'
    BY OneChanges DEF CountersMatch, Doing
  <1>2. \A k \in Keys : tx[r].number[k] # 0 => \A q \in Requests \ {r} : tx[q].number[k] = 0
    BY TakenAlone DEF AllPlaced, Placed
  <1>3. ASSUME NEW k \in Keys
        PROVE  /\ IsFiniteSet(Given(k)')
               /\ {m.number : m \in Given(k)'} = 1..(counter'[k] - Taken(k)')
               /\ Cardinality(Given(k)') = counter'[k] - Taken(k)'
    <2> DEFINE row == [key |-> k, number |-> tx[r].number[k], lead |-> tx[r].kind = "lead"]
    <2>1. counter[k] \in Nat
      BY DEF IntakeTypeOK
    <2>2. CASE tx[r].number[k] # 0
      <3>1. Taken(k) = 1 /\ Taken(k)' = 0
        BY <1>2, <2>2, OneChanges DEF Taken, Numbered
      <3>2. Given(k)' = Given(k) \cup {row}
        BY <2>2 DEF Given, Rows, Numbered
      <3>3. tx[r].number[k] = counter[k]
        BY <2>2 DEF CountersMatch
      <3>4. counter[k] - 1 \in Nat /\ counter[k] = (counter[k] - 1) + 1
        BY <2>1, <2>2, <3>3
      <3>5. /\ IsFiniteSet(Given(k)) /\ {m.number : m \in Given(k)} = 1..(counter[k] - 1)
            /\ Cardinality(Given(k)) = counter[k] - 1
        BY <3>1 DEF RowsGiven
      <3>6. row.number = (counter[k] - 1) + 1
        BY <3>3, <3>4
      <3> HIDE DEF row
      <3>7. /\ IsFiniteSet(Given(k) \cup {row}) /\ {m.number : m \in Given(k) \cup {row}} = 1..((counter[k] - 1) + 1)
            /\ Cardinality(Given(k) \cup {row}) = (counter[k] - 1) + 1
        BY <3>4, <3>5, <3>6, GivenGrows
      <3>8. counter'[k] - Taken(k)' = (counter[k] - 1) + 1
        BY <2>1, <3>1
      <3> QED BY <3>2, <3>7, <3>8
    <2>3. CASE tx[r].number[k] = 0
      <3>1. Taken(k)' = Taken(k)
        BY <2>3, OneChanges DEF Taken, Numbered
      <3>2. Given(k)' = Given(k)
        BY <2>3 DEF Given, Rows, Numbered
      <3> QED BY <3>1, <3>2 DEF RowsGiven
    <2> QED BY <2>2, <2>3
  <1>4. RowsGiven'
    BY <1>3 DEF RowsGiven, Given
  <1> QED BY <1>1, <1>4

\* The log stays: who is in it has committed, or keeps its lock.
LEMMA SameLog ==
  ASSUME IntakeTypeOK, LogInv, NEW r \in Requests, NEW x \in Tx, Changed(r, x), UNCHANGED <<log, lastSeq>>,
         \A e \in log : e.by = r => x.at = "done" \/ (IsOpen(tx[r]) /\ IsOpen(x) /\ "exclusive" \in x.held)
  PROVE  LogInv' /\ (\A e \in log : e.seq \in 1..lastSeq /\ e.by \in Requests)'
  <1>1. \A e \in log : e.seq \in 1..lastSeq /\ e.by \in Requests
    BY DEF IntakeTypeOK
  <1>2. tx'[r] = x /\ \A q \in Requests \ {r} : tx'[q] = tx[q]
    BY OneChanges
  <1>3. EntriesHeld'
    BY <1>1, <1>2 DEF EntriesHeld, LogInv
  <1>4. \A e \in log : IsOpen(tx'[e.by]) => IsOpen(tx[e.by])
    BY <1>1, <1>2 DEF IsOpen, Over
  <1>5. OpenIsLast'
    BY <1>4 DEF OpenIsLast, LogInv
  <1>6. Linked'
    BY DEF Linked, LogInv
  <1> QED BY <1>1, <1>3, <1>5, <1>6 DEF LogInv

\* An entry is appended by the one that has the lock of the log.
LEMMA ChainLog ==
  ASSUME IntakeTypeOK, OneHolder, LogInv, NEW r \in Requests, NEW x \in Tx, Changed(r, x), NEW hash,
         IsOpen(tx[r]), "exclusive" \in tx[r].held, IsOpen(x), x.held = tx[r].held, lastSeq' = lastSeq + 1,
         log' = log \cup {[seq |-> lastSeq + 1, by |-> r, hash |-> hash, prev |-> LastHash(log)]}
  PROVE  LogInv' /\ (\A e \in log : e.seq \in 1..lastSeq /\ e.by \in Requests)'
  <1> DEFINE new == [seq |-> lastSeq + 1, by |-> r, hash |-> hash, prev |-> LastHash(log)]
  <1>1. lastSeq \in Nat /\ \A e \in log : e.seq \in 1..lastSeq /\ e.by \in Requests
    BY DEF IntakeTypeOK
  <1>2. tx'[r] = x /\ \A q \in Requests \ {r} : tx'[q] = tx[q]
    BY OneChanges
  <1>3. new.seq = lastSeq + 1 /\ new.by = r /\ new.prev = LastHash(log) /\ log' = log \cup {new}
    OBVIOUS
  <1> HIDE DEF new
  <1>4. \A e \in log' : e.seq \in 1..lastSeq' /\ e.by \in Requests
    BY <1>1, <1>3
  <1>5. EntriesHeld'
    BY <1>1, <1>2, <1>3 DEF EntriesHeld, LogInv
  <1>6. \A e \in log : IsOpen(tx[e.by]) => e.by = r
    BY <1>1 DEF EntriesHeld, LogInv, OneHolder, ExclusiveLocks, IsOpen, Over
  <1>7. \A e \in log' : IsOpen(tx'[e.by]) => e.by = r
    BY <1>1, <1>2, <1>3, <1>6
  <1>8. OpenIsLast'
    <2> SUFFICES ASSUME NEW e \in log', NEW f \in log', IsOpen(tx'[e.by]), f.seq > e.seq
                 PROVE  f.by = e.by
      BY DEF OpenIsLast
    <2>1. CASE f = new
      BY <1>3, <1>7, <2>1
    <2>2. CASE f # new
      <3>1. f \in log /\ e \in log
        BY <1>1, <1>3, <2>2
      <3> QED BY <1>1, <1>2, <1>6, <3>1 DEF OpenIsLast, LogInv
    <2> QED BY <2>1, <2>2
  <1>9. ASSUME NEW e \in log'
        PROVE  e.prev = LastHash(Before(log', e.seq))
    <2>1. CASE e = new
      <3>1. Before(log', e.seq) = log
        BY <1>1, <1>3, <2>1 DEF Before
      <3> QED BY <1>3, <2>1, <3>1
    <2>2. CASE e # new
      <3>1. e \in log
        BY <1>3, <2>2
      <3>2. Before(log', e.seq) = Before(log, e.seq)
        BY <1>1, <1>3, <3>1 DEF Before
      <3> QED BY <3>1, <3>2 DEF Linked, LogInv
    <2> QED BY <2>1, <2>2
  <1>10. Linked'
    BY <1>9 DEF Linked, Before
  <1> QED BY <1>4, <1>5, <1>8, <1>10 DEF LogInv

\* A transaction under way takes its entries with it, and they were the last.
LEMMA RollBackLog ==
  ASSUME IntakeTypeOK, LogInv, NEW r \in Requests, NEW x \in Tx, Changed(r, x), IsOpen(tx[r]), RollBack(r)
  PROVE  LogInv' /\ (\A e \in log : e.seq \in 1..lastSeq /\ e.by \in Requests)'
  <1>1. \A e \in log : e.seq \in 1..lastSeq /\ e.by \in Requests
    BY DEF IntakeTypeOK
  <1>2. \A q \in Requests \ {r} : tx'[q] = tx[q]
    BY OneChanges
  <1>3. log' = {e \in log : e.by # r} /\ lastSeq' = lastSeq
    BY DEF RollBack
  <1>4. EntriesHeld'
    BY <1>1, <1>2, <1>3 DEF EntriesHeld, LogInv
  <1>5. OpenIsLast'
    BY <1>1, <1>2, <1>3 DEF OpenIsLast, LogInv
  <1>6. ASSUME NEW e \in log'
        PROVE  e.prev = LastHash(Before(log', e.seq))
    <2>1. \A f \in log : f.seq < e.seq => f.by # r
      BY <1>1, <1>3 DEF OpenIsLast, LogInv
    <2>2. Before(log', e.seq) = Before(log, e.seq)
      BY <1>3, <2>1 DEF Before
    <2> QED BY <1>3, <2>2 DEF Linked, LogInv
  <1>7. Linked'
    BY <1>6 DEF Linked, Before
  <1> QED BY <1>1, <1>3, <1>4, <1>5, <1>7 DEF LogInv

----------------------------------------------------------------------------
(* The theorems *)

LEMMA IntakeInitInv ==
  ASSUME IntakeInit
  PROVE  IntakeInv
  <1>0. \A m \in made : m = [key |-> m.key, number |-> 1, lead |-> FALSE] /\ m.key \in Existing
    <2>1. \A m \in [key : Existing, number : {1}, lead : {FALSE}] : m.key \in Existing /\ m.number = 1 /\ m.lead = FALSE
      OBVIOUS
    <2>2. \A m \in [key : Existing, number : {1}, lead : {FALSE}] : m = [key |-> m.key, number |-> m.number, lead |-> m.lead]
      OBVIOUS
    <2> QED BY <2>1, <2>2 DEF IntakeInit
  <1>1. Unused \in Tx /\ Placed(Unused)
    BY IntakeConstants DEF Unused, Tx, Placed, IsOpen, Kinds, Keys, Over, Locks
  <1>2. Unused.at = "new" /\ Unused.held = {} /\ \A k \in Keys : Unused.number[k] = 0
    BY DEF Unused
  <1>3. \A r \in Requests : tx[r] = Unused
    BY DEF IntakeInit
  <1>4. IntakeTypeOK
    <2>1. counter \in [Keys -> Nat]
      BY DEF IntakeInit
    <2>2. made \subseteq [key : Keys, number : Nat, lead : BOOLEAN]
      <3>1. Existing \subseteq Keys
        BY IntakeConstants
      <3>2. \A k \in Keys : [key |-> k, number |-> 1, lead |-> FALSE] \in [key : Keys, number : Nat, lead : BOOLEAN]
        OBVIOUS
      <3> QED BY <1>0, <3>1, <3>2
    <2>3. lastSeq \in Nat /\ log = {}
      BY DEF IntakeInit
    <2>4. tx \in [Requests -> Tx]
      BY <1>1 DEF IntakeInit
    <2> QED BY <2>1, <2>2, <2>3, <2>4 DEF IntakeTypeOK
  <1>5. AllPlaced /\ OneHolder /\ CountersMatch
    BY <1>1, <1>2, <1>3 DEF AllPlaced, OneHolder, CountersMatch, Doing
  <1>6. RowsGiven
    <2> SUFFICES ASSUME NEW k \in Keys
                 PROVE  /\ IsFiniteSet(Given(k))
                        /\ {m.number : m \in Given(k)} = 1..(counter[k] - Taken(k))
                        /\ Cardinality(Given(k)) = counter[k] - Taken(k)
      BY DEF RowsGiven
    <2> DEFINE row == [key |-> k, number |-> 1, lead |-> FALSE]
    <2>1. Taken(k) = 0
      BY <1>2, <1>3 DEF Taken, Numbered
    <2>2. Given(k) = IF k \in Existing THEN {row} ELSE {}
      <3>2. k \in Existing => row \in made /\ row.key = k
        BY DEF IntakeInit
      <3> QED BY <1>0, <3>2 DEF Given
    <2>3. counter[k] = IF k \in Existing THEN 1 ELSE 0
      BY DEF IntakeInit
    <2>4. row.number = 1
      OBVIOUS
    <2> HIDE DEF row
    <2>5. CASE k \in Existing
      <3>1. IsFiniteSet({row}) /\ Cardinality({row}) = 1 /\ {m.number : m \in {row}} = 1..1
        <4>1. {m.number : m \in {row}} = {1}
          BY <2>4
        <4>2. 1..1 = {1}
          OBVIOUS
        <4> QED BY <4>1, <4>2, FS_Singleton
      <3> QED BY <2>1, <2>2, <2>3, <2>5, <3>1
    <2>6. CASE k \notin Existing
      <3>1. IsFiniteSet({}) /\ Cardinality({}) = 0 /\ {m.number : m \in {}} = 1..0
        BY FS_EmptySet
      <3> QED BY <2>1, <2>2, <2>3, <2>6, <3>1
    <2> QED BY <2>5, <2>6
  <1>7. LogInv
    BY DEF IntakeInit, LogInv, EntriesHeld, OpenIsLast, Linked
  <1> QED BY <1>4, <1>5, <1>6, <1>7 DEF IntakeInv

LEMMA IntakeNextInv ==
  ASSUME IntakeInv, [IntakeNext]_intakeVars
  PROVE  IntakeInv'
  <1> DEFINE LogType == \A e \in log : e.seq \in 1..lastSeq /\ e.by \in Requests
  <1>1. IntakeTypeOK /\ AllPlaced /\ OneHolder /\ CountersMatch /\ RowsGiven /\ LogInv
    BY DEF IntakeInv
  <1>2. counter \in [Keys -> Nat] /\ made \subseteq [key : Keys, number : Nat, lead : BOOLEAN] /\ lastSeq \in Nat
    BY <1>1 DEF IntakeTypeOK
  <1>3. ASSUME NEW r \in Requests, NEW x \in Tx, Changed(r, x), Placed(x), LogInv', LogType', lastSeq' \in Nat,
               counter' \in [Keys -> Nat], made' \subseteq [key : Keys, number : Nat, lead : BOOLEAN],
               \A lock \in ExclusiveLocks : lock \in x.held => lock \in tx[r].held \/ \A q \in Requests \ {r} : lock \notin tx[q].held,
               CountersMatch', RowsGiven'
        PROVE  IntakeInv'
    BY <1>1, <1>3, HolderStep, LocalStep DEF IntakeInv, IntakeTypeOK
  <1>4. CASE UNCHANGED intakeVars
    BY <1>1, <1>4 DEF intakeVars, IntakeInv, IntakeTypeOK, AllPlaced, OneHolder, CountersMatch, Doing, RowsGiven, Given, Taken,
                      Numbered, LogInv, EntriesHeld, OpenIsLast, Linked, Before
  <1>5. ASSUME NEW r \in Requests, NEW kind \in Kinds, Begin(r, kind)
        PROVE  IntakeInv'
    <2>1. PICK x \in Tx : /\ Changed(r, x) /\ Placed(x) /\ x.held = {} /\ x.at \in {"number", "audit", "done"}
                          /\ \A k \in Keys : x.number[k] = 0
      BY <1>1, <1>5, BeginEffect
    <2>2. tx[r].at = "new" /\ UNCHANGED <<counter, made, log, lastSeq>>
      BY <1>1, <1>5, BeginEffect
    <2>3. \A e \in log : e.by # r
      BY <1>1, <2>2 DEF LogInv, EntriesHeld, IsOpen, Over
    <2>4. LogInv' /\ LogType'
      BY <1>1, <2>1, <2>2, <2>3, SameLog
    <2>5. \A k \in Keys : tx[r].number[k] = 0
      BY <1>1, <2>2 DEF AllPlaced, Placed, IsOpen
    <2>6. CountersMatch' /\ RowsGiven'
      BY <1>1, <2>1, <2>2, <2>5, SameNumbers
    <2> QED BY <1>2, <1>3, <2>1, <2>2, <2>4, <2>6
  <1>6. ASSUME NEW r \in Requests, Number(r), HasRow(tx[r].key)
        PROVE  IntakeInv'
    <2> DEFINE k == tx[r].key
    <2>1. /\ k \in Keys /\ tx[r].number[k] = 0 /\ IsOpen(tx[r]) /\ tx[r].at = "number"
          /\ \A q \in Requests \ {r} : k \notin tx[q].held
          /\ counter' = [counter EXCEPT ![k] = @ + 1] /\ UNCHANGED <<made, log, lastSeq>>
      BY <1>1, <1>6, NumberEffect
    <2>2. PICK x \in Tx : /\ Changed(r, x) /\ Placed(x) /\ x.at = "write" /\ x.held = tx[r].held \cup {k}
                          /\ x.number = [tx[r].number EXCEPT ![k] = counter[k] + 1]
      BY <1>1, <1>6, NumberEffect
    <2> HIDE DEF k
    <2>3. LogInv' /\ LogType'
      <3>1. \A e \in log : e.by = r => IsOpen(tx[r]) /\ IsOpen(x) /\ "exclusive" \in x.held
        BY <1>1, <2>1, <2>2 DEF LogInv, EntriesHeld, IsOpen, Over
      <3> QED BY <1>1, <2>1, <2>2, <3>1, SameLog
    <2>4. CountersMatch' /\ RowsGiven'
      <3>1. counter[k] # 0
        BY <1>6 DEF HasRow, k
      <3> QED BY <1>1, <2>1, <2>2, <3>1, NextNumber
    <2>5. counter' \in [Keys -> Nat]
      BY <1>2, <2>1
    <2> QED BY <1>2, <1>3, <2>1, <2>2, <2>3, <2>4, <2>5
  <1>7. ASSUME NEW r \in Requests, InsertCounter(r)
        PROVE  IntakeInv'
    <2> DEFINE k == tx[r].key
    <2>1. /\ k \in Keys /\ tx[r].number[k] = 0 /\ IsOpen(tx[r]) /\ tx[r].at = "insert"
          /\ \A q \in Requests \ {r} : k \notin tx[q].held /\ "gap" \notin tx[q].held
          /\ counter' = [counter EXCEPT ![k] = @ + 1] /\ UNCHANGED <<made, log, lastSeq>>
      BY <1>1, <1>7, InsertEffect
    <2>2. PICK x \in Tx : /\ Changed(r, x) /\ Placed(x) /\ x.at = "write" /\ x.held = tx[r].held \cup {k, "shared"}
                          /\ x.number = [tx[r].number EXCEPT ![k] = counter[k] + 1]
      BY <1>1, <1>7, InsertEffect
    <2> HIDE DEF k
    <2>3. LogInv' /\ LogType'
      <3>1. \A e \in log : e.by = r => IsOpen(tx[r]) /\ IsOpen(x) /\ "exclusive" \in x.held
        BY <1>1, <2>1, <2>2 DEF LogInv, EntriesHeld, IsOpen, Over
      <3> QED BY <1>1, <2>1, <2>2, <3>1, SameLog
    <2>4. CountersMatch' /\ RowsGiven'
      BY <1>1, <2>1, <2>2, NextNumber
    <2>5. counter' \in [Keys -> Nat]
      BY <1>2, <2>1
    <2>6. \A lock \in ExclusiveLocks : lock \in x.held => lock \in tx[r].held \/ lock = k
      BY <2>2 DEF ExclusiveLocks, Keys
    <2> QED BY <1>2, <1>3, <2>1, <2>2, <2>3, <2>4, <2>5, <2>6
  <1>8. ASSUME NEW r \in Requests, Locking(r), ~(Doing(r, "number") /\ HasRow(tx[r].key))
        PROVE  IntakeInv'
    <2>1. IsOpen(tx[r]) /\ UNCHANGED <<counter, made, log, lastSeq>>
      BY <1>1, <1>8, LockingEffect
    <2>2. PICK x \in Tx : /\ Changed(r, x) /\ Placed(x) /\ IsOpen(x) /\ x.number = tx[r].number
                          /\ tx[r].held \subseteq x.held
                          /\ \A lock \in ExclusiveLocks : lock \in x.held =>
                                lock \in tx[r].held \/ \A q \in Requests \ {r} : lock \notin tx[q].held
                          /\ x.at = "insert" => x.key \in Keys /\ counter[x.key] = 0
      BY <1>1, <1>8, LockingEffect
    <2>3. LogInv' /\ LogType'
      <3>1. \A e \in log : e.by = r => IsOpen(tx[r]) /\ IsOpen(x) /\ "exclusive" \in x.held
        BY <1>1, <2>1, <2>2 DEF LogInv, EntriesHeld, IsOpen, Over
      <3> QED BY <1>1, <2>1, <2>2, <3>1, SameLog
    <2>4. CountersMatch' /\ RowsGiven'
      BY <1>1, <2>1, <2>2, SameNumbers
    <2> QED BY <1>2, <1>3, <2>1, <2>2, <2>3, <2>4
  <1>9. ASSUME NEW r \in Requests, Chain(r)
        PROVE  IntakeInv'
    <2>1. IsOpen(tx[r]) /\ "exclusive" \in tx[r].held /\ UNCHANGED <<counter, made>> /\ lastSeq' = lastSeq + 1
      BY <1>1, <1>9, ChainEffect
    <2>2. PICK hash : log' = log \cup {[seq |-> lastSeq + 1, by |-> r, hash |-> hash, prev |-> LastHash(log)]}
      BY <1>1, <1>9, ChainEffect
    <2>3. PICK x \in Tx : /\ Changed(r, x) /\ Placed(x) /\ IsOpen(x) /\ x.number = tx[r].number /\ x.held = tx[r].held
                          /\ x.at # "insert"
      BY <1>1, <1>9, ChainEffect
    <2>4. LogInv' /\ LogType'
      BY <1>1, <2>1, <2>2, <2>3, ChainLog
    <2>5. CountersMatch' /\ RowsGiven'
      BY <1>1, <2>1, <2>3, SameNumbers
    <2>6. lastSeq' \in Nat
      BY <1>2, <2>1
    <2> QED BY <1>2, <1>3, <2>1, <2>3, <2>4, <2>5, <2>6
  <1>10. ASSUME NEW r \in Requests, Commit(r)
        PROVE  IntakeInv'
    <2>1. IsOpen(tx[r]) /\ UNCHANGED <<counter, log, lastSeq>> /\ made' = made \cup Rows(r)
      BY <1>1, <1>10, CommitEffect
    <2>2. PICK x \in Tx : /\ Changed(r, x) /\ Placed(x) /\ x.at = "done" /\ x.held = {}
                          /\ \A k \in Keys : x.number[k] = 0
      BY <1>1, <1>10, CommitEffect
    <2>3. LogInv' /\ LogType'
      BY <1>1, <2>1, <2>2, SameLog
    <2>4. CountersMatch' /\ RowsGiven'
      BY <1>1, <2>1, <2>2, CommitNumbers
    <2>5. made' \subseteq [key : Keys, number : Nat, lead : BOOLEAN]
      <3>1. \A k \in Keys : tx[r].number[k] \in Nat
        BY <1>1 DEF IntakeTypeOK, Tx
      <3>2. \A k \in Keys : [key |-> k, number |-> tx[r].number[k], lead |-> tx[r].kind = "lead"] \in [key : Keys, number : Nat, lead : BOOLEAN]
        BY <3>1
      <3>3. \A row \in Rows(r) : row \in [key : Keys, number : Nat, lead : BOOLEAN]
        BY <3>2 DEF Rows, Numbered
      <3> QED BY <1>2, <2>1, <3>3
    <2> QED BY <1>2, <1>3, <2>1, <2>2, <2>3, <2>4, <2>5
  <1>11. ASSUME NEW r \in Requests, Ending(r)
        PROVE  IntakeInv'
    <2>1. IsOpen(tx[r]) /\ RollBack(r)
      BY <1>1, <1>11, EndingEffect
    <2>2. PICK x \in Tx : /\ Changed(r, x) /\ Placed(x) /\ x.at \in {"number", "audit", "refused", "failed"} /\ x.held = {}
                          /\ \A k \in Keys : x.number[k] = 0
      BY <1>1, <1>11, EndingEffect
    <2>3. LogInv' /\ LogType'
      BY <1>1, <2>1, <2>2, RollBackLog
    <2>4. CountersMatch' /\ RowsGiven'
      BY <1>1, <2>1, <2>2, RollBackNumbers
    <2>5. counter' \in [Keys -> Nat]
      BY <1>1, <2>1, ReturnedNumbers
    <2>6. UNCHANGED <<made, lastSeq>>
      BY <2>1 DEF RollBack
    <2> QED BY <1>2, <1>3, <2>2, <2>3, <2>4, <2>5, <2>6
  <1> QED BY <1>4, <1>5, <1>6, <1>7, <1>8, <1>9, <1>10, <1>11, IntakeSteps

\* The invariant holds in every reachable state: where a transaction is says what it has locked and
\* taken, and locks, counters, rows and log agree (nextCounter, matters.ts, lines 18-26; audit.ts,
\* lines 26-38; withTxRetry, db.ts).
THEOREM IntakeInvariant == IntakeSpec => []IntakeInv
  <1>1. IntakeInit => IntakeInv
    BY IntakeInitInv
  <1>2. IntakeInv /\ [IntakeNext]_intakeVars => IntakeInv'
    BY IntakeNextInv
  <1> QED BY <1>1, <1>2, PTL DEF IntakeSpec

\* At most one number of a counter is under way, because its row is locked, and it is the counter's;
\* the numbers before it have their row.
LEMMA InvNumbersInOrder ==
  ASSUME IntakeInv
  PROVE  NumbersInOrder
  <1> SUFFICES ASSUME NEW k \in Keys
               PROVE  LET taken == {r \in Requests : k \in Numbered(r)} IN
                      /\ Cardinality(taken) <= 1
                      /\ \A r \in taken : tx[r].number[k] = counter[k]
                      /\ {m.number : m \in Given(k)} = 1..(counter[k] - Cardinality(taken))
                      /\ Cardinality(Given(k)) = counter[k] - Cardinality(taken)
    BY DEF NumbersInOrder
  <1> DEFINE taken == {r \in Requests : k \in Numbered(r)}
  <1>1. IntakeTypeOK /\ AllPlaced /\ OneHolder /\ CountersMatch /\ RowsGiven
    BY DEF IntakeInv
  <1>2. \A r \in taken : r \in Requests /\ tx[r].number[k] # 0
    BY DEF Numbered
  <1>3. \A r \in taken : k \in tx[r].held
    BY <1>1, <1>2 DEF AllPlaced, Placed
  <1>4. \A q, r \in taken : q = r
    BY <1>1, <1>2, <1>3, TakenAlone
  <1>5. Cardinality(taken) = Taken(k) /\ Taken(k) <= 1
    <2>1. CASE taken = {}
      <3>1. Taken(k) = 0
        BY <2>1 DEF Taken
      <3> QED BY <2>1, <3>1, FS_EmptySet
    <2>2. CASE taken # {}
      <3>1. PICK r \in taken : TRUE
        BY <2>2
      <3>2. taken = {r}
        BY <1>4, <3>1
      <3>3. Taken(k) = 1
        BY <3>1 DEF Taken
      <3>4. Cardinality({r}) = 1
        BY FS_Singleton
      <3> QED BY <3>2, <3>3, <3>4
    <2> QED BY <2>1, <2>2
  <1>6. \A r \in taken : tx[r].number[k] = counter[k]
    BY <1>1, <1>2 DEF CountersMatch
  <1> HIDE DEF taken
  <1> QED BY <1>1, <1>5, <1>6 DEF RowsGiven, taken

\* Entries that are not seen are after all that are.
LEMMA InvChainLinked ==
  ASSUME IntakeInv
  PROVE  ChainLinked
  <1> DEFINE seen == {e \in log : ~Open(e.by)}
  <1>1. OpenIsLast /\ Linked
    BY DEF IntakeInv, LogInv
  <1>2. \A r : Open(r) <=> IsOpen(tx[r])
    BY DEF Open, IsOpen
  <1>3. ASSUME NEW e \in seen
        PROVE  e.prev = LastHash(Before(seen, e.seq))
    <2>1. e \in log /\ ~IsOpen(tx[e.by])
      BY <1>2
    <2>2. \A f \in log : f.seq < e.seq => ~IsOpen(tx[f.by])
      <3> SUFFICES ASSUME NEW f \in log, f.seq < e.seq, IsOpen(tx[f.by])
                   PROVE  FALSE
        OBVIOUS
      <3>1. e.seq > f.seq
        BY DEF IntakeInv, IntakeTypeOK
      <3>2. e.by = f.by
        BY <1>1, <2>1, <3>1 DEF OpenIsLast
      <3> QED BY <2>1, <3>2
    <2>3. Before(seen, e.seq) = Before(log, e.seq)
      BY <1>2, <2>2 DEF Before
    <2> QED BY <1>1, <2>1, <2>3 DEF Linked
  <1> QED BY <1>3 DEF ChainLinked

\* Of transactions that begin with the same counter, whoever has locks has that counter's row.
LEMMA InvDeadlocksExplained ==
  ASSUME IntakeInv
  PROVE  DeadlocksExplained
  <1> SUFFICES ASSUME NEW S \in Cycles,
                      \A r \in S : ~(Doing(r, "insert") /\ counter[tx[r].key] = 0),
                      \A q, r \in S : FirstKey[tx[q].kind] = FirstKey[tx[r].kind]
               PROVE  FALSE
    BY DEF DeadlocksExplained
  <1>1. AllPlaced /\ OneHolder /\ CountersMatch
    BY DEF IntakeInv
  <1>2. S \subseteq Requests /\ S # {}
    BY FS_EmptySet DEF Cycles
  <1>3. \A r \in S : tx[r] \in Tx /\ tx[r].at \in {"number", "write", "audit"} /\ IsOpen(tx[r]) /\ Placed(tx[r])
    <2>1. \A r \in S : tx[r].at \in {"number", "insert", "write", "audit"} /\ IsOpen(tx[r])
      BY MembersWait, WaitersAreOpen
    <2>2. \A r \in S : ~Doing(r, "insert")
      BY <1>1, <1>2 DEF CountersMatch
    <2>3. \A r \in S : tx[r] \in Tx
      BY <1>2 DEF IntakeInv, IntakeTypeOK
    <2> QED BY <1>1, <1>2, <2>1, <2>2, <2>3 DEF Doing, AllPlaced
  \* Each member waits for another one, which has locks.
  <1>4. \A r \in S : \E q \in S \ {r} : tx[q].held # {}
    BY MembersWait DEF WaitsFor
  <1>5. PICK r \in S : tx[r].held # {}
    BY <1>2, <1>4
  <1>6. PICK q \in S \ {r} : tx[q].held # {}
    BY <1>4, <1>5
  <1>7. tx[r].kind \in Kinds \ {"note"} /\ tx[q].kind \in Kinds \ {"note"}
    <2>1. \A p \in S : tx[p].held # {} => tx[p].kind # "note"
      BY <1>3 DEF Placed
    <2> QED BY <1>3, <1>5, <1>6, <2>1 DEF Tx
  <1>8. FirstKey[tx[r].kind] \in Keys
    BY <1>7, FirstKeys
  <1>9. FirstKey[tx[r].kind] \in tx[r].held /\ FirstKey[tx[q].kind] \in tx[q].held
    BY <1>3, <1>5, <1>6, <1>7 DEF Placed
  <1> QED BY <1>1, <1>2, <1>5, <1>6, <1>8, <1>9 DEF OneHolder, ExclusiveLocks

=============================================================================
