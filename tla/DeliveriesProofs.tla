-------------------------- MODULE DeliveriesProofs --------------------------
(* Theorems about Deliveries, for every number of workers, messages and faults. *)
EXTENDS Deliveries, FiniteSetTheorems, TLAPS

----------------------------------------------------------------------------
(* The inductive invariant *)

\* A worker's clock is not ahead of the present.
ClocksBehind == \A w \in Workers : worker[w].now <= clock

\* A worker remembers no more attempts than the table counts.
CountersBehind ==
  \A w \in Workers : worker[w].pc \in {"read", "answered"} => worker[w].attempts <= row[worker[w].id].attempts

\* The answer SENT comes from the provider.
AnswersTrue ==
  \A w \in Workers : worker[w].pc = "answered" /\ worker[w].result = "SENT" => accepted[worker[w].id] > 0

\* The right to send a message: a worker has it from its claim until the provider has accepted the
\* message, or until it has recorded a failure.
MaySend(me, m) == me.id = m /\ (me.pc \in {"claimed", "read"} \/ (me.pc = "answered" /\ me.result = "FAILED"))
Senders(m) == {w \in Workers : MaySend(worker[w], m)}

\* A row that is not claimed has the right to give.
Unclaimed(m) == IF row[m].status \in {"NONE", "PENDING"} THEN 1 ELSE 0

\* There is one right for each message; every reclaim and every acceptance that was answered with an
\* error makes another.
RightsCounted ==
  \A m \in Messages :
    /\ IsFiniteSet(Senders(m))
    /\ accepted[m] + Cardinality(Senders(m)) + Unclaimed(m) <= 1 + reclaims[m] + unanswered[m]

IInv ==
  /\ TypeOK /\ ClocksBehind /\ CountersBehind /\ AnswersTrue /\ RightsCounted
  /\ SentMeansAccepted /\ FailedMeansExhausted /\ RetryBounded

----------------------------------------------------------------------------
(* Helpers *)

\* Backoffs are bounded by the cap.
LEMMA BackoffBounded ==
  ASSUME NEW n
  PROVE  Backoff(n) \in Nat /\ Backoff(n) <= BackoffCap
  <1>1. CASE 2^n \in 0..BackoffCap
    BY <1>1, DeliveryConstants DEF Backoff
  <1>2. CASE 2^n \notin 0..BackoffCap
    BY <1>2, DeliveryConstants DEF Backoff
  <1> QED BY <1>1, <1>2

\* Where one worker changes.
Becomes(w, x) == worker' = [worker EXCEPT ![w] = x]

LEMMA OnlyOne ==
  ASSUME TypeOK, NEW w \in Workers, NEW x \in WorkerType, Becomes(w, x)
  PROVE  /\ worker' \in [Workers -> WorkerType]
         /\ worker'[w] = x
         /\ \A v \in Workers \ {w} : worker'[v] = worker[v]
  BY DEF Becomes, TypeOK

\* A worker that is done with a row has no row, and the clock it had or none.
LEMMA IdleType == Idle \in WorkerType /\ Idle.pc = "ready" /\ Idle.now = 0
  BY DEF Idle, WorkerType, Final

LEMMA NextItemType ==
  ASSUME NEW me \in WorkerType
  PROVE  /\ NextItem(me) \in WorkerType /\ NextItem(me).pc = "ready"
         /\ NextItem(me).now \in {0, me.now}
  <1>1. CASE me.batch = {}
    BY <1>1, IdleType DEF NextItem
  <1>2. CASE me.batch # {}
    <2>1. NextItem(me) = [Idle EXCEPT !.now = me.now, !.batch = me.batch]
      BY <1>2 DEF NextItem
    <2>2. me.now \in Nat /\ me.batch \in SUBSET Messages
      BY DEF WorkerType
    <2>3. [Idle EXCEPT !.now = me.now, !.batch = me.batch] \in WorkerType
      BY <2>2, IdleType DEF WorkerType
    <2> QED BY <2>1, <2>3 DEF Idle
  <1> QED BY <1>1, <1>2

----------------------------------------------------------------------------
(* What each step of a worker does *)

LEMMA StartBatchEffect ==
  ASSUME TypeOK, NEW w \in Workers, StartBatch(w)
  PROVE  /\ worker[w].pc = "ready"
         /\ \E x \in WorkerType : Becomes(w, x) /\ x.pc = "ready" /\ x.now = clock
         /\ UNCHANGED <<clock, row, inactive, accepted, reclaims, unanswered, crashes, switches, faults>>
  <1>1. PICK b \in Batches(clock) : worker' = [worker EXCEPT ![w].now = clock, ![w].batch = b]
    BY DEF StartBatch
  <1>2. b \in SUBSET Messages /\ clock \in Nat /\ worker[w] = Idle
    BY <1>1 DEF Batches, Due, TypeOK, StartBatch
  <1> DEFINE x == [worker[w] EXCEPT !.now = clock, !.batch = b]
  <1>3. x \in WorkerType
    BY <1>2, IdleType DEF WorkerType
  <1>4. Becomes(w, x)
    BY <1>1 DEF Becomes, TypeOK
  <1>5. x.pc = "ready" /\ x.now = clock
    BY <1>2 DEF Idle
  <1>6. worker[w].pc = "ready"
    BY <1>2 DEF Idle
  <1> QED BY <1>3, <1>4, <1>5, <1>6 DEF StartBatch

\* A claim takes the row of m, or m is dropped from the batch.
Claimed(w, m, x) ==
  /\ x.pc = "claimed" /\ x.id = m
  /\ row[m].status \in {"PENDING", "SENDING"}
  /\ reclaims' = IF row[m].status = "SENDING" THEN Count(reclaims, m) ELSE reclaims
  /\ \E r \in RowType :
       /\ row' = [row EXCEPT ![m] = r]
       /\ r.status = "SENDING" /\ r.attempts = row[m].attempts + 1 /\ r.nextAttemptAt = row[m].nextAttemptAt

LEMMA ClaimEffect ==
  ASSUME TypeOK, NEW w \in Workers, Claim(w)
  PROVE  /\ worker[w].pc = "ready"
         /\ \E m \in Messages, x \in WorkerType :
              /\ Becomes(w, x) /\ x.now \in {0, worker[w].now}
              /\ Claimed(w, m, x) \/ (x.pc = "ready" /\ UNCHANGED <<row, reclaims>>)
         /\ UNCHANGED <<clock, inactive, accepted, unanswered, crashes, switches, faults>>
  <1> DEFINE me == worker[w]
             rest(m) == [me EXCEPT !.batch = @ \ {m}]
             r(m) == [row[m] EXCEPT !.status = "SENDING", !.attempts = @ + 1, !.lockedUntil = me.now + Lease]
  <1>1. me \in WorkerType /\ me.now \in Nat /\ me.batch \in SUBSET Messages
    BY DEF TypeOK, WorkerType
  <1>2. PICK m \in me.batch :
          IF Claimable(row[m], me.now)
          THEN /\ row' = [row EXCEPT ![m].status = "SENDING", ![m].attempts = @ + 1,
                                     ![m].lockedUntil = me.now + Lease]
               /\ worker' = [worker EXCEPT ![w] = [rest(m) EXCEPT !.pc = "claimed", !.id = m]]
               /\ reclaims' = IF row[m].status = "SENDING" THEN Count(reclaims, m) ELSE reclaims
          ELSE /\ worker' = [worker EXCEPT ![w] = NextItem(rest(m))]
               /\ UNCHANGED <<row, reclaims>>
    BY DEF Claim
  <1>3. m \in Messages /\ row[m] \in RowType
    BY <1>1, <1>2 DEF TypeOK
  <1>4. rest(m) \in WorkerType /\ rest(m).now = me.now
    BY <1>1 DEF WorkerType
  <1>5. CASE Claimable(row[m], me.now)
    <2> DEFINE x == [rest(m) EXCEPT !.pc = "claimed", !.id = m]
    <2>1. x \in WorkerType /\ x.pc = "claimed" /\ x.id = m /\ x.now = me.now
      <3>1. x \in WorkerType
        BY <1>3, <1>4 DEF WorkerType
      <3>2. x.pc = "claimed" /\ x.id = m /\ x.now = me.now
        BY <1>4 DEF WorkerType
      <3> QED BY <3>1, <3>2
    <2>2. Becomes(w, x)
      BY <1>2, <1>5 DEF Becomes
    <2>3. row' = [row EXCEPT ![m] = r(m)]
      <3>1. row' = [row EXCEPT ![m].status = "SENDING", ![m].attempts = @ + 1, ![m].lockedUntil = me.now + Lease]
        BY <1>2, <1>5
      <3> QED BY <3>1, <1>3 DEF TypeOK
    <2>4. r(m) \in RowType
      <3>1. row[m].attempts + 1 \in Nat /\ me.now + Lease \in Nat
        BY <1>1, <1>3, DeliveryConstants DEF RowType
      <3> QED BY <1>3, <3>1 DEF RowType
    <2>5. r(m).status = "SENDING" /\ r(m).attempts = row[m].attempts + 1 /\ r(m).nextAttemptAt = row[m].nextAttemptAt
      BY <1>3 DEF RowType
    <2>6. row[m].status \in {"PENDING", "SENDING"}
      BY <1>5 DEF Claimable
    <2>7. Claimed(w, m, x)
      BY <1>2, <1>5, <2>1, <2>3, <2>4, <2>5, <2>6 DEF Claimed
    <2> QED BY <1>3, <2>1, <2>2, <2>7 DEF Claim
  <1>6. CASE ~Claimable(row[m], me.now)
    <2>1. Becomes(w, NextItem(rest(m))) /\ UNCHANGED <<row, reclaims>>
      BY <1>2, <1>6 DEF Becomes
    <2>2. NextItem(rest(m)) \in WorkerType /\ NextItem(rest(m)).pc = "ready" /\ NextItem(rest(m)).now \in {0, me.now}
      BY <1>4, NextItemType
    <2> QED BY <1>3, <2>1, <2>2 DEF Claim
  <1> QED BY <1>5, <1>6

LEMMA ReadRowEffect ==
  ASSUME TypeOK, NEW w \in Workers, ReadRow(w)
  PROVE  /\ worker[w].pc = "claimed"
         /\ \E x \in WorkerType :
              /\ Becomes(w, x) /\ x.pc = "read" /\ x.id = worker[w].id /\ x.now = worker[w].now
              /\ x.attempts = row[x.id].attempts
         /\ UNCHANGED <<clock, row, inactive, accepted, reclaims, unanswered, crashes, switches, faults>>
  <1> DEFINE me == worker[w]
             x == [me EXCEPT !.pc = "read", !.attempts = row[me.id].attempts, !.active = me.id \notin inactive]
  <1>1. me \in WorkerType /\ me.id \in Messages /\ row[me.id].attempts \in Nat
    BY DEF ReadRow, TypeOK, RowType
  <1>2. (me.id \notin inactive) \in BOOLEAN
    OBVIOUS
  <1>3. x \in WorkerType
    BY <1>1, <1>2 DEF WorkerType
  <1>4. Becomes(w, x)
    BY DEF ReadRow, Becomes, TypeOK
  <1>5. x.pc = "read" /\ x.id = me.id /\ x.now = me.now /\ x.attempts = row[x.id].attempts
    BY <1>1 DEF WorkerType
  <1> QED BY <1>3, <1>4, <1>5 DEF ReadRow

\* Skip, Send and SendFails give the worker a result.
LEMMA AnswerEffect ==
  ASSUME TypeOK, NEW w \in Workers, NEW result \in Final, Answered(w, result)
  PROVE  \E x \in WorkerType :
           /\ Becomes(w, x) /\ x.pc = "answered" /\ x.id = worker[w].id /\ x.now = worker[w].now
           /\ x.attempts = worker[w].attempts /\ x.result = result
  <1> DEFINE me == worker[w]
             x == [me EXCEPT !.pc = "answered", !.result = result]
  <1>1. me \in WorkerType
    BY DEF TypeOK
  <1>2. x \in WorkerType
    BY <1>1 DEF WorkerType
  <1>3. Becomes(w, x)
    BY DEF Answered, Becomes, TypeOK
  <1>4. x.pc = "answered" /\ x.id = me.id /\ x.now = me.now /\ x.attempts = me.attempts /\ x.result = result
    BY <1>1 DEF WorkerType
  <1> QED BY <1>2, <1>3, <1>4

LEMMA RecordEffect ==
  ASSUME TypeOK, NEW w \in Workers, Record(w)
  PROVE  LET me == worker[w] IN
         /\ me \in WorkerType /\ me.pc = "answered" /\ me.id \in Messages
         /\ \E x \in WorkerType : Becomes(w, x) /\ x.pc = "ready" /\ x.now \in {0, me.now}
         /\ \E r \in RowType :
              /\ row' = [row EXCEPT ![me.id] = r] /\ r.attempts = row[me.id].attempts
              /\ r.status = IF Retry(me) THEN "PENDING" ELSE me.result
              /\ r.nextAttemptAt <= me.now + BackoffCap
         /\ UNCHANGED <<clock, inactive, accepted, reclaims, unanswered, crashes, switches, faults>>
  <1> DEFINE me == worker[w]
             status == IF Retry(me) THEN "PENDING" ELSE me.result
             next == IF Retry(me) THEN me.now + Backoff(me.attempts) ELSE 0
             r == [row[me.id] EXCEPT !.status = status, !.lockedUntil = 0, !.nextAttemptAt = next]
  <1>1. me \in WorkerType /\ me.pc = "answered" /\ me.id \in Messages /\ row[me.id] \in RowType
    BY DEF Record, TypeOK
  <1>2. Becomes(w, NextItem(me))
    BY DEF Record, Becomes
  <1>3. NextItem(me) \in WorkerType /\ NextItem(me).pc = "ready" /\ NextItem(me).now \in {0, me.now}
    BY <1>1, NextItemType
  <1>4. row' = [row EXCEPT ![me.id] = r]
    BY DEF Record, TypeOK
  <1>5. status \in {"PENDING", "SENDING"} \cup Final /\ me.now \in Nat
    BY <1>1 DEF WorkerType
  <1>6. next \in Nat /\ next <= me.now + BackoffCap
    BY <1>5, BackoffBounded, DeliveryConstants
  <1>7. r \in RowType
    BY <1>1, <1>5, <1>6 DEF RowType
  <1>8. r.attempts = row[me.id].attempts /\ r.status = status /\ r.nextAttemptAt = next
    BY <1>1 DEF RowType
  <1> HIDE DEF r, next, status
  <1>9. /\ \E x \in WorkerType : Becomes(w, x) /\ x.pc = "ready" /\ x.now \in {0, me.now}
        /\ \E q \in RowType :
             /\ row' = [row EXCEPT ![me.id] = q] /\ q.attempts = row[me.id].attempts
             /\ q.status = status
             /\ q.nextAttemptAt <= me.now + BackoffCap
    BY <1>2, <1>3, <1>4, <1>6, <1>7, <1>8
  <1> QED BY <1>1, <1>9 DEF Record, status

LEMMA CrashEffect ==
  ASSUME TypeOK, NEW w \in Workers, Crash(w)
  PROVE  /\ \E x \in WorkerType : Becomes(w, x) /\ x.pc = "ready" /\ x.now = 0
         /\ UNCHANGED <<clock, row, inactive, accepted, reclaims, unanswered, switches>>
  BY IdleType DEF Crash, Becomes

----------------------------------------------------------------------------
(* Every conjunct is preserved by every step *)

LEMMA EnqueueEffect ==
  ASSUME TypeOK, NEW m \in Messages, Enqueue(m)
  PROVE  /\ row[m].status = "NONE"
         /\ \E r \in RowType :
              /\ row' = [row EXCEPT ![m] = r] /\ r.status = "PENDING"
              /\ r.attempts = row[m].attempts /\ r.nextAttemptAt = clock
         /\ UNCHANGED <<clock, inactive, accepted, worker, reclaims, unanswered, crashes, switches, faults>>
  <1> DEFINE r == [row[m] EXCEPT !.status = "PENDING", !.createdAt = clock, !.nextAttemptAt = clock]
  <1>1. row[m] \in RowType /\ clock \in Nat
    BY DEF TypeOK
  <1>2. r \in RowType
    BY <1>1 DEF RowType
  <1>3. row' = [row EXCEPT ![m] = r]
    BY DEF Enqueue, TypeOK
  <1>4. r.status = "PENDING" /\ r.attempts = row[m].attempts /\ r.nextAttemptAt = clock
    BY <1>1 DEF RowType
  <1> QED BY <1>2, <1>3, <1>4 DEF Enqueue

LEMMA AnswersAreAnswers ==
  ASSUME TypeOK, NEW w \in Workers, Skip(w) \/ Send(w) \/ SendFails(w)
  PROVE  /\ worker[w].pc = "read" /\ worker[w].id \in Messages
         /\ \/ Answered(w, "SKIPPED_NOT_CONNECTED") /\ UNCHANGED <<accepted, unanswered>>
            \/ Answered(w, "SENT") /\ accepted' = Count(accepted, worker[w].id) /\ UNCHANGED unanswered
            \/ Answered(w, "FAILED") /\ UNCHANGED <<accepted, unanswered>>
            \/ /\ Answered(w, "FAILED") /\ accepted' = Count(accepted, worker[w].id)
               /\ unanswered' = Count(unanswered, worker[w].id)
         /\ UNCHANGED <<clock, row, inactive, reclaims, crashes, switches>>
         /\ faults' \in Nat
  BY DEF Skip, Send, SendFails, Fault, Calling, TypeOK

\* The steps of Next, by what they do.
Answering(w) == Skip(w) \/ Send(w) \/ SendFails(w)
LEMMA Steps ==
  ASSUME [Next]_vars
  PROVE  \/ UNCHANGED vars
         \/ Tick
         \/ \E m \in Messages : Enqueue(m) \/ SwitchRecipient(m)
         \/ \E w \in Workers : StartBatch(w) \/ Claim(w) \/ ReadRow(w) \/ Answering(w) \/ Record(w) \/ Crash(w)
  BY DEF Next, Dispatch, Answering

LEMMA TypeStep ==
  ASSUME TypeOK, [Next]_vars
  PROVE  TypeOK'
  <1>1. CASE UNCHANGED vars
    BY <1>1 DEF TypeOK, vars
  <1>2. CASE Tick
    BY <1>2 DEF Tick, TypeOK
  <1>3. ASSUME NEW m \in Messages, Enqueue(m) PROVE TypeOK'
    BY <1>3, EnqueueEffect DEF TypeOK
  <1>4. ASSUME NEW m \in Messages, SwitchRecipient(m) PROVE TypeOK'
    BY <1>4 DEF SwitchRecipient, TypeOK
  <1>5. ASSUME NEW w \in Workers, StartBatch(w) PROVE TypeOK'
    <2>1. PICK x \in WorkerType : Becomes(w, x) /\ x.pc = "ready"
      BY <1>5, StartBatchEffect
    <2> QED BY <1>5, <2>1, OnlyOne, StartBatchEffect DEF TypeOK
  <1>6. ASSUME NEW w \in Workers, Claim(w) PROVE TypeOK'
    <2>1. PICK m \in Messages, x \in WorkerType :
            /\ Becomes(w, x)
            /\ Claimed(w, m, x) \/ (x.pc = "ready" /\ UNCHANGED <<row, reclaims>>)
      BY <1>6, ClaimEffect
    <2>2. UNCHANGED <<clock, inactive, accepted, unanswered, crashes, switches, faults>>
      BY <1>6, ClaimEffect
    <2>3. row' \in [Messages -> RowType] /\ reclaims' \in [Messages -> Nat]
      BY <2>1 DEF TypeOK, Claimed, Count
    <2>4. x.pc # "ready" => x.id \in Messages
      BY <2>1 DEF Claimed
    <2> QED BY <2>1, <2>2, <2>3, <2>4, OnlyOne DEF TypeOK
  <1>7. ASSUME NEW w \in Workers, ReadRow(w) PROVE TypeOK'
    <2>1. PICK x \in WorkerType : Becomes(w, x) /\ x.id = worker[w].id
      BY <1>7, ReadRowEffect
    <2>2. worker[w].id \in Messages
      BY <1>7, ReadRowEffect DEF TypeOK
    <2> QED BY <1>7, <2>1, <2>2, OnlyOne, ReadRowEffect DEF TypeOK
  <1>8. ASSUME NEW w \in Workers, Answering(w) PROVE TypeOK'
    <2>1. worker[w].id \in Messages /\ (\E result \in Final : Answered(w, result))
      BY <1>8, AnswersAreAnswers DEF Answering, Final
    <2>2. PICK x \in WorkerType : Becomes(w, x) /\ x.id = worker[w].id
      BY <2>1, AnswerEffect
    <2>3. accepted' \in [Messages -> Nat] /\ unanswered' \in [Messages -> Nat] /\ faults' \in Nat
      BY <1>8, AnswersAreAnswers DEF Answering, Count, TypeOK
    <2>4. UNCHANGED <<clock, row, inactive, reclaims, crashes, switches>>
      BY <1>8, AnswersAreAnswers DEF Answering
    <2> QED BY <2>1, <2>2, <2>3, <2>4, OnlyOne DEF TypeOK
  <1>9. ASSUME NEW w \in Workers, Record(w) PROVE TypeOK'
    <2>1. PICK x \in WorkerType : Becomes(w, x) /\ x.pc = "ready"
      BY <1>9, RecordEffect
    <2>2. row' \in [Messages -> RowType]
      BY <1>9, RecordEffect DEF TypeOK
    <2> QED BY <1>9, <2>1, <2>2, OnlyOne, RecordEffect DEF TypeOK
  <1>10. ASSUME NEW w \in Workers, Crash(w) PROVE TypeOK'
    <2>1. PICK x \in WorkerType : Becomes(w, x) /\ x.pc = "ready"
      BY <1>10, CrashEffect
    <2>2. crashes' \in [Messages -> Nat] /\ faults' \in Nat
      BY <1>10 DEF Crash, Fault, Count, TypeOK
    <2> QED BY <1>10, <2>1, <2>2, OnlyOne, CrashEffect DEF TypeOK
  <1> QED
    BY <1>1, <1>2, <1>3, <1>4, <1>5, <1>6, <1>7, <1>8, <1>9, <1>10, Steps

\* A table of attempts never counts down, and the provider never takes anything back.
LEMMA Monotone ==
  ASSUME TypeOK, [Next]_vars, NEW m \in Messages
  PROVE  row'[m].attempts >= row[m].attempts /\ accepted'[m] >= accepted[m] /\ clock' >= clock
  <1>0. row[m] \in RowType /\ row[m].attempts \in Nat /\ accepted[m] \in Nat /\ clock \in Nat
    BY DEF TypeOK, RowType
  <1>1. CASE UNCHANGED vars
    BY <1>0, <1>1 DEF vars
  <1>2. CASE Tick
    BY <1>0, <1>2 DEF Tick
  <1>3. ASSUME NEW n \in Messages, Enqueue(n) \/ SwitchRecipient(n)
        PROVE  row'[m].attempts >= row[m].attempts /\ accepted'[m] >= accepted[m] /\ clock' >= clock
    BY <1>0, <1>3, EnqueueEffect DEF SwitchRecipient, TypeOK
  <1>4. ASSUME NEW w \in Workers, StartBatch(w) \/ ReadRow(w) \/ Crash(w)
        PROVE  row'[m].attempts >= row[m].attempts /\ accepted'[m] >= accepted[m] /\ clock' >= clock
    BY <1>0, <1>4 DEF StartBatch, ReadRow, Crash
  <1>5. ASSUME NEW w \in Workers, Claim(w)
        PROVE  row'[m].attempts >= row[m].attempts /\ accepted'[m] >= accepted[m] /\ clock' >= clock
    BY <1>0, <1>5, ClaimEffect DEF Claimed, TypeOK
  <1>6. ASSUME NEW w \in Workers, Answering(w)
        PROVE  row'[m].attempts >= row[m].attempts /\ accepted'[m] >= accepted[m] /\ clock' >= clock
    <2>1. row' = row /\ clock' = clock /\ (accepted' = accepted \/ accepted' = Count(accepted, worker[w].id))
      BY <1>6, AnswersAreAnswers DEF Answering
    <2>2. accepted'[m] \in {accepted[m], accepted[m] + 1}
      BY <2>1 DEF Count, TypeOK
    <2> QED BY <1>0, <2>1, <2>2
  <1>7. ASSUME NEW w \in Workers, Record(w)
        PROVE  row'[m].attempts >= row[m].attempts /\ accepted'[m] >= accepted[m] /\ clock' >= clock
    BY <1>0, <1>7, RecordEffect DEF TypeOK
  <1> QED BY <1>1, <1>2, <1>3, <1>4, <1>5, <1>6, <1>7, Steps

\* What a worker remembers stays true of it.
Remembers(w) ==
  /\ worker[w].now <= clock
  /\ worker[w].pc \in {"read", "answered"} => worker[w].attempts <= row[worker[w].id].attempts
  /\ worker[w].pc = "answered" /\ worker[w].result = "SENT" => accepted[worker[w].id] > 0

LEMMA MemoryStep ==
  ASSUME TypeOK, ClocksBehind, CountersBehind, AnswersTrue, [Next]_vars
  PROVE  ClocksBehind' /\ CountersBehind' /\ AnswersTrue'
  <1> SUFFICES ASSUME NEW v \in Workers PROVE Remembers(v)'
    BY DEF ClocksBehind, CountersBehind, AnswersTrue, Remembers
  <1>0. /\ Remembers(v) /\ worker[v] \in WorkerType /\ worker[v].now \in Nat /\ worker[v].attempts \in Nat
        /\ clock \in Nat /\ clock' \in Nat /\ clock' >= clock
        /\ worker[v].pc # "ready" => worker[v].id \in Messages
    <2>1. TypeOK'
      BY TypeStep
    <2>2. clock' >= clock
      <3>1. CASE Tick
        BY <3>1 DEF Tick, TypeOK
      <3>2. CASE UNCHANGED vars
        BY <3>2 DEF vars, TypeOK
      <3>3. ASSUME NEW w \in Workers, StartBatch(w) \/ Claim(w) \/ ReadRow(w) \/ Answering(w) \/ Record(w) \/ Crash(w)
            PROVE  clock' = clock
        BY <3>3 DEF StartBatch, Claim, ReadRow, Answering, Skip, Send, SendFails, Record, Crash
      <3>4. ASSUME NEW m \in Messages, Enqueue(m) \/ SwitchRecipient(m)
            PROVE  clock' = clock
        BY <3>4 DEF Enqueue, SwitchRecipient
      <3>5. clock >= clock
        BY DEF TypeOK
      <3> QED BY <3>1, <3>2, <3>3, <3>4, <3>5, Steps
    <2> QED BY <2>1, <2>2 DEF ClocksBehind, CountersBehind, AnswersTrue, Remembers, TypeOK, WorkerType
  <1>1. \A m \in Messages :
          /\ row[m].attempts \in Nat /\ row'[m].attempts \in Nat /\ row'[m].attempts >= row[m].attempts
          /\ accepted[m] \in Nat /\ accepted'[m] \in Nat /\ accepted'[m] >= accepted[m]
    <2>1. TypeOK'
      BY TypeStep
    <2> QED BY <2>1, Monotone DEF TypeOK, RowType
  <1>2. CASE worker'[v] = worker[v]
    <2>1. (worker[v].now <= clock)'
      BY <1>0, <1>2 DEF Remembers
    <2>2. CASE worker[v].pc = "ready"
      BY <1>2, <2>1, <2>2 DEF Remembers
    <2>3. CASE worker[v].pc # "ready"
      BY <1>0, <1>1, <1>2, <2>1, <2>3 DEF Remembers
    <2> QED BY <2>2, <2>3
  <1>3. ASSUME NEW x \in WorkerType, worker'[v] = x, x.now <= clock, x.pc \in {"ready", "claimed"}
        PROVE  Remembers(v)'
    BY <1>0, <1>3 DEF Remembers, WorkerType
  <1>4. ASSUME NEW w \in Workers, w # v, NEW x \in WorkerType, Becomes(w, x) PROVE worker'[v] = worker[v]
    BY <1>4, OnlyOne
  <1>5. CASE UNCHANGED vars \/ Tick \/ \E m \in Messages : Enqueue(m) \/ SwitchRecipient(m)
    BY <1>2, <1>5 DEF vars, Tick, Enqueue, SwitchRecipient
  <1>6. ASSUME NEW w \in Workers, StartBatch(w) PROVE Remembers(v)'
    <2>1. PICK x \in WorkerType : Becomes(w, x) /\ x.pc = "ready" /\ x.now = clock
      BY <1>6, StartBatchEffect
    <2> QED BY <1>0, <1>2, <1>3, <1>4, <2>1, OnlyOne
  <1>7. ASSUME NEW w \in Workers, Claim(w) PROVE Remembers(v)'
    <2>1. PICK x \in WorkerType : Becomes(w, x) /\ x.pc \in {"ready", "claimed"} /\ x.now \in {0, worker[w].now}
      BY <1>7, ClaimEffect DEF Claimed
    <2>2. x.now <= clock
      BY <1>0, <2>1 DEF ClocksBehind
    <2> QED BY <1>2, <1>3, <1>4, <2>1, <2>2, OnlyOne
  <1>8. ASSUME NEW w \in Workers, ReadRow(w) PROVE Remembers(v)'
    <2>1. PICK x \in WorkerType :
            /\ Becomes(w, x) /\ x.pc = "read" /\ x.id = worker[w].id /\ x.now = worker[w].now
            /\ x.attempts = row[x.id].attempts
      BY <1>8, ReadRowEffect
    <2>2. row' = row /\ clock' = clock /\ worker[w].pc = "claimed"
      BY <1>8, ReadRowEffect
    <2>3. CASE v = w
      <3>1. worker'[v] = x
        BY <2>1, <2>3, OnlyOne
      <3>2. row'[x.id].attempts \in Nat
        BY <1>0, <1>1, <2>1, <2>2, <2>3
      <3> QED BY <1>0, <2>1, <2>2, <2>3, <3>1, <3>2 DEF Remembers
    <2> QED BY <1>2, <1>4, <2>1, <2>3
  <1>9. ASSUME NEW w \in Workers, Answering(w) PROVE Remembers(v)'
    <2>1. /\ worker[w].pc = "read" /\ worker[w].id \in Messages /\ row' = row /\ clock' = clock
          /\ \E result \in Final : Answered(w, result) /\ (result = "SENT" => accepted' = Count(accepted, worker[w].id))
      BY <1>9, AnswersAreAnswers DEF Answering, Final
    <2>2. PICK result \in Final : Answered(w, result) /\ (result = "SENT" => accepted' = Count(accepted, worker[w].id))
      BY <2>1
    <2>3. PICK x \in WorkerType :
            /\ Becomes(w, x) /\ x.pc = "answered" /\ x.id = worker[w].id /\ x.now = worker[w].now
            /\ x.attempts = worker[w].attempts /\ x.result = result
      BY <2>2, AnswerEffect
    <2>4. CASE v = w
      <3>1. worker'[v] = x
        BY <2>3, <2>4, OnlyOne
      <3>2. result = "SENT" => accepted'[x.id] = accepted[x.id] + 1
        BY <2>1, <2>2, <2>3 DEF Count, TypeOK
      <3>3. result = "SENT" => accepted'[x.id] > 0
        BY <1>1, <2>1, <2>3, <3>2
      <3> QED BY <1>0, <2>1, <2>3, <2>4, <3>1, <3>3 DEF Remembers
    <2> QED BY <1>2, <1>4, <2>3, <2>4
  <1>10. ASSUME NEW w \in Workers, Record(w) PROVE Remembers(v)'
    <2>1. PICK x \in WorkerType : Becomes(w, x) /\ x.pc = "ready" /\ x.now \in {0, worker[w].now}
      BY <1>10, RecordEffect
    <2>2. x.now <= clock
      BY <1>0, <2>1 DEF ClocksBehind
    <2> QED BY <1>2, <1>3, <1>4, <2>1, <2>2, OnlyOne
  <1>11. ASSUME NEW w \in Workers, Crash(w) PROVE Remembers(v)'
    <2>1. PICK x \in WorkerType : Becomes(w, x) /\ x.pc = "ready" /\ x.now = 0
      BY <1>11, CrashEffect
    <2> QED BY <1>0, <1>2, <1>3, <1>4, <2>1, OnlyOne
  <1> QED BY <1>5, <1>6, <1>7, <1>8, <1>9, <1>10, <1>11, Steps

\* What the table says is true of the provider and of the clock.
RowTrue(m) ==
  /\ row[m].status = "SENT" => accepted[m] > 0
  /\ row[m].status = "FAILED" => row[m].attempts >= MaxAttempts
  /\ row[m].nextAttemptAt <= clock + BackoffCap

LEMMA TableStep ==
  ASSUME TypeOK, ClocksBehind, CountersBehind, AnswersTrue, SentMeansAccepted, FailedMeansExhausted, RetryBounded,
         [Next]_vars
  PROVE  SentMeansAccepted' /\ FailedMeansExhausted' /\ RetryBounded'
  <1> SUFFICES ASSUME NEW m \in Messages PROVE RowTrue(m)'
    BY DEF SentMeansAccepted, FailedMeansExhausted, RetryBounded, RowTrue
  <1>0. /\ RowTrue(m) /\ row[m] \in RowType /\ row[m].attempts \in Nat /\ row[m].nextAttemptAt \in Nat
        /\ accepted[m] \in Nat /\ clock \in Nat /\ row'[m].attempts \in Nat /\ accepted'[m] \in Nat /\ clock' \in Nat
        /\ MaxAttempts \in Nat /\ BackoffCap \in Nat
    BY TypeStep, DeliveryConstants DEF SentMeansAccepted, FailedMeansExhausted, RetryBounded, RowTrue, TypeOK, RowType
  <1>1. row'[m].attempts >= row[m].attempts /\ accepted'[m] >= accepted[m] /\ clock' >= clock
    BY Monotone
  <1>2. CASE row'[m] = row[m]
    BY <1>0, <1>1, <1>2 DEF RowTrue
  <1>3. CASE UNCHANGED vars \/ Tick \/ \E n \in Messages : SwitchRecipient(n)
    BY <1>2, <1>3 DEF vars, Tick, SwitchRecipient
  <1>4. ASSUME NEW n \in Messages, Enqueue(n) PROVE RowTrue(m)'
    <2>1. PICK r \in RowType : row' = [row EXCEPT ![n] = r] /\ r.status = "PENDING" /\ r.nextAttemptAt = clock
      BY <1>4, EnqueueEffect
    <2>2. CASE n = m
      <3>1. row'[m] = r
        BY <2>1, <2>2 DEF TypeOK
      <3> QED BY <1>0, <1>1, <2>1, <3>1 DEF RowTrue
    <2>3. CASE n # m
      BY <1>2, <2>1, <2>3 DEF TypeOK
    <2> QED BY <2>2, <2>3
  <1>5. ASSUME NEW w \in Workers, StartBatch(w) \/ ReadRow(w) \/ Answering(w) \/ Crash(w) PROVE RowTrue(m)'
    BY <1>2, <1>5 DEF StartBatch, ReadRow, Answering, Skip, Send, SendFails, Crash
  <1>6. ASSUME NEW w \in Workers, Claim(w) PROVE RowTrue(m)'
    <2>1. PICK n \in Messages, x \in WorkerType : Claimed(w, n, x) \/ row' = row
      BY <1>6, ClaimEffect
    <2>2. CASE row' = row
      BY <1>2, <2>2
    <2>3. CASE Claimed(w, n, x)
      <3>1. PICK r \in RowType :
              /\ row' = [row EXCEPT ![n] = r]
              /\ r.status = "SENDING" /\ r.nextAttemptAt = row[n].nextAttemptAt
        BY <2>3 DEF Claimed
      <3>2. CASE n = m
        <4>1. row'[m] = r
          BY <3>1, <3>2 DEF TypeOK
        <4> QED BY <1>0, <1>1, <3>1, <3>2, <4>1 DEF RowTrue
      <3>3. CASE n # m
        BY <1>2, <3>1, <3>3 DEF TypeOK
      <3> QED BY <3>2, <3>3
    <2> QED BY <2>1, <2>2, <2>3
  <1>7. ASSUME NEW w \in Workers, Record(w) PROVE RowTrue(m)'
    <2> DEFINE me == worker[w]
    <2>1. /\ me \in WorkerType /\ me.pc = "answered" /\ me.id \in Messages
          /\ me.now \in Nat /\ me.now <= clock /\ me.attempts \in Nat /\ me.attempts <= row[me.id].attempts
          /\ me.result = "SENT" => accepted[me.id] > 0
      BY <1>7, RecordEffect DEF ClocksBehind, CountersBehind, AnswersTrue, WorkerType
    <2>2. PICK r \in RowType :
            /\ row' = [row EXCEPT ![me.id] = r] /\ r.attempts = row[me.id].attempts
            /\ r.status = IF Retry(me) THEN "PENDING" ELSE me.result
            /\ r.nextAttemptAt <= me.now + BackoffCap
      BY <1>7, RecordEffect
    <2>3. CASE me.id = m
      <3>1. row'[m] = r
        BY <2>2, <2>3 DEF TypeOK
      <3>2. r.status = "SENT" => me.result = "SENT"
        BY <2>2
      <3>3. r.status = "FAILED" => me.attempts >= MaxAttempts
        BY <1>0, <2>1, <2>2 DEF Retry
      <3>4. r.nextAttemptAt <= clock' + BackoffCap
        <4>1. r.nextAttemptAt \in Nat
          BY DEF RowType
        <4> QED BY <1>0, <1>1, <2>1, <2>2, <4>1
      <3>5. r.status = "SENT" => accepted'[m] > 0
        BY <1>0, <1>1, <2>1, <2>3, <3>2
      <3>6. r.status = "FAILED" => r.attempts >= MaxAttempts
        BY <1>0, <2>1, <2>2, <2>3, <3>3
      <3> QED BY <3>1, <3>4, <3>5, <3>6 DEF RowTrue
    <2>4. CASE me.id # m
      BY <1>2, <2>2, <2>4 DEF TypeOK
    <2> QED BY <2>3, <2>4
  <1> QED BY <1>3, <1>4, <1>5, <1>6, <1>7, Steps

----------------------------------------------------------------------------
(* The right to send *)

\* Where one worker changes, it alone gains or loses the right.
LEMMA SendersChange ==
  ASSUME TypeOK, NEW w \in Workers, NEW x \in WorkerType, Becomes(w, x), NEW m \in Messages, IsFiniteSet(Senders(m))
  PROVE  /\ Senders(m)' = IF MaySend(x, m) THEN Senders(m) \cup {w} ELSE Senders(m) \ {w}
         /\ IsFiniteSet(Senders(m)') /\ Cardinality(Senders(m)) \in Nat /\ Cardinality(Senders(m)') \in Nat
         /\ MaySend(x, m) => Cardinality(Senders(m)') <= Cardinality(Senders(m)) + 1
         /\ MaySend(x, m) /\ MaySend(worker[w], m) => Cardinality(Senders(m)') = Cardinality(Senders(m))
         /\ ~MaySend(x, m) => Cardinality(Senders(m)') <= Cardinality(Senders(m))
         /\ ~MaySend(x, m) /\ MaySend(worker[w], m) => Cardinality(Senders(m)') = Cardinality(Senders(m)) - 1
  <1>1. \A v \in Workers : worker'[v] = IF v = w THEN x ELSE worker[v]
    BY OnlyOne
  <1>2. Senders(m)' = {v \in Workers : MaySend(worker'[v], m)}
    BY DEF Senders, MaySend
  <1>3. Senders(m)' = IF MaySend(x, m) THEN Senders(m) \cup {w} ELSE Senders(m) \ {w}
    BY <1>1, <1>2 DEF Senders
  <1>4. MaySend(worker[w], m) <=> w \in Senders(m)
    BY DEF Senders
  <1> HIDE DEF Senders, MaySend
  <1>5. Cardinality(Senders(m)) \in Nat
    BY FS_CardinalityType
  <1>6. /\ IsFiniteSet(Senders(m) \cup {w}) /\ IsFiniteSet(Senders(m) \ {w})
        /\ Cardinality(Senders(m) \cup {w}) = IF w \in Senders(m) THEN Cardinality(Senders(m)) ELSE Cardinality(Senders(m)) + 1
        /\ Cardinality(Senders(m) \ {w}) = IF w \in Senders(m) THEN Cardinality(Senders(m)) - 1 ELSE Cardinality(Senders(m))
    BY FS_AddElement, FS_RemoveElement
  <1>7. Cardinality(Senders(m) \cup {w}) \in Nat /\ Cardinality(Senders(m) \ {w}) \in Nat
    BY <1>6, FS_CardinalityType
  <1> QED BY <1>3, <1>4, <1>5, <1>6, <1>7

Rights(m) ==
  /\ IsFiniteSet(Senders(m))
  /\ accepted[m] + Cardinality(Senders(m)) + Unclaimed(m) <= 1 + reclaims[m] + unanswered[m]

LEMMA RightsStep ==
  ASSUME TypeOK, RightsCounted, [Next]_vars
  PROVE  RightsCounted'
  <1> SUFFICES ASSUME NEW m \in Messages PROVE Rights(m)'
    BY DEF RightsCounted, Rights
  <1>0. /\ Rights(m) /\ IsFiniteSet(Senders(m)) /\ Cardinality(Senders(m)) \in Nat /\ Unclaimed(m) \in {0, 1}
        /\ accepted[m] \in Nat /\ reclaims[m] \in Nat /\ unanswered[m] \in Nat
    BY FS_CardinalityType DEF RightsCounted, Rights, TypeOK, Unclaimed
  <1>1. CASE worker' = worker /\ Unclaimed(m)' = Unclaimed(m) /\ UNCHANGED <<accepted, reclaims, unanswered>>
    <2>1. Senders(m)' = Senders(m)
      BY <1>1 DEF Senders, MaySend
    <2> QED BY <1>0, <1>1, <2>1 DEF Rights
  <1>2. CASE UNCHANGED vars \/ Tick \/ \E n \in Messages : SwitchRecipient(n)
    BY <1>1, <1>2 DEF vars, Tick, SwitchRecipient, Unclaimed
  <1>3. ASSUME NEW n \in Messages, Enqueue(n) PROVE Rights(m)'
    <2>1. Unclaimed(m)' = Unclaimed(m)
      BY <1>3, EnqueueEffect DEF Unclaimed, TypeOK
    <2> QED BY <1>1, <1>3, <2>1, EnqueueEffect
  <1>4. ASSUME NEW w \in Workers, NEW x \in WorkerType, Becomes(w, x), x.pc = "ready",
               Unclaimed(m)' = Unclaimed(m), UNCHANGED <<accepted, reclaims, unanswered>>
        PROVE  Rights(m)'
    <2>1. ~MaySend(x, m)
      BY <1>4 DEF MaySend
    <2>2. IsFiniteSet(Senders(m)') /\ Cardinality(Senders(m)') \in Nat /\ Cardinality(Senders(m)') <= Cardinality(Senders(m))
      BY <1>0, <1>4, <2>1, SendersChange
    <2> QED BY <1>0, <1>4, <2>2 DEF Rights
  <1>5. ASSUME NEW w \in Workers, StartBatch(w) \/ Crash(w) PROVE Rights(m)'
    <2>1. PICK x \in WorkerType : Becomes(w, x) /\ x.pc = "ready"
      BY <1>5, StartBatchEffect, CrashEffect
    <2>2. UNCHANGED <<row, accepted, reclaims, unanswered>>
      BY <1>5 DEF StartBatch, Crash
    <2>3. Unclaimed(m)' = Unclaimed(m)
      BY <2>2 DEF Unclaimed
    <2> QED BY <1>4, <2>1, <2>2, <2>3
  <1>6. ASSUME NEW w \in Workers, Claim(w) PROVE Rights(m)'
    <2>1. PICK n \in Messages, x \in WorkerType :
            Becomes(w, x) /\ (Claimed(w, n, x) \/ (x.pc = "ready" /\ UNCHANGED <<row, reclaims>>))
      BY <1>6, ClaimEffect
    <2>2. UNCHANGED <<accepted, unanswered>>
      BY <1>6, ClaimEffect
    <2>3. CASE x.pc = "ready" /\ UNCHANGED <<row, reclaims>>
      <3>1. Unclaimed(m)' = Unclaimed(m)
        BY <2>3 DEF Unclaimed
      <3> QED BY <1>4, <2>1, <2>2, <2>3, <3>1
    <2>4. CASE Claimed(w, n, x) /\ n # m
      <3>1. ~MaySend(x, m)
        BY <2>4 DEF Claimed, MaySend
      <3>2. IsFiniteSet(Senders(m)') /\ Cardinality(Senders(m)') \in Nat /\ Cardinality(Senders(m)') <= Cardinality(Senders(m))
        BY <1>0, <2>1, <3>1, SendersChange
      <3>3. Unclaimed(m)' = Unclaimed(m) /\ reclaims'[m] = reclaims[m]
        BY <2>4 DEF Claimed, Unclaimed, Count, TypeOK
      <3> QED BY <1>0, <2>2, <3>2, <3>3 DEF Rights
    <2>5. CASE Claimed(w, n, x) /\ n = m
      <3>1. MaySend(x, m)
        BY <2>5 DEF Claimed, MaySend
      <3>2. IsFiniteSet(Senders(m)') /\ Cardinality(Senders(m)') \in Nat /\ Cardinality(Senders(m)') <= Cardinality(Senders(m)) + 1
        BY <1>0, <2>1, <3>1, SendersChange
      <3>3. row'[m].status = "SENDING"
        BY <2>5 DEF Claimed, TypeOK
      <3>4. Unclaimed(m)' = 0
        BY <3>3 DEF Unclaimed
      <3>5. CASE row[m].status = "PENDING"
        <4>1. Unclaimed(m) = 1 /\ reclaims'[m] = reclaims[m]
          BY <2>5, <3>5 DEF Claimed, Unclaimed
        <4> QED BY <1>0, <2>2, <3>2, <3>4, <4>1 DEF Rights
      <3>6. CASE row[m].status = "SENDING"
        <4>1. Unclaimed(m) = 0 /\ reclaims'[m] = reclaims[m] + 1
          BY <2>5, <3>6 DEF Claimed, Unclaimed, Count, TypeOK
        <4> QED BY <1>0, <2>2, <3>2, <3>4, <4>1 DEF Rights
      <3> QED BY <2>5, <3>5, <3>6 DEF Claimed
    <2> QED BY <2>1, <2>3, <2>4, <2>5
  <1>7. ASSUME NEW w \in Workers, ReadRow(w) PROVE Rights(m)'
    <2>1. PICK x \in WorkerType : Becomes(w, x) /\ x.pc = "read" /\ x.id = worker[w].id
      BY <1>7, ReadRowEffect
    <2>2. worker[w].pc = "claimed" /\ UNCHANGED <<row, accepted, reclaims, unanswered>>
      BY <1>7, ReadRowEffect
    <2>3. MaySend(x, m) <=> MaySend(worker[w], m)
      BY <2>1, <2>2 DEF MaySend
    <2>4. IsFiniteSet(Senders(m)') /\ Cardinality(Senders(m)') \in Nat /\ Cardinality(Senders(m)') <= Cardinality(Senders(m))
      BY <1>0, <2>1, <2>3, SendersChange
    <2>5. Unclaimed(m)' = Unclaimed(m)
      BY <2>2 DEF Unclaimed
    <2> QED BY <1>0, <2>2, <2>4, <2>5 DEF Rights
  <1>8. ASSUME NEW w \in Workers, Answering(w) PROVE Rights(m)'
    <2>1. worker[w].pc = "read" /\ worker[w].id \in Messages /\ UNCHANGED <<row, reclaims>>
      BY <1>8, AnswersAreAnswers DEF Answering
    <2>2. Unclaimed(m)' = Unclaimed(m) /\ (MaySend(worker[w], m) <=> worker[w].id = m)
      BY <2>1 DEF Unclaimed, MaySend
    <2>3. ASSUME NEW result \in Final, Answered(w, result)
          PROVE  /\ IsFiniteSet(Senders(m)') /\ Cardinality(Senders(m)') \in Nat
                 /\ Cardinality(Senders(m)') <= Cardinality(Senders(m))
                 /\ result # "FAILED" /\ worker[w].id = m => Cardinality(Senders(m)') = Cardinality(Senders(m)) - 1
      <3>1. PICK x \in WorkerType : Becomes(w, x) /\ x.pc = "answered" /\ x.id = worker[w].id /\ x.result = result
        BY <2>3, AnswerEffect
      <3>2. MaySend(x, m) <=> worker[w].id = m /\ result = "FAILED"
        BY <3>1 DEF MaySend
      <3> QED BY <1>0, <2>2, <3>1, <3>2, SendersChange
    <2>4. CASE Answered(w, "SENT") /\ accepted' = Count(accepted, worker[w].id) /\ UNCHANGED unanswered
      <3>1. accepted'[m] = IF worker[w].id = m THEN accepted[m] + 1 ELSE accepted[m]
        BY <2>1, <2>4 DEF Count, TypeOK
      <3> QED BY <1>0, <2>1, <2>2, <2>3, <2>4, <3>1 DEF Rights, Final
    <2>5. CASE (Answered(w, "SKIPPED_NOT_CONNECTED") \/ Answered(w, "FAILED")) /\ UNCHANGED <<accepted, unanswered>>
      BY <1>0, <2>1, <2>2, <2>3, <2>5 DEF Rights, Final
    <2>6. CASE /\ Answered(w, "FAILED") /\ accepted' = Count(accepted, worker[w].id)
               /\ unanswered' = Count(unanswered, worker[w].id)
      <3>1. \/ accepted'[m] = accepted[m] /\ unanswered'[m] = unanswered[m]
            \/ accepted'[m] = accepted[m] + 1 /\ unanswered'[m] = unanswered[m] + 1
        BY <2>1, <2>6 DEF Count, TypeOK
      <3> QED BY <1>0, <2>1, <2>2, <2>3, <2>6, <3>1 DEF Rights, Final
    <2> QED BY <1>8, <2>4, <2>5, <2>6, AnswersAreAnswers DEF Answering
  <1>9. ASSUME NEW w \in Workers, Record(w) PROVE Rights(m)'
    <2> DEFINE me == worker[w]
    <2>1. me \in WorkerType /\ me.pc = "answered" /\ me.id \in Messages /\ UNCHANGED <<accepted, reclaims, unanswered>>
      BY <1>9, RecordEffect
    <2>2. PICK x \in WorkerType : Becomes(w, x) /\ x.pc = "ready"
      BY <1>9, RecordEffect
    <2>3. PICK r \in RowType :
            row' = [row EXCEPT ![me.id] = r] /\ r.status = IF Retry(me) THEN "PENDING" ELSE me.result
      BY <1>9, RecordEffect
    <2>4. CASE me.id # m
      <3>1. Unclaimed(m)' = Unclaimed(m)
        BY <2>3, <2>4 DEF Unclaimed, TypeOK
      <3> QED BY <1>4, <2>1, <2>2, <3>1
    <2>5. CASE me.id = m /\ ~Retry(me)
      <3>1. row'[m].status \in Final
        BY <2>1, <2>3, <2>5 DEF TypeOK, WorkerType
      <3>2. Unclaimed(m)' = 0
        BY <3>1 DEF Unclaimed, Final
      <3>3. ~MaySend(x, m)
        BY <2>2 DEF MaySend
      <3>4. IsFiniteSet(Senders(m)') /\ Cardinality(Senders(m)') \in Nat /\ Cardinality(Senders(m)') <= Cardinality(Senders(m))
        BY <1>0, <2>2, <3>3, SendersChange
      <3> QED BY <1>0, <2>1, <3>2, <3>4 DEF Rights
    <2>6. CASE me.id = m /\ Retry(me)
      <3>1. Unclaimed(m)' = 1
        BY <2>3, <2>6 DEF Unclaimed, TypeOK
      <3>2. MaySend(me, m) /\ ~MaySend(x, m)
        BY <2>1, <2>2, <2>6 DEF MaySend, Retry
      <3>3. IsFiniteSet(Senders(m)') /\ Cardinality(Senders(m)') \in Nat /\ Cardinality(Senders(m)') = Cardinality(Senders(m)) - 1
        BY <1>0, <2>2, <3>2, SendersChange
      <3> QED BY <1>0, <2>1, <3>1, <3>3 DEF Rights
    <2> QED BY <2>4, <2>5, <2>6
  <1> QED BY <1>2, <1>3, <1>5, <1>6, <1>7, <1>8, <1>9, Steps

----------------------------------------------------------------------------
(* Theorems *)

LEMMA InitInv == Init => IInv
  <1> SUFFICES ASSUME Init PROVE IInv
    OBVIOUS
  <1>1. TypeOK
    BY IdleType DEF Init, TypeOK, NoRow, RowType, Final
  <1>2. ClocksBehind /\ CountersBehind /\ AnswersTrue
    BY IdleType DEF Init, ClocksBehind, CountersBehind, AnswersTrue
  <1>3. RightsCounted
    <2> SUFFICES ASSUME NEW m \in Messages PROVE Rights(m)
      BY DEF RightsCounted, Rights
    <2>1. Senders(m) = {}
      BY IdleType DEF Init, Senders, MaySend
    <2>2. Unclaimed(m) = 1 /\ accepted[m] = 0 /\ reclaims[m] = 0 /\ unanswered[m] = 0
      BY DEF Init, Unclaimed, NoRow
    <2> QED BY <2>1, <2>2, FS_EmptySet DEF Rights
  <1>4. SentMeansAccepted /\ FailedMeansExhausted /\ RetryBounded
    BY DeliveryConstants DEF Init, SentMeansAccepted, FailedMeansExhausted, RetryBounded, NoRow
  <1> QED BY <1>1, <1>2, <1>3, <1>4 DEF IInv

\* The inductive invariant holds in every reachable state, whatever workers, faults and suspensions.
THEOREM Invariance == Spec => []IInv
  <1>1. IInv /\ [Next]_vars => IInv'
    BY TypeStep, MemoryStep, TableStep, RightsStep DEF IInv
  <1> QED BY <1>1, InitInv, PTL DEF Spec

\* Rows and workers keep their types: every answer is recorded in a row of the table.
THEOREM TypeCorrect == Spec => []TypeOK
  <1>1. IInv => TypeOK
    BY DEF IInv
  <1> QED BY <1>1, Invariance, PTL

\* A provider gets a message again only after a reclaim or an acceptance that was answered with an
\* error, for any number of workers: overlapping batches and late answers alone never resend.
THEOREM ResendsHaveCauses == Spec => []ResendsExplained
  <1>1. IInv => ResendsExplained
    <2> SUFFICES ASSUME IInv, NEW m \in Messages PROVE accepted[m] <= 1 + reclaims[m] + unanswered[m]
      BY DEF ResendsExplained
    <2>1. /\ IsFiniteSet(Senders(m)) /\ Cardinality(Senders(m)) \in Nat /\ Unclaimed(m) \in {0, 1}
          /\ accepted[m] \in Nat /\ reclaims[m] \in Nat /\ unanswered[m] \in Nat
          /\ accepted[m] + Cardinality(Senders(m)) + Unclaimed(m) <= 1 + reclaims[m] + unanswered[m]
      BY FS_CardinalityType DEF IInv, RightsCounted, TypeOK, Unclaimed
    <2> QED BY <2>1
  <1> QED BY <1>1, Invariance, PTL

\* A message recorded as SENT was accepted by its provider, whoever recorded what in between.
THEOREM SentIsAccepted == Spec => []SentMeansAccepted
  <1>1. IInv => SentMeansAccepted
    BY DEF IInv
  <1> QED BY <1>1, Invariance, PTL

\* A message is given up only after MAX_ATTEMPTS claims, however old the counter that decides.
THEOREM FailedIsExhausted == Spec => []FailedMeansExhausted
  <1>1. IInv => FailedMeansExhausted
    BY DEF IInv
  <1> QED BY <1>1, Invariance, PTL

\* No retry is put off beyond the cap, counted from the present.
THEOREM RetriesAreBounded == Spec => []RetryBounded
  <1>1. IInv => RetryBounded
    BY DEF IInv
  <1> QED BY <1>1, Invariance, PTL
=============================================================================
