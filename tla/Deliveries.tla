----------------------------- MODULE Deliveries -----------------------------
(***************************************************************************)
(* The queue of e-mail, SMS and WhatsApp messages: notify writes a PENDING  *)
(* NotificationDelivery row, and dispatchPendingDeliveries claims due rows  *)
(* under a lease, hands each message to its provider and records the answer *)
(* (src/src/server/services/reminders.ts, lines 206-254).  The provider is  *)
(* outside the database: what it has accepted stays accepted whatever is    *)
(* recorded afterwards.                                                     *)
(*                                                                          *)
(* One step is one SQL statement or one call of the provider.  A worker     *)
(* reads the clock once per batch, so its leases and backoffs are relative  *)
(* to worker[w].now.  Times are minutes; 0 stands for SQL's NULL.           *)
(***************************************************************************)
EXTENDS Integers, FiniteSets

CONSTANTS
  Workers,     \* processes that run the scheduler tick
  Messages,    \* identities of NotificationDelivery rows
  NoMessage,
  Configured,  \* messages whose channel has a configured adapter
  Lease,       \* LEASE_MS
  BackoffCap,  \* the 60 of backoffMs
  MaxAttempts, \* MAX_ATTEMPTS
  BatchLimit,  \* the `limit` argument
  MaxTime,     \* bound: the clock stops here
  MaxFaults,   \* bound: provider errors, lost answers and crashes
  LastFault,   \* bound: none of them after this time
  MaxSwitches  \* bound: how often recipients are suspended or reactivated

ASSUME DeliveryConstants ==
  /\ NoMessage \notin Messages
  /\ Configured \subseteq Messages
  /\ Lease \in Nat /\ BackoffCap \in Nat /\ MaxAttempts \in Nat /\ BatchLimit \in Nat
  /\ MaxTime \in Nat /\ MaxFaults \in Nat /\ LastFault \in Nat /\ MaxSwitches \in Nat

VARIABLES
  clock,
  row,        \* the NotificationDelivery table
  inactive,   \* messages whose recipient is not an ACTIVE user
  accepted,   \* how often the provider accepted each message
  worker,     \* local state of each dispatcher
  reclaims,   \* history: claims of a row that another worker had claimed
  unanswered, \* history: messages accepted while the caller saw an error
  crashes,    \* history: crashes of a worker holding the message
  switches, faults

vars == <<clock, row, inactive, accepted, worker, reclaims, unanswered, crashes, switches, faults>>

Final == {"SENT", "SKIPPED_NOT_CONNECTED", "FAILED"}

NoRow == [status |-> "NONE", createdAt |-> 0, attempts |-> 0, nextAttemptAt |-> 0, lockedUntil |-> 0]
Idle  == [pc |-> "ready", now |-> 0, batch |-> {}, id |-> NoMessage, attempts |-> 0,
          active |-> FALSE, result |-> "SENT"]

\* Operators named Mutant... are faulty variants of the definition after them;
\* a property of the runs fails when one takes that definition's place.

MutantUncapped(n) == 2^n

\* backoffMs: exponential, capped.
Backoff(n) == IF 2^n \in 0..BackoffCap THEN 2^n ELSE BackoffCap

Count(f, m) == [f EXCEPT ![m] = @ + 1]

----------------------------------------------------------------------------
Init ==
  /\ clock = 1
  /\ row = [m \in Messages |-> NoRow]
  /\ inactive = {}
  /\ accepted = [m \in Messages |-> 0]
  /\ worker = [w \in Workers |-> Idle]
  /\ reclaims = [m \in Messages |-> 0]
  /\ unanswered = [m \in Messages |-> 0]
  /\ crashes = [m \in Messages |-> 0]
  /\ switches = 0
  /\ faults = 0

Tick ==
  /\ clock < MaxTime
  /\ clock' = clock + 1
  /\ UNCHANGED <<row, inactive, accepted, worker, reclaims, unanswered, crashes, switches, faults>>

\* notify: one row per notification and external channel, due at once.
Enqueue(m) ==
  /\ row[m].status = "NONE"
  /\ row' = [row EXCEPT ![m].status = "PENDING", ![m].createdAt = clock, ![m].nextAttemptAt = clock]
  /\ UNCHANGED <<clock, inactive, accepted, worker, reclaims, unanswered, crashes, switches, faults>>

\* An administrator suspends or reactivates the recipient (saveUser).
SwitchRecipient(m) ==
  /\ switches < MaxSwitches
  /\ switches' = switches + 1
  /\ inactive' = IF m \in inactive THEN inactive \ {m} ELSE inactive \cup {m}
  /\ UNCHANGED <<clock, row, accepted, worker, reclaims, unanswered, crashes, faults>>

----------------------------------------------------------------------------
(* dispatchPendingDeliveries *)

MutantForgetSending(now) ==
  {m \in Messages : row[m].status = "PENDING" /\ row[m].nextAttemptAt <= now}

Due(now) ==
  {m \in Messages : \/ row[m].status = "PENDING" /\ row[m].nextAttemptAt <= now
                    \/ row[m].status = "SENDING" /\ row[m].lockedUntil < now}

\* orderBy createdAt asc, take limit.
Batches(now) ==
  {b \in SUBSET Due(now) :
     /\ Cardinality(b) = IF Cardinality(Due(now)) <= BatchLimit THEN Cardinality(Due(now))
                         ELSE BatchLimit
     /\ \A m \in b, n \in Due(now) \ b : row[m].createdAt <= row[n].createdAt}

MutantUnchecked(r, now) == TRUE

\* The condition of the claim: nextAttemptAt is not looked at again.
Claimable(r, now) == r.status = "PENDING" \/ (r.status = "SENDING" /\ r.lockedUntil < now)

\* What a worker keeps when it is done with a row.
NextItem(me) == IF me.batch = {} THEN Idle ELSE [Idle EXCEPT !.now = me.now, !.batch = me.batch]

StartBatch(w) ==
  /\ worker[w] = Idle
  /\ Due(clock) # {}
  /\ \E b \in Batches(clock) : worker' = [worker EXCEPT ![w].now = clock, ![w].batch = b]
  /\ UNCHANGED <<clock, row, inactive, accepted, reclaims, unanswered, crashes, switches, faults>>

Claim(w) ==
  LET me == worker[w] IN
  /\ me.pc = "ready"
  /\ \E m \in me.batch :
       /\ \A n \in me.batch : row[m].createdAt <= row[n].createdAt
       /\ LET rest == [me EXCEPT !.batch = @ \ {m}] IN
          IF Claimable(row[m], me.now)
          THEN /\ row' = [row EXCEPT ![m].status = "SENDING", ![m].attempts = @ + 1,
                                     ![m].lockedUntil = me.now + Lease]
               /\ worker' = [worker EXCEPT ![w] = [rest EXCEPT !.pc = "claimed", !.id = m]]
               /\ reclaims' = IF row[m].status = "SENDING" THEN Count(reclaims, m) ELSE reclaims
          ELSE /\ worker' = [worker EXCEPT ![w] = NextItem(rest)]
               /\ UNCHANGED <<row, reclaims>>
  /\ UNCHANGED <<clock, inactive, accepted, unanswered, crashes, switches, faults>>

\* findUniqueOrThrow: the attempts counter and the recipient's status.
ReadRow(w) ==
  /\ worker[w].pc = "claimed"
  /\ worker' = [worker EXCEPT ![w].pc = "read",
                  ![w].attempts = row[worker[w].id].attempts,
                  ![w].active = worker[w].id \notin inactive]
  /\ UNCHANGED <<clock, row, inactive, accepted, reclaims, unanswered, crashes, switches, faults>>

MutantPretend(w, result) ==
  worker' = [worker EXCEPT ![w].pc = "answered", ![w].result = "SENT"]

Answered(w, result) ==
  worker' = [worker EXCEPT ![w].pc = "answered", ![w].result = result]

\* Nothing is sent to an inactive recipient or through a channel that is not
\* configured.
Skip(w) ==
  /\ worker[w].pc = "read"
  /\ ~worker[w].active \/ worker[w].id \notin Configured
  /\ Answered(w, "SKIPPED_NOT_CONNECTED")
  /\ UNCHANGED <<clock, row, inactive, accepted, reclaims, unanswered, crashes, switches, faults>>

Calling(w) == worker[w].pc = "read" /\ worker[w].active /\ worker[w].id \in Configured

Send(w) ==
  /\ Calling(w)
  /\ accepted' = Count(accepted, worker[w].id)
  /\ Answered(w, "SENT")
  /\ UNCHANGED <<clock, row, inactive, reclaims, unanswered, crashes, switches, faults>>

Fault ==
  /\ faults < MaxFaults /\ clock <= LastFault
  /\ faults' = faults + 1

\* The adapter throws: the provider refused the message, or accepted it and
\* the answer was lost (a socket timeout after the message was taken).
SendFails(w) ==
  /\ Fault
  /\ Calling(w)
  /\ \/ UNCHANGED <<accepted, unanswered>>
     \/ /\ accepted' = Count(accepted, worker[w].id)
        /\ unanswered' = Count(unanswered, worker[w].id)
  /\ Answered(w, "FAILED")
  /\ UNCHANGED <<clock, row, inactive, reclaims, crashes, switches>>

MutantGiveUpEarly(me) == me.result = "FAILED" /\ me.attempts + 1 < MaxAttempts

Retry(me) == me.result = "FAILED" /\ me.attempts < MaxAttempts

\* The answer is recorded by id, whatever the row has become.
Record(w) ==
  LET me == worker[w] IN
  /\ me.pc = "answered"
  /\ row' = [row EXCEPT ![me.id].status = IF Retry(me) THEN "PENDING" ELSE me.result,
                        ![me.id].lockedUntil = 0,
                        ![me.id].nextAttemptAt = IF Retry(me) THEN me.now + Backoff(me.attempts) ELSE 0]
  /\ worker' = [worker EXCEPT ![w] = NextItem(me)]
  /\ UNCHANGED <<clock, inactive, accepted, reclaims, unanswered, crashes, switches, faults>>

\* The process dies, or a statement outside the provider call fails and ends
\* the job: the rest of the batch is abandoned.
Crash(w) ==
  /\ Fault
  /\ worker[w] # Idle
  /\ worker' = [worker EXCEPT ![w] = Idle]
  /\ crashes' = IF worker[w].id \in Messages THEN Count(crashes, worker[w].id) ELSE crashes
  /\ UNCHANGED <<clock, row, inactive, accepted, reclaims, unanswered, switches>>

Dispatch(w) == StartBatch(w) \/ Claim(w) \/ ReadRow(w) \/ Skip(w) \/ Send(w) \/ Record(w)

Next ==
  \/ Tick
  \/ \E m \in Messages : Enqueue(m) \/ SwitchRecipient(m)
  \/ \E w \in Workers : Dispatch(w) \/ SendFails(w) \/ Crash(w)

Spec == Init /\ [][Next]_vars

\* The scheduler's interval timer keeps starting ticks and a tick works
\* through its batch; no fault is ever owed.
Fairness == WF_vars(Tick) /\ \A w \in Workers : WF_vars(Dispatch(w))

FairSpec == Spec /\ Fairness

----------------------------------------------------------------------------
(* Properties *)

RowType == [status : {"NONE", "PENDING", "SENDING"} \cup Final, createdAt : Nat, attempts : Nat,
            nextAttemptAt : Nat, lockedUntil : Nat]

WorkerType == [pc : {"ready", "claimed", "read", "answered"}, now : Nat, batch : SUBSET Messages,
               id : Messages \cup {NoMessage}, attempts : Nat, active : BOOLEAN, result : Final]

\* Every variable has the type of the table or local variable it models, and a
\* worker past its claim holds a row.
TypeOK ==
  /\ clock \in Nat /\ switches \in Nat /\ faults \in Nat
  /\ row \in [Messages -> RowType]
  /\ inactive \subseteq Messages
  /\ accepted \in [Messages -> Nat] /\ reclaims \in [Messages -> Nat]
  /\ unanswered \in [Messages -> Nat] /\ crashes \in [Messages -> Nat]
  /\ worker \in [Workers -> WorkerType]
  /\ \A w \in Workers : worker[w].pc # "ready" => worker[w].id \in Messages

\* A provider gets a message more than once only if a lease expired and the
\* row was claimed again, or an accepted message was answered with an error:
\* late answers, overlapping batches and retries alone never resend
\* (reminders.ts:207-210, 226-229, 240-250).
ResendsExplained == \A m \in Messages : accepted[m] <= 1 + reclaims[m] + unanswered[m]

\* A message recorded as SENT was accepted by its provider (channels.ts:5-8).
SentMeansAccepted == \A m \in Messages : row[m].status = "SENT" => accepted[m] > 0

\* A message is given up only after MAX_ATTEMPTS claims, however stale the
\* counter of the worker that records the failure (reminders.ts:142, 240).
FailedMeansExhausted == \A m \in Messages : row[m].status = "FAILED" => row[m].attempts >= MaxAttempts

\* A queued message is not left waiting for a retry longer than the cap allows
\* (reminders.ts:133, 247).
RetryBounded ==
  \A m \in Messages : row[m].nextAttemptAt <= clock + BackoffCap

\* Every queued message is, in the end, sent, skipped or given up for good:
\* crashes and late answers only delay it (reminders.ts:137-138, 207).
EventuallySettled ==
  \A m \in Messages : row[m].status = "PENDING" ~> [](row[m].status \in Final)

----------------------------------------------------------------------------
(* What the documentation promises and the code does not keep *)

\* "a crash after the provider accepted a message but before SENT is recorded
\* can cause one resend" (reminders.ts:208-210): without a crash and without a
\* lost answer there is no resend.
ResendNeedsCrash ==
  \A m \in Messages : accepted[m] <= 1 + crashes[m] + unanswered[m]
=============================================================================
