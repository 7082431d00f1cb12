-------------------------- MODULE RemindersProofs --------------------------
(* Theorems about Reminders, for every value of its constants. *)
EXTENDS Reminders, TLAPS

----------------------------------------------------------------------------
(* Types of the sentinels and of the scheduling operators *)

LEMMA SentinelTypes ==
  /\ NoRow \in RowType
  /\ Idle \in WorkerType
  /\ NoEvent \in EventType
  /\ NoRequest \in ClerkType
BY DEF NoRow, RowType, Status, Kinds, Idle, WorkerType, NoEvent, EventType, NoRequest, ClerkType

\* The backoff of a failed attempt is a duration of at most the cap.
LEMMA BackoffType ==
  ASSUME NEW n \in Nat
  PROVE  Backoff(n) \in 0..BackoffCap
BY ConstantsAssumption DEF Backoff, ConstantsAssumption

SpecType == [user : Users \cup {NoUser}, fireAt : Int, kind : Kinds]

\* What syncReminders asks for is well typed and is for people of the event.
LEMMA WantedType ==
  ASSUME NEW ev \in EventType, NEW now \in Nat, NEW s \in Wanted(ev, now)
  PROVE  s \in SpecType /\ ev.active /\ s.user \in {ev.lawyer, ev.lead, ev.owner}
<1>1. /\ ev.active
      /\ \/ s \in [user : Recipients(ev), fireAt : Schedule(ev.at, now), kind : {"REMINDER"}]
         \/ s \in [user : {ev.owner}, fireAt : {ev.at - EscalateBefore}, kind : {"ESCALATION"}]
  BY DEF Wanted
<1>2. ev.at \in Nat /\ Recipients(ev) \subseteq Users \cup {NoUser}
  BY DEF EventType, Recipients
<1>3. Schedule(ev.at, now) \subseteq Int
  BY <1>2, ConstantsAssumption DEF Schedule, ConstantsAssumption
<1>4. ev.at - EscalateBefore \in Int /\ ev.owner \in Users \cup {NoUser}
  BY <1>2, ConstantsAssumption DEF EventType, ConstantsAssumption
<1>5. CASE s \in [user : Recipients(ev), fireAt : Schedule(ev.at, now), kind : {"REMINDER"}]
  <2>1. s \in SpecType /\ ev.active
    BY <1>1, <1>2, <1>3, <1>5 DEF SpecType, Kinds
  <2>2. s.user \in {ev.lawyer, ev.lead, ev.owner}
    BY <1>5 DEF Recipients
  <2> QED
    BY <2>1, <2>2
<1>6. CASE s \in [user : {ev.owner}, fireAt : {ev.at - EscalateBefore}, kind : {"ESCALATION"}]
  BY <1>1, <1>4, <1>6 DEF SpecType, Kinds
<1> QED
  BY <1>1, <1>5, <1>6

\* Two hearings that agree in what reminders depend on.
LEMMA SameFields ==
  ASSUME NEW ev \in EventType, NEW hearing \in EventType, SameSubject(ev, hearing)
  PROVE  /\ ev.at = hearing.at /\ ev.active = hearing.active /\ ev.lawyer = hearing.lawyer
         /\ ev.lead = hearing.lead /\ ev.owner = hearing.owner
<1> DEFINE same == [ev EXCEPT !.acked = hearing.acked, !.closed = hearing.closed]
<1>1. /\ same.at = ev.at /\ same.active = ev.active /\ same.lawyer = ev.lawyer
      /\ same.lead = ev.lead /\ same.owner = ev.owner
  BY DEF EventType
<1>2. same = hearing
  BY DEF SameSubject
<1> HIDE DEF same
<1> QED
  BY <1>1, <1>2

\* cancelReminders changes the status of PENDING rows and nothing else.
LEMMA CancelledRows ==
  ASSUME NEW rows \in [Ids -> RowType]
  PROVE  /\ Cancelled(rows) \in [Ids -> RowType]
         /\ \A i \in Ids : rows[i].status = "PENDING"
              => Cancelled(rows)[i] = [rows[i] EXCEPT !.status = "CANCELLED"]
         /\ \A i \in Ids : rows[i].status # "PENDING" => Cancelled(rows)[i] = rows[i]
BY DEF Cancelled, RowType, Status

\* The rows a step adds to a table, each PENDING, unclaimed and asked for.
AddsOnly(rows, want, at, origin) ==
  \A i \in Ids : row'[i] # rows[i] =>
    /\ rows[i].status = "NONE"
    /\ row'[i].status = "PENDING" /\ row'[i].attempts = 0 /\ row'[i].lockedUntil = 0
    /\ row'[i].eventAt = at /\ row'[i].origin = origin
    /\ \E s \in want : row'[i].user = s.user

\* Every reminder asked for has its row.
Covers(want, at) ==
  \A s \in want : \E i \in Ids :
    /\ row'[i].status = "PENDING" /\ row'[i].eventAt = at
    /\ row'[i].user = s.user /\ row'[i].fireAt = s.fireAt /\ row'[i].kind = s.kind

\* createMany keeps the table well typed, adds only rows that were asked for
\* and leaves none of them out.
LEMMA CreatedRows ==
  ASSUME NEW rows \in [Ids -> RowType], NEW want \in SUBSET SpecType,
         NEW at \in Nat, NEW origin \in {"tx", "resync"},
         Create(rows, want, at, origin)
  PROVE  /\ row' \in [Ids -> RowType]
         /\ AddsOnly(rows, want, at, origin)
         /\ Covers(want, at)
<1> DEFINE New(s) == [NoRow EXCEPT !.status = "PENDING", !.user = s.user, !.kind = s.kind,
                                   !.fireAt = s.fireAt, !.eventAt = at, !.origin = origin]
<1>0. PICK fresh \in SUBSET {i \in Ids : rows[i].status = "NONE"} :
        \E spec \in Bijection(fresh, want) :
          row' = [i \in Ids |-> IF i \in fresh THEN New(spec[i]) ELSE rows[i]]
  BY DEF Create
<1>1. PICK spec \in Bijection(fresh, want) :
        row' = [i \in Ids |-> IF i \in fresh THEN New(spec[i]) ELSE rows[i]]
  BY <1>0
<1>2. spec \in [fresh -> want] /\ \A s \in want : \E i \in fresh : spec[i] = s
  BY <1>1 DEF Bijection, Injection, Surjection
<1>3. ASSUME NEW s \in want
      PROVE  /\ New(s) \in RowType
             /\ New(s).status = "PENDING" /\ New(s).attempts = 0 /\ New(s).lockedUntil = 0
             /\ New(s).eventAt = at /\ New(s).origin = origin
             /\ New(s).user = s.user /\ New(s).fireAt = s.fireAt /\ New(s).kind = s.kind
  <2>1. s.user \in Users \cup {NoUser} /\ s.fireAt \in Int /\ s.kind \in Kinds
    BY DEF SpecType
  <2> QED
    BY <2>1 DEF NoRow, RowType, Status
<1> HIDE DEF New
<1>4. \A i \in fresh : spec[i] \in want
  BY <1>2
<1>5. \A i \in Ids : row'[i] = IF i \in fresh THEN New(spec[i]) ELSE rows[i]
  BY <1>1
<1>6. row' \in [Ids -> RowType]
  BY <1>1, <1>3, <1>4
<1>7. \A i \in fresh : i \in Ids /\ rows[i].status = "NONE"
  BY <1>0
<1>9. AddsOnly(rows, want, at, origin)
  BY <1>3, <1>4, <1>5, <1>7 DEF AddsOnly
<1>10. ASSUME NEW s \in want
       PROVE  \E i \in Ids : /\ row'[i].status = "PENDING" /\ row'[i].eventAt = at
                             /\ row'[i].user = s.user /\ row'[i].fireAt = s.fireAt
                             /\ row'[i].kind = s.kind
  BY <1>2, <1>3, <1>5, <1>7
<1> QED
  BY <1>6, <1>9, <1>10 DEF Covers

----------------------------------------------------------------------------
(* Type correctness *)

LEMMA InitType == Init => TypeOK
<1> SUFFICES ASSUME Init PROVE TypeOK
  OBVIOUS
<1>1. event \in EventType
  BY SentinelTypes DEF Init, EventType, NoEvent
<1>2. row \in [Ids -> RowType]
  BY SentinelTypes DEF Init
<1>3. /\ worker \in [Workers -> WorkerType]
      /\ \A w \in Workers : worker[w].pc # "ready" => worker[w].id \in Ids
  BY SentinelTypes DEF Init, Idle
<1>4. resync \in [pc : {"idle", "load", "create"}, event : EventType, now : Nat]
  BY SentinelTypes DEF Init, NoSync
<1>5. /\ request \in [Clerks -> ClerkType]
      /\ \A c \in Clerks : request[c].pc = "offboarding" => request[c].to \in Users
  BY SentinelTypes DEF Init, NoRequest
<1> QED
  BY <1>1, <1>2, <1>3, <1>4, <1>5 DEF Init, TypeOK

\* What one step may do to a row.
CancelledFrom(r, s) == r.status = "PENDING" /\ s = [r EXCEPT !.status = "CANCELLED"]

CreatedFrom(r, s, origin) ==
  /\ r.status = "NONE" /\ s.status = "PENDING"
  /\ s.attempts = 0 /\ s.lockedUntil = 0 /\ s.origin = origin

LEMMA CancelledFroms ==
  ASSUME row \in [Ids -> RowType], NEW i \in Ids
  PROVE  \/ Cancelled(row)[i] = row[i] /\ row[i].status # "PENDING"
         \/ CancelledFrom(row[i], Cancelled(row)[i]) /\ Cancelled(row)[i].status = "CANCELLED"
BY CancelledRows DEF CancelledFrom, RowType

\* syncReminders leaves nothing PENDING but the rows it makes, for the time and
\* the people of the hearing it has seen, and makes all that are asked for.
LEMMA SyncRows ==
  ASSUME TypeOK, NEW ev \in EventType, Sync(ev)
  PROVE  /\ row' \in [Ids -> RowType]
         /\ Covers(Wanted(ev, clock), ev.at)
         /\ \A i \in Ids :
              \/ row'[i] = row[i] /\ row[i].status # "PENDING"
              \/ CancelledFrom(row[i], row'[i]) /\ row'[i].status = "CANCELLED"
              \/ /\ CreatedFrom(row[i], row'[i], "tx")
                 /\ row'[i].eventAt = ev.at /\ ev.active
                 /\ row'[i].user \in {ev.lawyer, ev.lead, ev.owner}
<1> DEFINE rows == Cancelled(row)
           want == Wanted(ev, clock)
<1>1. rows \in [Ids -> RowType] /\ want \in SUBSET SpecType /\ ev.at \in Nat
  BY CancelledRows, WantedType DEF TypeOK, EventType
<1>2. Create(rows, want, ev.at, "tx")
  BY DEF Sync
<1> HIDE DEF rows, want
<1>3. /\ row' \in [Ids -> RowType] /\ Covers(want, ev.at)
      /\ AddsOnly(rows, want, ev.at, "tx")
  BY <1>1, <1>2, CreatedRows
<1>4. \A s \in want : ev.active /\ s.user \in {ev.lawyer, ev.lead, ev.owner}
  BY WantedType DEF want, TypeOK
<1>5. ASSUME NEW i \in Ids
      PROVE  \/ row'[i] = row[i] /\ row[i].status # "PENDING"
             \/ CancelledFrom(row[i], row'[i]) /\ row'[i].status = "CANCELLED"
             \/ /\ CreatedFrom(row[i], row'[i], "tx")
                /\ row'[i].eventAt = ev.at /\ ev.active
                /\ row'[i].user \in {ev.lawyer, ev.lead, ev.owner}
  <2>1. \/ rows[i] = row[i] /\ row[i].status # "PENDING"
        \/ CancelledFrom(row[i], rows[i]) /\ rows[i].status = "CANCELLED"
    BY CancelledFroms DEF rows, TypeOK
  <2>2. CASE row'[i] = rows[i]
    BY <2>1, <2>2
  <2>3. CASE row'[i] # rows[i]
    <3>1. rows[i].status = "NONE" /\ row[i].status = "NONE"
      BY <1>3, <2>1, <2>3 DEF AddsOnly
    <3> QED
      BY <1>3, <1>4, <2>3, <3>1 DEF AddsOnly, CreatedFrom
  <2> QED
    BY <2>2, <2>3
<1> QED
  BY <1>3, <1>5 DEF want

\* A request that goes on to its next step, or gives up, leaves the tables alone.
Opening(c) ==
  \E me \in ClerkType : /\ me.pc = "offboarding" => me.to \in Users
                        /\ Begin(c, me) \/ Open(c, me)

Reads(c) ==
  \/ ReadHearing(c) \/ ReadMatter(c) \/ GiveUp(c)
  \/ \E at \in EventTimes, active \in BOOLEAN, u \in Users : OpenSave(c, at, active, u)
  \/ \E lead \in Users, closed, closing \in BOOLEAN : OpenMatter(c, lead, closed, closing)
  \/ \E u, to \in Users : OpenOffboard(c, u, to)

LEMMA ReadsOpen ==
  ASSUME TypeOK, NEW c \in Clerks, Reads(c)
  PROVE  Opening(c)
<1>0. event \in EventType /\ request[c] \in ClerkType /\ request[c].event \in EventType /\ clock \in Nat
  BY DEF TypeOK, ClerkType
<1>1. ASSUME NEW pc \in {"hearing", "saving", "matter", "reassigning", "closing", "filing"},
             NEW ev \in EventType,
             Begin(c, [NoRequest EXCEPT !.pc = pc, !.event = ev])
             \/ Open(c, [NoRequest EXCEPT !.pc = pc, !.event = ev])
      PROVE  Opening(c)
  <2>1. PICK me : me = [NoRequest EXCEPT !.pc = pc, !.event = ev]
    OBVIOUS
  <2>2. me \in ClerkType /\ me.pc # "offboarding"
    BY <2>1 DEF NoRequest, ClerkType
  <2> QED
    BY <1>1, <2>1, <2>2 DEF Opening
<1>2. CASE ReadHearing(c)
  <2>1. PICK ev : ev = [NoEvent EXCEPT !.at = event.at, !.lawyer = event.lawyer]
    OBVIOUS
  <2>2. ev \in EventType
    BY <1>0, <2>1 DEF NoEvent, EventType
  <2>3. Begin(c, [NoRequest EXCEPT !.pc = "hearing", !.event = ev])
    BY <1>2, <2>1 DEF ReadHearing
  <2> QED
    BY <1>1, <2>2, <2>3
<1>3. CASE ReadMatter(c)
  <2>1. PICK ev : ev = [NoEvent EXCEPT !.lead = event.lead, !.closed = event.closed]
    OBVIOUS
  <2>2. ev \in EventType
    BY <1>0, <2>1 DEF NoEvent, EventType
  <2>3. Begin(c, [NoRequest EXCEPT !.pc = "matter", !.event = ev])
    BY <1>3, <2>1 DEF ReadMatter
  <2> QED
    BY <1>1, <2>2, <2>3
<1>4. CASE GiveUp(c)
  BY <1>4, SentinelTypes DEF GiveUp, Opening, NoRequest
<1>5. ASSUME NEW at \in EventTimes, NEW active \in BOOLEAN, NEW u \in Users, OpenSave(c, at, active, u)
      PROVE  Opening(c)
  <2> DEFINE acked == at = request[c].event.at /\ u = request[c].event.lawyer
  <2>1. PICK ev : ev = [at |-> at, active |-> active, lawyer |-> u, acked |-> acked,
                        lead |-> event.lead, owner |-> event.owner, closed |-> FALSE]
    OBVIOUS
  <2>2. ev \in EventType
    <3>1. at \in Nat /\ acked \in BOOLEAN
      BY ConstantsAssumption DEF ConstantsAssumption
    <3> HIDE DEF acked
    <3> QED
      BY <1>0, <2>1, <3>1 DEF EventType
  <2>3. Open(c, [NoRequest EXCEPT !.pc = "saving", !.event = ev])
    BY <1>5, <2>1 DEF OpenSave
  <2> QED
    BY <1>1, <2>2, <2>3
<1>6. ASSUME NEW lead \in Users, NEW closed \in BOOLEAN, NEW closing \in BOOLEAN,
             OpenMatter(c, lead, closed, closing)
      PROVE  Opening(c)
  <2> DEFINE place == IF lead # request[c].event.lead THEN "reassigning"
                      ELSE IF closing THEN "closing" ELSE "filing"
  <2>1. PICK ev : ev = [event EXCEPT !.lead = lead, !.closed = closed]
    OBVIOUS
  <2>2. ev \in EventType /\ place \in {"reassigning", "closing", "filing"}
    BY <1>0, <2>1 DEF EventType
  <2>3. Open(c, [NoRequest EXCEPT !.pc = place, !.event = ev])
    BY <1>6, <2>1 DEF OpenMatter
  <2> HIDE DEF place
  <2> QED
    BY <1>1, <2>2, <2>3
<1>7. ASSUME NEW u \in Users, NEW to \in Users, OpenOffboard(c, u, to)
      PROVE  Opening(c)
  <2>1. PICK me : me = [NoRequest EXCEPT !.pc = "offboarding", !.now = clock, !.from = u, !.to = to]
    OBVIOUS
  <2>2. me \in ClerkType /\ me.to \in Users
    BY <1>0, <2>1, SentinelTypes DEF NoRequest, ClerkType
  <2>3. Begin(c, me)
    BY <1>7, <2>1 DEF OpenOffboard
  <2> QED
    BY <2>2, <2>3 DEF Opening
<1> QED
  BY <1>2, <1>3, <1>4, <1>5, <1>6, <1>7 DEF Reads

\* The kinds of steps a request has.
LEMMA RequestCases ==
  ASSUME TypeOK, Request
  PROVE  \/ \E c \in Clerks : Opening(c) \/ WriteSave(c) \/ WriteMatter(c) \/ WriteOffboard(c)
         \/ ReportHearing \/ PrepareHearing \/ AcknowledgeHearing
         \/ \E u \in Users : SetUserStatus(u)
BY ReadsOpen DEF Request, UpdateHearing, UpdateMatter, OffboardUser, Reads

\* A transaction that rebuilds the reminders does so for the hearing it has seen,
\* and gap tells whether that is the hearing as it has become.
Rebuilds ==
  \E ev \in EventType : /\ Sync(ev)
                        /\ gap' = IF SameSubject(ev, event') THEN "none" ELSE "overtaken"

LEMMA SaveRebuilds ==
  ASSUME TypeOK, NEW c \in Clerks, WriteSave(c)
  PROVE  event' \in EventType /\ Rebuilds
<1>1. event \in EventType /\ request[c].event \in EventType
  BY DEF TypeOK, ClerkType
<1>2. event' \in EventType
  BY <1>1 DEF WriteSave, EventType
<1> QED
  BY <1>1, <1>2 DEF WriteSave, Rebuilds

\* A change of the matter gives the hearing another lead at most; it rebuilds the
\* reminders, cancels them, or leaves them alone.
LEMMA MatterWrites ==
  ASSUME TypeOK, NEW c \in Clerks, WriteMatter(c)
  PROVE  /\ event' \in EventType
         /\ event'.at = event.at /\ event'.active = event.active
         /\ event'.lawyer = event.lawyer /\ event'.owner = event.owner
         /\ \/ Rebuilds
            \/ row' = Cancelled(row) /\ gap' = "closed"
            \/ row' = row /\ gap' = IF event'.lead = event.lead THEN gap ELSE "overtaken"
<1> DEFINE me == request[c]
<1>1. event \in EventType /\ me.event \in EventType
  BY DEF TypeOK, ClerkType
<1>2. event' = [event EXCEPT !.lead = me.event.lead, !.closed = me.event.closed]
  BY DEF WriteMatter
<1>3. /\ event' \in EventType
      /\ event'.at = event.at /\ event'.active = event.active
      /\ event'.lawyer = event.lawyer /\ event'.owner = event.owner
  BY <1>1, <1>2 DEF EventType
<1>4. PICK ev : ev = [me.event EXCEPT !.owner = event.owner]
  OBVIOUS
<1>5. ev \in EventType
  BY <1>1, <1>4 DEF EventType
<1>6. \/ Sync(ev) /\ gap' = IF SameSubject(ev, event') THEN "none" ELSE "overtaken"
      \/ row' = Cancelled(row) /\ gap' = "closed"
      \/ row' = row /\ gap' = IF event'.lead = event.lead THEN gap ELSE "overtaken"
  BY <1>2, <1>4 DEF WriteMatter
<1> QED
  BY <1>3, <1>5, <1>6 DEF Rebuilds

\* What a handover does to the hearing and to the rows.
LEMMA OffboardWrites ==
  ASSUME TypeOK, NEW c \in Clerks, WriteOffboard(c)
  PROVE  /\ event' \in EventType
         /\ event'.at = event.at /\ event'.active = event.active
         /\ \A u \in {event.lawyer, event.lead, event.owner} :
              u = request[c].from \/ u \in {event'.lawyer, event'.lead, event'.owner}
         /\ request[c].from \notin {event.lawyer, event.lead, event.owner} =>
              event'.lawyer = event.lawyer /\ event'.lead = event.lead /\ event'.owner = event.owner
         /\ \A i \in Ids : IF row[i].status = "PENDING" /\ row[i].user = request[c].from
                           THEN CancelledFrom(row[i], row'[i]) /\ row'[i].status = "CANCELLED"
                           ELSE row'[i] = row[i]
         /\ row' \in [Ids -> RowType]
<1> DEFINE u == request[c].from
           to == request[c].to
<1>1. event \in EventType /\ to \in Users /\ row \in [Ids -> RowType]
  BY DEF TypeOK, WriteOffboard
<1>2. PICK lawyer, lead, owner :
        /\ event' = [event EXCEPT !.lawyer = lawyer, !.lead = lead, !.owner = owner]
        /\ lawyer = (IF event.lawyer = u /\ event.at >= request[c].now THEN to ELSE event.lawyer)
        /\ lead = (IF event.lead = u /\ ~event.closed THEN to ELSE event.lead)
        /\ owner = (IF event.owner = u /\ ~event.closed THEN to ELSE event.owner)
  BY <1>1 DEF WriteOffboard, EventType
<1>3. /\ lawyer \in {to, event.lawyer} /\ lead \in {to, event.lead} /\ owner \in {to, event.owner}
      /\ event.lawyer # u => lawyer = event.lawyer
      /\ event.lead # u => lead = event.lead
      /\ event.owner # u => owner = event.owner
  BY <1>2
<1>4. /\ event' \in EventType
      /\ event'.at = event.at /\ event'.active = event.active
      /\ event'.lawyer = lawyer /\ event'.lead = lead /\ event'.owner = owner
  BY <1>1, <1>2, <1>3 DEF EventType
<1>5. row' = [i \in Ids |-> IF row[i].status = "PENDING" /\ row[i].user = u
                            THEN [row[i] EXCEPT !.status = "CANCELLED"] ELSE row[i]]
  BY DEF WriteOffboard
<1>6. \A i \in Ids : /\ [row[i] EXCEPT !.status = "CANCELLED"] \in RowType
                     /\ [row[i] EXCEPT !.status = "CANCELLED"].status = "CANCELLED"
  BY <1>1 DEF RowType, Status
<1>7. \A i \in Ids : IF row[i].status = "PENDING" /\ row[i].user = u
                     THEN CancelledFrom(row[i], row'[i]) /\ row'[i].status = "CANCELLED"
                     ELSE row'[i] = row[i]
  BY <1>5, <1>6 DEF CancelledFrom
<1>8. row' \in [Ids -> RowType]
  BY <1>1, <1>5, <1>6
<1> HIDE DEF u, to
<1> QED
  BY <1>3, <1>4, <1>7, <1>8 DEF u

\* The parts of TypeOK a request, a re-materialisation or a worker can disturb.
LEMMA RequestType == TypeOK /\ Request => TypeOK'
<1> SUFFICES ASSUME TypeOK, Request PROVE TypeOK'
  OBVIOUS
<1> DEFINE Gaps == {"none", "prep", "handover", "settings", "closed", "overtaken"}
<1>1. ASSUME NEW c \in Clerks, Opening(c)
      PROVE  TypeOK'
  <2>1. PICK me \in ClerkType : /\ me.pc = "offboarding" => me.to \in Users
                                /\ Begin(c, me) \/ Open(c, me)
    BY <1>1 DEF Opening
  <2>2. request' = [request EXCEPT ![c] = me]
    BY <2>1 DEF Begin, Open
  <2>3. /\ request' \in [Clerks -> ClerkType]
        /\ \A d \in Clerks : request'[d].pc = "offboarding" => request'[d].to \in Users
    BY <2>1, <2>2 DEF TypeOK
  <2>4. edits' \in Nat /\ UNCHANGED <<clock, event, staff, row, notified, muted, worker, resync, gap, faults>>
    BY <2>1 DEF Begin, Open, Edit, TypeOK
  <2> QED
    BY <2>3, <2>4 DEF TypeOK
<1>2. ASSUME NEW c \in Clerks, Commit(c), event' \in EventType, row' \in [Ids -> RowType],
             staff' \subseteq Users, gap' \in Gaps
      PROVE  TypeOK'
  <2>1. request' = [request EXCEPT ![c] = NoRequest]
    BY <1>2 DEF Commit
  <2>2. /\ request' \in [Clerks -> ClerkType]
        /\ \A d \in Clerks : request'[d].pc = "offboarding" => request'[d].to \in Users
    BY <2>1, SentinelTypes DEF TypeOK, NoRequest
  <2>3. UNCHANGED <<clock, notified, muted, worker, resync, edits, faults>>
    BY <1>2 DEF Commit
  <2> QED
    BY <1>2, <2>2, <2>3 DEF TypeOK
<1>3. Rebuilds => row' \in [Ids -> RowType] /\ gap' \in Gaps
  BY SyncRows DEF Rebuilds
<1>4. ASSUME NEW c \in Clerks, WriteSave(c)
      PROVE  TypeOK'
  <2>1. Commit(c) /\ staff' = staff
    BY <1>4 DEF WriteSave
  <2> QED
    BY <1>2, <1>3, <1>4, <2>1, SaveRebuilds DEF TypeOK
<1>5. ASSUME NEW c \in Clerks, WriteMatter(c)
      PROVE  TypeOK'
  <2>1. Commit(c) /\ staff' = staff
    BY <1>5 DEF WriteMatter
  <2>2. row' \in [Ids -> RowType] /\ gap' \in Gaps
    BY <1>3, <1>5, MatterWrites, CancelledRows DEF TypeOK
  <2> QED
    BY <1>2, <1>5, <2>1, <2>2, MatterWrites DEF TypeOK
<1>6. ASSUME NEW c \in Clerks, WriteOffboard(c)
      PROVE  TypeOK'
  <2>1. Commit(c) /\ staff' \subseteq Users /\ gap' \in Gaps
    BY <1>6 DEF WriteOffboard, TypeOK
  <2> QED
    BY <1>2, <1>6, <2>1, OffboardWrites
<1>7. CASE ReportHearing \/ PrepareHearing \/ AcknowledgeHearing
  <2>1. event' \in EventType
    <3>1. \/ event' = [event EXCEPT !.active = FALSE]
          \/ event' = [event EXCEPT !.active = TRUE]
          \/ event' = [event EXCEPT !.acked = TRUE]
      BY <1>7 DEF ReportHearing, PrepareHearing, AcknowledgeHearing
    <3>2. event \in EventType
      BY DEF TypeOK
    <3> QED
      BY <3>1, <3>2 DEF EventType
  <2>2. row' \in [Ids -> RowType] /\ gap' \in Gaps
    BY <1>7, CancelledRows DEF TypeOK, ReportHearing, PrepareHearing, AcknowledgeHearing
  <2>3. edits' \in Nat /\ UNCHANGED <<clock, staff, notified, muted, worker, request, resync, faults>>
    BY <1>7 DEF TypeOK, ReportHearing, PrepareHearing, AcknowledgeHearing, Edit
  <2> HIDE DEF Gaps
  <2> QED
    BY <2>1, <2>2, <2>3 DEF TypeOK, Gaps
<1>8. ASSUME NEW u \in Users, SetUserStatus(u)
      PROVE  TypeOK'
  BY <1>8 DEF TypeOK, SetUserStatus, Edit
<1> QED
  BY <1>1, <1>4, <1>5, <1>6, <1>7, <1>8, RequestCases

LEMMA ResyncType == TypeOK /\ Resync => TypeOK'
<1> SUFFICES ASSUME TypeOK, Resync PROVE TypeOK'
  OBVIOUS
<1> USE SentinelTypes DEF TypeOK
<1>1. CASE ResyncCancel
  <2>1. resync' = [pc |-> "load", event |-> NoEvent, now |-> clock]
    BY <1>1 DEF ResyncCancel, NoSync
  <2>2. resync' \in [pc : {"idle", "load", "create"}, event : EventType, now : Nat]
    BY <2>1
  <2> QED
    BY <1>1, <2>2, CancelledRows DEF ResyncCancel
<1>2. CASE ResyncLoad
  <2>1. CASE resync' = NoSync /\ gap' \in {"none", "overtaken"}
    BY <1>2, <2>1 DEF ResyncLoad, NoSync
  <2>2. CASE resync' = [resync EXCEPT !.pc = "create", !.event = event] /\ UNCHANGED gap
    BY <1>2, <2>2 DEF ResyncLoad
  <2> QED
    BY <1>2, <2>1, <2>2 DEF ResyncLoad
<1>3. CASE ResyncCreate
  <2>1. /\ Create(row, Wanted(resync.event, resync.now), resync.event.at, "resync")
        /\ resync.event \in EventType /\ resync.now \in Nat /\ resync.event.at \in Nat
    BY <1>3 DEF ResyncCreate, EventType
  <2>2. Wanted(resync.event, resync.now) \in SUBSET SpecType
    BY <2>1, WantedType
  <2>3. row' \in [Ids -> RowType]
    BY <2>1, <2>2, CreatedRows
  <2> QED
    BY <1>3, <2>3 DEF ResyncCreate, NoSync
<1>4. CASE ResyncCrash
  BY <1>4 DEF ResyncCrash, NoSync
<1> QED
  BY <1>1, <1>2, <1>3, <1>4 DEF Resync

\* What a worker writes to a row keeps the row well typed.
LEMMA RowUpdateType ==
  ASSUME NEW r \in RowType, NEW s \in Status, NEW a \in Nat, NEW l \in Nat
  PROVE  /\ [r EXCEPT !.status = s, !.attempts = a, !.lockedUntil = l] \in RowType
         /\ [r EXCEPT !.status = s, !.lockedUntil = l] \in RowType
BY DEF RowType

LEMMA WorkerStepType ==
  ASSUME TypeOK, NEW w \in Workers, Dispatch(w) \/ Fail(w) \/ Crash(w)
  PROVE  TypeOK'
<1> USE SentinelTypes DEF TypeOK
<1>0. worker[w] \in WorkerType
  OBVIOUS
<1>1. \A me \in WorkerType : NextItem(me) \in WorkerType /\ NextItem(me).pc = "ready"
  BY DEF NextItem, Idle, WorkerType
<1>2. CASE StartBatch(w)
  <2>1. PICK b \in Batches(clock) : worker' = [worker EXCEPT ![w].now = clock, ![w].batch = b]
    BY <1>2 DEF StartBatch
  <2>2. b \subseteq Ids
    BY DEF Batches, Due
  <2>3. worker' \in [Workers -> WorkerType]
    BY <1>0, <2>1, <2>2 DEF WorkerType
  <2> QED
    BY <1>2, <2>3 DEF StartBatch
<1>3. CASE Claim(w)
  <2>1. PICK i \in worker[w].batch :
          LET rest == [worker[w] EXCEPT !.batch = @ \ {i}] IN
          IF Claimable(row[i], worker[w].now)
          THEN /\ row' = [row EXCEPT ![i].status = "PROCESSING", ![i].attempts = @ + 1,
                                     ![i].lockedUntil = worker[w].now + Lease]
               /\ worker' = [worker EXCEPT ![w] = [rest EXCEPT !.pc = "claimed", !.id = i]]
          ELSE /\ worker' = [worker EXCEPT ![w] = NextItem(rest)]
               /\ UNCHANGED row
    BY <1>3 DEF Claim
  <2> DEFINE rest == [worker[w] EXCEPT !.batch = @ \ {i}]
  <2>2. i \in Ids /\ rest \in WorkerType /\ NextItem(rest) \in WorkerType
        /\ [rest EXCEPT !.pc = "claimed", !.id = i] \in WorkerType
    BY <1>0, <1>1 DEF WorkerType
  <2>3. [row EXCEPT ![i].status = "PROCESSING", ![i].attempts = @ + 1,
                    ![i].lockedUntil = worker[w].now + Lease] \in [Ids -> RowType]
    <3> DEFINE r == [row[i] EXCEPT !.status = "PROCESSING", !.attempts = row[i].attempts + 1,
                                   !.lockedUntil = worker[w].now + Lease]
    <3>1. worker[w].now + Lease \in Nat /\ row[i].attempts + 1 \in Nat /\ row[i] \in RowType
      BY <1>0, <2>2, ConstantsAssumption DEF WorkerType, RowType, ConstantsAssumption
    <3>2. r \in RowType
      BY <3>1, RowUpdateType DEF Status
    <3>3. [row EXCEPT ![i].status = "PROCESSING", ![i].attempts = @ + 1,
                      ![i].lockedUntil = worker[w].now + Lease] = [row EXCEPT ![i] = r]
      BY <2>2
    <3> QED
      BY <3>2, <3>3
  <2>4. row' \in [Ids -> RowType]
    BY <2>1, <2>2, <2>3
  <2>5. PICK me \in WorkerType : /\ worker' = [worker EXCEPT ![w] = me]
                                 /\ me.pc # "ready" => me.id \in Ids
    <3> DEFINE taken == [rest EXCEPT !.pc = "claimed", !.id = i]
    <3>1. worker' = [worker EXCEPT ![w] = taken] \/ worker' = [worker EXCEPT ![w] = NextItem(rest)]
      BY <2>1
    <3>2. taken \in WorkerType /\ taken.id \in Ids
      BY <2>2 DEF WorkerType
    <3>3. NextItem(rest) \in WorkerType /\ NextItem(rest).pc = "ready"
      BY <1>1, <2>2
    <3> HIDE DEF taken, rest
    <3> QED
      BY <3>1, <3>2, <3>3
  <2>6. /\ worker' \in [Workers -> WorkerType]
        /\ \A v \in Workers : worker'[v].pc # "ready" => worker'[v].id \in Ids
    BY <2>5
  <2> QED
    BY <1>3, <2>4, <2>6 DEF Claim
<1>4. CASE ReadRow(w)
  <2>1. worker[w].id \in Ids /\ row[worker[w].id].attempts \in Nat
    BY <1>4 DEF ReadRow, RowType
  <2> QED
    BY <1>0, <1>4, <2>1 DEF ReadRow, WorkerType
<1>5. CASE Load(w)
  <2> DEFINE i     == worker[w].id
             go    == event.active /\ ~(row[i].kind = "ESCALATION" /\ event.acked)
             seen  == Seen(i)
             reach == row[i].user \in staff
             me    == [worker[w] EXCEPT !.pc = "loaded", !.go = go, !.seen = seen, !.reach = reach]
  <2>1. go \in BOOLEAN /\ seen \in BOOLEAN /\ reach \in BOOLEAN
    BY DEF EventType, Seen
  <2>2. i \in Ids
    BY <1>5 DEF Load
  <2>3. worker' = [worker EXCEPT ![w].pc = "loaded", ![w].go = go,
                                 ![w].seen = seen, ![w].reach = reach]
    BY <1>5 DEF Load
  <2> HIDE DEF go, seen, reach
  <2>4. worker' = [worker EXCEPT ![w] = me]
    BY <2>3
  <2>5. me \in WorkerType /\ me.pc = "loaded" /\ me.id = i
    BY <1>0, <2>1 DEF WorkerType
  <2> HIDE DEF me
  <2>6. worker' \in [Workers -> WorkerType]
    BY <2>4, <2>5
  <2>7. \A v \in Workers : worker'[v].pc # "ready" => worker'[v].id \in Ids
    BY <2>2, <2>4, <2>5
  <2> QED
    BY <1>5, <2>6, <2>7 DEF Load
<1>6. ASSUME NEW s \in Status, Finish(w, worker[w].id, s), worker[w].pc # "ready"
      PROVE  /\ row' \in [Ids -> RowType] /\ worker' \in [Workers -> WorkerType]
             /\ \A v \in Workers : worker'[v].pc # "ready" => worker'[v].id \in Ids
  <2>1. worker[w].id \in Ids
    BY <1>6
  <2>2. [row[worker[w].id] EXCEPT !.status = s, !.lockedUntil = 0] \in RowType
    BY <2>1, RowUpdateType
  <2>3. row' = [row EXCEPT ![worker[w].id] = [row[worker[w].id] EXCEPT !.status = s, !.lockedUntil = 0]]
    BY <1>6, <2>1 DEF Finish
  <2> QED
    BY <1>0, <1>1, <1>6, <2>2, <2>3 DEF Finish
<1>7. CASE CommitCancel(w)
  BY <1>6, <1>7 DEF CommitCancel, Status
<1>8. CASE CommitSend(w)
  <2>1. row' \in [Ids -> RowType] /\ worker' \in [Workers -> WorkerType]
        /\ \A v \in Workers : worker'[v].pc # "ready" => worker'[v].id \in Ids
    BY <1>6, <1>8 DEF CommitSend, Status
  <2>2. worker[w].id \in Ids
    BY <1>8 DEF CommitSend, KeyFree
  <2>3. notified' \in [Ids -> Nat] /\ muted' \subseteq Ids
    BY <1>8, <2>2 DEF CommitSend, KeyFree
  <2> QED
    BY <1>8, <2>1, <2>3 DEF CommitSend, KeyFree
<1>9. CASE CommitDuplicate(w)
  BY <1>0, <1>9 DEF CommitDuplicate, WorkerType
<1>10. CASE RecordFailure(w)
  <2>1. worker[w].id \in Ids /\ worker[w].now \in Nat /\ worker[w].attempts \in Nat
    BY <1>0, <1>10 DEF RecordFailure, WorkerType
  <2>2. worker[w].now + Backoff(worker[w].attempts) \in Nat
    BY <2>1, BackoffType, ConstantsAssumption DEF ConstantsAssumption
  <2>3. PICK s \in Status, l \in Nat :
          row' = [row EXCEPT ![worker[w].id].status = s, ![worker[w].id].lockedUntil = l]
    BY <1>10, <2>2 DEF RecordFailure, Status
  <2>4. [row[worker[w].id] EXCEPT !.status = s, !.lockedUntil = l] \in RowType
    BY <2>1, RowUpdateType
  <2>5. row' = [row EXCEPT ![worker[w].id] = [row[worker[w].id] EXCEPT !.status = s, !.lockedUntil = l]]
    BY <2>1, <2>3
  <2>6. row' \in [Ids -> RowType]
    BY <2>4, <2>5
  <2> QED
    BY <1>0, <1>1, <1>10, <2>6 DEF RecordFailure
<1>11. CASE Fail(w)
  BY <1>0, <1>11 DEF Fail, Fault, WorkerType
<1>12. CASE Crash(w)
  BY <1>0, <1>12 DEF Crash, Fault, WorkerType, Idle
<1> QED
  BY <1>2, <1>3, <1>4, <1>5, <1>7, <1>8, <1>9, <1>10, <1>11, <1>12 DEF Dispatch

LEMMA NextType == TypeOK /\ [Next]_vars => TypeOK'
<1>1. TypeOK /\ Tick => TypeOK'
  BY DEF Tick, TypeOK
<1>2. TypeOK /\ UNCHANGED vars => TypeOK'
  BY DEF vars, TypeOK
<1> QED
  BY <1>1, <1>2, RequestType, ResyncType, WorkerStepType DEF Next

\* Every reachable state is well typed: the tables, the clock and the local
\* state of every worker and of the settings screen.
THEOREM TypeCorrect == Spec => []TypeOK
BY InitType, NextType, PTL DEF Spec

----------------------------------------------------------------------------
(* What one step may do to the Reminder table *)

\* A request keeps a row, cancels it if it is PENDING, or creates it.
LEMMA RequestRows ==
  ASSUME TypeOK, Request
  PROVE  /\ \A i \in Ids : \/ row'[i] = row[i]
                           \/ CancelledFrom(row[i], row'[i])
                           \/ CreatedFrom(row[i], row'[i], "tx")
         /\ UNCHANGED <<clock, notified, muted, worker, resync>>
<1> DEFINE Rows == \A i \in Ids : \/ row'[i] = row[i]
                                  \/ CancelledFrom(row[i], row'[i])
                                  \/ CreatedFrom(row[i], row'[i], "tx")
           Rest == UNCHANGED <<clock, notified, muted, worker, resync>>
<1>1. Rebuilds => Rows
  BY SyncRows DEF Rebuilds
<1>2. row' = Cancelled(row) => Rows
  BY CancelledFroms DEF TypeOK
<1>3. ASSUME NEW c \in Clerks, Opening(c) PROVE Rows /\ Rest
  BY <1>3 DEF Opening, Begin, Open, Edit
<1>4. ASSUME NEW c \in Clerks, WriteSave(c) PROVE Rows /\ Rest
  BY <1>1, <1>4, SaveRebuilds DEF WriteSave, Commit
<1>5. ASSUME NEW c \in Clerks, WriteMatter(c) PROVE Rows /\ Rest
  BY <1>1, <1>2, <1>5, MatterWrites DEF WriteMatter, Commit
<1>6. ASSUME NEW c \in Clerks, WriteOffboard(c) PROVE Rows /\ Rest
  BY <1>6, OffboardWrites DEF WriteOffboard, Commit
<1>7. CASE ReportHearing \/ PrepareHearing \/ AcknowledgeHearing
  BY <1>2, <1>7 DEF ReportHearing, PrepareHearing, AcknowledgeHearing, Edit
<1>8. ASSUME NEW u \in Users, SetUserStatus(u) PROVE Rows /\ Rest
  BY <1>8 DEF SetUserStatus, Edit
<1> QED
  BY <1>3, <1>4, <1>5, <1>6, <1>7, <1>8, RequestCases

\* The settings screen cancels PENDING rows or creates rows of its own.
LEMMA ResyncRows ==
  ASSUME TypeOK, Resync
  PROVE  /\ \A i \in Ids : \/ row'[i] = row[i]
                           \/ CancelledFrom(row[i], row'[i])
                           \/ CreatedFrom(row[i], row'[i], "resync")
         /\ UNCHANGED <<clock, event, notified, muted, worker>>
<1>1. row \in [Ids -> RowType]
  BY DEF TypeOK
<1>2. CASE ResyncCancel
  <2>1. \A i \in Ids : row'[i] = row[i] \/ CancelledFrom(row[i], row'[i])
    BY <1>1, <1>2, CancelledRows DEF ResyncCancel, CancelledFrom
  <2> QED
    BY <1>2, <2>1 DEF ResyncCancel
<1>3. CASE ResyncCreate
  <2>1. /\ Create(row, Wanted(resync.event, resync.now), resync.event.at, "resync")
        /\ resync.event \in EventType /\ resync.now \in Nat /\ resync.event.at \in Nat
    BY <1>3 DEF ResyncCreate, EventType, TypeOK
  <2>2. Wanted(resync.event, resync.now) \in SUBSET SpecType
    BY <2>1, WantedType
  <2>3. \A i \in Ids : row'[i] = row[i] \/ CreatedFrom(row[i], row'[i], "resync")
    BY <1>1, <2>1, <2>2, CreatedRows DEF CreatedFrom, AddsOnly
  <2> QED
    BY <1>3, <2>3 DEF ResyncCreate
<1>4. CASE ResyncLoad \/ ResyncCrash
  BY <1>4 DEF ResyncLoad, ResyncCrash
<1> QED
  BY <1>2, <1>3, <1>4 DEF Resync

ClaimedFrom(r, s, now) ==
  /\ r.status \in Live
  /\ s = [r EXCEPT !.status = "PROCESSING", !.attempts = r.attempts + 1, !.lockedUntil = now + Lease]

SettledFrom(r, s, me) ==
  \E status \in {"PENDING", "SENT", "CANCELLED", "FAILED"}, l \in Nat :
    /\ s = [r EXCEPT !.status = status, !.lockedUntil = l]
    /\ l = 0 \/ l <= me.now + BackoffCap
    /\ status = "FAILED" => me.attempts >= MaxAttempts
    /\ status = "PENDING" => me.attempts < MaxAttempts

\* A worker claims one row of its batch, or settles the row it holds.
LEMMA WorkerRows ==
  ASSUME TypeOK, NEW w \in Workers, Dispatch(w) \/ Fail(w) \/ Crash(w)
  PROVE  /\ UNCHANGED <<clock, event>>
         /\ \/ UNCHANGED row
            \/ \E i \in worker[w].batch : \E s :
                 /\ row' = [row EXCEPT ![i] = s]
                 /\ ClaimedFrom(row[i], s, worker[w].now)
                 /\ UNCHANGED <<notified, muted>>
            \/ \E s : /\ worker[w].pc # "ready"
                      /\ row' = [row EXCEPT ![worker[w].id] = s]
                      /\ SettledFrom(row[worker[w].id], s, worker[w])
                      /\ s.status = "SENT" => CommitSend(w)
                      /\ CommitSend(w) \/ UNCHANGED <<notified, muted>>
<1> DEFINE me == worker[w]
<1>0. row \in [Ids -> RowType] /\ me \in WorkerType /\ (me.pc # "ready" => me.id \in Ids)
  BY DEF TypeOK
<1>1. CASE Claim(w)
  <2>1. PICK i \in me.batch :
          \/ UNCHANGED row
          \/ /\ row[i].status \in Live
             /\ row' = [row EXCEPT ![i].status = "PROCESSING", ![i].attempts = @ + 1,
                                   ![i].lockedUntil = me.now + Lease]
    BY <1>1 DEF Claim, Claimable
  <2>2. i \in Ids
    BY <1>0 DEF WorkerType
  <2> DEFINE s == [row[i] EXCEPT !.status = "PROCESSING", !.attempts = row[i].attempts + 1,
                                 !.lockedUntil = me.now + Lease]
  <2>3. UNCHANGED row \/ (row' = [row EXCEPT ![i] = s] /\ row[i].status \in Live)
    BY <1>0, <2>1, <2>2
  <2>4. UNCHANGED row \/ (row' = [row EXCEPT ![i] = s] /\ ClaimedFrom(row[i], s, me.now))
    BY <2>3 DEF ClaimedFrom
  <2> HIDE DEF s
  <2>5. UNCHANGED <<clock, event, notified, muted>>
    BY <1>1 DEF Claim
  <2> QED
    BY <2>4, <2>5
<1>2. ASSUME NEW status \in {"SENT", "CANCELLED"}, Finish(w, me.id, status), me.pc # "ready"
      PROVE  \E s : /\ row' = [row EXCEPT ![me.id] = s]
                    /\ SettledFrom(row[me.id], s, me)
                    /\ s.status = status
  <2> DEFINE s == [row[me.id] EXCEPT !.status = status, !.lockedUntil = 0]
  <2>1. row' = [row EXCEPT ![me.id] = s]
    BY <1>0, <1>2 DEF Finish
  <2>2. SettledFrom(row[me.id], s, me)
    BY DEF SettledFrom
  <2>3. s.status = status
    BY <1>0, <1>2 DEF RowType
  <2> HIDE DEF s
  <2> QED
    BY <2>1, <2>2, <2>3
<1>3. CASE CommitCancel(w)
  BY <1>2, <1>3 DEF CommitCancel
<1>4. CASE CommitSend(w)
  BY <1>2, <1>4 DEF CommitSend, KeyFree
<1>5. CASE RecordFailure(w)
  <2> DEFINE final == Exhausted(me.attempts)
             l == IF final THEN 0 ELSE me.now + Backoff(me.attempts)
             status == IF final THEN "FAILED" ELSE "PENDING"
             s == [row[me.id] EXCEPT !.status = status, !.lockedUntil = l]
  <2>1. me.pc # "ready" /\ me.id \in Ids
    BY <1>0, <1>5 DEF RecordFailure
  <2>2. row' = [row EXCEPT ![me.id] = s]
    BY <1>0, <1>5, <2>1 DEF RecordFailure
  <2>3. me.now \in Nat /\ me.attempts \in Nat /\ Backoff(me.attempts) \in 0..BackoffCap
    BY <1>0, BackoffType DEF WorkerType
  <2>4. l \in Nat /\ (l = 0 \/ l <= me.now + BackoffCap)
        /\ status \in {"PENDING", "SENT", "CANCELLED", "FAILED"}
        /\ (status = "FAILED" => me.attempts >= MaxAttempts)
        /\ (status = "PENDING" => me.attempts < MaxAttempts)
    BY <2>3, ConstantsAssumption DEF ConstantsAssumption, Exhausted
  <2>7. status # "SENT"
    OBVIOUS
  <2> HIDE DEF l, status
  <2>5. SettledFrom(row[me.id], s, me) /\ s.status # "SENT"
    BY <1>0, <2>1, <2>4, <2>7 DEF SettledFrom, RowType
  <2> HIDE DEF s
  <2>6. UNCHANGED <<clock, event, notified, muted>>
    BY <1>5 DEF RecordFailure
  <2> QED
    BY <2>1, <2>2, <2>5, <2>6
<1>6. CASE StartBatch(w) \/ ReadRow(w) \/ Load(w) \/ CommitDuplicate(w) \/ Fail(w) \/ Crash(w)
  BY <1>6 DEF StartBatch, ReadRow, Load, CommitDuplicate, Fail, Crash
<1>7. UNCHANGED <<clock, event>>
  BY DEF Dispatch, StartBatch, Claim, ReadRow, Load, CommitCancel, CommitSend, CommitDuplicate,
         RecordFailure, Fail, Crash
<1>8. CommitCancel(w) => UNCHANGED <<notified, muted>> /\ me.pc # "ready"
  BY DEF CommitCancel
<1>9. CommitSend(w) => me.pc # "ready"
  BY DEF CommitSend, KeyFree
<1> HIDE DEF me
<1> QED
  BY <1>1, <1>3, <1>4, <1>5, <1>6, <1>7, <1>8, <1>9 DEF Dispatch, me

\* A row once created keeps what it is for, and its claims are never uncounted.
Keeps(r, s) ==
  r.status # "NONE" =>
    /\ s.status # "NONE" /\ s.attempts >= r.attempts
    /\ s.user = r.user /\ s.fireAt = r.fireAt /\ s.kind = r.kind
    /\ s.eventAt = r.eventAt /\ s.origin = r.origin

LEMMA RowsKept ==
  ASSUME TypeOK, [Next]_vars
  PROVE  \A i \in Ids : Keeps(row[i], row'[i])
<1> SUFFICES ASSUME NEW i \in Ids PROVE Keeps(row[i], row'[i])
  OBVIOUS
<1>0. row[i] \in RowType /\ row'[i] \in RowType
  BY NextType DEF TypeOK
<1>1. row'[i] = row[i] => Keeps(row[i], row'[i])
  BY <1>0 DEF Keeps, RowType
<1>2. \A s : CancelledFrom(row[i], s) => Keeps(row[i], s)
  BY <1>0 DEF Keeps, CancelledFrom, RowType
<1>3. \A s, o : CreatedFrom(row[i], s, o) => Keeps(row[i], s)
  BY DEF Keeps, CreatedFrom
<1>4. \A s, now : ClaimedFrom(row[i], s, now) => Keeps(row[i], s)
  BY <1>0 DEF Keeps, ClaimedFrom, RowType
<1>5. ASSUME NEW s, NEW me, SettledFrom(row[i], s, me)
      PROVE  Keeps(row[i], s)
  <2>1. PICK status \in {"PENDING", "SENT", "CANCELLED", "FAILED"}, l \in Nat :
          s = [row[i] EXCEPT !.status = status, !.lockedUntil = l]
    BY <1>5 DEF SettledFrom
  <2> QED
    BY <1>0, <2>1 DEF Keeps, RowType
<1>6. CASE Request
  BY <1>1, <1>2, <1>3, <1>6, RequestRows
<1>7. CASE Resync
  BY <1>1, <1>2, <1>3, <1>7, ResyncRows
<1>8. ASSUME NEW w \in Workers, Dispatch(w) \/ Fail(w) \/ Crash(w)
      PROVE  Keeps(row[i], row'[i])
  <2>1. CASE UNCHANGED row
    BY <1>1, <2>1
  <2>2. ASSUME NEW j \in worker[w].batch, NEW s, row' = [row EXCEPT ![j] = s],
               ClaimedFrom(row[j], s, worker[w].now)
        PROVE  Keeps(row[i], row'[i])
    BY <1>1, <1>4, <2>2 DEF TypeOK
  <2>3. ASSUME NEW s, row' = [row EXCEPT ![worker[w].id] = s],
               SettledFrom(row[worker[w].id], s, worker[w])
        PROVE  Keeps(row[i], row'[i])
    BY <1>1, <1>5, <2>3 DEF TypeOK
  <2> QED
    BY <1>8, <2>1, <2>2, <2>3, WorkerRows
<1>9. CASE Tick \/ UNCHANGED vars
  BY <1>1, <1>9 DEF Tick, vars
<1> QED
  BY <1>6, <1>7, <1>8, <1>9 DEF Next

\* The clock and the notification table only grow.
LEMMA OnlyGrows ==
  ASSUME TypeOK, [Next]_vars
  PROVE  clock' >= clock /\ \A i \in Ids : notified'[i] >= notified[i]
<1>0. clock \in Nat /\ notified \in [Ids -> Nat]
  BY DEF TypeOK
<1>1. CASE Request
  BY <1>0, <1>1, RequestRows
<1>2. CASE Resync
  BY <1>0, <1>2, ResyncRows
<1>3. ASSUME NEW w \in Workers, Dispatch(w) \/ Fail(w) \/ Crash(w)
      PROVE  clock' >= clock /\ \A i \in Ids : notified'[i] >= notified[i]
  <2>1. clock' = clock
    BY <1>3, WorkerRows
  <2>2. UNCHANGED notified \/ CommitSend(w)
    BY <1>3 DEF Dispatch, StartBatch, Claim, ReadRow, Load, CommitCancel, CommitDuplicate,
                RecordFailure, Fail, Crash
  <2>3. CommitSend(w) => UNCHANGED notified
                         \/ notified' = [notified EXCEPT ![worker[w].id] = notified[worker[w].id] + 1]
    BY DEF CommitSend, KeyFree
  <2> QED
    BY <1>0, <2>1, <2>2, <2>3
<1>4. CASE Tick \/ UNCHANGED vars
  BY <1>0, <1>4 DEF Tick, vars
<1> QED
  BY <1>1, <1>2, <1>3, <1>4 DEF Next

----------------------------------------------------------------------------
(* What a worker remembers is never ahead of the table *)

\* A step of others leaves a worker consistent.
LEMMA OthersKeepConsistent ==
  ASSUME TypeOK, HoldersConsistent, [Next]_vars, NEW w \in Workers, worker'[w] = worker[w]
  PROVE  Consistent(worker[w])'
<1>1. /\ \A i \in Ids : Keeps(row[i], row'[i]) /\ notified'[i] >= notified[i]
      /\ clock' >= clock
  BY RowsKept, OnlyGrows
<1>2. Consistent(worker[w]) /\ worker[w] \in WorkerType
      /\ (worker[w].pc # "ready" => worker[w].id \in Ids)
  BY DEF HoldersConsistent, TypeOK
<1>3. worker[w].batch \subseteq Ids /\ worker[w].now \in Nat /\ worker[w].attempts \in Nat
  BY <1>2 DEF WorkerType
<1>4. /\ \A i \in Ids : row[i].fireAt \in Int /\ row[i].attempts \in Nat /\ notified[i] \in Nat
      /\ \A i \in Ids : row'[i].attempts \in Nat /\ notified'[i] \in Nat
      /\ clock \in Nat /\ clock' \in Nat
  BY NextType DEF TypeOK, RowType
<1> DEFINE me == worker[w]
<1>5. (me.now <= clock)'
  BY <1>1, <1>2, <1>3, <1>4 DEF Consistent
<1>6. \A i \in me.batch : row'[i].status # "NONE" /\ row'[i].fireAt <= me.now
  BY <1>1, <1>2, <1>3 DEF Consistent, Keeps
<1>7. IF me.pc = "ready" THEN me.attempts = 0 /\ ~me.seen
      ELSE /\ row'[me.id].status # "NONE" /\ row'[me.id].fireAt <= me.now
           /\ row'[me.id].attempts >= 1 /\ row'[me.id].attempts >= me.attempts
           /\ me.seen => notified'[me.id] > 0
  <2>1. CASE me.pc = "ready"
    BY <1>2, <2>1 DEF Consistent
  <2>2. CASE me.pc # "ready"
    BY <1>1, <1>2, <1>3, <1>4, <2>2 DEF Consistent, Keeps
  <2> QED
    BY <2>1, <2>2
<1> QED
  BY <1>5, <1>6, <1>7 DEF Consistent

\* A worker that is done with a row keeps only the rest of its batch.
LEMMA NextItemConsistent ==
  ASSUME NEW me \in WorkerType, me.now <= clock', clock' \in Nat,
         \A i \in me.batch : row'[i].status # "NONE" /\ row'[i].fireAt <= me.now
  PROVE  Consistent(NextItem(me))'
BY DEF Consistent, NextItem, Idle, WorkerType

LEMMA HolderStep ==
  ASSUME TypeOK, HoldersConsistent, NEW w \in Workers, Dispatch(w) \/ Fail(w) \/ Crash(w)
  PROVE  \E n : worker' = [worker EXCEPT ![w] = n] /\ Consistent(n)'
<1> DEFINE me == worker[w]
<1>0. /\ me \in WorkerType /\ Consistent(me) /\ clock' = clock /\ clock \in Nat
      /\ worker \in [Workers -> WorkerType] /\ (me.pc # "ready" => me.id \in Ids)
  BY WorkerRows DEF HoldersConsistent, TypeOK
<1>1. me.batch \subseteq Ids /\ me.now <= clock /\ me.now \in Nat /\ me.attempts \in Nat
  BY <1>0 DEF Consistent, WorkerType
<1>2. [Next]_vars
  BY DEF Next
<1>3. /\ \A i \in Ids : Keeps(row[i], row'[i])
      /\ \A i \in Ids : notified'[i] >= notified[i] /\ notified'[i] \in Nat /\ notified[i] \in Nat
      /\ \A i \in Ids : row[i].fireAt \in Int /\ row[i].attempts \in Nat
                        /\ row'[i].fireAt \in Int /\ row'[i].attempts \in Nat
  BY <1>2, RowsKept, OnlyGrows, NextType DEF TypeOK, RowType
<1>4. \A i \in me.batch : row'[i].status # "NONE" /\ row'[i].fireAt <= me.now
  BY <1>0, <1>1, <1>3 DEF Consistent, Keeps
<1>5. me.pc # "ready" => /\ row'[me.id].status # "NONE" /\ row'[me.id].fireAt <= me.now
                         /\ row'[me.id].attempts >= 1 /\ row'[me.id].attempts >= me.attempts
                         /\ me.seen => notified'[me.id] > 0
  BY <1>0, <1>1, <1>3 DEF Consistent, Keeps
<1>6. ASSUME worker' = [worker EXCEPT ![w] = NextItem(me)]
      PROVE  \E n : worker' = [worker EXCEPT ![w] = n] /\ Consistent(n)'
  <2>1. PICK m \in WorkerType : m = me
    BY <1>0
  <2>2. Consistent(NextItem(m))'
    BY <1>0, <1>1, <1>4, <2>1, NextItemConsistent
  <2>3. worker' = [worker EXCEPT ![w] = NextItem(m)]
    BY <1>6, <2>1
  <2> QED
    BY <2>2, <2>3
<1>7. CASE StartBatch(w)
  <2>1. PICK b \in Batches(clock) : worker' = [worker EXCEPT ![w].now = clock, ![w].batch = b]
    BY <1>7 DEF StartBatch
  <2>2. \A i \in b : row'[i].status # "NONE" /\ row'[i].fireAt <= clock
    BY <1>7 DEF StartBatch, Batches, Due, Claimable, Live
  <2>3. PICK n : n = [Idle EXCEPT !.now = clock, !.batch = b]
    OBVIOUS
  <2>4. worker' = [worker EXCEPT ![w] = n]
    BY <1>7, <2>1, <2>3 DEF StartBatch
  <2>5. Consistent(n)'
    BY <1>0, <2>2, <2>3 DEF Consistent, Idle
  <2> QED
    BY <2>4, <2>5
<1>8. CASE Claim(w)
  <2>1. PICK i \in me.batch :
          LET rest == [me EXCEPT !.batch = @ \ {i}] IN
          IF Claimable(row[i], me.now)
          THEN /\ row' = [row EXCEPT ![i].status = "PROCESSING", ![i].attempts = @ + 1,
                                     ![i].lockedUntil = me.now + Lease]
               /\ worker' = [worker EXCEPT ![w] = [rest EXCEPT !.pc = "claimed", !.id = i]]
          ELSE /\ worker' = [worker EXCEPT ![w] = NextItem(rest)]
               /\ UNCHANGED row
    BY <1>8 DEF Claim
  <2>2. PICK rest \in WorkerType : rest = [me EXCEPT !.batch = me.batch \ {i}]
    BY <1>0, <1>1 DEF WorkerType
  <2>3. rest.batch \subseteq me.batch /\ rest.now = me.now /\ rest.attempts = 0 /\ ~rest.seen
    BY <1>0, <1>8, <2>2 DEF Claim, Consistent, WorkerType
  <2>4. CASE Claimable(row[i], me.now)
    <3>1. i \in Ids /\ row'[i].attempts = row[i].attempts + 1
      BY <1>1, <2>1, <2>4 DEF TypeOK, RowType
    <3>2. PICK n : n = [rest EXCEPT !.pc = "claimed", !.id = i]
      OBVIOUS
    <3>3. /\ n.batch = rest.batch /\ n.now = rest.now /\ n.attempts = 0 /\ ~n.seen
          /\ n.pc = "claimed" /\ n.id = i
      BY <2>2, <2>3, <3>2 DEF WorkerType
    <3>4. Consistent(n)'
      BY <1>0, <1>1, <1>3, <1>4, <2>3, <3>1, <3>3 DEF Consistent
    <3>5. worker' = [worker EXCEPT ![w] = n]
      BY <2>1, <2>2, <2>4, <3>2
    <3> QED
      BY <3>4, <3>5
  <2>5. CASE ~Claimable(row[i], me.now)
    <3>1. worker' = [worker EXCEPT ![w] = NextItem(rest)]
      BY <2>1, <2>2, <2>5
    <3>2. Consistent(NextItem(rest))'
      BY <1>0, <1>1, <1>4, <2>3, NextItemConsistent
    <3> QED
      BY <3>1, <3>2
  <2> QED
    BY <2>4, <2>5
<1>9. CASE ReadRow(w)
  <2>1. PICK n : n = [me EXCEPT !.pc = "read", !.attempts = row[me.id].attempts]
    OBVIOUS
  <2>2. worker' = [worker EXCEPT ![w] = n]
    BY <1>0, <1>9, <2>1 DEF ReadRow
  <2>3. me.pc = "claimed" /\ me.id \in Ids /\ row' = row
    BY <1>0, <1>9 DEF ReadRow
  <2>4. /\ n.pc = "read" /\ n.id = me.id /\ n.batch = me.batch /\ n.now = me.now
        /\ n.attempts = row[me.id].attempts /\ n.seen = me.seen
    BY <1>0, <2>1 DEF WorkerType
  <2>5. Consistent(n)'
    BY <1>0, <1>1, <1>3, <1>4, <1>5, <2>3, <2>4 DEF Consistent
  <2> QED
    BY <2>2, <2>5
<1>10. CASE Load(w)
  <2> DEFINE seen == Seen(me.id)
             go == event.active /\ ~(row[me.id].kind = "ESCALATION" /\ event.acked)
             reach == row[me.id].user \in staff
  <2>1. worker' = [worker EXCEPT ![w].pc = "loaded", ![w].go = go, ![w].seen = seen,
                                 ![w].reach = reach]
    BY <1>10 DEF Load
  <2> HIDE DEF seen, go, reach
  <2>2. PICK n : n = [me EXCEPT !.pc = "loaded", !.go = go, !.seen = seen, !.reach = reach]
    OBVIOUS
  <2>3. worker' = [worker EXCEPT ![w] = n]
    BY <1>0, <2>1, <2>2
  <2>4. me.pc = "read" /\ me.id \in Ids /\ row' = row /\ notified' = notified
    BY <1>0, <1>10 DEF Load
  <2>5. /\ n.pc = "loaded" /\ n.id = me.id /\ n.batch = me.batch /\ n.now = me.now
        /\ n.attempts = me.attempts /\ n.seen = seen
    BY <1>0, <2>2 DEF WorkerType
  <2>6. seen => notified[me.id] > 0
    BY DEF seen, Seen
  <2>7. Consistent(n)'
    BY <1>0, <1>1, <1>4, <1>5, <2>4, <2>5, <2>6 DEF Consistent
  <2> QED
    BY <2>3, <2>7
<1>11. CASE CommitCancel(w) \/ CommitSend(w) \/ RecordFailure(w)
  BY <1>6, <1>11 DEF CommitCancel, CommitSend, RecordFailure, Finish
<1>12. CASE CommitDuplicate(w) \/ Fail(w)
  <2>1. PICK n : n = [me EXCEPT !.pc = "failed"]
    OBVIOUS
  <2>2. worker' = [worker EXCEPT ![w] = n] /\ me.pc \in {"read", "loaded"}
    BY <1>0, <1>12, <2>1 DEF CommitDuplicate, Fail
  <2>3. /\ n.pc = "failed" /\ n.id = me.id /\ n.batch = me.batch /\ n.now = me.now
        /\ n.attempts = me.attempts /\ n.seen = me.seen
    BY <1>0, <2>1 DEF WorkerType
  <2>4. Consistent(n)'
    BY <1>0, <1>1, <1>4, <1>5, <2>2, <2>3 DEF Consistent
  <2> QED
    BY <2>2, <2>4
<1>13. CASE Crash(w)
  <2>1. Consistent(Idle)'
    BY <1>0 DEF Consistent, Idle
  <2> QED
    BY <1>13, <2>1 DEF Crash
<1> QED
  BY <1>7, <1>8, <1>9, <1>10, <1>11, <1>12, <1>13 DEF Dispatch

LEMMA HoldersStep ==
  ASSUME TypeOK, HoldersConsistent, [Next]_vars
  PROVE  HoldersConsistent'
<1>1. CASE UNCHANGED worker
  BY <1>1, OthersKeepConsistent DEF HoldersConsistent
<1>2. ASSUME NEW w \in Workers, Dispatch(w) \/ Fail(w) \/ Crash(w), NEW v \in Workers
      PROVE  Consistent(worker[v])'
  <2>1. PICK n : worker' = [worker EXCEPT ![w] = n] /\ Consistent(n)'
    BY <1>2, HolderStep
  <2>2. CASE v = w
    <3>1. worker'[v] = n
      BY <2>1, <2>2 DEF TypeOK
    <3> QED
      BY <2>1, <3>1
  <2>3. CASE v # w
    <3>1. worker'[v] = worker[v]
      BY <2>1, <2>3 DEF TypeOK
    <3> QED
      BY <1>2, <3>1, OthersKeepConsistent DEF Next
  <2> QED
    BY <2>2, <2>3
<1>3. Tick \/ Request \/ Resync \/ UNCHANGED vars => UNCHANGED worker
  BY RequestRows, ResyncRows DEF Tick, vars
<1> QED
  BY <1>1, <1>2, <1>3 DEF Next, HoldersConsistent

----------------------------------------------------------------------------
(* The safety invariants and their inductive strengthening *)

\* A row that does not exist yet was never told about.
UnusedUntold == \A i \in Ids : row[i].status = "NONE" => notified[i] = 0

\* SentMeansNotified needs to know what a worker saw, FailedMeansExhausted and
\* UnclaimedFollowsEvent that its claim was counted, LockBounded that its
\* batch is not in the future: all of that is HoldersConsistent.
IInv ==
  /\ TypeOK /\ HoldersConsistent /\ UnusedUntold
  /\ NotifiedOnce /\ SentMeansNotified /\ FailedMeansExhausted
  /\ LockBounded /\ UnclaimedFollowsEvent

LEMMA InitIInv == Init => IInv
<1> SUFFICES ASSUME Init PROVE IInv
  OBVIOUS
<1>1. TypeOK
  BY InitType
<1>2. \A w \in Workers : Consistent(worker[w])
  BY DEF Init, Consistent, Idle
<1>3. \A i \in Ids : row[i].status = "NONE" /\ row[i].lockedUntil = 0 /\ notified[i] = 0
  BY DEF Init, NoRow
<1> QED
  BY <1>1, <1>2, <1>3, ConstantsAssumption DEF IInv, HoldersConsistent, UnusedUntold, NotifiedOnce,
       SentMeansNotified, FailedMeansExhausted, LockBounded, UnclaimedFollowsEvent, Init,
       ConstantsAssumption

\* A send adds at most one notification, to the user of the row it holds, and
\* leaves that user told or recorded as out of reach.
LEMMA SendTells ==
  ASSUME IInv, NEW w \in Workers, CommitSend(w)
  PROVE  /\ worker[w].id \in Ids /\ row[worker[w].id].status # "NONE"
         /\ muted \subseteq muted'
         /\ \/ notified' = notified
            \/ /\ notified[worker[w].id] = 0
               /\ notified' = [notified EXCEPT ![worker[w].id] = 1]
         /\ notified'[worker[w].id] > 0 \/ worker[w].id \in muted'
<1>0. notified \in [Ids -> Nat]
  BY DEF IInv, TypeOK
<1>1. worker[w].pc = "loaded" /\ worker[w].id \in Ids /\ Consistent(worker[w])
  BY DEF CommitSend, IInv, TypeOK, HoldersConsistent
<1>2. row[worker[w].id].status # "NONE" /\ (worker[w].seen => notified[worker[w].id] > 0)
  BY <1>1 DEF Consistent
<1>3. CASE worker[w].reach /\ ~worker[w].seen
  <2>1. notified[worker[w].id] = 0
    BY <1>3 DEF CommitSend, KeyFree
  <2>2. notified' = [notified EXCEPT ![worker[w].id] = notified[worker[w].id] + 1]
    BY <1>3 DEF CommitSend, KeyFree
  <2>3. muted' = muted
    BY <1>3 DEF CommitSend, KeyFree
  <2> QED
    BY <1>0, <1>1, <1>2, <2>1, <2>2, <2>3
<1>4. CASE worker[w].seen
  <2>1. notified' = notified /\ muted' = muted
    BY <1>4 DEF CommitSend, KeyFree
  <2> QED
    BY <1>1, <1>2, <1>4, <2>1
<1>5. CASE ~worker[w].reach /\ ~worker[w].seen
  <2>1. notified' = notified /\ muted' = muted \cup {worker[w].id}
    BY <1>5 DEF CommitSend, KeyFree
  <2> QED
    BY <1>1, <1>2, <2>1
<1> QED
  BY <1>1, <1>2, <1>3, <1>4, <1>5

\* Only CommitSend tells anybody.
LEMMA Telling ==
  ASSUME IInv, [Next]_vars
  PROVE  UNCHANGED <<notified, muted>> \/ \E w \in Workers : CommitSend(w)
<1>1. CASE Tick \/ Request \/ Resync \/ UNCHANGED vars
  BY <1>1, RequestRows, ResyncRows DEF IInv, Tick, ResyncCancel, vars
<1>2. ASSUME NEW w \in Workers, Dispatch(w) \/ Fail(w) \/ Crash(w), ~CommitSend(w)
      PROVE  UNCHANGED <<notified, muted>>
  BY <1>2 DEF Dispatch, StartBatch, Claim, ReadRow, Load, CommitCancel, CommitDuplicate,
              RecordFailure, Fail, Crash
<1> QED
  BY <1>1, <1>2 DEF Next

LEMMA OnceStep ==
  ASSUME IInv, [Next]_vars
  PROVE  NotifiedOnce'
<1>1. \A i \in Ids : notified[i] <= 1 /\ notified \in [Ids -> Nat]
  BY DEF IInv, NotifiedOnce, TypeOK
<1> QED
  BY <1>1, Telling, SendTells DEF NotifiedOnce

LEMMA UnusedStep ==
  ASSUME IInv, [Next]_vars
  PROVE  UnusedUntold'
<1> SUFFICES ASSUME NEW i \in Ids, row'[i].status = "NONE" PROVE notified'[i] = 0
  BY DEF UnusedUntold
<1>1. row[i].status = "NONE" /\ notified[i] = 0
  BY RowsKept DEF IInv, Keeps, UnusedUntold
<1> QED
  BY <1>1, Telling, SendTells DEF IInv, TypeOK

\* How one row may change in one step.
LEMMA RowMoves ==
  ASSUME IInv, [Next]_vars, NEW i \in Ids
  PROVE  \/ row'[i] = row[i]
         \/ CancelledFrom(row[i], row'[i])
         \/ \E o : CreatedFrom(row[i], row'[i], o)
         \/ \E now \in Nat : ClaimedFrom(row[i], row'[i], now) /\ now <= clock
         \/ \E w \in Workers : /\ worker[w].pc # "ready" /\ worker[w].id = i
                               /\ SettledFrom(row[i], row'[i], worker[w])
                               /\ row'[i].status = "SENT" => CommitSend(w)
<1>0. row \in [Ids -> RowType]
  BY DEF IInv, TypeOK
<1>1. CASE Tick \/ UNCHANGED vars
  BY <1>1 DEF Tick, vars
<1>2. CASE Request
  BY <1>2, RequestRows DEF IInv
<1>3. CASE Resync
  BY <1>3, ResyncRows DEF IInv
<1>4. ASSUME NEW w \in Workers, Dispatch(w) \/ Fail(w) \/ Crash(w), row'[i] # row[i]
      PROVE  \/ \E now \in Nat : ClaimedFrom(row[i], row'[i], now) /\ now <= clock
             \/ /\ worker[w].pc # "ready" /\ worker[w].id = i
                /\ SettledFrom(row[i], row'[i], worker[w])
                /\ row'[i].status = "SENT" => CommitSend(w)
  <2>1. worker[w].now \in Nat /\ worker[w].now <= clock
    BY DEF IInv, HoldersConsistent, Consistent, TypeOK, WorkerType
  <2>2. ASSUME NEW j \in worker[w].batch, NEW s, row' = [row EXCEPT ![j] = s],
               ClaimedFrom(row[j], s, worker[w].now)
        PROVE  ClaimedFrom(row[i], row'[i], worker[w].now)
    BY <1>0, <1>4, <2>2
  <2>3. ASSUME NEW s, row' = [row EXCEPT ![worker[w].id] = s],
               SettledFrom(row[worker[w].id], s, worker[w]),
               s.status = "SENT" => CommitSend(w)
        PROVE  worker[w].id = i /\ SettledFrom(row[i], row'[i], worker[w])
               /\ (row'[i].status = "SENT" => CommitSend(w))
    BY <1>0, <1>4, <2>3
  <2> QED
    BY <1>4, <2>1, <2>2, <2>3, WorkerRows DEF IInv
<1> QED
  BY <1>1, <1>2, <1>3, <1>4 DEF Next

LEMMA SentStep ==
  ASSUME IInv, [Next]_vars
  PROVE  SentMeansNotified'
<1> SUFFICES ASSUME NEW i \in Ids, row'[i].status = "SENT"
             PROVE  notified'[i] = 1 \/ i \in muted'
  BY DEF SentMeansNotified
<1>0. notified[i] \in Nat /\ notified'[i] \in Nat /\ notified'[i] <= 1 /\ row[i] \in RowType
      /\ notified \in [Ids -> Nat]
  BY OnceStep, NextType DEF IInv, TypeOK, NotifiedOnce
<1>1. ASSUME row[i].status = "SENT" PROVE notified'[i] = 1 \/ i \in muted'
  <2>1. notified[i] = 1 \/ i \in muted
    BY <1>1 DEF IInv, SentMeansNotified
  <2>2. notified'[i] >= notified[i]
    BY OnlyGrows DEF IInv
  <2>3. muted \subseteq muted'
    BY Telling, SendTells
  <2> QED
    BY <1>0, <2>1, <2>2, <2>3
<1>2. ASSUME NEW w \in Workers, CommitSend(w), worker[w].id = i
      PROVE  notified'[i] = 1 \/ i \in muted'
  <2>1. notified'[i] > 0 \/ i \in muted'
    BY <1>2, SendTells DEF IInv
  <2> QED
    BY <1>0, <2>1
<1>3. \/ row[i].status = "SENT"
      \/ \E w \in Workers : CommitSend(w) /\ worker[w].id = i
  BY <1>0, RowMoves DEF CancelledFrom, CreatedFrom, ClaimedFrom, RowType
<1> QED
  BY <1>1, <1>2, <1>3

LEMMA FailedStep ==
  ASSUME IInv, [Next]_vars
  PROVE  FailedMeansExhausted'
<1> SUFFICES ASSUME NEW i \in Ids, row'[i].status = "FAILED"
             PROVE  row'[i].attempts >= MaxAttempts
  BY DEF FailedMeansExhausted
<1>0. row[i] \in RowType /\ row'[i] \in RowType /\ MaxAttempts \in Nat
  BY NextType, ConstantsAssumption DEF IInv, TypeOK, ConstantsAssumption
<1>1. CASE row'[i] = row[i]
  BY <1>1 DEF IInv, FailedMeansExhausted
<1>2. ASSUME NEW w \in Workers, worker[w].pc # "ready", worker[w].id = i,
             SettledFrom(row[i], row'[i], worker[w])
      PROVE  row'[i].attempts >= MaxAttempts
  <2>1. row[i].attempts >= worker[w].attempts /\ worker[w].attempts \in Nat
    BY <1>2 DEF IInv, HoldersConsistent, Consistent, TypeOK, WorkerType
  <2>2. worker[w].attempts >= MaxAttempts /\ row'[i].attempts = row[i].attempts
    BY <1>0, <1>2 DEF SettledFrom, RowType
  <2> QED
    BY <1>0, <2>1, <2>2 DEF RowType
<1>3. \/ row'[i] = row[i]
      \/ \E w \in Workers : /\ worker[w].pc # "ready" /\ worker[w].id = i
                            /\ SettledFrom(row[i], row'[i], worker[w])
  BY <1>0, RowMoves DEF CancelledFrom, CreatedFrom, ClaimedFrom, RowType
<1> QED
  BY <1>1, <1>2, <1>3

LEMMA LockStep ==
  ASSUME IInv, [Next]_vars
  PROVE  LockBounded'
<1> SUFFICES ASSUME NEW i \in Ids
             PROVE  row'[i].lockedUntil <= clock' + Lease
                    \/ row'[i].lockedUntil <= clock' + BackoffCap
  BY DEF LockBounded
<1>0. /\ row[i] \in RowType /\ row'[i] \in RowType
      /\ Lease \in Nat /\ BackoffCap \in Nat
      /\ clock \in Nat /\ clock' \in Nat /\ clock' >= clock
  BY NextType, OnlyGrows, ConstantsAssumption DEF IInv, TypeOK, ConstantsAssumption
<1>1. CASE row'[i].lockedUntil = row[i].lockedUntil
  <2>1. row[i].lockedUntil <= clock + Lease \/ row[i].lockedUntil <= clock + BackoffCap
    BY DEF IInv, LockBounded
  <2> QED
    BY <1>0, <1>1, <2>1 DEF RowType
<1>2. CASE row'[i].lockedUntil = 0
  <2>1. \A c \in Nat : 0 <= c + Lease
    BY <1>0
  <2> QED
    BY <1>0, <1>2, <2>1
<1>3. ASSUME NEW now \in Nat, ClaimedFrom(row[i], row'[i], now), now <= clock
      PROVE  row'[i].lockedUntil <= clock' + Lease
  <2>1. row'[i].lockedUntil = now + Lease
    BY <1>0, <1>3 DEF ClaimedFrom, RowType
  <2> QED
    <3>1. \A c \in Nat : c >= clock => now + Lease <= c + Lease
      BY <1>0, <1>3
    <3> QED
      BY <1>0, <2>1, <3>1
<1>4. ASSUME NEW w \in Workers, SettledFrom(row[i], row'[i], worker[w])
      PROVE  row'[i].lockedUntil = 0 \/ row'[i].lockedUntil <= clock' + BackoffCap
  <2>1. worker[w].now \in Nat /\ worker[w].now <= clock
    BY DEF IInv, HoldersConsistent, Consistent, TypeOK, WorkerType
  <2>2. row'[i].lockedUntil = 0 \/ row'[i].lockedUntil <= worker[w].now + BackoffCap
    BY <1>0, <1>4 DEF SettledFrom, RowType
  <2> QED
    BY <1>0, <2>1, <2>2 DEF RowType
<1>5. (\E o : CreatedFrom(row[i], row'[i], o)) => row'[i].lockedUntil = 0
  BY DEF CreatedFrom
<1>6. CancelledFrom(row[i], row'[i]) => row'[i].lockedUntil = row[i].lockedUntil
  BY <1>0 DEF CancelledFrom, RowType
<1> QED
  BY <1>1, <1>2, <1>3, <1>4, <1>5, <1>6, RowMoves

\* What is PENDING, unclaimed and made by a request after a request, that request
\* made, or left alone together with the people it is for.
LEMMA RequestUnclaimed ==
  ASSUME TypeOK, UnclaimedFollowsEvent, Request
  PROVE  UnclaimedFollowsEvent'
<1> SUFFICES ASSUME gap' # "overtaken", NEW i \in Ids,
                    row'[i].status = "PENDING", row'[i].attempts = 0, row'[i].origin = "tx"
             PROVE  /\ event'.active /\ row'[i].eventAt = event'.at
                    /\ row'[i].user \in {event'.lawyer, event'.lead, event'.owner}
  BY DEF UnclaimedFollowsEvent
<1> DEFINE Goal == /\ event'.active /\ row'[i].eventAt = event'.at
                   /\ row'[i].user \in {event'.lawyer, event'.lead, event'.owner}
<1>0. event \in EventType
  BY DEF TypeOK
<1>1. row'[i] = row[i] /\ gap # "overtaken" =>
        /\ event.active /\ row'[i].eventAt = event.at
        /\ row'[i].user \in {event.lawyer, event.lead, event.owner}
  BY DEF UnclaimedFollowsEvent
<1>2. ASSUME event' \in EventType, Rebuilds
      PROVE  Goal
  <2>1. PICK ev \in EventType : Sync(ev) /\ SameSubject(ev, event')
    BY <1>2 DEF Rebuilds
  <2>2. /\ ev.at = event'.at /\ ev.active = event'.active /\ ev.lawyer = event'.lawyer
        /\ ev.lead = event'.lead /\ ev.owner = event'.owner
    BY <1>2, <2>1, SameFields
  <2>3. ev.active /\ row'[i].eventAt = ev.at /\ row'[i].user \in {ev.lawyer, ev.lead, ev.owner}
    BY <2>1, SyncRows
  <2> QED
    BY <2>2, <2>3
<1>3. row' # Cancelled(row)
  BY CancelledFroms DEF TypeOK
<1>4. ASSUME NEW c \in Clerks, Opening(c) PROVE Goal
  <2>1. event' = event /\ row' = row /\ gap' = gap
    BY <1>4 DEF Opening, Begin, Open
  <2> QED
    BY <1>1, <2>1
<1>5. ASSUME NEW c \in Clerks, WriteSave(c) PROVE Goal
  BY <1>2, <1>5, SaveRebuilds
<1>6. ASSUME NEW c \in Clerks, WriteMatter(c) PROVE Goal
  <2>1. /\ event' \in EventType
        /\ event'.at = event.at /\ event'.active = event.active
        /\ event'.lawyer = event.lawyer /\ event'.owner = event.owner
        /\ Rebuilds \/ (row' = row /\ gap' = IF event'.lead = event.lead THEN gap ELSE "overtaken")
    BY <1>3, <1>6, MatterWrites
  <2> QED
    BY <1>1, <1>2, <2>1
<1>7. ASSUME NEW c \in Clerks, WriteOffboard(c) PROVE Goal
  <2>1. gap # "overtaken"
    BY <1>7 DEF WriteOffboard
  <2>2. /\ event'.at = event.at /\ event'.active = event.active
        /\ \A u \in {event.lawyer, event.lead, event.owner} :
             u = request[c].from \/ u \in {event'.lawyer, event'.lead, event'.owner}
        /\ row'[i] = row[i] /\ row[i].user # request[c].from
    BY <1>7, OffboardWrites
  <2> QED
    BY <1>1, <2>1, <2>2
<1>8. ASSUME PrepareHearing \/ AcknowledgeHearing PROVE Goal
  <2>1. row' = row /\ gap # "overtaken"
    BY <1>8 DEF PrepareHearing, AcknowledgeHearing
  <2>2. /\ event'.at = event.at /\ (event.active => event'.active) /\ event'.lawyer = event.lawyer
        /\ event'.lead = event.lead /\ event'.owner = event.owner
    BY <1>0, <1>8 DEF PrepareHearing, AcknowledgeHearing, EventType
  <2> QED
    BY <1>1, <2>1, <2>2
<1>9. ASSUME NEW u \in Users, SetUserStatus(u) PROVE Goal
  <2>1. event' = event /\ row' = row /\ gap' = gap
    BY <1>9 DEF SetUserStatus
  <2> QED
    BY <1>1, <2>1
<1> QED
  BY <1>3, <1>4, <1>5, <1>6, <1>7, <1>8, <1>9, RequestCases DEF ReportHearing

\* The settings screen cancels what is PENDING; what it makes is its own.
LEMMA ResyncUnclaimed ==
  ASSUME TypeOK, UnclaimedFollowsEvent, Resync
  PROVE  UnclaimedFollowsEvent'
<1> SUFFICES ASSUME gap' # "overtaken", NEW i \in Ids,
                    row'[i].status = "PENDING", row'[i].attempts = 0, row'[i].origin = "tx"
             PROVE  gap # "overtaken" /\ row'[i] = row[i] /\ event' = event
  BY DEF UnclaimedFollowsEvent
<1>1. row[i] \in RowType /\ row' # Cancelled(row)
  BY CancelledFroms DEF TypeOK
<1>2. ~CancelledFrom(row[i], row'[i])
  BY <1>1 DEF CancelledFrom, RowType
<1>3. row'[i] = row[i] /\ event' = event
  BY <1>2, ResyncRows DEF CreatedFrom
<1>4. gap # "overtaken"
  BY <1>1 DEF Resync, ResyncCancel, ResyncLoad, ResyncCreate, ResyncCrash
<1> QED
  BY <1>3, <1>4

LEMMA UnclaimedStep ==
  ASSUME IInv, [Next]_vars
  PROVE  UnclaimedFollowsEvent'
<1>1. CASE Request
  BY <1>1, RequestUnclaimed DEF IInv
<1>2. CASE Resync
  BY <1>2, ResyncUnclaimed DEF IInv
<1>3. ASSUME NEW w \in Workers, Dispatch(w) \/ Fail(w) \/ Crash(w)
      PROVE  UnclaimedFollowsEvent'
  <2> SUFFICES ASSUME NEW i \in Ids, row'[i].status = "PENDING", row'[i].attempts = 0
               PROVE  row'[i] = row[i] /\ event' = event /\ gap' = gap
    BY DEF IInv, UnclaimedFollowsEvent
  <2>0. row[i] \in RowType /\ row \in [Ids -> RowType]
    BY DEF IInv, TypeOK
  <2>1. ASSUME NEW j \in worker[w].batch, NEW s, row' = [row EXCEPT ![j] = s],
               ClaimedFrom(row[j], s, worker[w].now)
        PROVE  row'[i] = row[i]
    <3>1. j = i => row'[i].status = "PROCESSING"
      BY <2>0, <2>1 DEF ClaimedFrom, RowType
    <3> QED
      BY <2>0, <2>1, <3>1
  <2>2. ASSUME NEW s, worker[w].pc # "ready", row' = [row EXCEPT ![worker[w].id] = s],
               SettledFrom(row[worker[w].id], s, worker[w])
        PROVE  row'[i] = row[i]
    <3>1. ASSUME worker[w].id = i PROVE FALSE
      <4>1. row[i].attempts >= 1
        BY <2>2, <3>1 DEF IInv, HoldersConsistent, Consistent
      <4>2. row'[i].attempts = row[i].attempts
        BY <2>0, <2>2, <3>1 DEF SettledFrom, RowType
      <4> QED
        BY <1>3, <4>1, <4>2
    <3> QED
      BY <2>0, <2>2, <3>1
  <2>3. gap' = gap
    BY <1>3 DEF Dispatch, StartBatch, Claim, ReadRow, Load, CommitCancel, CommitSend, CommitDuplicate,
                RecordFailure, Fail, Crash
  <2> QED
    BY <1>3, <2>1, <2>2, <2>3, WorkerRows DEF IInv
<1>4. CASE Tick \/ UNCHANGED vars
  BY <1>4 DEF Tick, vars, IInv, UnclaimedFollowsEvent
<1> QED
  BY <1>1, <1>2, <1>3, <1>4 DEF Next

LEMMA NextIInv == IInv /\ [Next]_vars => IInv'
BY NextType, HoldersStep, UnusedStep, OnceStep, SentStep, FailedStep, LockStep, UnclaimedStep
   DEF IInv

\* The strengthened invariant holds in every reachable state: every request, resync,
\* worker step, failure and crash keeps it (reminders.ts:92-204).
THEOREM Invariance == Spec => []IInv
BY InitIInv, NextIInv, PTL DEF Spec

\* However many workers, leases, retries and crashes, no user has two
\* notifications for one reminder.
THEOREM ToldOnce == Spec => []NotifiedOnce
<1>1. IInv => NotifiedOnce
  BY DEF IInv
<1> QED
  BY <1>1, Invariance, PTL

\* A reminder is marked SENT only for a user who has the notification or was
\* not an ACTIVE user when the sender looked.
THEOREM SentIsTold == Spec => []SentMeansNotified
<1>1. IInv => SentMeansNotified
  BY DEF IInv
<1> QED
  BY <1>1, Invariance, PTL

\* No reminder is given up before MAX_ATTEMPTS claims were counted.
THEOREM FailedIsExhausted == Spec => []FailedMeansExhausted
<1>1. IInv => FailedMeansExhausted
  BY DEF IInv
<1> QED
  BY <1>1, Invariance, PTL

\* No lock outlives the present by more than a lease or the backoff cap.
THEOREM LocksExpire == Spec => []LockBounded
<1>1. IInv => LockBounded
  BY DEF IInv
<1> QED
  BY <1>1, Invariance, PTL

\* An unclaimed reminder made by a request is for the hearing as it is now and for
\* one of its people, unless the request that made it, or the last to change the
\* lead lawyer, was overtaken between its reads and its writes.
THEOREM UnclaimedIsCurrent == Spec => []UnclaimedFollowsEvent
<1>1. IInv => UnclaimedFollowsEvent
  BY DEF IInv
<1> QED
  BY <1>1, Invariance, PTL

\* Whatever a worker remembers of a row, the table is at least as far.
THEOREM HoldersAreConsistent == Spec => []HoldersConsistent
<1>1. IInv => HoldersConsistent
  BY DEF IInv
<1> QED
  BY <1>1, Invariance, PTL

----------------------------------------------------------------------------
(* The engine implements the abstract contract, liveness apart *)

\* A row that does not exist is only ever created, PENDING.
LEMMA AbsentMoves ==
  ASSUME IInv, [Next]_vars, NEW i \in Ids, row[i].status = "NONE"
  PROVE  row'[i].status \in {"NONE", "PENDING"} /\ notified'[i] = 0
<1>1. row'[i].status \in {"NONE", "PENDING"}
  <2>1. ASSUME NEW w \in Workers, worker[w].pc # "ready", worker[w].id = i PROVE FALSE
    BY <2>1 DEF IInv, HoldersConsistent, Consistent
  <2> QED
    BY <2>1, RowMoves DEF CancelledFrom, CreatedFrom, ClaimedFrom, Live
<1>2. notified[i] = 0 /\ notified \in [Ids -> Nat]
  BY DEF IInv, UnusedUntold, TypeOK
<1>3. notified'[i] = 0
  BY <1>2, Telling, SendTells
<1> QED
  BY <1>1, <1>3

LEMMA OutcomeMoves ==
  ASSUME IInv, [Next]_vars, NEW i \in Ids, OutcomeOf(i)' # OutcomeOf(i)
  PROVE  <<OutcomeOf(i), OutcomeOf(i)'>> \in Contract!Moves
<1>1. notified[i] \in Nat /\ notified'[i] \in Nat /\ notified'[i] >= notified[i]
  BY OnlyGrows, NextType DEF IInv, TypeOK
<1>2. row[i].status # "NONE" => row'[i].status # "NONE"
  BY RowsKept DEF IInv, Keeps
<1>3. row[i].status = "NONE" =>
        notified[i] = 0 /\ row'[i].status \in {"NONE", "PENDING"} /\ notified'[i] = 0
  BY AbsentMoves DEF IInv, UnusedUntold
<1>4. CASE notified[i] > 0
  BY <1>1, <1>4 DEF OutcomeOf
<1>5. CASE row[i].status = "NONE"
  BY <1>3, <1>5 DEF OutcomeOf, Live, Contract!Moves
<1>6. CASE notified[i] = 0 /\ row[i].status # "NONE"
  BY <1>1, <1>2, <1>6 DEF OutcomeOf, Live, Contract!Moves
<1> QED
  BY <1>1, <1>4, <1>5, <1>6

\* Every behaviour of requests, workers, failures and crashes is, seen through
\* OutcomeOf, a behaviour the contract allows.
THEOREM RefinesContract == Spec => ImplementsContractSafely
<1> DEFINE out == [i \in Ids |-> OutcomeOf(i)]
<1>1. Init => Contract!Init
  <2>1. Init => \A i \in Ids : OutcomeOf(i) = "absent"
    BY DEF Init, NoRow, OutcomeOf
  <2> QED
    BY <2>1 DEF Contract!Init
<1>2. IInv /\ [Next]_vars => [Contract!Next]_out
  <2> SUFFICES ASSUME IInv, [Next]_vars PROVE Contract!Next
    OBVIOUS
  <2>1. out' \in [Ids -> {"absent", "open", "closed", "told"}]
    BY DEF OutcomeOf
  <2>2. \A i \in Ids : out'[i] # out[i] => <<out[i], out'[i]>> \in Contract!Moves
    BY OutcomeMoves
  <2>3. ASSUME NEW i \in Ids, NEW j \in Ids, out'[i] = "told", out[i] # "told",
               out'[j] = "told", out[j] # "told"
        PROVE  i = j
    <3>1. notified[i] = 0 /\ notified'[i] > 0 /\ notified[j] = 0 /\ notified'[j] > 0
      BY <2>3, NextType DEF OutcomeOf, IInv, TypeOK
    <3>2. PICK w \in Workers : CommitSend(w)
      BY <3>1, Telling
    <3> QED
      BY <3>1, <3>2, SendTells DEF IInv, TypeOK
  <2> QED
    BY <2>1, <2>2, <2>3 DEF Contract!Next
<1> QED
  BY <1>1, <1>2, Invariance, PTL DEF Spec, ImplementsContractSafely, Contract!Safety

----------------------------------------------------------------------------
(* Coverage: what is to come has its row *)

\* What the policy asks for, whenever it is: Wanted but for the clock.
Asked(ev) ==
  IF ~ev.active THEN {}
  ELSE [user : Recipients(ev), fireAt : {ev.at - o : o \in Offsets}, kind : {"REMINDER"}]
       \cup {s \in [user : {ev.owner}, fireAt : {ev.at - EscalateBefore}, kind : {"ESCALATION"}] : EscalateBefore > 0}

\* Of what is still to come, syncReminders creates all that is asked for.
LEMMA AskedIsWanted ==
  ASSUME NEW ev \in EventType, NEW now \in Nat, NEW s
  PROVE  s \in Wanted(ev, now) /\ s.fireAt > now <=> s \in Asked(ev) /\ ev.at > now /\ s.fireAt > now
<1>1. ev.at \in Nat /\ ev.at - EscalateBefore \in Int /\ \A o \in Offsets : ev.at - o \in Int
  BY ConstantsAssumption DEF EventType, ConstantsAssumption
<1> DEFINE times  == {ev.at - o : o \in Offsets}
           future == {t \in times : t > now}
<1>2. \A t : t > now /\ t \in Schedule(ev.at, now) <=> t \in future
  <2>1. \A t \in future : t \in Int /\ t > now
    BY <1>1
  <2>2. Schedule(ev.at, now) = (IF future # {} THEN future ELSE IF Offsets # {} /\ ev.at > now THEN {now} ELSE {})
    BY DEF Schedule
  <2> HIDE DEF future
  <2>3. ~(now > now)
    OBVIOUS
  <2> QED
    BY <2>1, <2>2, <2>3
<1> DEFINE people == Recipients(ev)
           Reminder(S)   == [user : people, fireAt : S, kind : {"REMINDER"}]
           Escalation    == [user : {ev.owner}, fireAt : {ev.at - EscalateBefore}, kind : {"ESCALATION"}]
<1>3. s \in Reminder(Schedule(ev.at, now)) /\ s.fireAt > now <=> s \in Reminder(times) /\ s.fireAt > now
  <2>1. s \in Reminder(Schedule(ev.at, now)) /\ s.fireAt > now <=> s \in Reminder(future)
    <3> HIDE DEF future, people
    <3> QED
      BY <1>2
  <2>2. s \in Reminder(times) /\ s.fireAt > now <=> s \in Reminder(future)
    <3> HIDE DEF times, people
    <3> QED
      OBVIOUS
  <2> QED
    BY <2>1, <2>2
<1>4. s \in Wanted(ev, now) <=> /\ ev.active /\ ev.at > now
                               /\ \/ s \in Reminder(Schedule(ev.at, now))
                                  \/ s \in Escalation /\ EscalateBefore > 0 /\ s.fireAt > now
  BY <1>1 DEF Wanted
<1>5. s \in Asked(ev) <=> ev.active /\ (s \in Reminder(times) \/ (s \in Escalation /\ EscalateBefore > 0))
  BY DEF Asked
<1> HIDE DEF Reminder, Escalation, times
<1> QED
  BY <1>3, <1>4, <1>5

\* Who is reminded of the hearing is one of its people.
LEMMA AskedPeople ==
  ASSUME NEW ev, NEW s \in Asked(ev)
  PROVE  ev.active /\ s.user \in {ev.lawyer, ev.lead, ev.owner}
BY DEF Asked, Recipients

\* As the clock advances there is only less to come, and the reminders there are for it stay.
LEMMA CoverageStays ==
  ASSUME TypeOK, UpcomingCovered, gap = "none",
         event' \in EventType, event'.at = event.at, event'.active = event.active,
         event'.lawyer = event.lawyer, event'.lead = event.lead, event'.owner = event.owner,
         clock' \in Nat, clock' >= clock,
         \A i \in Ids : /\ row[i].status = "PENDING" /\ row[i].fireAt > clock
                        /\ row[i].user \in {event.lawyer, event.lead, event.owner}
                        => row'[i] = row[i]
  PROVE  UpcomingCovered'
<1> SUFFICES ASSUME NEW s \in Upcoming'
             PROVE  Scheduled(s)'
  BY DEF UpcomingCovered
<1>1. event \in EventType /\ clock \in Nat
  BY DEF TypeOK
<1>2. s \in Wanted(event', clock') /\ s.fireAt > clock'
  BY DEF Upcoming
<1>3. s \in Asked(event') /\ event'.at > clock'
  BY <1>2, AskedIsWanted
<1>4. Asked(event') = Asked(event)
  BY DEF Asked, Recipients
<1>5. s.fireAt \in Int
  BY <1>2, WantedType DEF SpecType
<1>6. s.fireAt > clock /\ event.at > clock
  BY <1>1, <1>2, <1>3, <1>5 DEF EventType
<1>7. s \in Upcoming
  BY <1>1, <1>3, <1>4, <1>6, AskedIsWanted DEF Upcoming
<1>8. PICK i \in Ids : /\ row[i].status = "PENDING" /\ row[i].eventAt = event.at
                      /\ row[i].user = s.user /\ row[i].fireAt = s.fireAt /\ row[i].kind = s.kind
  BY <1>7 DEF UpcomingCovered, Scheduled
<1>9. row'[i] = row[i]
  BY <1>3, <1>4, <1>6, <1>8, AskedPeople
<1> QED
  BY <1>8, <1>9 DEF Scheduled

\* Reminders created for the hearing as it is, not later than now, cover what is to come.
LEMMA CoverageMade ==
  ASSUME event' \in EventType, NEW ev \in EventType, ev.at = event'.at, Asked(ev) = Asked(event'),
         clock' \in Nat, NEW now \in Nat, now <= clock', Covers(Wanted(ev, now), ev.at)
  PROVE  UpcomingCovered'
<1> SUFFICES ASSUME NEW s \in Upcoming'
             PROVE  Scheduled(s)'
  BY DEF UpcomingCovered
<1>1. s \in Wanted(event', clock') /\ s.fireAt > clock'
  BY DEF Upcoming
<1>2. s \in Asked(ev) /\ ev.at > clock'
  BY <1>1, AskedIsWanted
<1>3. s.fireAt \in Int /\ ev.at \in Nat
  BY <1>1, WantedType DEF SpecType, EventType
<1>4. s.fireAt > now /\ ev.at > now
  BY <1>1, <1>2, <1>3
<1>5. s \in Wanted(ev, now)
  BY <1>2, <1>4, AskedIsWanted
<1> QED
  BY <1>5 DEF Covers, Scheduled

\* The settings screen works with a time that has been.
SyncBehind == resync.now <= clock

LEMMA RequestCovers ==
  ASSUME TypeOK, UpcomingCovered, Request
  PROVE  UpcomingCovered'
<1> SUFFICES ASSUME gap' = "none" PROVE UpcomingCovered'
  BY DEF UpcomingCovered
<1>1. /\ event \in EventType /\ event' \in EventType /\ clock \in Nat /\ clock' = clock
      /\ row \in [Ids -> RowType]
  BY RequestType, RequestRows DEF TypeOK
<1>2. clock' >= clock /\ clock <= clock'
  BY <1>1
<1>3. ASSUME gap = "none", row' = row,
             event'.at = event.at, event'.active = event.active, event'.lawyer = event.lawyer,
             event'.lead = event.lead, event'.owner = event.owner
      PROVE  UpcomingCovered'
  BY <1>1, <1>2, <1>3, CoverageStays
<1>4. ASSUME Rebuilds
      PROVE  UpcomingCovered'
  <2>1. PICK ev \in EventType : Sync(ev) /\ SameSubject(ev, event')
    BY <1>4 DEF Rebuilds
  <2>2. /\ ev.at = event'.at /\ ev.active = event'.active /\ ev.lawyer = event'.lawyer
        /\ ev.lead = event'.lead /\ ev.owner = event'.owner
    BY <1>1, <2>1, SameFields
  <2>3. Asked(ev) = Asked(event')
    BY <2>2 DEF Asked, Recipients
  <2>4. Covers(Wanted(ev, clock), ev.at)
    BY <2>1, SyncRows
  <2> QED
    BY <1>1, <1>2, <2>2, <2>3, <2>4, CoverageMade
<1>5. ASSUME NEW c \in Clerks, Opening(c) PROVE UpcomingCovered'
  <2>1. event' = event /\ row' = row /\ gap' = gap
    BY <1>5 DEF Opening, Begin, Open
  <2> QED
    BY <1>3, <2>1
<1>6. ASSUME NEW c \in Clerks, WriteSave(c) PROVE UpcomingCovered'
  BY <1>4, <1>6, SaveRebuilds
<1>7. ASSUME NEW c \in Clerks, WriteMatter(c) PROVE UpcomingCovered'
  <2>1. /\ event'.at = event.at /\ event'.active = event.active
        /\ event'.lawyer = event.lawyer /\ event'.owner = event.owner
        /\ Rebuilds \/ (row' = row /\ gap' = IF event'.lead = event.lead THEN gap ELSE "overtaken")
    BY <1>7, MatterWrites
  <2> QED
    BY <1>3, <1>4, <2>1
<1>8. ASSUME NEW c \in Clerks, WriteOffboard(c) PROVE UpcomingCovered'
  <2>1. gap = "none" /\ request[c].from \notin {event.lawyer, event.lead, event.owner}
    BY <1>8 DEF WriteOffboard
  <2>2. /\ event'.at = event.at /\ event'.active = event.active /\ event'.lawyer = event.lawyer
        /\ event'.lead = event.lead /\ event'.owner = event.owner
        /\ \A i \in Ids : row[i].user # request[c].from => row'[i] = row[i]
    BY <1>8, <2>1, OffboardWrites
  <2> QED
    BY <1>1, <1>2, <2>1, <2>2, CoverageStays
<1>9. CASE ReportHearing
  <2>1. ~event'.active
    BY <1>1, <1>9 DEF ReportHearing, EventType
  <2> QED
    BY <2>1 DEF UpcomingCovered, Upcoming, Wanted
<1>10. CASE PrepareHearing \/ AcknowledgeHearing
  <2>1. gap = "none" /\ row' = row /\ (PrepareHearing => event.active)
    BY <1>10 DEF PrepareHearing, AcknowledgeHearing
  <2>2. /\ event'.at = event.at /\ event'.active = event.active /\ event'.lawyer = event.lawyer
        /\ event'.lead = event.lead /\ event'.owner = event.owner
    BY <1>1, <1>10, <2>1 DEF PrepareHearing, AcknowledgeHearing, EventType
  <2> QED
    BY <1>3, <2>1, <2>2
<1>11. ASSUME NEW u \in Users, SetUserStatus(u) PROVE UpcomingCovered'
  <2>1. gap = "none" /\ event' = event /\ row' = row
    BY <1>11 DEF SetUserStatus
  <2> QED
    BY <1>3, <2>1
<1> QED
  BY <1>5, <1>6, <1>7, <1>8, <1>9, <1>10, <1>11, RequestCases

LEMMA ResyncCovers ==
  ASSUME TypeOK, UpcomingCovered, SyncBehind, Resync
  PROVE  UpcomingCovered' /\ SyncBehind'
<1>1. /\ event \in EventType /\ event' = event /\ clock \in Nat /\ clock' = clock /\ clock <= clock'
      /\ clock' >= clock /\ row \in [Ids -> RowType] /\ resync.event \in EventType /\ resync.now \in Nat
      /\ resync \in [pc : {"idle", "load", "create"}, event : EventType, now : Nat]
  BY ResyncRows DEF TypeOK
<1>2. 0 <= clock /\ NoSync.now = 0
  BY <1>1 DEF NoSync
<1>3. CASE ResyncCancel
  <2>1. gap' = "settings" /\ resync'.now = clock
    BY <1>3 DEF ResyncCancel, NoSync
  <2> QED
    BY <1>1, <2>1 DEF UpcomingCovered, SyncBehind
<1>4. CASE ResyncLoad
  <2>1. row' = row
    BY <1>4 DEF ResyncLoad
  <2>2. CASE Wanted(event, resync.now) = {}
    <3>1. resync' = NoSync
      BY <1>4, <2>2 DEF ResyncLoad
    <3>2. Covers(Wanted(event, resync.now), event.at)
      BY <2>2 DEF Covers
    <3>3. UpcomingCovered'
      BY <1>1, <3>2, CoverageMade DEF SyncBehind
    <3> QED
      BY <1>1, <1>2, <3>1, <3>3 DEF SyncBehind
  <2>3. CASE Wanted(event, resync.now) # {}
    <3>1. gap' = gap /\ resync' = [resync EXCEPT !.pc = "create", !.event = event]
      BY <1>4, <2>3 DEF ResyncLoad
    <3>2. resync'.now = resync.now
      BY <1>1, <3>1
    <3>3. gap = "none" => UpcomingCovered'
      BY <1>1, <2>1, CoverageStays
    <3> QED
      BY <1>1, <3>1, <3>2, <3>3 DEF SyncBehind, UpcomingCovered
  <2> QED
    BY <2>2, <2>3
<1>5. CASE ResyncCreate
  <2> DEFINE ev == resync.event
             want == Wanted(ev, resync.now)
  <2>1. /\ Create(row, want, ev.at, "resync") /\ resync' = NoSync
        /\ gap' = IF SameSubject(ev, event) /\ gap # "overtaken" THEN "none" ELSE gap
    BY <1>5 DEF ResyncCreate
  <2>2. want \in SUBSET SpecType /\ ev.at \in Nat
    BY <1>1, WantedType DEF EventType
  <2>3. Covers(want, ev.at) /\ AddsOnly(row, want, ev.at, "resync")
    BY <1>1, <2>1, <2>2, CreatedRows
  <2>4. CASE SameSubject(ev, event)
    <3>1. /\ ev.at = event.at /\ ev.active = event.active /\ ev.lawyer = event.lawyer
          /\ ev.lead = event.lead /\ ev.owner = event.owner
      BY <1>1, <2>4, SameFields
    <3>2. Asked(ev) = Asked(event)
      BY <3>1 DEF Asked, Recipients
    <3> QED
      BY <1>1, <1>2, <2>1, <2>3, <3>1, <3>2, CoverageMade DEF SyncBehind
  <2>5. CASE ~SameSubject(ev, event)
    <3>1. \A i \in Ids : row[i].status = "PENDING" => row'[i] = row[i]
      BY <2>3 DEF AddsOnly
    <3>2. gap' = gap
      BY <2>1, <2>5
    <3>3. gap = "none" => UpcomingCovered'
      BY <1>1, <3>1, CoverageStays
    <3> QED
      BY <1>1, <1>2, <2>1, <3>2, <3>3 DEF SyncBehind, UpcomingCovered
  <2> QED
    BY <2>4, <2>5
<1>6. CASE ResyncCrash
  <2>1. row' = row /\ gap' = gap /\ resync' = NoSync
    BY <1>6 DEF ResyncCrash
  <2>2. gap = "none" => UpcomingCovered'
    BY <1>1, <2>1, CoverageStays
  <2> QED
    BY <1>1, <1>2, <2>1, <2>2 DEF SyncBehind, UpcomingCovered
<1> QED
  BY <1>3, <1>4, <1>5, <1>6 DEF Resync

\* Workers change only rows that were due at the time of their batch.
LEMMA WorkerCovers ==
  ASSUME IInv, UpcomingCovered, SyncBehind, NEW w \in Workers, Dispatch(w) \/ Fail(w) \/ Crash(w)
  PROVE  UpcomingCovered' /\ SyncBehind'
<1>1. /\ event \in EventType /\ event' = event /\ clock \in Nat /\ clock' = clock /\ clock' >= clock
      /\ row \in [Ids -> RowType] /\ worker[w] \in WorkerType
  BY WorkerRows DEF IInv, TypeOK
<1>2. UNCHANGED <<resync, gap>>
  BY DEF Dispatch, StartBatch, Claim, ReadRow, Load, CommitCancel, CommitSend, CommitDuplicate, RecordFailure,
         Fail, Crash
<1>3. /\ worker[w].now <= clock /\ \A i \in worker[w].batch : row[i].fireAt <= worker[w].now
      /\ worker[w].pc # "ready" => row[worker[w].id].fireAt <= worker[w].now
  BY DEF IInv, HoldersConsistent, Consistent
<1>4. ASSUME NEW i \in Ids, row[i].fireAt > clock
      PROVE  row'[i] = row[i]
  <2>1. ~(row[i].fireAt <= worker[w].now)
    BY <1>1, <1>3, <1>4 DEF RowType, WorkerType
  <2>2. i \notin worker[w].batch /\ (worker[w].pc # "ready" => worker[w].id # i)
    BY <1>3, <2>1
  <2> QED
    BY <1>1, <2>2, WorkerRows DEF IInv
<1>5. gap = "none" => UpcomingCovered'
  BY <1>1, <1>4, CoverageStays DEF IInv
<1> QED
  BY <1>1, <1>2, <1>5 DEF SyncBehind, UpcomingCovered

\* Every reminder the policy asks for that is not yet due is PENDING, in every state whose last
\* change of the hearing or its matter went through syncReminders (reminders.ts:92-112) and was
\* not overtaken between its reads and its writes, for any number of requests under way, workers,
\* people and reminders, whatever the clock, the workers and the settings screen do.
THEOREM UpcomingIsCovered == Spec => []UpcomingCovered
<1>1. Init => UpcomingCovered /\ SyncBehind
  BY DEF Init, NoEvent, NoSync, UpcomingCovered, Upcoming, Wanted, SyncBehind
<1>2. IInv /\ UpcomingCovered /\ SyncBehind /\ [Next]_vars => (UpcomingCovered /\ SyncBehind)'
  <2> SUFFICES ASSUME IInv, UpcomingCovered, SyncBehind, [Next]_vars
               PROVE  UpcomingCovered' /\ SyncBehind'
    OBVIOUS
  <2>1. TypeOK /\ clock \in Nat /\ event \in EventType /\ resync.now \in Nat
    BY DEF IInv, TypeOK
  <2>2. CASE Tick \/ UNCHANGED vars
    <3>1. UNCHANGED <<event, row, resync, gap>> /\ clock' \in Nat /\ clock' >= clock
      BY <2>1, <2>2 DEF Tick, vars
    <3>2. gap = "none" => UpcomingCovered'
      BY <2>1, <3>1, CoverageStays
    <3> QED
      BY <2>1, <3>1, <3>2 DEF SyncBehind, UpcomingCovered
  <2>3. CASE Request
    BY <2>1, <2>3, RequestCovers, RequestRows DEF SyncBehind
  <2>4. CASE Resync
    BY <2>1, <2>4, ResyncCovers
  <2>5. ASSUME NEW w \in Workers, Dispatch(w) \/ Fail(w) \/ Crash(w)
        PROVE  UpcomingCovered' /\ SyncBehind'
    BY <2>5, WorkerCovers
  <2> QED
    BY <2>2, <2>3, <2>4, <2>5 DEF Next
<1> QED
  BY <1>1, <1>2, Invariance, PTL DEF Spec
=============================================================================
