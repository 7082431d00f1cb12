------------------------------ MODULE Practice ------------------------------
(***************************************************************************)
(* The people of one office and their access to one matter: user            *)
(* administration (src/src/server/services/admin.ts), offboarding and       *)
(* one-time tokens (src/src/server/auth/account.ts, tokens.ts), the team    *)
(* and the access requests of the matter (services/matters.ts) and the      *)
(* worker that ends temporary access (services/reminders.ts).               *)
(*                                                                          *)
(* A request is its reads, its checks on what it read, and a transaction.   *)
(* A transaction is the snapshot its plain reads come from and one step     *)
(* with its writes, which work on current rows.  Permissions are not        *)
(* modelled: every request comes from somebody who may make it.             *)
(***************************************************************************)
EXTENDS Integers, FiniteSets, Office

CONSTANTS
  Users,     \* people
  Newcomer,  \* the one of them who has no account at first
  Founder,   \* the one of them who opened the office and the matter
  Earlier    \* an access request and a token made before

ASSUME PracticeConstants == Newcomer \in Users /\ Founder \in Users \ {Newcomer} /\ Earlier \notin Requests

VARIABLES
  user,    \* the User table
  matter,  \* the Matter row
  member,  \* its MatterMember rows
  ask,     \* AccessRequest rows, under the request that created them
  token,   \* AuthToken rows, under the request that issued them
  request, \* local state of each request
  sweep,   \* rows expireTemporaryAccess has read and not yet deleted
  overlap  \* history: an owner was removed while another removal was under way

practiceVars == <<user, matter, member, ask, token, request, sweep, overlap>>

Refs == Requests \cup {Earlier}

\* left: history, offboarded and not active since.  origin: how the account came to be.
User == [status : {"NONE", "ACTIVE", "SUSPENDED"}, owner : BOOLEAN, left : BOOLEAN,
         origin : {"none", "founder", "created", "invited"}]

\* carried: history, the matter was last given to somebody, or opened, when the lead or owner had left.
Matter == [lead : Users, owner : Users, open : BOOLEAN, carried : BOOLEAN]

\* row: the identity of the row; a membership that is deleted and added again is another row.
Member == [role : {"NONE", "OWNER", "LEAD", "ASSIGNED"}, ends : {"never", "later", "passed"}, row : Nat]

\* granted and deciders are history: the membership was written for it, and who found it pending.
Ask == [by : Users, status : {"NONE", "PENDING", "APPROVED", "REJECTED"}, granted : BOOLEAN,
        deciders : SUBSET Requests]

\* claims and made are history: how often it was claimed, whether an account was made from it.
Token == [kind : {"NONE", "INVITATION", "RESET"}, for : Users, status : {"LIVE", "USED", "REVOKED"},
          claims : Nat, made : BOOLEAN]

\* What a request does, the last three of them in Desk.
Ops == {"", "save", "offboard", "grant", "remove", "request", "decide", "update", "INVITATION", "RESET", "consume",
        "task", "timer", "import"}

\* What a request has read or was asked for.
Request == [pc : {"new", "asked", "checked", "granted", "copied", "loaded", "open", "done", "dead"}, op : Ops,
            u : Users, v : Users, k : Refs, yes : BOOLEAN, was : BOOLEAN, row : Nat, seen : SUBSET Refs]

NoAsk   == [by |-> Newcomer, status |-> "NONE", granted |-> FALSE, deciders |-> {}]
NoToken == [kind |-> "NONE", for |-> Newcomer, status |-> "REVOKED", claims |-> 0, made |-> FALSE]
Fresh   == [pc |-> "new", op |-> "", u |-> Newcomer, v |-> Newcomer, k |-> Earlier, yes |-> FALSE,
            was |-> FALSE, row |-> 0, seen |-> {}]

Active(u) == user[u].status = "ACTIVE"
Owners == {u \in Users : Active(u) /\ user[u].owner}
Holds(u) == member[u].role # "NONE"

Account(u, owner) == IF u = Newcomer THEN [status |-> "NONE", owner |-> FALSE, left |-> FALSE, origin |-> "none"]
                     ELSE [status |-> "ACTIVE", owner |-> owner, left |-> FALSE, origin |-> "founder"]

\* An office with one matter: a colleague has temporary access to it, somebody asked for access, and
\* a token is live, an invitation of the newcomer or a password reset.
PracticeInit ==
  \E temp, asker \in Users \ {Newcomer, Founder}, both, invited \in BOOLEAN :
    /\ user = [u \in Users |-> Account(u, u = Founder \/ both)]
    /\ matter = [lead |-> Founder, owner |-> Founder, open |-> TRUE, carried |-> FALSE]
    /\ member = [u \in Users |-> [role |-> IF u = Founder THEN "OWNER" ELSE IF u = temp THEN "ASSIGNED" ELSE "NONE",
                                  ends |-> IF u = temp THEN "later" ELSE "never", row |-> IF u \in {Founder, temp} THEN 1 ELSE 0]]
    /\ ask = [k \in Refs |-> IF k = Earlier THEN [NoAsk EXCEPT !.by = asker, !.status = "PENDING"] ELSE NoAsk]
    /\ token = [k \in Refs |-> IF k # Earlier THEN NoToken
                  ELSE [NoToken EXCEPT !.status = "LIVE", !.kind = IF invited THEN "INVITATION" ELSE "RESET",
                                       !.for = IF invited THEN Newcomer ELSE temp]]
    /\ request = [r \in Requests |-> Fresh]
    /\ sweep = {}
    /\ overlap = FALSE

New(r) == request[r].pc = "new"
At(r, pc, op) == request[r].pc = pc /\ request[r].op = op
Go(r, rec) == request' = [request EXCEPT ![r] = rec]
Close(r) == Go(r, [Fresh EXCEPT !.pc = "done"])

\* A request dies; what its transaction had not committed is rolled back.
Die(r) ==
  /\ request[r].pc \notin {"new", "done", "dead"}
  /\ Go(r, [Fresh EXCEPT !.pc = "dead"])
  /\ UNCHANGED <<user, matter, member, ask, token, sweep, overlap>>

----------------------------------------------------------------------------
(* The owner of the office: saveUser with ownerGuard, offboardUser *)

MutantNoGuard(u) == TRUE

\* The count of the other owners, in the snapshot.
OthersOwn(u) == Owners \ {u} # {}

\* Requests that may have counted already when an owner goes.
Removing(r) == request[r].op \in {"save", "offboard"} /\ request[r].pc \in {"loaded", "open"}
NoteRemoval(r, u) == overlap' = (overlap \/ (u \in Owners /\ \E x \in Requests \ {r} : Removing(x)))

\* saveUser: yes, the account stays active; was, it has the role of an owner.
GuardUser(r, u, yes, was) ==
  /\ New(r) /\ user[u].status # "NONE"
  /\ (user[u].owner /\ ~(yes /\ was)) => OthersOwn(u)
  /\ Go(r, [Fresh EXCEPT !.pc = "open", !.op = "save", !.u = u, !.yes = yes, !.was = was])
  /\ UNCHANGED <<user, matter, member, ask, token, sweep, overlap>>

CommitUser(r) ==
  LET me == request[r] IN
  /\ At(r, "open", "save")
  /\ user' = [user EXCEPT ![me.u].status = IF me.yes THEN "ACTIVE" ELSE "SUSPENDED",
                          ![me.u].owner = me.was, ![me.u].left = @ /\ ~me.yes]
  /\ IF me.yes /\ me.was THEN UNCHANGED overlap ELSE NoteRemoval(r, me.u)
  /\ Close(r)
  /\ UNCHANGED <<matter, member, ask, token, sweep>>

\* saveUser without an id: the address is unique.
CreateUser(r) ==
  /\ New(r) /\ user[Newcomer].status = "NONE"
  /\ user' = [user EXCEPT ![Newcomer].status = "ACTIVE", ![Newcomer].origin = "created"]
  /\ Close(r)
  /\ UNCHANGED <<matter, member, ask, token, sweep, overlap>>

\* offboardUser: both people are read before the password is confirmed; was, the leaver was an owner.
LoadOffboard(r, u, v) ==
  /\ New(r) /\ u # v /\ user[u].status # "NONE" /\ Active(v)
  /\ Go(r, [Fresh EXCEPT !.pc = "loaded", !.op = "offboard", !.u = u, !.v = v, !.was = user[u].owner])
  /\ UNCHANGED <<user, matter, member, ask, token, sweep, overlap>>

\* The snapshot: row, the leaver's membership if any; yes, the colleague has one.
OpenOffboard(r) ==
  LET me == request[r] IN
  /\ At(r, "loaded", "offboard") /\ (me.was => OthersOwn(me.u))
  /\ Go(r, [me EXCEPT !.pc = "open", !.row = IF Holds(me.u) THEN member[me.u].row ELSE 0, !.yes = Holds(me.v)])
  /\ UNCHANGED <<user, matter, member, ask, token, sweep, overlap>>

MutantLeadOnly(r) == [matter EXCEPT !.lead = IF @ = request[r].u /\ matter.open THEN request[r].v ELSE @]

\* Open matters go to the colleague, led and owned ones.
Handed(r) ==
  LET who(p) == IF p = request[r].u /\ matter.open THEN request[r].v ELSE p IN
  [matter EXCEPT !.lead = who(@), !.owner = who(@),
                 !.carried = @ \/ user[request[r].v].left]

\* The membership read is deleted by id, after the colleague got one unless there was one.
CommitOffboard(r) ==
  LET me == request[r]
      gone == me.row # 0 /\ ~(Holds(me.u) /\ member[me.u].row = me.row)
      clash == me.row # 0 /\ ~me.yes /\ Holds(me.v) IN
  /\ At(r, "open", "offboard") /\ ~gone /\ ~clash
  /\ matter' = Handed(r)
  /\ member' = [p \in Users |->
                  IF me.row = 0 THEN member[p]
                  ELSE IF p = me.u THEN [member[p] EXCEPT !.role = "NONE", !.ends = "never"]
                  ELSE IF p = me.v /\ ~me.yes THEN [role |-> "ASSIGNED", ends |-> "never", row |-> member[p].row + 1]
                  ELSE member[p]]
  /\ token' = [k \in Refs |-> IF token[k].for = me.u /\ token[k].status = "LIVE"
                              THEN [token[k] EXCEPT !.status = "REVOKED"] ELSE token[k]]
  /\ user' = [user EXCEPT ![me.u].status = "SUSPENDED", ![me.u].left = TRUE]
  /\ NoteRemoval(r, me.u)
  /\ Close(r)
  /\ UNCHANGED <<ask, sweep>>

----------------------------------------------------------------------------
(* The team: upsertMember, removeMember, requestAccess, decideAccess *)

\* The checks of upsertMember, for a request of its own or for an access request approved.
CheckMember(r, u, ends) ==
  /\ New(r) \/ (At(r, "asked", "decide") /\ request[r].yes /\ u = request[r].u)
  /\ Active(u) /\ member[u].role # "OWNER"
  /\ Go(r, [request[r] EXCEPT !.pc = "checked", !.op = IF New(r) THEN "grant" ELSE @, !.u = u, !.was = ends])
  /\ UNCHANGED <<user, matter, member, ask, token, sweep, overlap>>

\* A membership after an upsert.
Written(u, role, ends) ==
  IF Holds(u) THEN [member[u] EXCEPT !.role = role, !.ends = ends]
  ELSE [role |-> role, ends |-> ends, row |-> member[u].row + 1]

WriteMember(r) ==
  LET me == request[r] IN
  /\ me.pc = "checked" /\ me.op \in {"grant", "decide"}
  /\ member' = [member EXCEPT ![me.u] = Written(me.u, "ASSIGNED", IF me.was THEN "later" ELSE "never")]
  /\ IF me.op = "decide"
     THEN ask' = [ask EXCEPT ![me.k].granted = TRUE] /\ Go(r, [me EXCEPT !.pc = "granted"])
     ELSE UNCHANGED ask /\ Close(r)
  /\ UNCHANGED <<user, matter, token, sweep, overlap>>

LoadRemoval(r, u) ==
  /\ New(r) /\ Holds(u) /\ member[u].role # "OWNER"
  /\ Go(r, [Fresh EXCEPT !.pc = "loaded", !.op = "remove", !.u = u, !.row = member[u].row])
  /\ UNCHANGED <<user, matter, member, ask, token, sweep, overlap>>

\* A membership is deleted by the identity it was read with.
Delete(u) == member' = [member EXCEPT ![u].role = "NONE", ![u].ends = "never"]

RemoveMember(r) ==
  /\ At(r, "loaded", "remove") /\ Holds(request[r].u) /\ member[request[r].u].row = request[r].row
  /\ Delete(request[r].u)
  /\ Close(r)
  /\ UNCHANGED <<user, matter, ask, token, sweep, overlap>>

\* requestAccess: nothing pending was found, and nothing gives access already.
LoadAccess(r, u) ==
  /\ New(r) /\ Active(u) /\ (Holds(u) => member[u].ends = "passed")
  /\ \A k \in Refs : ~(ask[k].by = u /\ ask[k].status = "PENDING")
  /\ Go(r, [Fresh EXCEPT !.pc = "loaded", !.op = "request", !.u = u])
  /\ UNCHANGED <<user, matter, member, ask, token, sweep, overlap>>

RequestAccess(r) ==
  /\ At(r, "loaded", "request")
  /\ ask' = [ask EXCEPT ![r] = [NoAsk EXCEPT !.by = request[r].u, !.status = "PENDING"]]
  /\ Close(r)
  /\ UNCHANGED <<user, matter, member, token, sweep, overlap>>

\* decideAccess: yes, it is to be approved.
LoadAsk(r, k, yes) ==
  /\ New(r) /\ ask[k].status = "PENDING"
  /\ ask' = [ask EXCEPT ![k].deciders = @ \cup {r}]
  /\ Go(r, [Fresh EXCEPT !.pc = "asked", !.op = "decide", !.k = k, !.u = ask[k].by, !.yes = yes])
  /\ UNCHANGED <<user, matter, member, token, sweep, overlap>>

MutantDecideFirst(r) == request[r].op = "decide" /\ request[r].pc \in {"asked", "granted"}

\* The membership is written, in a transaction of its own, before the decision on it.
MayDecide(r) == At(r, IF request[r].yes THEN "granted" ELSE "asked", "decide")

DecideAccess(r) ==
  /\ MayDecide(r)
  /\ ask' = [ask EXCEPT ![request[r].k].status = IF request[r].yes THEN "APPROVED" ELSE "REJECTED"]
  /\ Close(r)
  /\ UNCHANGED <<user, matter, member, token, sweep, overlap>>

----------------------------------------------------------------------------
(* The matter: updateMatter, setMatterStatus *)

\* setMatterStatus copies every field of the row it has read: v, the lead; yes, to be open.
CopyMatter(r, yes) ==
  /\ New(r)
  /\ Go(r, [Fresh EXCEPT !.pc = "copied", !.op = "update", !.v = matter.lead, !.yes = yes])
  /\ UNCHANGED <<user, matter, member, ask, token, sweep, overlap>>

\* updateMatter: u, the lead the row has now; was, it is open now.  The form offers active
\* colleagues as the lead.
LoadMatter(r, lead, yes) ==
  /\ \/ New(r) /\ Active(lead)
     \/ At(r, "copied", "update") /\ lead = request[r].v /\ yes = request[r].yes
  /\ Go(r, [Fresh EXCEPT !.pc = "loaded", !.op = "update", !.u = matter.lead, !.v = lead, !.yes = yes, !.was = matter.open])
  /\ UNCHANGED <<user, matter, member, ask, token, sweep, overlap>>

\* Every field is written; a new lead becomes a member, or has the role of a lead from now on.
WriteMatter(r) ==
  LET me == request[r] IN
  /\ At(r, "loaded", "update")
  /\ matter' = [matter EXCEPT !.lead = me.v, !.open = me.yes, !.carried = user[me.v].left \/ user[matter.owner].left]
  /\ member' = IF me.v # me.u THEN [member EXCEPT ![me.v] = Written(me.v, "LEAD", IF Holds(me.v) THEN member[me.v].ends ELSE "never")]
               ELSE member
  /\ Close(r)
  /\ UNCHANGED <<user, ask, token, sweep, overlap>>

Closing(r) == request[r].was /\ ~request[r].yes

----------------------------------------------------------------------------
(* One-time tokens: inviteUser, requestPasswordReset, adminSendPasswordReset *)

Live(kind, u) == {k \in Refs : token[k].kind = kind /\ token[k].for = u /\ token[k].status = "LIVE"}

\* The unused tokens of the address are locked by the update that revokes them.
OpenIssue(r, u) ==
  /\ New(r)
  /\ LET kind == IF user[u].status = "NONE" THEN "INVITATION" ELSE "RESET" IN
     Go(r, [Fresh EXCEPT !.pc = "open", !.op = kind, !.u = u, !.seen = Live(kind, u)])
  /\ UNCHANGED <<user, matter, member, ask, token, sweep, overlap>>

IssueToken(r) ==
  LET me == request[r] IN
  /\ me.pc = "open" /\ me.op \in {"INVITATION", "RESET"}
  /\ token' = [k \in Refs |->
                 IF k = r THEN [NoToken EXCEPT !.kind = me.op, !.for = me.u, !.status = "LIVE"]
                 ELSE IF k \in me.seen /\ token[k].status = "LIVE" THEN [token[k] EXCEPT !.status = "REVOKED"]
                 ELSE token[k]]
  /\ Close(r)
  /\ UNCHANGED <<user, matter, member, ask, sweep, overlap>>

\* acceptInvitation and resetPassword find the token: yes, the account is as it must be.
FindToken(r, k) ==
  /\ New(r) /\ token[k].status = "LIVE"
  /\ Go(r, [Fresh EXCEPT !.pc = "open", !.op = "consume", !.k = k, !.yes = user[token[k].for].status
                                        = IF token[k].kind = "INVITATION" THEN "NONE" ELSE "ACTIVE"])
  /\ UNCHANGED <<user, matter, member, ask, token, sweep, overlap>>

MutantClaimAnyway(k) == TRUE

\* The conditional update of consumeToken.
Claimable(k) == token[k].status = "LIVE"

\* The claim commits even when the account refuses it; a taken address rolls it back.
ConsumeToken(r) ==
  LET me == request[r]
      t == token[me.k]
      making == t.kind = "INVITATION" /\ me.yes IN
  /\ At(r, "open", "consume") /\ Claimable(me.k)
  /\ making => user[t.for].status = "NONE"
  /\ token' = [token EXCEPT ![me.k].status = "USED", ![me.k].claims = @ + 1, ![me.k].made = @ \/ making]
  /\ user' = IF making THEN [user EXCEPT ![t.for].status = "ACTIVE", ![t.for].origin = "invited"] ELSE user
  /\ member' = IF making THEN [member EXCEPT ![t.for] = IF Holds(t.for) THEN @ ELSE Written(t.for, "ASSIGNED", "never")]
               ELSE member
  /\ Close(r)
  /\ UNCHANGED <<matter, ask, sweep, overlap>>

----------------------------------------------------------------------------
(* The worker: expireTemporaryAccess *)

\* The end date passes.
Expire(u) ==
  /\ Holds(u) /\ member[u].ends = "later"
  /\ member' = [member EXCEPT ![u].ends = "passed"]
  /\ UNCHANGED <<user, matter, ask, token, request, sweep, overlap>>

MutantExpiredGuests == {<<u, member[u].row>> : u \in {p \in Users : member[p].role = "ASSIGNED" /\ member[p].ends = "passed"}}

Expired == {<<u, member[u].row>> : u \in {p \in Users : Holds(p) /\ member[p].ends = "passed"}}

ReadExpired ==
  /\ sweep = {} /\ sweep' = Expired
  /\ UNCHANGED <<user, matter, member, ask, token, request, overlap>>

\* A row is deleted by id, renewed or not; one that is gone ends the sweep with an error.
SweepOne(u) ==
  \E row \in {p[2] : p \in {q \in sweep : q[1] = u}} :
    /\ IF Holds(u) /\ member[u].row = row
       THEN Delete(u) /\ sweep' = sweep \ {<<u, row>>}
       ELSE sweep' = {} /\ UNCHANGED member
    /\ UNCHANGED <<user, matter, ask, token, request, overlap>>
=============================================================================
