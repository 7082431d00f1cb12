----------------------------- MODULE DeskProofs -----------------------------
(* Theorems about Desk, and with it about Practice and Intake, for every number of people and requests. *)
EXTENDS Desk, IntakeProofs

----------------------------------------------------------------------------
(* Steps *)

\* A step of Desk or Practice made for request r.
Serves(r) ==
  (\E kind \in Kinds : BeginOpening(r, kind)) \/ DeskStep(r) \/ (PracticeStep(r) /\ UNCHANGED deskVars)

\* All but memberships and the sweep over them.
restVars == <<user, matter, ask, token, request, overlap, task, prior, timer, court>>

LEMMA DeskSteps ==
  ASSUME [Next]_vars
  PROVE  (\E r \in Requests : Serves(r)) \/ UNCHANGED restVars
  <1>1. CASE UNCHANGED vars
    BY <1>1 DEF vars, practiceVars, deskVars, restVars
  <1>2. CASE Next
    <2>1. ASSUME NEW r \in Requests, OpeningStep(r)
          PROVE  Serves(r) \/ UNCHANGED restVars
      BY <2>1 DEF OpeningStep, Serves, Elsewhere, practiceVars, restVars
    <2>2. ASSUME Worker \/ \E u \in Users : Expire(u), UNCHANGED deskVars
          PROVE  UNCHANGED restVars
      BY <2>2 DEF Worker, ReadExpired, SweepOne, Expire, deskVars, restVars
    <2> QED BY <1>2, <2>1, <2>2 DEF Next, Serves
  <1> QED BY <1>1, <1>2

\* Every step of Desk is a step of Intake or none.
LEMMA IntakeImplemented ==
  ASSUME [Next]_vars
  PROVE  [IntakeNext]_intakeVars
  <1>1. CASE UNCHANGED vars
    BY <1>1 DEF vars, deskVars
  <1>2. CASE Next
    <2>1. ASSUME NEW r \in Requests, DeskStep(r)
          PROVE  UNCHANGED intakeVars
      BY <2>1 DEF DeskStep, Offboard, ChangeMatter, CheckAssignee, LoadTask, SetPrior, SetTask, SaveTask, FindRunning,
                  FindTimer, StopTimer, StartTimer, FindImport, ApplyImport, DiscardImport, deskVars
    <2>2. UNCHANGED deskVars => UNCHANGED intakeVars
      BY DEF deskVars
    <2>3. ASSUME NEW r \in Requests, OpeningStep(r)
          PROVE  IntakeNext
      BY <2>3 DEF OpeningStep, BeginOpening, IntakeNext
    <2> QED BY <1>2, <2>1, <2>2, <2>3 DEF Next
  <1> QED BY <1>1, <1>2

\* Openings behave as Intake says, whatever other requests and the worker do: Desk implements Intake.
THEOREM DeskImplementsIntake == Spec => IntakeSpec
  <1>1. Init => IntakeInit
    BY DEF Init
  <1>2. [Next]_vars => [IntakeNext]_intakeVars
    BY IntakeImplemented
  <1> QED BY <1>1, <1>2, PTL DEF Spec, IntakeSpec

\* What the invariants below are about, and the actions that touch it.
TouchesOwners(r) ==
  \/ \E u \in Users, yes, was \in BOOLEAN : GuardUser(r, u, yes, was)
  \/ \E u, v \in Users : LoadOffboard(r, u, v)
  \/ CommitUser(r) \/ CreateUser(r) \/ OpenOffboard(r) \/ CommitOffboard(r) \/ ConsumeToken(r)

TouchesAsks(r) ==
  \/ \E u \in Users, ends \in BOOLEAN : CheckMember(r, u, ends)
  \/ \E k \in Refs, yes \in BOOLEAN : LoadAsk(r, k, yes)
  \/ Die(r) \/ WriteMember(r) \/ RequestAccess(r) \/ DecideAccess(r)

TouchesTokens(r) == CreateUser(r) \/ IssueToken(r) \/ ConsumeToken(r) \/ CommitOffboard(r)

TouchesWork(r) ==
  \/ UNCHANGED task /\ (OpenOffboard(r) \/ \E u, v \in Users : LoadOffboard(r, u, v))
  \/ \E status \in {"OPEN", "DONE", "CANCELLED", "DELETED"} : SetTask(r, status)
  \/ \E status \in {"OPEN", "DONE", "CANCELLED"}, open \in BOOLEAN : SaveTask(r, status, open)
  \/ Offboard(r) \/ ChangeMatter(r)

TouchesPrior(r) ==
  \/ ChangeMatter(r)
  \/ \E yes \in BOOLEAN : LoadTask(r, yes) \/ SetPrior(r, yes)
  \/ \E status \in {"OPEN", "DONE", "CANCELLED", "DELETED"} : SetTask(r, status)
  \/ \E status \in {"OPEN", "DONE", "CANCELLED"}, open \in BOOLEAN : SaveTask(r, status, open)

TouchesTimers(r) == (\E k \in Refs : FindRunning(r, k)) \/ FindTimer(r) \/ StopTimer(r) \/ StartTimer(r)

TouchesCourt(r) == ApplyImport(r) \/ DiscardImport(r)

\* A request that is served is not over; what its step does not touch stays, and rec is its state.
Step(r, rec) ==
  /\ Go(r, rec) /\ request[r].pc \notin {"done", "dead"}
  /\ TouchesOwners(r) \/ (UNCHANGED <<user, overlap>> /\ rec.op \notin {"save", "offboard"})
  /\ TouchesAsks(r) \/ (UNCHANGED ask /\ rec.op # "decide" /\ (New(r) \/ request[r].op # "decide"))
  /\ TouchesTokens(r) \/ (UNCHANGED token /\ \A u \in Users : /\ user'[u].origin = user[u].origin
                                                              /\ user'[u].status = "NONE" => user[u].status = "NONE")
  /\ TouchesWork(r) \/ (UNCHANGED <<matter, task>> /\ rec.op # "offboard" /\ \A u \in Users : user'[u].left => user[u].left)
  /\ TouchesPrior(r) \/ (UNCHANGED prior /\ ~(rec.pc = "loaded" /\ rec.op = "task"))
  /\ TouchesTimers(r) \/ (UNCHANGED timer /\ rec.op # "timer")
  /\ TouchesCourt(r) \/ UNCHANGED court

LEMMA OneGoes ==
  ASSUME TypeOK, NEW r \in Requests, NEW rec, Go(r, rec)
  PROVE  request'[r] = rec /\ (\A q \in Requests \ {r} : request'[q] = request[q]) /\ Go(r, request'[r])
  BY DEF TypeOK, Go

LEMMA OneCloses ==
  ASSUME TypeOK, NEW r \in Requests, Close(r)
  PROVE  request'[r].pc = "done" /\ request'[r].op = "" /\ Go(r, request'[r])
  <1> DEFINE rec == [Fresh EXCEPT !.pc = "done"]
  <1>1. Go(r, rec)
    BY DEF Close
  <1>2. rec.pc = "done" /\ rec.op = ""
    BY DEF Fresh
  <1> HIDE DEF rec
  <1> QED BY <1>1, <1>2, OneGoes

LEMMA ServesStep ==
  ASSUME TypeOK, NEW r \in Requests, Serves(r)
  PROVE  Step(r, request'[r])
  <1>1. ASSUME Die(r), UNCHANGED deskVars
        PROVE  Step(r, request'[r])
    <2>1. request[r].pc \notin {"done", "dead"}
      BY <1>1 DEF Die, At
    <2>2. Go(r, request'[r]) /\ request'[r].op = "" /\ request'[r].pc = "dead"
      <3> DEFINE rec == [Fresh EXCEPT !.pc = "dead"]
      <3>1. rec.op = "" /\ rec.pc = "dead"
        BY DEF Fresh
      <3>2. Go(r, rec)
        BY <1>1 DEF Die
      <3> HIDE DEF rec
      <3> QED BY <3>1, <3>2, OneGoes
    <2>3. UNCHANGED <<user, overlap, matter, ask, token, task, prior, timer, court>>
      BY <1>1 DEF Die, deskVars
    <2> QED BY <1>1, <2>1, <2>2, <2>3 DEF Step, TouchesAsks
  <1>2. ASSUME NEW u \in Users, NEW yes \in BOOLEAN, NEW was \in BOOLEAN, GuardUser(r, u, yes, was), UNCHANGED deskVars
        PROVE  Step(r, request'[r])
    <2>1. New(r)
      BY <1>2 DEF GuardUser, At
    <2>2. Go(r, request'[r]) /\ request'[r].op = "save" /\ request'[r].pc = "open"
      <3> DEFINE rec == [Fresh EXCEPT !.pc = "open", !.op = "save", !.u = u, !.yes = yes, !.was = was]
      <3>1. rec.op = "save" /\ rec.pc = "open"
        BY DEF Fresh
      <3>2. Go(r, rec)
        BY <1>2 DEF GuardUser
      <3> HIDE DEF rec
      <3> QED BY <3>1, <3>2, OneGoes
    <2>3. UNCHANGED <<user, overlap, matter, ask, token, task, prior, timer, court>>
      BY <1>2 DEF GuardUser, deskVars
    <2> QED BY <1>2, <2>1, <2>2, <2>3 DEF Step, TouchesOwners, New
  <1>3. ASSUME CommitUser(r), UNCHANGED deskVars
        PROVE  Step(r, request'[r])
    <2>1. request[r].pc = "open" /\ request[r].op = "save"
      BY <1>3 DEF CommitUser, At
    <2>2. Go(r, request'[r]) /\ request'[r].op = "" /\ request'[r].pc = "done"
      BY <1>3, OneCloses DEF CommitUser
    <2>3. UNCHANGED <<matter, ask, token, task, prior, timer, court>>
      BY <1>3 DEF CommitUser, deskVars
    <2>4. \A p \in Users : user'[p].origin = user[p].origin /\ (user'[p].left => user[p].left) /\ (user'[p].status = "NONE" => user[p].status = "NONE")
      BY <1>3 DEF TypeOK, User, CommitUser
    <2> QED BY <1>3, <2>1, <2>2, <2>3, <2>4 DEF Step, TouchesOwners
  <1>4. ASSUME CreateUser(r), UNCHANGED deskVars
        PROVE  Step(r, request'[r])
    <2>1. New(r)
      BY <1>4 DEF CreateUser, At
    <2>2. Go(r, request'[r]) /\ request'[r].op = "" /\ request'[r].pc = "done"
      BY <1>4, OneCloses DEF CreateUser
    <2>3. UNCHANGED <<overlap, matter, ask, token, task, prior, timer, court>>
      BY <1>4 DEF CreateUser, deskVars
    <2>4. \A p \in Users : user'[p].left = user[p].left
      BY <1>4 DEF TypeOK, User, CreateUser
    <2> QED BY <1>4, <2>1, <2>2, <2>3, <2>4 DEF Step, TouchesOwners, TouchesTokens, New
  <1>5. ASSUME NEW u \in Users, NEW v \in Users, LoadOffboard(r, u, v), UNCHANGED deskVars
        PROVE  Step(r, request'[r])
    <2>1. New(r)
      BY <1>5 DEF LoadOffboard, At
    <2>2. Go(r, request'[r]) /\ request'[r].op = "offboard" /\ request'[r].pc = "loaded"
      <3> DEFINE rec == [Fresh EXCEPT !.pc = "loaded", !.op = "offboard", !.u = u, !.v = v, !.was = user[u].owner]
      <3>1. rec.op = "offboard" /\ rec.pc = "loaded"
        BY DEF Fresh
      <3>2. Go(r, rec)
        BY <1>5 DEF LoadOffboard
      <3> HIDE DEF rec
      <3> QED BY <3>1, <3>2, OneGoes
    <2>3. UNCHANGED <<user, overlap, matter, ask, token, task, prior, timer, court>>
      BY <1>5 DEF LoadOffboard, deskVars
    <2> QED BY <1>5, <2>1, <2>2, <2>3 DEF Step, TouchesOwners, TouchesWork, New
  <1>6. ASSUME OpenOffboard(r), UNCHANGED deskVars
        PROVE  Step(r, request'[r])
    <2>1. request[r].pc = "loaded" /\ request[r].op = "offboard"
      BY <1>6 DEF OpenOffboard, At
    <2>2. Go(r, request'[r]) /\ request'[r].op = "offboard" /\ request'[r].pc = "open"
      <3> DEFINE rec == [request[r] EXCEPT !.pc = "open", !.row = IF Holds(request[r].u) THEN member[request[r].u].row ELSE 0, !.yes = Holds(request[r].v)]
      <3>1. rec.op = "offboard" /\ rec.pc = "open"
        BY <2>1 DEF TypeOK, Request
      <3>2. Go(r, rec)
        BY <1>6 DEF OpenOffboard
      <3> HIDE DEF rec
      <3> QED BY <3>1, <3>2, OneGoes
    <2>3. UNCHANGED <<user, overlap, matter, ask, token, task, prior, timer, court>>
      BY <1>6 DEF OpenOffboard, deskVars
    <2> QED BY <1>6, <2>1, <2>2, <2>3 DEF Step, TouchesOwners, TouchesWork
  <1>7. ASSUME NEW u \in Users, NEW ends \in BOOLEAN, CheckMember(r, u, ends), UNCHANGED deskVars
        PROVE  Step(r, request'[r])
    <2>1. New(r) \/ (request[r].pc = "asked" /\ request[r].op = "decide")
      BY <1>7 DEF CheckMember, At
    <2>2. Go(r, request'[r]) /\ request'[r].op = (IF New(r) THEN "grant" ELSE "decide") /\ request'[r].pc = "checked"
      <3> DEFINE rec == [request[r] EXCEPT !.pc = "checked", !.op = IF New(r) THEN "grant" ELSE @, !.u = u, !.was = ends]
      <3>1. rec.op = (IF New(r) THEN "grant" ELSE "decide") /\ rec.pc = "checked"
        BY <2>1 DEF TypeOK, Request, New
      <3>2. Go(r, rec)
        BY <1>7 DEF CheckMember
      <3> HIDE DEF rec
      <3> QED BY <3>1, <3>2, OneGoes
    <2>3. UNCHANGED <<user, overlap, matter, ask, token, task, prior, timer, court>>
      BY <1>7 DEF CheckMember, deskVars
    <2> QED BY <1>7, <2>1, <2>2, <2>3 DEF Step, TouchesAsks, New
  <1>8. ASSUME WriteMember(r), UNCHANGED deskVars
        PROVE  Step(r, request'[r])
    <2>1. request[r].pc = "checked" /\ request[r].op \in {"grant", "decide"}
      BY <1>8 DEF WriteMember
    <2>2. Go(r, request'[r]) /\ request'[r].op \in {"", "decide"} /\ request'[r].pc \in {"granted", "done"}
      <3> DEFINE rec == [request[r] EXCEPT !.pc = "granted"]
      <3>1. rec.op = request[r].op /\ rec.pc = "granted"
        BY DEF TypeOK, Request
      <3>2. IF request[r].op = "decide" THEN Go(r, rec) ELSE Close(r)
        BY <1>8 DEF WriteMember
      <3> HIDE DEF rec
      <3> QED BY <2>1, <3>1, <3>2, OneGoes, OneCloses
    <2>3. UNCHANGED <<user, overlap, matter, token, task, prior, timer, court>>
      BY <1>8 DEF WriteMember, deskVars
    <2> QED BY <1>8, <2>1, <2>2, <2>3 DEF Step, TouchesAsks
  <1>9. ASSUME NEW u \in Users, LoadRemoval(r, u), UNCHANGED deskVars
        PROVE  Step(r, request'[r])
    <2>1. New(r)
      BY <1>9 DEF LoadRemoval, At
    <2>2. Go(r, request'[r]) /\ request'[r].op = "remove" /\ request'[r].pc = "loaded"
      <3> DEFINE rec == [Fresh EXCEPT !.pc = "loaded", !.op = "remove", !.u = u, !.row = member[u].row]
      <3>1. rec.op = "remove" /\ rec.pc = "loaded"
        BY DEF Fresh
      <3>2. Go(r, rec)
        BY <1>9 DEF LoadRemoval
      <3> HIDE DEF rec
      <3> QED BY <3>1, <3>2, OneGoes
    <2>3. UNCHANGED <<user, overlap, matter, ask, token, task, prior, timer, court>>
      BY <1>9 DEF LoadRemoval, deskVars
    <2> QED BY <1>9, <2>1, <2>2, <2>3 DEF Step, New
  <1>10. ASSUME RemoveMember(r), UNCHANGED deskVars
        PROVE  Step(r, request'[r])
    <2>1. request[r].pc = "loaded" /\ request[r].op = "remove"
      BY <1>10 DEF RemoveMember, At
    <2>2. Go(r, request'[r]) /\ request'[r].op = "" /\ request'[r].pc = "done"
      BY <1>10, OneCloses DEF RemoveMember
    <2>3. UNCHANGED <<user, overlap, matter, ask, token, task, prior, timer, court>>
      BY <1>10 DEF RemoveMember, deskVars
    <2> QED BY <1>10, <2>1, <2>2, <2>3 DEF Step
  <1>11. ASSUME NEW u \in Users, LoadAccess(r, u), UNCHANGED deskVars
        PROVE  Step(r, request'[r])
    <2>1. New(r)
      BY <1>11 DEF LoadAccess, At
    <2>2. Go(r, request'[r]) /\ request'[r].op = "request" /\ request'[r].pc = "loaded"
      <3> DEFINE rec == [Fresh EXCEPT !.pc = "loaded", !.op = "request", !.u = u]
      <3>1. rec.op = "request" /\ rec.pc = "loaded"
        BY DEF Fresh
      <3>2. Go(r, rec)
        BY <1>11 DEF LoadAccess
      <3> HIDE DEF rec
      <3> QED BY <3>1, <3>2, OneGoes
    <2>3. UNCHANGED <<user, overlap, matter, ask, token, task, prior, timer, court>>
      BY <1>11 DEF LoadAccess, deskVars
    <2> QED BY <1>11, <2>1, <2>2, <2>3 DEF Step, New
  <1>12. ASSUME RequestAccess(r), UNCHANGED deskVars
        PROVE  Step(r, request'[r])
    <2>1. request[r].pc = "loaded" /\ request[r].op = "request"
      BY <1>12 DEF RequestAccess, At
    <2>2. Go(r, request'[r]) /\ request'[r].op = "" /\ request'[r].pc = "done"
      BY <1>12, OneCloses DEF RequestAccess
    <2>3. UNCHANGED <<user, overlap, matter, token, task, prior, timer, court>>
      BY <1>12 DEF RequestAccess, deskVars
    <2> QED BY <1>12, <2>1, <2>2, <2>3 DEF Step, TouchesAsks
  <1>13. ASSUME NEW k \in Refs, NEW yes \in BOOLEAN, LoadAsk(r, k, yes), UNCHANGED deskVars
        PROVE  Step(r, request'[r])
    <2>1. New(r)
      BY <1>13 DEF LoadAsk, At
    <2>2. Go(r, request'[r]) /\ request'[r].op = "decide" /\ request'[r].pc = "asked"
      <3> DEFINE rec == [Fresh EXCEPT !.pc = "asked", !.op = "decide", !.k = k, !.u = ask[k].by, !.yes = yes]
      <3>1. rec.op = "decide" /\ rec.pc = "asked"
        BY DEF Fresh
      <3>2. Go(r, rec)
        BY <1>13 DEF LoadAsk
      <3> HIDE DEF rec
      <3> QED BY <3>1, <3>2, OneGoes
    <2>3. UNCHANGED <<user, overlap, matter, token, task, prior, timer, court>>
      BY <1>13 DEF LoadAsk, deskVars
    <2> QED BY <1>13, <2>1, <2>2, <2>3 DEF Step, TouchesAsks, New
  <1>14. ASSUME DecideAccess(r), UNCHANGED deskVars
        PROVE  Step(r, request'[r])
    <2>1. request[r].pc \in {"granted", "asked"} /\ request[r].op = "decide"
      BY <1>14 DEF DecideAccess, MayDecide, At
    <2>2. Go(r, request'[r]) /\ request'[r].op = "" /\ request'[r].pc = "done"
      BY <1>14, OneCloses DEF DecideAccess, MayDecide
    <2>3. UNCHANGED <<user, overlap, matter, token, task, prior, timer, court>>
      BY <1>14 DEF DecideAccess, MayDecide, deskVars
    <2> QED BY <1>14, <2>1, <2>2, <2>3 DEF Step, TouchesAsks
  <1>15. ASSUME NEW yes \in BOOLEAN, CopyMatter(r, yes), UNCHANGED deskVars
        PROVE  Step(r, request'[r])
    <2>1. New(r)
      BY <1>15 DEF CopyMatter, At
    <2>2. Go(r, request'[r]) /\ request'[r].op = "update" /\ request'[r].pc = "copied"
      <3> DEFINE rec == [Fresh EXCEPT !.pc = "copied", !.op = "update", !.v = matter.lead, !.yes = yes]
      <3>1. rec.op = "update" /\ rec.pc = "copied"
        BY DEF Fresh
      <3>2. Go(r, rec)
        BY <1>15 DEF CopyMatter
      <3> HIDE DEF rec
      <3> QED BY <3>1, <3>2, OneGoes
    <2>3. UNCHANGED <<user, overlap, matter, ask, token, task, prior, timer, court>>
      BY <1>15 DEF CopyMatter, deskVars
    <2> QED BY <1>15, <2>1, <2>2, <2>3 DEF Step, New
  <1>16. ASSUME NEW u \in Users, NEW yes \in BOOLEAN, LoadMatter(r, u, yes), UNCHANGED deskVars
        PROVE  Step(r, request'[r])
    <2>1. New(r) \/ (request[r].pc = "copied" /\ request[r].op = "update")
      BY <1>16 DEF LoadMatter, At
    <2>2. Go(r, request'[r]) /\ request'[r].op = "update" /\ request'[r].pc = "loaded"
      <3> DEFINE rec == [Fresh EXCEPT !.pc = "loaded", !.op = "update", !.u = matter.lead, !.v = u, !.yes = yes, !.was = matter.open]
      <3>1. rec.op = "update" /\ rec.pc = "loaded"
        BY DEF Fresh
      <3>2. Go(r, rec)
        BY <1>16 DEF LoadMatter
      <3> HIDE DEF rec
      <3> QED BY <3>1, <3>2, OneGoes
    <2>3. UNCHANGED <<user, overlap, matter, ask, token, task, prior, timer, court>>
      BY <1>16 DEF LoadMatter, deskVars
    <2> QED BY <1>16, <2>1, <2>2, <2>3 DEF Step, New
  <1>17. ASSUME NEW u \in Users, OpenIssue(r, u), UNCHANGED deskVars
        PROVE  Step(r, request'[r])
    <2> DEFINE kind == IF user[u].status = "NONE" THEN "INVITATION" ELSE "RESET"
    <2>1. New(r)
      BY <1>17 DEF OpenIssue, At
    <2>2. Go(r, request'[r]) /\ request'[r].op = kind /\ request'[r].pc = "open"
      <3> DEFINE rec == [Fresh EXCEPT !.pc = "open", !.op = kind, !.u = u, !.seen = Live(kind, u)]
      <3>1. rec.op = kind /\ rec.pc = "open"
        BY DEF Fresh
      <3>2. Go(r, rec)
        BY <1>17 DEF OpenIssue
      <3> HIDE DEF rec
      <3> QED BY <3>1, <3>2, OneGoes
    <2>3. UNCHANGED <<user, overlap, matter, ask, token, task, prior, timer, court>>
      BY <1>17 DEF OpenIssue, deskVars
    <2> QED BY <1>17, <2>1, <2>2, <2>3 DEF Step, New
  <1>18. ASSUME IssueToken(r), UNCHANGED deskVars
        PROVE  Step(r, request'[r])
    <2>1. request[r].pc = "open" /\ request[r].op \in {"INVITATION", "RESET"}
      BY <1>18 DEF IssueToken, At
    <2>2. Go(r, request'[r]) /\ request'[r].op = "" /\ request'[r].pc = "done"
      BY <1>18, OneCloses DEF IssueToken
    <2>3. UNCHANGED <<user, overlap, matter, ask, task, prior, timer, court>>
      BY <1>18 DEF IssueToken, deskVars
    <2> QED BY <1>18, <2>1, <2>2, <2>3 DEF Step, TouchesTokens
  <1>19. ASSUME NEW k \in Refs, FindToken(r, k), UNCHANGED deskVars
        PROVE  Step(r, request'[r])
    <2>1. New(r)
      BY <1>19 DEF FindToken, At
    <2>2. Go(r, request'[r]) /\ request'[r].op = "consume" /\ request'[r].pc = "open"
      <3> DEFINE rec == [Fresh EXCEPT !.pc = "open", !.op = "consume", !.k = k, !.yes = user[token[k].for].status = IF token[k].kind = "INVITATION" THEN "NONE" ELSE "ACTIVE"]
      <3>1. rec.op = "consume" /\ rec.pc = "open"
        BY DEF Fresh
      <3>2. Go(r, rec)
        BY <1>19 DEF FindToken
      <3> HIDE DEF rec
      <3> QED BY <3>1, <3>2, OneGoes
    <2>3. UNCHANGED <<user, overlap, matter, ask, token, task, prior, timer, court>>
      BY <1>19 DEF FindToken, deskVars
    <2> QED BY <1>19, <2>1, <2>2, <2>3 DEF Step, New
  <1>20. ASSUME ConsumeToken(r), UNCHANGED deskVars
        PROVE  Step(r, request'[r])
    <2>1. request[r].pc = "open" /\ request[r].op = "consume"
      BY <1>20 DEF ConsumeToken, At
    <2>2. Go(r, request'[r]) /\ request'[r].op = "" /\ request'[r].pc = "done"
      BY <1>20, OneCloses DEF ConsumeToken
    <2>3. UNCHANGED <<overlap, matter, ask, task, prior, timer, court>>
      BY <1>20 DEF ConsumeToken, deskVars
    <2>4. \A p \in Users : user'[p].left = user[p].left
      BY <1>20 DEF TypeOK, User, ConsumeToken
    <2> QED BY <1>20, <2>1, <2>2, <2>3, <2>4 DEF Step, TouchesOwners, TouchesTokens
  <1>21. ASSUME Offboard(r)
        PROVE  Step(r, request'[r])
    <2>1. request[r].pc = "open" /\ request[r].op = "offboard"
      BY <1>21 DEF Offboard, CommitOffboard, At
    <2>2. Go(r, request'[r]) /\ request'[r].op = "" /\ request'[r].pc = "done"
      BY <1>21, OneCloses DEF Offboard, CommitOffboard
    <2>3. UNCHANGED <<ask, prior, timer, court>>
      BY <1>21 DEF Offboard, CommitOffboard, Local, deskVars
    <2> QED BY <1>21, <2>1, <2>2, <2>3 DEF Step, TouchesOwners, TouchesTokens, TouchesWork, CommitOffboard, Offboard
  <1>22. ASSUME ChangeMatter(r)
        PROVE  Step(r, request'[r])
    <2>1. request[r].pc = "loaded" /\ request[r].op = "update"
      BY <1>22 DEF ChangeMatter, WriteMatter, At
    <2>2. Go(r, request'[r]) /\ request'[r].op = "" /\ request'[r].pc = "done"
      BY <1>22, OneCloses DEF ChangeMatter, WriteMatter
    <2>3. UNCHANGED <<user, overlap, ask, token, timer, court>>
      BY <1>22 DEF ChangeMatter, WriteMatter, Local, deskVars
    <2> QED BY <1>22, <2>1, <2>2, <2>3 DEF Step, TouchesWork, TouchesPrior
  <1>23. ASSUME NEW u \in Users, CheckAssignee(r, u)
        PROVE  Step(r, request'[r])
    <2>1. New(r)
      BY <1>23 DEF CheckAssignee, At
    <2>2. Go(r, request'[r]) /\ request'[r].op = "task" /\ request'[r].pc = "checked"
      <3> DEFINE rec == [Fresh EXCEPT !.pc = "checked", !.op = "task", !.u = u]
      <3>1. rec.op = "task" /\ rec.pc = "checked"
        BY DEF Fresh
      <3>2. Go(r, rec)
        BY <1>23 DEF CheckAssignee
      <3> HIDE DEF rec
      <3> QED BY <3>1, <3>2, OneGoes
    <2>3. UNCHANGED <<user, overlap, matter, ask, token, task, prior, timer, court>>
      BY <1>23 DEF CheckAssignee, Local, deskVars
    <2> QED BY <1>23, <2>1, <2>2, <2>3 DEF Step, New
  <1>24. ASSUME NEW yes \in BOOLEAN, LoadTask(r, yes)
        PROVE  Step(r, request'[r])
    <2>1. New(r)
      BY <1>24 DEF LoadTask, At
    <2>2. Go(r, request'[r]) /\ request'[r].op = "task" /\ request'[r].pc = "loaded"
      <3> DEFINE rec == [Fresh EXCEPT !.pc = "loaded", !.op = "task", !.yes = yes]
      <3>1. rec.op = "task" /\ rec.pc = "loaded"
        BY DEF Fresh
      <3>2. Go(r, rec)
        BY <1>24 DEF LoadTask
      <3> HIDE DEF rec
      <3> QED BY <3>1, <3>2, OneGoes
    <2>3. UNCHANGED <<user, overlap, matter, ask, token, task, prior, timer, court>>
      BY <1>24 DEF LoadTask, Local, deskVars
    <2> QED BY <1>24, <2>1, <2>2, <2>3 DEF Step, TouchesPrior, New
  <1>25. ASSUME NEW yes \in BOOLEAN, SetPrior(r, yes)
        PROVE  Step(r, request'[r])
    <2>1. New(r)
      BY <1>25 DEF SetPrior, At
    <2>2. Go(r, request'[r]) /\ request'[r].op = "" /\ request'[r].pc = "done"
      BY <1>25, OneCloses DEF SetPrior
    <2>3. UNCHANGED <<user, overlap, matter, ask, token, task, timer, court>>
      BY <1>25 DEF SetPrior, Local, deskVars
    <2> QED BY <1>25, <2>1, <2>2, <2>3 DEF Step, TouchesPrior, New
  <1>26. ASSUME NEW status \in {"OPEN", "DONE", "CANCELLED", "DELETED"}, SetTask(r, status)
        PROVE  Step(r, request'[r])
    <2>1. request[r].pc = "loaded" /\ request[r].op = "task"
      BY <1>26 DEF SetTask, At
    <2>2. Go(r, request'[r]) /\ request'[r].op = "" /\ request'[r].pc = "done"
      BY <1>26, OneCloses DEF SetTask
    <2>3. UNCHANGED <<user, overlap, matter, ask, token, timer, court>>
      BY <1>26 DEF SetTask, Local, deskVars
    <2> QED BY <1>26, <2>1, <2>2, <2>3 DEF Step, TouchesWork, TouchesPrior
  <1>27. ASSUME NEW status \in {"OPEN", "DONE", "CANCELLED"}, NEW open \in BOOLEAN, SaveTask(r, status, open)
        PROVE  Step(r, request'[r])
    <2>1. request[r].pc = "checked" /\ request[r].op = "task"
      BY <1>27 DEF SaveTask, At
    <2>2. Go(r, request'[r]) /\ request'[r].op = "" /\ request'[r].pc = "done"
      BY <1>27, OneCloses DEF SaveTask
    <2>3. UNCHANGED <<user, overlap, matter, ask, token, timer, court>>
      BY <1>27 DEF SaveTask, Local, deskVars
    <2> QED BY <1>27, <2>1, <2>2, <2>3 DEF Step, TouchesWork, TouchesPrior
  <1>28. ASSUME NEW k \in Refs, FindRunning(r, k)
        PROVE  Step(r, request'[r])
    <2>1. New(r)
      BY <1>28 DEF FindRunning, At
    <2>2. Go(r, request'[r]) /\ request'[r].op = "timer" /\ request'[r].pc = "loaded"
      <3> DEFINE rec == [Fresh EXCEPT !.pc = "loaded", !.op = "timer", !.k = k, !.row = IF Running = {} THEN 0 ELSE 1]
      <3>1. rec.op = "timer" /\ rec.pc = "loaded"
        BY DEF Fresh
      <3>2. Go(r, rec)
        BY <1>28 DEF FindRunning
      <3> HIDE DEF rec
      <3> QED BY <3>1, <3>2, OneGoes
    <2>3. UNCHANGED <<user, overlap, matter, ask, token, task, prior, court>>
      BY <1>28 DEF FindRunning, Local, deskVars
    <2> QED BY <1>28, <2>1, <2>2, <2>3 DEF Step, TouchesTimers, New
  <1>29. ASSUME FindTimer(r)
        PROVE  Step(r, request'[r])
    <2>1. request[r].pc = "loaded" /\ request[r].op = "timer"
      BY <1>29 DEF FindTimer, At
    <2>2. Go(r, request'[r]) /\ request'[r].op \in {"", "timer"} /\ request'[r].pc \in {"checked", "done"}
      <3> DEFINE rec == [request[r] EXCEPT !.pc = "checked"]
      <3>1. rec.op = request[r].op /\ rec.pc = "checked"
        BY DEF TypeOK, Request
      <3>2. IF request[r].k \in Running THEN Go(r, rec) ELSE Close(r)
        BY <1>29 DEF FindTimer
      <3> HIDE DEF rec
      <3> QED BY <2>1, <3>1, <3>2, OneGoes, OneCloses
    <2>3. UNCHANGED <<user, overlap, matter, ask, token, task, prior, timer, court>>
      BY <1>29 DEF FindTimer, Local, deskVars
    <2> QED BY <1>29, <2>1, <2>2, <2>3 DEF Step, TouchesTimers
  <1>30. ASSUME StopTimer(r)
        PROVE  Step(r, request'[r])
    <2>1. request[r].pc = "checked" /\ request[r].op = "timer"
      BY <1>30 DEF StopTimer, At
    <2>2. Go(r, request'[r]) /\ request'[r].op = "timer" /\ request'[r].pc = "granted"
      <3> DEFINE rec == [request[r] EXCEPT !.pc = "granted"]
      <3>1. rec.op = "timer" /\ rec.pc = "granted"
        BY <2>1 DEF TypeOK, Request
      <3>2. Go(r, rec)
        BY <1>30 DEF StopTimer
      <3> HIDE DEF rec
      <3> QED BY <3>1, <3>2, OneGoes
    <2>3. UNCHANGED <<user, overlap, matter, ask, token, task, prior, court>>
      BY <1>30 DEF StopTimer, Local, deskVars
    <2> QED BY <1>30, <2>1, <2>2, <2>3 DEF Step, TouchesTimers
  <1>31. ASSUME StartTimer(r)
        PROVE  Step(r, request'[r])
    <2>1. request[r].pc \in {"granted", "loaded"} /\ request[r].op = "timer"
      BY <1>31 DEF StartTimer, MayStart, At
    <2>2. Go(r, request'[r]) /\ request'[r].op = "" /\ request'[r].pc = "done"
      BY <1>31, OneCloses DEF StartTimer, MayStart
    <2>3. UNCHANGED <<user, overlap, matter, ask, token, task, prior, court>>
      BY <1>31 DEF StartTimer, MayStart, Local, deskVars
    <2> QED BY <1>31, <2>1, <2>2, <2>3 DEF Step, TouchesTimers
  <1>32. ASSUME FindImport(r)
        PROVE  Step(r, request'[r])
    <2>1. New(r)
      BY <1>32 DEF FindImport, At
    <2>2. Go(r, request'[r]) /\ request'[r].op = "import" /\ request'[r].pc = "loaded"
      <3> DEFINE rec == [Fresh EXCEPT !.pc = "loaded", !.op = "import"]
      <3>1. rec.op = "import" /\ rec.pc = "loaded"
        BY DEF Fresh
      <3>2. Go(r, rec)
        BY <1>32 DEF FindImport
      <3> HIDE DEF rec
      <3> QED BY <3>1, <3>2, OneGoes
    <2>3. UNCHANGED <<user, overlap, matter, ask, token, task, prior, timer, court>>
      BY <1>32 DEF FindImport, Local, deskVars
    <2> QED BY <1>32, <2>1, <2>2, <2>3 DEF Step, New
  <1>33. ASSUME ApplyImport(r)
        PROVE  Step(r, request'[r])
    <2>1. request[r].pc = "loaded" /\ request[r].op = "import"
      BY <1>33 DEF ApplyImport, At
    <2>2. Go(r, request'[r]) /\ request'[r].op = "" /\ request'[r].pc = "done"
      BY <1>33, OneCloses DEF ApplyImport
    <2>3. UNCHANGED <<user, overlap, matter, ask, token, task, prior, timer>>
      BY <1>33 DEF ApplyImport, Local, deskVars
    <2> QED BY <1>33, <2>1, <2>2, <2>3 DEF Step, TouchesCourt
  <1>34. ASSUME DiscardImport(r)
        PROVE  Step(r, request'[r])
    <2>1. New(r)
      BY <1>34 DEF DiscardImport, At
    <2>2. Go(r, request'[r]) /\ request'[r].op = "" /\ request'[r].pc = "done"
      BY <1>34, OneCloses DEF DiscardImport
    <2>3. UNCHANGED <<user, overlap, matter, ask, token, task, prior, timer>>
      BY <1>34 DEF DiscardImport, Local, deskVars
    <2> QED BY <1>34, <2>1, <2>2, <2>3 DEF Step, TouchesCourt, New
  <1>35. ASSUME NEW kind \in Kinds, BeginOpening(r, kind)
        PROVE  Step(r, request'[r])
    <2>1. New(r)
      BY <1>35 DEF BeginOpening
    <2>2. Go(r, request'[r]) /\ request'[r].op = "" /\ request'[r].pc = "done"
      BY <1>35, OneCloses DEF BeginOpening
    <2>3. UNCHANGED <<user, overlap, matter, ask, token, task, prior, timer, court>>
      BY <1>35 DEF BeginOpening, Local
    <2> QED BY <2>1, <2>2, <2>3 DEF Step, New
  <1> QED BY <1>1, <1>2, <1>3, <1>4, <1>5, <1>6, <1>7, <1>8, <1>9, <1>10, <1>11, <1>12, <1>13, <1>14, <1>15, <1>16, <1>17, <1>18, <1>19, <1>20, <1>21, <1>22, <1>23, <1>24, <1>25, <1>26, <1>27, <1>28, <1>29, <1>30, <1>31, <1>32, <1>33, <1>34, <1>35 DEF Serves, DeskStep, PracticeStep

----------------------------------------------------------------------------
(* Types *)

\* TypeOK but what is about Intake.
RestTypes ==
  /\ user \in [Users -> User] /\ matter \in Matter /\ member \in [Users -> Member]
  /\ ask \in [Refs -> Ask] /\ token \in [Refs -> Token] /\ request \in [Requests -> Request]
  /\ sweep \subseteq Users \X Nat /\ overlap \in BOOLEAN
  /\ task \in Task /\ prior \in Prior /\ timer \in [Refs -> Timer] /\ court \in Court

LEMMA FreshType == Fresh \in Request
  <1>1. Newcomer \in Users /\ Earlier \in Refs /\ {} \in SUBSET Refs
    BY PracticeConstants DEF Refs
  <1> QED BY <1>1 DEF Fresh, Request, Ops

LEMMA RequestFields ==
  ASSUME TypeOK, NEW r \in Requests
  PROVE  LET me == request[r] IN
         /\ me \in Request /\ me.op \in Ops /\ me.u \in Users /\ me.v \in Users /\ me.k \in Refs /\ me.yes \in BOOLEAN
         /\ me.was \in BOOLEAN /\ me.row \in Nat /\ me.seen \in SUBSET Refs
  BY DEF TypeOK, Request

LEMMA WrittenType ==
  ASSUME TypeOK, NEW u \in Users, NEW role \in {"NONE", "OWNER", "LEAD", "ASSIGNED"}, NEW ends \in {"never", "later", "passed"}
  PROVE  Written(u, role, ends) \in Member
  <1>1. member[u] \in Member /\ member[u].row + 1 \in Nat
    BY DEF TypeOK, Member
  <1>2. [member[u] EXCEPT !.role = role, !.ends = ends] \in Member
    BY <1>1 DEF Member
  <1>3. [role |-> role, ends |-> ends, row |-> member[u].row + 1] \in Member
    BY <1>1 DEF Member
  <1> QED BY <1>2, <1>3 DEF Written

LEMMA CloseTypes ==
  ASSUME TypeOK, NEW r \in Requests, Close(r)
  PROVE  request' \in [Requests -> Request]
  <1> DEFINE rec == [Fresh EXCEPT !.pc = "done"]
  <1>1. rec \in Request
    BY FreshType DEF Request, Ops
  <1> HIDE DEF rec
  <1>2. request' = [request EXCEPT ![r] = rec]
    BY DEF Close, Go, rec
  <1> QED BY <1>1, <1>2 DEF TypeOK

LEMMA ServesTypes ==
  ASSUME TypeOK, NEW r \in Requests, Serves(r)
  PROVE  RestTypes'
  <1>1. ASSUME Die(r), UNCHANGED deskVars
        PROVE  RestTypes'
    <2>1. request' \in [Requests -> Request]
      <3> DEFINE rec == [Fresh EXCEPT !.pc = "dead"]
      <3>1. rec \in Request
        BY FreshType DEF Request, Ops
      <3>2. Go(r, rec)
        BY <1>1 DEF Die
      <3> HIDE DEF rec
      <3> QED BY <3>1, <3>2 DEF TypeOK, Go
    <2>2. UNCHANGED <<user, matter, member, ask, token, sweep, overlap, task, prior, timer, court>>
      BY <1>1 DEF Die, deskVars
    <2> QED BY <2>1, <2>2 DEF TypeOK, RestTypes
  <1>2. ASSUME NEW u \in Users, NEW yes \in BOOLEAN, NEW was \in BOOLEAN, GuardUser(r, u, yes, was), UNCHANGED deskVars
        PROVE  RestTypes'
    <2>1. request' \in [Requests -> Request]
      <3> DEFINE rec == [Fresh EXCEPT !.pc = "open", !.op = "save", !.u = u, !.yes = yes, !.was = was]
      <3>1. rec \in Request
        BY FreshType DEF Request, Ops
      <3>2. Go(r, rec)
        BY <1>2 DEF GuardUser
      <3> HIDE DEF rec
      <3> QED BY <3>1, <3>2 DEF TypeOK, Go
    <2>2. UNCHANGED <<user, matter, member, ask, token, sweep, overlap, task, prior, timer, court>>
      BY <1>2 DEF GuardUser, deskVars
    <2> QED BY <2>1, <2>2 DEF TypeOK, RestTypes
  <1>3. ASSUME CommitUser(r), UNCHANGED deskVars
        PROVE  RestTypes'
    <2>1. request' \in [Requests -> Request]
      BY <1>3, CloseTypes DEF CommitUser
    <2>2. UNCHANGED <<matter, member, ask, token, sweep, task, prior, timer, court>>
      BY <1>3 DEF CommitUser, deskVars
    <2>3. user' \in [Users -> User]
      <3>1. request[r].u \in Users /\ request[r].yes \in BOOLEAN /\ request[r].was \in BOOLEAN
        BY RequestFields
      <3> QED BY <1>3, <3>1 DEF CommitUser, TypeOK, User
    <2>4. overlap' \in BOOLEAN
      BY <1>3 DEF CommitUser, TypeOK, NoteRemoval
    <2> QED BY <2>1, <2>2, <2>3, <2>4 DEF TypeOK, RestTypes
  <1>4. ASSUME CreateUser(r), UNCHANGED deskVars
        PROVE  RestTypes'
    <2>1. request' \in [Requests -> Request]
      BY <1>4, CloseTypes DEF CreateUser
    <2>2. UNCHANGED <<matter, member, ask, token, sweep, overlap, task, prior, timer, court>>
      BY <1>4 DEF CreateUser, deskVars
    <2>3. user' \in [Users -> User]
      BY <1>4 DEF CreateUser, TypeOK, User
    <2> QED BY <2>1, <2>2, <2>3 DEF TypeOK, RestTypes
  <1>5. ASSUME NEW u \in Users, NEW v \in Users, LoadOffboard(r, u, v), UNCHANGED deskVars
        PROVE  RestTypes'
    <2>1. request' \in [Requests -> Request]
      <3> DEFINE rec == [Fresh EXCEPT !.pc = "loaded", !.op = "offboard", !.u = u, !.v = v, !.was = user[u].owner]
      <3>1. rec \in Request
        BY FreshType DEF Request, Ops, TypeOK, User
      <3>2. Go(r, rec)
        BY <1>5 DEF LoadOffboard
      <3> HIDE DEF rec
      <3> QED BY <3>1, <3>2 DEF TypeOK, Go
    <2>2. UNCHANGED <<user, matter, member, ask, token, sweep, overlap, task, prior, timer, court>>
      BY <1>5 DEF LoadOffboard, deskVars
    <2> QED BY <2>1, <2>2 DEF TypeOK, RestTypes
  <1>6. ASSUME OpenOffboard(r), UNCHANGED deskVars
        PROVE  RestTypes'
    <2>1. request' \in [Requests -> Request]
      <3> DEFINE rec == [request[r] EXCEPT !.pc = "open", !.row = IF Holds(request[r].u) THEN member[request[r].u].row ELSE 0, !.yes = Holds(request[r].v)]
      <3>1. rec \in Request
        <4>1. member[request[r].u].row \in Nat /\ Holds(request[r].v) \in BOOLEAN
          BY RequestFields DEF TypeOK, Member, Holds
        <4> QED BY <4>1, RequestFields DEF Request
      <3>2. Go(r, rec)
        BY <1>6 DEF OpenOffboard
      <3> HIDE DEF rec
      <3> QED BY <3>1, <3>2 DEF TypeOK, Go
    <2>2. UNCHANGED <<user, matter, member, ask, token, sweep, overlap, task, prior, timer, court>>
      BY <1>6 DEF OpenOffboard, deskVars
    <2> QED BY <2>1, <2>2 DEF TypeOK, RestTypes
  <1>7. ASSUME NEW u \in Users, NEW ends \in BOOLEAN, CheckMember(r, u, ends), UNCHANGED deskVars
        PROVE  RestTypes'
    <2>1. request' \in [Requests -> Request]
      <3> DEFINE rec == [request[r] EXCEPT !.pc = "checked", !.op = IF New(r) THEN "grant" ELSE @, !.u = u, !.was = ends]
      <3>1. rec \in Request
        <4>1. (IF New(r) THEN "grant" ELSE request[r].op) \in Ops
          BY RequestFields DEF Ops
        <4> QED BY <4>1, RequestFields DEF Request
      <3>2. Go(r, rec)
        BY <1>7 DEF CheckMember
      <3> HIDE DEF rec
      <3> QED BY <3>1, <3>2 DEF TypeOK, Go
    <2>2. UNCHANGED <<user, matter, member, ask, token, sweep, overlap, task, prior, timer, court>>
      BY <1>7 DEF CheckMember, deskVars
    <2> QED BY <2>1, <2>2 DEF TypeOK, RestTypes
  <1>8. ASSUME WriteMember(r), UNCHANGED deskVars
        PROVE  RestTypes'
    <2>1. request' \in [Requests -> Request]
      <3> DEFINE rec == [request[r] EXCEPT !.pc = "granted"]
      <3>1. rec \in Request
        BY RequestFields DEF Request
      <3>2. IF request[r].op = "decide" THEN Go(r, rec) ELSE Close(r)
        BY <1>8 DEF WriteMember
      <3> HIDE DEF rec
      <3> QED BY <3>1, <3>2, CloseTypes DEF TypeOK, Go
    <2>2. UNCHANGED <<user, matter, token, sweep, overlap, task, prior, timer, court>>
      BY <1>8 DEF WriteMember, deskVars
    <2>3. member' \in [Users -> Member]
      <3>1. request[r].u \in Users /\ request[r].was \in BOOLEAN
        BY RequestFields
      <3>2. (IF request[r].was THEN "later" ELSE "never") \in {"never", "later", "passed"}
        OBVIOUS
      <3>3. Written(request[r].u, "ASSIGNED", IF request[r].was THEN "later" ELSE "never") \in Member
        BY <3>1, <3>2, WrittenType
      <3> QED BY <1>8, <3>1, <3>3 DEF WriteMember, TypeOK
    <2>4. ask' \in [Refs -> Ask]
      <3>1. request[r].k \in Refs /\ ask[request[r].k] \in Ask /\ ask \in [Refs -> Ask]
        BY RequestFields DEF TypeOK
      <3>2. [ask[request[r].k] EXCEPT !.granted = TRUE] \in Ask
        BY <3>1 DEF Ask
      <3>3. ask' = ask \/ ask' = [ask EXCEPT ![request[r].k] = [ask[request[r].k] EXCEPT !.granted = TRUE]]
        BY <1>8, <3>1 DEF WriteMember
      <3> QED BY <3>1, <3>2, <3>3
    <2> QED BY <2>1, <2>2, <2>3, <2>4 DEF TypeOK, RestTypes
  <1>9. ASSUME NEW u \in Users, LoadRemoval(r, u), UNCHANGED deskVars
        PROVE  RestTypes'
    <2>1. request' \in [Requests -> Request]
      <3> DEFINE rec == [Fresh EXCEPT !.pc = "loaded", !.op = "remove", !.u = u, !.row = member[u].row]
      <3>1. rec \in Request
        BY FreshType DEF Request, Ops, TypeOK, Member
      <3>2. Go(r, rec)
        BY <1>9 DEF LoadRemoval
      <3> HIDE DEF rec
      <3> QED BY <3>1, <3>2 DEF TypeOK, Go
    <2>2. UNCHANGED <<user, matter, member, ask, token, sweep, overlap, task, prior, timer, court>>
      BY <1>9 DEF LoadRemoval, deskVars
    <2> QED BY <2>1, <2>2 DEF TypeOK, RestTypes
  <1>10. ASSUME RemoveMember(r), UNCHANGED deskVars
        PROVE  RestTypes'
    <2>1. request' \in [Requests -> Request]
      BY <1>10, CloseTypes DEF RemoveMember
    <2>2. UNCHANGED <<user, matter, ask, token, sweep, overlap, task, prior, timer, court>>
      BY <1>10 DEF RemoveMember, deskVars, Delete
    <2>3. member' \in [Users -> Member]
      BY <1>10 DEF RemoveMember, TypeOK, Member, Delete
    <2> QED BY <2>1, <2>2, <2>3 DEF TypeOK, RestTypes
  <1>11. ASSUME NEW u \in Users, LoadAccess(r, u), UNCHANGED deskVars
        PROVE  RestTypes'
    <2>1. request' \in [Requests -> Request]
      <3> DEFINE rec == [Fresh EXCEPT !.pc = "loaded", !.op = "request", !.u = u]
      <3>1. rec \in Request
        BY FreshType DEF Request, Ops
      <3>2. Go(r, rec)
        BY <1>11 DEF LoadAccess
      <3> HIDE DEF rec
      <3> QED BY <3>1, <3>2 DEF TypeOK, Go
    <2>2. UNCHANGED <<user, matter, member, ask, token, sweep, overlap, task, prior, timer, court>>
      BY <1>11 DEF LoadAccess, deskVars
    <2> QED BY <2>1, <2>2 DEF TypeOK, RestTypes
  <1>12. ASSUME RequestAccess(r), UNCHANGED deskVars
        PROVE  RestTypes'
    <2>1. request' \in [Requests -> Request]
      BY <1>12, CloseTypes DEF RequestAccess
    <2>2. UNCHANGED <<user, matter, member, token, sweep, overlap, task, prior, timer, court>>
      BY <1>12 DEF RequestAccess, deskVars
    <2>3. ask' \in [Refs -> Ask]
      BY <1>12 DEF RequestAccess, TypeOK, Ask, Refs, NoAsk, Request
    <2> QED BY <2>1, <2>2, <2>3 DEF TypeOK, RestTypes
  <1>13. ASSUME NEW k \in Refs, NEW yes \in BOOLEAN, LoadAsk(r, k, yes), UNCHANGED deskVars
        PROVE  RestTypes'
    <2>1. request' \in [Requests -> Request]
      <3> DEFINE rec == [Fresh EXCEPT !.pc = "asked", !.op = "decide", !.k = k, !.u = ask[k].by, !.yes = yes]
      <3>1. rec \in Request
        BY FreshType DEF Request, Ops, TypeOK, Ask
      <3>2. Go(r, rec)
        BY <1>13 DEF LoadAsk
      <3> HIDE DEF rec
      <3> QED BY <3>1, <3>2 DEF TypeOK, Go
    <2>2. UNCHANGED <<user, matter, member, token, sweep, overlap, task, prior, timer, court>>
      BY <1>13 DEF LoadAsk, deskVars
    <2>3. ask' \in [Refs -> Ask]
      BY <1>13 DEF LoadAsk, TypeOK, Ask, Refs
    <2> QED BY <2>1, <2>2, <2>3 DEF TypeOK, RestTypes
  <1>14. ASSUME DecideAccess(r), UNCHANGED deskVars
        PROVE  RestTypes'
    <2>1. request' \in [Requests -> Request]
      BY <1>14, CloseTypes DEF DecideAccess, MayDecide
    <2>2. UNCHANGED <<user, matter, member, token, sweep, overlap, task, prior, timer, court>>
      BY <1>14 DEF DecideAccess, MayDecide, deskVars
    <2>3. ask' \in [Refs -> Ask]
      BY <1>14 DEF DecideAccess, MayDecide, TypeOK, Ask, Refs, Request
    <2> QED BY <2>1, <2>2, <2>3 DEF TypeOK, RestTypes
  <1>15. ASSUME NEW yes \in BOOLEAN, CopyMatter(r, yes), UNCHANGED deskVars
        PROVE  RestTypes'
    <2>1. request' \in [Requests -> Request]
      <3> DEFINE rec == [Fresh EXCEPT !.pc = "copied", !.op = "update", !.v = matter.lead, !.yes = yes]
      <3>1. rec \in Request
        BY FreshType DEF Request, Ops, TypeOK, Matter
      <3>2. Go(r, rec)
        BY <1>15 DEF CopyMatter
      <3> HIDE DEF rec
      <3> QED BY <3>1, <3>2 DEF TypeOK, Go
    <2>2. UNCHANGED <<user, matter, member, ask, token, sweep, overlap, task, prior, timer, court>>
      BY <1>15 DEF CopyMatter, deskVars
    <2> QED BY <2>1, <2>2 DEF TypeOK, RestTypes
  <1>16. ASSUME NEW u \in Users, NEW yes \in BOOLEAN, LoadMatter(r, u, yes), UNCHANGED deskVars
        PROVE  RestTypes'
    <2>1. request' \in [Requests -> Request]
      <3> DEFINE rec == [Fresh EXCEPT !.pc = "loaded", !.op = "update", !.u = matter.lead, !.v = u, !.yes = yes, !.was = matter.open]
      <3>1. rec \in Request
        BY FreshType DEF Request, Ops, TypeOK, Matter
      <3>2. Go(r, rec)
        BY <1>16 DEF LoadMatter
      <3> HIDE DEF rec
      <3> QED BY <3>1, <3>2 DEF TypeOK, Go
    <2>2. UNCHANGED <<user, matter, member, ask, token, sweep, overlap, task, prior, timer, court>>
      BY <1>16 DEF LoadMatter, deskVars
    <2> QED BY <2>1, <2>2 DEF TypeOK, RestTypes
  <1>17. ASSUME NEW u \in Users, OpenIssue(r, u), UNCHANGED deskVars
        PROVE  RestTypes'
    <2> DEFINE kind == IF user[u].status = "NONE" THEN "INVITATION" ELSE "RESET"
    <2>1. request' \in [Requests -> Request]
      <3> DEFINE rec == [Fresh EXCEPT !.pc = "open", !.op = kind, !.u = u, !.seen = Live(kind, u)]
      <3>1. rec \in Request
        BY FreshType DEF Request, Ops, Live
      <3>2. Go(r, rec)
        BY <1>17 DEF OpenIssue
      <3> HIDE DEF rec
      <3> QED BY <3>1, <3>2 DEF TypeOK, Go
    <2>2. UNCHANGED <<user, matter, member, ask, token, sweep, overlap, task, prior, timer, court>>
      BY <1>17 DEF OpenIssue, deskVars
    <2> QED BY <2>1, <2>2 DEF TypeOK, RestTypes
  <1>18. ASSUME IssueToken(r), UNCHANGED deskVars
        PROVE  RestTypes'
    <2>1. request' \in [Requests -> Request]
      BY <1>18, CloseTypes DEF IssueToken
    <2>2. UNCHANGED <<user, matter, member, ask, sweep, overlap, task, prior, timer, court>>
      BY <1>18 DEF IssueToken, deskVars
    <2>3. token' \in [Refs -> Token]
      <3>1. request[r].u \in Users /\ request[r].op \in {"INVITATION", "RESET"}
        <4>1. request[r].op \in {"INVITATION", "RESET"}
          BY <1>18 DEF IssueToken
        <4> QED BY <4>1, RequestFields
      <3>2. [NoToken EXCEPT !.kind = request[r].op, !.for = request[r].u, !.status = "LIVE"] \in Token
        <4>1. NoToken \in Token
          BY PracticeConstants DEF NoToken, Token
        <4> QED BY <3>1, <4>1 DEF Token
      <3>3. \A k \in Refs : token[k] \in Token /\ [token[k] EXCEPT !.status = "REVOKED"] \in Token
        BY DEF TypeOK, Token
      <3> QED BY <1>18, <3>2, <3>3 DEF IssueToken
    <2> QED BY <2>1, <2>2, <2>3 DEF TypeOK, RestTypes
  <1>19. ASSUME NEW k \in Refs, FindToken(r, k), UNCHANGED deskVars
        PROVE  RestTypes'
    <2>1. request' \in [Requests -> Request]
      <3> DEFINE rec == [Fresh EXCEPT !.pc = "open", !.op = "consume", !.k = k, !.yes = user[token[k].for].status = IF token[k].kind = "INVITATION" THEN "NONE" ELSE "ACTIVE"]
      <3>1. rec \in Request
        BY FreshType DEF Request, Ops
      <3>2. Go(r, rec)
        BY <1>19 DEF FindToken
      <3> HIDE DEF rec
      <3> QED BY <3>1, <3>2 DEF TypeOK, Go
    <2>2. UNCHANGED <<user, matter, member, ask, token, sweep, overlap, task, prior, timer, court>>
      BY <1>19 DEF FindToken, deskVars
    <2> QED BY <2>1, <2>2 DEF TypeOK, RestTypes
  <1>20. ASSUME ConsumeToken(r), UNCHANGED deskVars
        PROVE  RestTypes'
    <2>1. request' \in [Requests -> Request]
      BY <1>20, CloseTypes DEF ConsumeToken
    <2>2. UNCHANGED <<matter, ask, sweep, overlap, task, prior, timer, court>>
      BY <1>20 DEF ConsumeToken, deskVars
    <2>3. token' \in [Refs -> Token]
      <3> DEFINE k == request[r].k
               making == token[k].kind = "INVITATION" /\ request[r].yes
               x == [token[k] EXCEPT !.status = "USED", !.claims = @ + 1, !.made = @ \/ making]
      <3>1. k \in Refs /\ token[k] \in Token /\ making \in BOOLEAN
        BY RequestFields DEF TypeOK
      <3>2. x \in Token
        <4>1. token[k].claims + 1 \in Nat /\ (token[k].made \/ making) \in BOOLEAN
          BY <3>1 DEF Token
        <4> HIDE DEF making, k
        <4> QED BY <3>1, <4>1 DEF Token
      <3>3. token' = [token EXCEPT ![k] = x]
        <4>1. token \in [Refs -> Token]
          BY DEF TypeOK
        <4>2. token' = [token EXCEPT ![k].status = "USED", ![k].claims = @ + 1, ![k].made = @ \/ making]
          BY <1>20 DEF ConsumeToken
        <4> QED BY <3>1, <4>1, <4>2
      <3> HIDE DEF x, k
      <3> QED BY <3>1, <3>2, <3>3 DEF TypeOK
    <2>4. user' \in [Users -> User]
      <3> DEFINE p == token[request[r].k].for
               x == [user[p] EXCEPT !.status = "ACTIVE", !.origin = "invited"]
      <3>1. request[r].k \in Refs /\ token[request[r].k] \in Token
        BY RequestFields DEF TypeOK
      <3>2. p \in Users
        BY <3>1 DEF Token
      <3>3. user[p] \in User /\ user \in [Users -> User]
        BY <3>2 DEF TypeOK
      <3>4. x \in User
        BY <3>3 DEF User
      <3>5. user' = user \/ user' = [user EXCEPT ![p] = x]
        BY <1>20, <3>2, <3>3 DEF ConsumeToken
      <3> HIDE DEF p, x
      <3> QED BY <3>2, <3>3, <3>4, <3>5
    <2>5. member' \in [Users -> Member]
      <3>1. request[r].k \in Refs /\ token[request[r].k] \in Token
        BY RequestFields DEF TypeOK
      <3>2. token[request[r].k].for \in Users
        BY <3>1 DEF Token
      <3>3. Written(token[request[r].k].for, "ASSIGNED", "never") \in Member
        BY <3>2, WrittenType
      <3> QED BY <1>20, <3>2, <3>3 DEF ConsumeToken, TypeOK
    <2> QED BY <2>1, <2>2, <2>3, <2>4, <2>5 DEF TypeOK, RestTypes
  <1>21. ASSUME Offboard(r)
        PROVE  RestTypes'
    <2>1. request' \in [Requests -> Request]
      BY <1>21, CloseTypes DEF Offboard, CommitOffboard
    <2>2. UNCHANGED <<ask, sweep, prior, timer, court>>
      BY <1>21 DEF Offboard, CommitOffboard, Local, deskVars
    <2>3. user' \in [Users -> User]
      <3>1. request[r].u \in Users
        BY RequestFields
      <3> QED BY <1>21, <3>1 DEF Offboard, CommitOffboard, TypeOK, User
    <2>4. matter' \in Matter
      BY <1>21 DEF Offboard, CommitOffboard, TypeOK, Matter, Handed, Request, User
    <2>5. member' \in [Users -> Member]
      <3>1. \A p \in Users : member[p] \in Member /\ member[p].row + 1 \in Nat
        BY DEF TypeOK, Member
      <3>2. \A p \in Users : [member[p] EXCEPT !.role = "NONE", !.ends = "never"] \in Member
        BY <3>1 DEF Member
      <3>3. \A p \in Users : [role |-> "ASSIGNED", ends |-> "never", row |-> member[p].row + 1] \in Member
        BY <3>1 DEF Member
      <3> QED BY <1>21, <3>1, <3>2, <3>3 DEF Offboard, CommitOffboard
    <2>6. token' \in [Refs -> Token]
      BY <1>21 DEF Offboard, CommitOffboard, TypeOK, Token, Refs
    <2>7. overlap' \in BOOLEAN
      BY <1>21 DEF Offboard, CommitOffboard, TypeOK, NoteRemoval
    <2>8. task' \in Task
      BY <1>21 DEF Offboard, CommitOffboard, TypeOK, Task, HandedTask, Request, User
    <2> QED BY <2>1, <2>2, <2>3, <2>4, <2>5, <2>6, <2>7, <2>8 DEF TypeOK, RestTypes
  <1>22. ASSUME ChangeMatter(r)
        PROVE  RestTypes'
    <2>1. request' \in [Requests -> Request]
      BY <1>22, CloseTypes DEF ChangeMatter, WriteMatter
    <2>2. UNCHANGED <<user, ask, token, sweep, overlap, timer, court>>
      BY <1>22 DEF ChangeMatter, WriteMatter, Local, deskVars
    <2>3. matter' \in Matter
      BY <1>22 DEF ChangeMatter, WriteMatter, TypeOK, Matter, Request, User
    <2>4. member' \in [Users -> Member]
      <3>1. request[r].v \in Users
        BY RequestFields
      <3>2. (IF Holds(request[r].v) THEN member[request[r].v].ends ELSE "never") \in {"never", "later", "passed"}
        BY <3>1 DEF TypeOK, Member
      <3>3. Written(request[r].v, "LEAD", IF Holds(request[r].v) THEN member[request[r].v].ends ELSE "never") \in Member
        BY <3>1, <3>2, WrittenType
      <3> QED BY <1>22, <3>1, <3>3 DEF ChangeMatter, WriteMatter, TypeOK
    <2>5. task' \in Task
      BY <1>22 DEF ChangeMatter, WriteMatter, TypeOK, Task, Closing
    <2>6. prior' \in Prior
      BY <1>22 DEF ChangeMatter, WriteMatter, TypeOK, Prior
    <2> QED BY <2>1, <2>2, <2>3, <2>4, <2>5, <2>6 DEF TypeOK, RestTypes
  <1>23. ASSUME NEW u \in Users, CheckAssignee(r, u)
        PROVE  RestTypes'
    <2>1. request' \in [Requests -> Request]
      <3> DEFINE rec == [Fresh EXCEPT !.pc = "checked", !.op = "task", !.u = u]
      <3>1. rec \in Request
        BY FreshType DEF Request, Ops
      <3>2. Go(r, rec)
        BY <1>23 DEF CheckAssignee
      <3> HIDE DEF rec
      <3> QED BY <3>1, <3>2 DEF TypeOK, Go
    <2>2. UNCHANGED <<user, matter, member, ask, token, sweep, overlap, task, prior, timer, court>>
      BY <1>23 DEF CheckAssignee, Local, deskVars
    <2> QED BY <2>1, <2>2 DEF TypeOK, RestTypes
  <1>24. ASSUME NEW yes \in BOOLEAN, LoadTask(r, yes)
        PROVE  RestTypes'
    <2>1. request' \in [Requests -> Request]
      <3> DEFINE rec == [Fresh EXCEPT !.pc = "loaded", !.op = "task", !.yes = yes]
      <3>1. rec \in Request
        BY FreshType DEF Request, Ops
      <3>2. Go(r, rec)
        BY <1>24 DEF LoadTask
      <3> HIDE DEF rec
      <3> QED BY <3>1, <3>2 DEF TypeOK, Go
    <2>2. UNCHANGED <<user, matter, member, ask, token, sweep, overlap, task, prior, timer, court>>
      BY <1>24 DEF LoadTask, Local, deskVars
    <2> QED BY <2>1, <2>2 DEF TypeOK, RestTypes
  <1>25. ASSUME NEW yes \in BOOLEAN, SetPrior(r, yes)
        PROVE  RestTypes'
    <2>1. request' \in [Requests -> Request]
      BY <1>25, CloseTypes DEF SetPrior
    <2>2. UNCHANGED <<user, matter, member, ask, token, sweep, overlap, task, timer, court>>
      BY <1>25 DEF SetPrior, Local, deskVars
    <2>3. prior' \in Prior
      BY <1>25 DEF SetPrior, TypeOK, Prior, Depends
    <2> QED BY <2>1, <2>2, <2>3 DEF TypeOK, RestTypes
  <1>26. ASSUME NEW status \in {"OPEN", "DONE", "CANCELLED", "DELETED"}, SetTask(r, status)
        PROVE  RestTypes'
    <2>1. request' \in [Requests -> Request]
      BY <1>26, CloseTypes DEF SetTask
    <2>2. UNCHANGED <<user, matter, member, ask, token, sweep, overlap, timer, court>>
      BY <1>26 DEF SetTask, Local, deskVars
    <2>3. task' \in Task
      BY <1>26 DEF SetTask, TypeOK, Task, User
    <2>4. prior' \in Prior
      BY <1>26 DEF SetTask, TypeOK, Prior
    <2> QED BY <2>1, <2>2, <2>3, <2>4 DEF TypeOK, RestTypes
  <1>27. ASSUME NEW status \in {"OPEN", "DONE", "CANCELLED"}, NEW open \in BOOLEAN, SaveTask(r, status, open)
        PROVE  RestTypes'
    <2>1. request' \in [Requests -> Request]
      BY <1>27, CloseTypes DEF SaveTask
    <2>2. UNCHANGED <<user, matter, member, ask, token, sweep, overlap, timer, court>>
      BY <1>27 DEF SaveTask, Local, deskVars
    <2>3. task' \in Task
      BY <1>27 DEF SaveTask, TypeOK, Task, Request, User
    <2>4. prior' \in Prior
      BY <1>27 DEF SaveTask, TypeOK, Prior, Depends
    <2> QED BY <2>1, <2>2, <2>3, <2>4 DEF TypeOK, RestTypes
  <1>28. ASSUME NEW k \in Refs, FindRunning(r, k)
        PROVE  RestTypes'
    <2>1. request' \in [Requests -> Request]
      <3> DEFINE rec == [Fresh EXCEPT !.pc = "loaded", !.op = "timer", !.k = k, !.row = IF Running = {} THEN 0 ELSE 1]
      <3>1. rec \in Request
        BY FreshType DEF Request, Ops
      <3>2. Go(r, rec)
        BY <1>28 DEF FindRunning
      <3> HIDE DEF rec
      <3> QED BY <3>1, <3>2 DEF TypeOK, Go
    <2>2. UNCHANGED <<user, matter, member, ask, token, sweep, overlap, task, prior, court>>
      BY <1>28 DEF FindRunning, Local, deskVars
    <2>3. timer' \in [Refs -> Timer]
      BY <1>28 DEF FindRunning, TypeOK, Timer, Refs, Running, Starting
    <2> QED BY <2>1, <2>2, <2>3 DEF TypeOK, RestTypes
  <1>29. ASSUME FindTimer(r)
        PROVE  RestTypes'
    <2>1. request' \in [Requests -> Request]
      <3> DEFINE rec == [request[r] EXCEPT !.pc = "checked"]
      <3>1. rec \in Request
        BY RequestFields DEF Request
      <3>2. IF request[r].k \in Running THEN Go(r, rec) ELSE Close(r)
        BY <1>29 DEF FindTimer
      <3> HIDE DEF rec
      <3> QED BY <3>1, <3>2, CloseTypes DEF TypeOK, Go
    <2>2. UNCHANGED <<user, matter, member, ask, token, sweep, overlap, task, prior, timer, court>>
      BY <1>29 DEF FindTimer, Local, deskVars
    <2> QED BY <2>1, <2>2 DEF TypeOK, RestTypes
  <1>30. ASSUME StopTimer(r)
        PROVE  RestTypes'
    <2>1. request' \in [Requests -> Request]
      <3> DEFINE rec == [request[r] EXCEPT !.pc = "granted"]
      <3>1. rec \in Request
        BY RequestFields DEF Request
      <3>2. Go(r, rec)
        BY <1>30 DEF StopTimer
      <3> HIDE DEF rec
      <3> QED BY <3>1, <3>2 DEF TypeOK, Go
    <2>2. UNCHANGED <<user, matter, member, ask, token, sweep, overlap, task, prior, court>>
      BY <1>30 DEF StopTimer, Local, deskVars
    <2>3. timer' \in [Refs -> Timer]
      BY <1>30 DEF StopTimer, TypeOK, Timer, Refs, Request
    <2> QED BY <2>1, <2>2, <2>3 DEF TypeOK, RestTypes
  <1>31. ASSUME StartTimer(r)
        PROVE  RestTypes'
    <2>1. request' \in [Requests -> Request]
      BY <1>31, CloseTypes DEF StartTimer, MayStart
    <2>2. UNCHANGED <<user, matter, member, ask, token, sweep, overlap, task, prior, court>>
      BY <1>31 DEF StartTimer, MayStart, Local, deskVars
    <2>3. timer' \in [Refs -> Timer]
      BY <1>31 DEF StartTimer, MayStart, TypeOK, Timer, Refs
    <2> QED BY <2>1, <2>2, <2>3 DEF TypeOK, RestTypes
  <1>32. ASSUME FindImport(r)
        PROVE  RestTypes'
    <2>1. request' \in [Requests -> Request]
      <3> DEFINE rec == [Fresh EXCEPT !.pc = "loaded", !.op = "import"]
      <3>1. rec \in Request
        BY FreshType DEF Request, Ops
      <3>2. Go(r, rec)
        BY <1>32 DEF FindImport
      <3> HIDE DEF rec
      <3> QED BY <3>1, <3>2 DEF TypeOK, Go
    <2>2. UNCHANGED <<user, matter, member, ask, token, sweep, overlap, task, prior, timer, court>>
      BY <1>32 DEF FindImport, Local, deskVars
    <2> QED BY <2>1, <2>2 DEF TypeOK, RestTypes
  <1>33. ASSUME ApplyImport(r)
        PROVE  RestTypes'
    <2>1. request' \in [Requests -> Request]
      BY <1>33, CloseTypes DEF ApplyImport
    <2>2. UNCHANGED <<user, matter, member, ask, token, sweep, overlap, task, prior, timer>>
      BY <1>33 DEF ApplyImport, Local, deskVars
    <2>3. court' \in Court
      BY <1>33 DEF ApplyImport, TypeOK, Court
    <2> QED BY <2>1, <2>2, <2>3 DEF TypeOK, RestTypes
  <1>34. ASSUME DiscardImport(r)
        PROVE  RestTypes'
    <2>1. request' \in [Requests -> Request]
      BY <1>34, CloseTypes DEF DiscardImport
    <2>2. UNCHANGED <<user, matter, member, ask, token, sweep, overlap, task, prior, timer>>
      BY <1>34 DEF DiscardImport, Local, deskVars
    <2>3. court' \in Court
      BY <1>34 DEF DiscardImport, TypeOK, Court
    <2> QED BY <2>1, <2>2, <2>3 DEF TypeOK, RestTypes
  <1>35. ASSUME NEW kind \in Kinds, BeginOpening(r, kind)
        PROVE  RestTypes'
    <2>1. request' \in [Requests -> Request]
      BY <1>35, CloseTypes DEF BeginOpening
    <2>2. UNCHANGED <<user, matter, member, ask, token, sweep, overlap, task, prior, timer, court>>
      BY <1>35 DEF BeginOpening, Local, New
    <2> QED BY <2>1, <2>2 DEF TypeOK, RestTypes
  <1> QED BY <1>1, <1>2, <1>3, <1>4, <1>5, <1>6, <1>7, <1>8, <1>9, <1>10, <1>11, <1>12, <1>13, <1>14, <1>15, <1>16, <1>17, <1>18, <1>19, <1>20, <1>21, <1>22, <1>23, <1>24, <1>25, <1>26, <1>27, <1>28, <1>29, <1>30, <1>31, <1>32, <1>33, <1>34, <1>35 DEF Serves, DeskStep, PracticeStep


LEMMA WorkerTypes ==
  ASSUME TypeOK, Worker \/ \E u \in Users : Expire(u), UNCHANGED deskVars
  PROVE  RestTypes'
  <1>1. \A u \in Users : member[u] \in Member /\ member[u].row \in Nat /\ member \in [Users -> Member]
    BY DEF TypeOK, Member
  <1>2. UNCHANGED restVars
    BY DEF Worker, ReadExpired, SweepOne, Expire, deskVars, restVars
  <1>3. \A u \in Users : \A ends \in {"never", "passed"} : [member[u] EXCEPT !.ends = ends] \in Member
    BY <1>1 DEF Member
  <1>4. \A u \in Users : [member[u] EXCEPT !.role = "NONE", !.ends = "never"] \in Member
    BY <1>1 DEF Member
  <1>5. \A u \in Users : Delete(u) => member' \in [Users -> Member]
    BY <1>1, <1>4 DEF Delete
  <1>6. sweep \subseteq Users \X Nat
    BY DEF TypeOK
  <1>7. ASSUME ReadExpired
        PROVE  member' \in [Users -> Member] /\ sweep' \subseteq Users \X Nat
    <2>1. Expired \subseteq Users \X Nat
      BY <1>1 DEF Expired
    <2> QED BY <1>7, <2>1 DEF ReadExpired, TypeOK
  <1>8. ASSUME NEW u \in Users, SweepOne(u)
        PROVE  member' \in [Users -> Member] /\ sweep' \subseteq Users \X Nat
    <2>1. (Delete(u) /\ sweep' \subseteq sweep) \/ (sweep' = {} /\ UNCHANGED member)
      BY <1>8 DEF SweepOne
    <2> QED BY <1>5, <1>6, <2>1 DEF TypeOK
  <1>9. ASSUME NEW u \in Users, Expire(u)
        PROVE  member' \in [Users -> Member] /\ sweep' \subseteq Users \X Nat
    BY <1>1, <1>3, <1>6, <1>9 DEF Expire
  <1>10. member' \in [Users -> Member] /\ sweep' \subseteq Users \X Nat
    BY <1>7, <1>8, <1>9 DEF Worker
  <1> QED BY <1>2, <1>10 DEF TypeOK, RestTypes, restVars

LEMMA TypesNext ==
  ASSUME TypeOK, IntakeInv, [Next]_vars
  PROVE  TypeOK' /\ IntakeInv'
  <1>1. IntakeInv'
    BY IntakeImplemented, IntakeNextInv
  <1>2. ASSUME UNCHANGED vars
        PROVE  RestTypes'
    <2>1. RestTypes
      BY DEF TypeOK, RestTypes
    <2>2. UNCHANGED <<user, matter, member, ask, token, request, sweep, overlap, task, prior, timer, court>>
      BY <1>2 DEF vars, practiceVars, deskVars
    <2> QED BY <2>1, <2>2 DEF RestTypes
  <1>3. ASSUME Next
        PROVE  RestTypes'
    <2>1. ASSUME NEW r \in Requests, OpeningStep(r), ~Serves(r)
          PROVE  RestTypes'
      BY <2>1 DEF OpeningStep, Serves, Elsewhere, practiceVars, TypeOK, RestTypes
    <2>2. ASSUME NEW r \in Requests, Serves(r)
          PROVE  RestTypes'
      BY <2>2, ServesTypes
    <2>3. \/ \E r \in Requests : Serves(r)
          \/ \E r \in Requests : OpeningStep(r) /\ ~Serves(r)
          \/ (Worker \/ \E u \in Users : Expire(u)) /\ UNCHANGED deskVars
      BY <1>3 DEF Next, Serves
    <2> QED BY <2>1, <2>2, <2>3, WorkerTypes
  <1>4. RestTypes'
    BY <1>2, <1>3
  <1> QED BY <1>1, <1>4 DEF TypeOK, RestTypes, IntakeInv

\* Who is there at first.
LEMMA InitialRows ==
  ASSUME Init
  PROVE  /\ \E both \in BOOLEAN : user = [u \in Users |-> Account(u, u = Founder \/ both)]
         /\ matter.carried = FALSE /\ \A r \in Requests : request[r] = Fresh
         /\ overlap = FALSE
         /\ \E asker \in Users :
              ask = [k \in Refs |-> IF k = Earlier THEN [NoAsk EXCEPT !.by = asker, !.status = "PENDING"] ELSE NoAsk]
         /\ \A k \in Refs : /\ k # Earlier => token[k] = NoToken
                            /\ token[k].claims = 0 /\ ~token[k].made /\ token[k].status # "USED"
  <1>1. PracticeInit
    BY DEF Init
  <1>2. PICK temp, asker \in Users \ {Newcomer, Founder}, both, invited \in BOOLEAN :
          /\ user = [u \in Users |-> Account(u, u = Founder \/ both)]
          /\ matter = [lead |-> Founder, owner |-> Founder, open |-> TRUE, carried |-> FALSE]
          /\ member = [u \in Users |-> [role |-> IF u = Founder THEN "OWNER" ELSE IF u = temp THEN "ASSIGNED" ELSE "NONE",
                                        ends |-> IF u = temp THEN "later" ELSE "never", row |-> IF u \in {Founder, temp} THEN 1 ELSE 0]]
          /\ ask = [k \in Refs |-> IF k = Earlier THEN [NoAsk EXCEPT !.by = asker, !.status = "PENDING"] ELSE NoAsk]
          /\ token = [k \in Refs |-> IF k # Earlier THEN NoToken
                        ELSE [NoToken EXCEPT !.status = "LIVE", !.kind = IF invited THEN "INVITATION" ELSE "RESET",
                                             !.for = IF invited THEN Newcomer ELSE temp]]
          /\ request = [r \in Requests |-> Fresh]
          /\ sweep = {}
          /\ overlap = FALSE
    BY <1>1 DEF PracticeInit
  <1>3. \A k \in Refs : /\ k # Earlier => token[k] = NoToken
                        /\ token[k].claims = 0 /\ ~token[k].made /\ token[k].status # "USED"
    BY <1>2 DEF NoToken
  <1> QED BY <1>2, <1>3

LEMMA TypesInit ==
  ASSUME Init
  PROVE  TypeOK /\ IntakeInv
  <1>1. IntakeInv
    BY IntakeInitInv DEF Init
  <1>2. PICK temp, asker \in Users \ {Newcomer, Founder}, both, invited \in BOOLEAN :
          /\ user = [u \in Users |-> Account(u, u = Founder \/ both)]
          /\ matter = [lead |-> Founder, owner |-> Founder, open |-> TRUE, carried |-> FALSE]
          /\ member = [u \in Users |-> [role |-> IF u = Founder THEN "OWNER" ELSE IF u = temp THEN "ASSIGNED" ELSE "NONE",
                                        ends |-> IF u = temp THEN "later" ELSE "never", row |-> IF u \in {Founder, temp} THEN 1 ELSE 0]]
          /\ ask = [k \in Refs |-> IF k = Earlier THEN [NoAsk EXCEPT !.by = asker, !.status = "PENDING"] ELSE NoAsk]
          /\ token = [k \in Refs |-> IF k # Earlier THEN NoToken
                        ELSE [NoToken EXCEPT !.status = "LIVE", !.kind = IF invited THEN "INVITATION" ELSE "RESET",
                                             !.for = IF invited THEN Newcomer ELSE temp]]
          /\ request = [r \in Requests |-> Fresh]
          /\ sweep = {}
          /\ overlap = FALSE
    <2>1. PracticeInit
      BY DEF Init
    <2> QED BY <2>1 DEF PracticeInit
  <1>3. Newcomer \in Users /\ Founder \in Users
    BY PracticeConstants
  <1>4. user \in [Users -> User]
    BY <1>2 DEF Account, User
  <1>5. matter \in Matter /\ sweep \subseteq Users \X Nat /\ overlap \in BOOLEAN
    BY <1>2, <1>3 DEF Matter
  <1>6. member \in [Users -> Member]
    BY <1>2 DEF Member
  <1>7. ask \in [Refs -> Ask]
    <2>1. NoAsk \in Ask /\ [NoAsk EXCEPT !.by = asker, !.status = "PENDING"] \in Ask
      BY <1>3 DEF NoAsk, Ask
    <2> QED BY <1>2, <2>1
  <1>8. token \in [Refs -> Token]
    <2> DEFINE kind == IF invited THEN "INVITATION" ELSE "RESET"
               for == IF invited THEN Newcomer ELSE temp
    <2>1. NoToken \in Token
      BY <1>3 DEF NoToken, Token
    <2>2. kind \in {"NONE", "INVITATION", "RESET"} /\ for \in Users
      BY <1>3
    <2>3. token = [k \in Refs |-> IF k # Earlier THEN NoToken ELSE [NoToken EXCEPT !.status = "LIVE", !.kind = kind, !.for = for]]
      BY <1>2
    <2> HIDE DEF kind, for
    <2>4. [NoToken EXCEPT !.status = "LIVE", !.kind = kind, !.for = for] \in Token
      BY <2>1, <2>2 DEF Token
    <2> QED BY <2>1, <2>3, <2>4
  <1>9. request \in [Requests -> Request]
    BY <1>2, FreshType
  <1>10. task \in Task /\ prior \in Prior /\ timer \in [Refs -> Timer] /\ court \in Court
    BY <1>2, <1>3 DEF Init, Task, Prior, Timer, Court
  <1> QED BY <1>1, <1>4, <1>5, <1>6, <1>7, <1>8, <1>9, <1>10 DEF TypeOK, IntakeInv

\* Every variable keeps its type, and openings keep the invariant of Intake, whatever else is done.
THEOREM DeskTypes == Spec => [](TypeOK /\ IntakeInv)
  <1>1. Init => TypeOK /\ IntakeInv
    BY TypesInit
  <1>2. TypeOK /\ IntakeInv /\ [Next]_vars => (TypeOK /\ IntakeInv)'
    BY TypesNext
  <1> QED BY <1>1, <1>2, PTL DEF Spec


----------------------------------------------------------------------------
(* Owners *)

\* A request that will take the rights of an owner away and has counted the others, or need not.
Guarded(r) ==
  \/ At(r, "open", "save") /\ ~(request[r].yes /\ request[r].was)
  \/ At(r, "open", "offboard")
  \/ At(r, "loaded", "offboard") /\ ~request[r].was

\* Until two removals overlap, what such a request has counted is still so.
OwnersInv == ~overlap => Owners # {} /\ \A r \in Requests : Guarded(r) => Owners \ {request[r].u} # {}

LEMMA OwnersStay ==
  ASSUME OwnersInv, NEW r \in Requests, \A q \in Requests \ {r} : request'[q] = request[q],
         overlap' = overlap, Owners \subseteq Owners',
         ~overlap /\ Guarded(r)' => Owners' \ {request'[r].u} # {}
  PROVE  OwnersInv'
  <1>1. \A q \in Requests \ {r} : Guarded(q)' <=> Guarded(q)
    BY DEF Guarded, At
  <1> SUFFICES ASSUME ~overlap
               PROVE  Owners' # {} /\ \A q \in Requests : Guarded(q)' => Owners' \ {request'[q].u} # {}
    BY DEF OwnersInv
  <1>2. Owners # {} /\ \A q \in Requests : Guarded(q) => Owners \ {request[q].u} # {}
    BY DEF OwnersInv
  <1>3. ASSUME NEW q \in Requests, Guarded(q)'
        PROVE  Owners' \ {request'[q].u} # {}
    BY <1>1, <1>2, <1>3
  <1> QED BY <1>2, <1>3

LEMMA OwnerGoes ==
  ASSUME OwnersInv, NEW r \in Requests, \A q \in Requests \ {r} : request'[q] = request[q],
         Guarded(r), ~Guarded(r)', Owners' = Owners \ {request[r].u}, NoteRemoval(r, request[r].u)
  PROVE  OwnersInv'
  <1>1. \A q \in Requests \ {r} : (Guarded(q)' <=> Guarded(q)) /\ (Guarded(q) => Removing(q))
    BY DEF Guarded, At, Removing
  <1> SUFFICES ASSUME ~overlap'
               PROVE  Owners' # {} /\ \A q \in Requests : Guarded(q)' => Owners' \ {request'[q].u} # {}
    BY DEF OwnersInv
  <1>2. ~overlap /\ ~(request[r].u \in Owners /\ \E x \in Requests \ {r} : Removing(x))
    BY DEF NoteRemoval
  <1>3. \A q \in Requests : Guarded(q) => Owners \ {request[q].u} # {}
    BY <1>2 DEF OwnersInv
  <1>4. Owners' # {}
    BY <1>3
  <1>5. ASSUME NEW q \in Requests, Guarded(q)'
        PROVE  Owners' \ {request'[q].u} # {}
    <2>1. q # r /\ Guarded(q) /\ Removing(q)
      BY <1>1, <1>5
    <2>2. Owners' = Owners
      BY <1>2, <2>1
    <2> QED BY <1>3, <2>1, <2>2
  <1> QED BY <1>4, <1>5

\* Accounts that come to be leave the owners alone.
LEMMA OwnersKept ==
  ASSUME \A u \in Users : user'[u].owner = user[u].owner /\ (user[u].status = "ACTIVE" => user'[u].status = "ACTIVE")
  PROVE  Owners \subseteq Owners'
  BY DEF Owners, Active

LEMMA OwnersServed ==
  ASSUME TypeOK, OwnersInv, NEW r \in Requests, Serves(r)
  PROVE  OwnersInv'
  <1>1. Step(r, request'[r]) /\ \A q \in Requests \ {r} : request'[q] = request[q]
    BY ServesStep, OneGoes DEF Step
  <1>2. CASE UNCHANGED <<user, overlap>> /\ request'[r].op \notin {"save", "offboard"}
    <2>1. Owners' = Owners /\ ~Guarded(r)'
      BY <1>2 DEF Owners, Active, Guarded, At
    <2> QED BY <1>1, <1>2, <2>1, OwnersStay
  <1>3. ASSUME NEW u \in Users, NEW yes \in BOOLEAN, NEW was \in BOOLEAN, GuardUser(r, u, yes, was)
        PROVE  OwnersInv'
    <2> DEFINE rec == [Fresh EXCEPT !.pc = "open", !.op = "save", !.u = u, !.yes = yes, !.was = was]
    <2>1. Go(r, rec) /\ UNCHANGED <<user, overlap>> /\ (user[u].owner /\ ~(yes /\ was) => OthersOwn(u))
      BY <1>3 DEF GuardUser
    <2>2. rec.op = "save" /\ rec.pc = "open" /\ rec.u = u /\ rec.yes = yes /\ rec.was = was
      BY DEF Fresh
    <2> HIDE DEF rec
    <2>3. request'[r] = rec
      BY <2>1, OneGoes
    <2>4. Owners' = Owners
      BY <2>1 DEF Owners, Active
    <2>5. ~overlap /\ Guarded(r)' => Owners \ {u} # {}
      <3>1. Guarded(r)' => ~(yes /\ was)
        BY <2>2, <2>3 DEF Guarded, At
      <3> QED BY <2>1, <3>1 DEF OthersOwn, OwnersInv, Owners
    <2> QED BY <1>1, <2>1, <2>2, <2>3, <2>4, <2>5, OwnersStay
  <1>4. ASSUME NEW u \in Users, NEW v \in Users, LoadOffboard(r, u, v)
        PROVE  OwnersInv'
    <2> DEFINE rec == [Fresh EXCEPT !.pc = "loaded", !.op = "offboard", !.u = u, !.v = v, !.was = user[u].owner]
    <2>1. Go(r, rec) /\ UNCHANGED <<user, overlap>>
      BY <1>4 DEF LoadOffboard
    <2>2. rec.op = "offboard" /\ rec.pc = "loaded" /\ rec.u = u /\ rec.was = user[u].owner
      BY DEF Fresh
    <2> HIDE DEF rec
    <2>3. request'[r] = rec
      BY <2>1, OneGoes
    <2>4. Owners' = Owners
      BY <2>1 DEF Owners, Active
    <2>5. ~overlap /\ Guarded(r)' => Owners \ {u} # {}
      <3>1. Guarded(r)' => ~user[u].owner
        BY <2>2, <2>3 DEF Guarded, At
      <3> QED BY <3>1 DEF OwnersInv, Owners
    <2> QED BY <1>1, <2>1, <2>2, <2>3, <2>4, <2>5, OwnersStay
  <1>5. CASE OpenOffboard(r)
    <2> DEFINE me == request[r]
               rec == [me EXCEPT !.pc = "open", !.row = IF Holds(me.u) THEN member[me.u].row ELSE 0, !.yes = Holds(me.v)]
    <2>1. Go(r, rec) /\ UNCHANGED <<user, overlap>> /\ At(r, "loaded", "offboard") /\ (me.was => OthersOwn(me.u))
      BY <1>5 DEF OpenOffboard
    <2>2. rec.u = me.u
      BY RequestFields DEF Request
    <2> HIDE DEF rec
    <2>3. request'[r] = rec
      BY <2>1, OneGoes
    <2>4. Owners' = Owners
      BY <2>1 DEF Owners, Active
    <2>5. ~overlap => Owners \ {me.u} # {}
      BY <2>1 DEF OthersOwn, OwnersInv, Guarded
    <2> QED BY <1>1, <2>1, <2>2, <2>3, <2>4, <2>5, OwnersStay
  <1>6. CASE CommitUser(r)
    <2> DEFINE me == request[r]
    <2>1. /\ At(r, "open", "save") /\ me.u \in Users /\ user \in [Users -> User]
          /\ user' = [user EXCEPT ![me.u].status = IF me.yes THEN "ACTIVE" ELSE "SUSPENDED",
                                  ![me.u].owner = me.was, ![me.u].left = @ /\ ~me.yes]
      BY <1>6, RequestFields DEF CommitUser, TypeOK
    <2>2. ~Guarded(r)'
      BY <1>6, OneCloses DEF CommitUser, Guarded, At
    <2>3. /\ user'[me.u].status = (IF me.yes THEN "ACTIVE" ELSE "SUSPENDED") /\ user'[me.u].owner = me.was
          /\ \A p \in Users \ {me.u} : user'[p] = user[p]
      BY <2>1 DEF User
    <2>4. CASE me.yes /\ me.was
      <3>1. Owners \subseteq Owners'
        BY <2>3, <2>4 DEF Owners, Active
      <3>2. overlap' = overlap
        BY <1>6, <2>4 DEF CommitUser
      <3> QED BY <1>1, <2>2, <3>1, <3>2, OwnersStay
    <2>5. CASE ~(me.yes /\ me.was)
      <3>1. Owners' = Owners \ {me.u}
        BY <2>3, <2>5 DEF Owners, Active
      <3>2. Guarded(r) /\ NoteRemoval(r, me.u)
        BY <1>6, <2>1, <2>5 DEF CommitUser, Guarded
      <3> QED BY <1>1, <2>2, <3>1, <3>2, OwnerGoes
    <2> QED BY <2>4, <2>5
  <1>7. CASE CreateUser(r)
    <2>1. ~Guarded(r)' /\ overlap' = overlap
      BY <1>7, OneCloses DEF CreateUser, Guarded, At
    <2>2. \A u \in Users : user'[u].owner = user[u].owner /\ (user[u].status = "ACTIVE" => user'[u].status = "ACTIVE")
      BY <1>7 DEF CreateUser, TypeOK, User
    <2> QED BY <1>1, <2>1, <2>2, OwnersKept, OwnersStay
  <1>8. CASE ConsumeToken(r)
    <2>1. ~Guarded(r)' /\ overlap' = overlap
      BY <1>8, OneCloses DEF ConsumeToken, Guarded, At
    <2>2. \A u \in Users : user'[u].owner = user[u].owner /\ (user[u].status = "ACTIVE" => user'[u].status = "ACTIVE")
      BY <1>8 DEF ConsumeToken, TypeOK, User
    <2> QED BY <1>1, <2>1, <2>2, OwnersKept, OwnersStay
  <1>9. CASE CommitOffboard(r)
    <2> DEFINE me == request[r]
    <2>1. /\ At(r, "open", "offboard") /\ me.u \in Users /\ user \in [Users -> User] /\ NoteRemoval(r, me.u)
          /\ user' = [user EXCEPT ![me.u].status = "SUSPENDED", ![me.u].left = TRUE]
      BY <1>9, RequestFields DEF CommitOffboard, TypeOK
    <2>2. ~Guarded(r)'
      BY <1>9, OneCloses DEF CommitOffboard, Guarded, At
    <2>3. user'[me.u].status = "SUSPENDED" /\ \A p \in Users \ {me.u} : user'[p] = user[p]
      BY <2>1 DEF User
    <2>4. Owners' = Owners \ {me.u}
      BY <2>3 DEF Owners, Active
    <2> QED BY <1>1, <2>1, <2>2, <2>4, OwnerGoes DEF Guarded
  <1> QED BY <1>1, <1>2, <1>3, <1>4, <1>5, <1>6, <1>7, <1>8, <1>9 DEF Step, TouchesOwners

\* The office keeps an active owner unless two removals of owners overlapped: each counts the others
\* in its own snapshot (admin.ts, lines 17-26; account.ts, lines 179-182).
THEOREM OwnerStays == Spec => []OwnerRemains
  <1>1. Init => OwnersInv
    <2> SUFFICES ASSUME Init
                 PROVE  OwnersInv
      OBVIOUS
    <2>1. \A r \in Requests : ~Guarded(r)
      <3>1. \A r \in Requests : request[r] = Fresh
        BY InitialRows
      <3>2. Fresh.pc = "new"
        BY DEF Fresh
      <3> QED BY <3>1, <3>2 DEF Guarded, At
    <2>2. Founder \in Users /\ Founder # Newcomer
      BY PracticeConstants
    <2>3. Founder \in Owners
      <3>1. PICK both \in BOOLEAN : user = [u \in Users |-> Account(u, u = Founder \/ both)]
        BY InitialRows
      <3> QED BY <2>2, <3>1 DEF Owners, Active, Account
    <2> QED BY <2>1, <2>3 DEF OwnersInv
  <1>2. TypeOK /\ OwnersInv /\ [Next]_vars => OwnersInv'
    <2> SUFFICES ASSUME TypeOK, OwnersInv, UNCHANGED restVars
                 PROVE  OwnersInv'
      BY DeskSteps, OwnersServed
    <2> QED BY DEF restVars, OwnersInv, Owners, Active, Guarded, At
  <1>3. OwnersInv => OwnerRemains
    BY DEF OwnersInv, OwnerRemains
  <1> QED BY <1>1, <1>2, <1>3, DeskTypes, PTL DEF Spec


----------------------------------------------------------------------------
(* Access requests *)

\* A decider of an access request is at work on it or over.
DecidersKnown ==
  \A k \in Refs : /\ IsFiniteSet(ask[k].deciders)
                  /\ \A r \in ask[k].deciders : \/ request[r].pc \in {"done", "dead"}
                                                \/ request[r].op = "decide" /\ request[r].k = k

\* What a request that decides has found and done.
DecidersInPlace ==
  \A r \in Requests : request[r].op = "decide" =>
    LET a == ask[request[r].k] IN
    /\ request[r].pc \in {"asked", "checked", "granted"} /\ r \in a.deciders
    /\ request[r].pc = "granted" => a.granted
    /\ request[r].pc = "asked" /\ ~request[r].yes /\ a.granted => \E q \in a.deciders : q # r

\* What the state of an access request says about its deciders.
AsksExplained ==
  \A k \in Refs :
    /\ ask[k].status = "APPROVED" => ask[k].granted
    /\ ask[k].granted /\ ask[k].status = "PENDING" => \E r \in ask[k].deciders : request[r].pc \in {"granted", "dead"}
    /\ ask[k].status = "REJECTED" => \E r \in ask[k].deciders : request[r].pc = "done"
    /\ ask[k].granted /\ ask[k].status = "REJECTED" => \E q, r \in ask[k].deciders : q # r

\* A request that is not over has left no access request.
AsksUnmade == \A r \in Requests : request[r].pc \notin {"done", "dead"} => ask[r].status = "NONE" /\ ask[r].deciders = {}

AskInv == DecidersKnown /\ DecidersInPlace /\ AsksExplained /\ AsksUnmade

\* A request that is not deciding is no decider, unless it is over.
LEMMA NotDeciding ==
  ASSUME TypeOK, AskInv, NEW r \in Requests, request[r].pc \notin {"done", "dead"},
         New(r) \/ request[r].op # "decide"
  PROVE  /\ request[r].op # "decide" /\ \A k \in Refs : r \notin ask[k].deciders
  BY DEF AskInv, DecidersKnown, DecidersInPlace, New

LEMMA AsksStay ==
  ASSUME TypeOK, AskInv, NEW r \in Requests, \A q \in Requests \ {r} : request'[q] = request[q], UNCHANGED ask,
         request[r].pc \notin {"done", "dead"}, request'[r].op # "decide",
         request'[r].pc = "dead" \/ New(r) \/ request[r].op # "decide"
  PROVE  AskInv'
  <1>1. \A k \in Refs : ask[k].deciders \subseteq Requests
    BY DEF TypeOK, Ask
  <1>2. \A k \in Refs : r \in ask[k].deciders => request'[r].pc = "dead"
    BY NotDeciding
  <1>3. DecidersKnown'
    BY <1>1, <1>2 DEF AskInv, DecidersKnown
  <1>4. DecidersInPlace'
    BY DEF AskInv, DecidersInPlace
  <1>5. AsksExplained'
    BY <1>1, <1>2 DEF AskInv, AsksExplained
  <1>6. AsksUnmade'
    BY DEF AskInv, AsksUnmade
  <1> QED BY <1>3, <1>4, <1>5, <1>6 DEF AskInv

LEMMA AsksServed ==
  ASSUME TypeOK, AskInv, NEW r \in Requests, Serves(r)
  PROVE  AskInv'
  <1>1. Step(r, request'[r]) /\ (\A q \in Requests \ {r} : request'[q] = request[q]) /\ request[r].pc \notin {"done", "dead"}
    BY ServesStep, OneGoes DEF Step
  <1>2. DecidersKnown /\ DecidersInPlace /\ AsksExplained /\ AsksUnmade
    BY DEF AskInv
  <1>3. \A k \in Refs : ask[k] \in Ask /\ ask[k].deciders \subseteq Requests
    BY DEF TypeOK, Ask
  <1>4. request[r] \in Request /\ request[r].k \in Refs /\ ask \in [Refs -> Ask]
    BY RequestFields DEF TypeOK
  <1>5. CASE UNCHANGED ask /\ request'[r].op # "decide" /\ (New(r) \/ request[r].op # "decide")
    BY <1>1, <1>5, AsksStay
  <1>6. CASE Die(r)
    <2>1. request'[r].op = "" /\ request'[r].pc = "dead"
      <3> DEFINE rec == [Fresh EXCEPT !.pc = "dead"]
      <3>1. rec.op = "" /\ rec.pc = "dead"
        BY DEF Fresh
      <3>2. Go(r, rec)
        BY <1>6 DEF Die
      <3> HIDE DEF rec
      <3> QED BY <3>1, <3>2, OneGoes
    <2>2. UNCHANGED ask
      BY <1>6 DEF Die
    <2> QED BY <1>1, <2>1, <2>2, AsksStay
  <1>7. ASSUME NEW u \in Users, NEW ends \in BOOLEAN, CheckMember(r, u, ends)
        PROVE  AskInv'
    <2> DEFINE rec == [request[r] EXCEPT !.pc = "checked", !.op = IF New(r) THEN "grant" ELSE @, !.u = u, !.was = ends]
    <2>1. Go(r, rec) /\ UNCHANGED ask
      BY <1>7 DEF CheckMember
    <2>2. rec.pc = "checked" /\ rec.op = (IF New(r) THEN "grant" ELSE request[r].op) /\ rec.k = request[r].k
      BY <1>4 DEF Request
    <2> HIDE DEF rec
    <2>3. request'[r] = rec
      BY <2>1, OneGoes
    <2>4. CASE New(r)
      BY <1>1, <2>1, <2>2, <2>3, <2>4, AsksStay
    <2>5. CASE ~New(r)
      <3>1. request[r].op = "decide" /\ request[r].pc = "asked"
        BY <1>7, <2>5 DEF CheckMember, At
      <3>2. DecidersKnown'
        BY <1>1, <1>2, <1>3, <2>1, <2>2, <2>3, <2>5, <3>1 DEF DecidersKnown
      <3>3. DecidersInPlace'
        BY <1>1, <1>2, <1>3, <2>1, <2>2, <2>3, <2>5, <3>1 DEF DecidersInPlace
      <3>4. AsksExplained'
        BY <1>1, <1>2, <1>3, <2>1, <2>2, <2>3, <3>1 DEF AsksExplained
      <3>5. AsksUnmade'
        BY <1>1, <1>2, <2>1 DEF AsksUnmade
      <3> QED BY <3>2, <3>3, <3>4, <3>5 DEF AskInv
    <2> QED BY <2>4, <2>5
  <1>8. CASE WriteMember(r)
    <2>1. request[r].pc = "checked" /\ request[r].op \in {"grant", "decide"}
      BY <1>8 DEF WriteMember
    <2>2. CASE request[r].op = "grant"
      <3>1. UNCHANGED ask /\ Close(r)
        BY <1>8, <2>2 DEF WriteMember
      <3> QED BY <1>1, <2>2, <3>1, AsksStay, OneCloses
    <2>3. CASE request[r].op = "decide"
      <3> DEFINE k == request[r].k
                 rec == [request[r] EXCEPT !.pc = "granted"]
      <3>1. Go(r, rec) /\ ask' = [ask EXCEPT ![k].granted = TRUE]
        BY <1>8, <2>3 DEF WriteMember
      <3>2. rec.pc = "granted" /\ rec.op = "decide" /\ rec.k = k
        BY <1>4, <2>3 DEF Request
      <3> HIDE DEF rec
      <3>3. request'[r] = rec
        BY <3>1, OneGoes
      <3>4. /\ ask'[k].granted = TRUE /\ ask'[k].status = ask[k].status /\ ask'[k].deciders = ask[k].deciders
            /\ \A j \in Refs \ {k} : ask'[j] = ask[j]
        BY <1>3, <1>4, <3>1 DEF Ask
      <3>5. r \in ask[k].deciders /\ k \in Refs
        BY <1>2, <1>4, <2>3 DEF DecidersInPlace
      <3> HIDE DEF k
      <3>6. DecidersKnown'
        <4> SUFFICES ASSUME NEW j \in Refs
                     PROVE  /\ IsFiniteSet(ask'[j].deciders)
                            /\ \A q \in ask'[j].deciders : \/ request'[q].pc \in {"done", "dead"}
                                                           \/ request'[q].op = "decide" /\ request'[q].k = j
          BY DEF DecidersKnown
        <4>1. ask'[j].deciders = ask[j].deciders
          BY <3>4
        <4> QED BY <1>1, <1>2, <1>3, <2>3, <3>2, <3>3, <4>1 DEF DecidersKnown, k
      <3>7. DecidersInPlace'
        <4> SUFFICES ASSUME NEW q \in Requests, request'[q].op = "decide"
                     PROVE  LET a == ask'[request'[q].k] IN
                            /\ request'[q].pc \in {"asked", "checked", "granted"} /\ q \in a.deciders
                            /\ request'[q].pc = "granted" => a.granted
                            /\ request'[q].pc = "asked" /\ ~request'[q].yes /\ a.granted => \E p \in a.deciders : p # q
          BY DEF DecidersInPlace
        <4>1. CASE q = r
          BY <3>2, <3>3, <3>4, <3>5, <4>1
        <4>2. CASE q # r
          <5>1. request'[q] = request[q] /\ request[q].k \in Refs
            BY <1>1, <4>2, RequestFields
          <5> QED BY <1>2, <3>4, <3>5, <4>2, <5>1 DEF DecidersInPlace
        <4> QED BY <4>1, <4>2
      <3>8. AsksExplained'
        <4> SUFFICES ASSUME NEW j \in Refs
                     PROVE  /\ ask'[j].status = "APPROVED" => ask'[j].granted
                            /\ ask'[j].granted /\ ask'[j].status = "PENDING" => \E q \in ask'[j].deciders : request'[q].pc \in {"granted", "dead"}
                            /\ ask'[j].status = "REJECTED" => \E q \in ask'[j].deciders : request'[q].pc = "done"
                            /\ ask'[j].granted /\ ask'[j].status = "REJECTED" => \E p, q \in ask'[j].deciders : p # q
          BY DEF AsksExplained
        <4>1. \A q \in Requests : /\ request[q].pc \in {"granted", "dead"} => request'[q].pc \in {"granted", "dead"}
                                  /\ request[q].pc = "done" => request'[q].pc = "done" /\ q # r
          BY <1>1, <3>2, <3>3
        <4>2. CASE j = k
          BY <1>2, <1>3, <3>2, <3>3, <3>4, <3>5, <4>1, <4>2 DEF AsksExplained
        <4>3. CASE j # k
          BY <1>2, <1>3, <3>4, <4>1, <4>3 DEF AsksExplained
        <4> QED BY <4>2, <4>3
      <3>9. AsksUnmade'
        <4>1. \A q \in Requests : ask'[q].status = ask[q].status /\ ask'[q].deciders = ask[q].deciders
          BY <3>4 DEF Refs
        <4> QED BY <1>1, <1>2, <4>1 DEF AsksUnmade
      <3> QED BY <3>6, <3>7, <3>8, <3>9 DEF AskInv
    <2> QED BY <2>1, <2>2, <2>3
  <1>9. CASE RequestAccess(r)
    <2> DEFINE new == [NoAsk EXCEPT !.by = request[r].u, !.status = "PENDING"]
    <2>1. request[r].op = "request" /\ ask' = [ask EXCEPT ![r] = new] /\ Close(r) /\ r \in Refs
      BY <1>9 DEF RequestAccess, At, Refs
    <2>2. new.status = "PENDING" /\ new.granted = FALSE /\ new.deciders = {}
      BY DEF NoAsk
    <2> HIDE DEF new
    <2>3. ask'[r] = new /\ \A j \in Refs \ {r} : ask'[j] = ask[j]
      BY <1>4, <2>1
    <2>4. ask[r].deciders = {} /\ \A j \in Refs : r \notin ask[j].deciders
      BY <1>1, <1>2, <2>1, NotDeciding DEF AsksUnmade
    <2>5. request'[r].pc = "done" /\ request'[r].op = ""
      BY <2>1, OneCloses
    <2>6. \A j \in Refs : \A q \in ask'[j].deciders : j # r /\ q \in ask[j].deciders /\ request'[q] = request[q]
      BY <1>1, <1>3, <2>2, <2>3, <2>4
    <2>7. DecidersKnown'
      <3>1. \A j \in Refs : IsFiniteSet(ask'[j].deciders)
        BY <1>2, <2>2, <2>3, FS_EmptySet DEF DecidersKnown
      <3> QED BY <1>2, <2>6, <3>1 DEF DecidersKnown
    <2>8. DecidersInPlace'
      <3>1. \A q \in Requests \ {r} : request[q].k \in Refs
        BY RequestFields
      <3>2. \A q \in Requests \ {r} : request[q].op = "decide" => ask'[request[q].k] = ask[request[q].k]
        BY <1>2, <2>3, <2>4, <3>1 DEF DecidersInPlace
      <3> SUFFICES ASSUME NEW q \in Requests, request'[q].op = "decide"
                   PROVE  LET a == ask'[request'[q].k] IN
                          /\ request'[q].pc \in {"asked", "checked", "granted"} /\ q \in a.deciders
                          /\ request'[q].pc = "granted" => a.granted
                          /\ request'[q].pc = "asked" /\ ~request'[q].yes /\ a.granted => \E p \in a.deciders : p # q
        BY DEF DecidersInPlace
      <3>3. q # r /\ request'[q] = request[q] /\ ask'[request[q].k] = ask[request[q].k]
        BY <1>1, <2>5, <3>2
      <3> QED BY <1>2, <3>3 DEF DecidersInPlace
    <2>9. AsksExplained'
      <3> SUFFICES ASSUME NEW j \in Refs \ {r}
                   PROVE  /\ ask[j].status = "APPROVED" => ask[j].granted
                          /\ ask[j].granted /\ ask[j].status = "PENDING" => \E q \in ask[j].deciders : request'[q].pc \in {"granted", "dead"}
                          /\ ask[j].status = "REJECTED" => \E q \in ask[j].deciders : request'[q].pc = "done"
                          /\ ask[j].granted /\ ask[j].status = "REJECTED" => \E p, q \in ask[j].deciders : p # q
        BY <2>2, <2>3 DEF AsksExplained
      <3>1. \A q \in ask[j].deciders : request'[q] = request[q]
        BY <2>3, <2>6
      <3> QED BY <1>2, <3>1 DEF AsksExplained
    <2>10. AsksUnmade'
      BY <1>1, <1>2, <2>3, <2>5 DEF AsksUnmade, Refs
    <2> QED BY <2>7, <2>8, <2>9, <2>10 DEF AskInv
  <1>10. ASSUME NEW k \in Refs, NEW yes \in BOOLEAN, LoadAsk(r, k, yes)
         PROVE  AskInv'
    <2> DEFINE rec == [Fresh EXCEPT !.pc = "asked", !.op = "decide", !.k = k, !.u = ask[k].by, !.yes = yes]
    <2>1. Go(r, rec) /\ New(r) /\ ask[k].status = "PENDING" /\ ask' = [ask EXCEPT ![k].deciders = @ \cup {r}]
      BY <1>10 DEF LoadAsk
    <2>2. rec.pc = "asked" /\ rec.op = "decide" /\ rec.k = k
      BY DEF Fresh
    <2> HIDE DEF rec
    <2>3. request'[r] = rec
      BY <2>1, OneGoes
    <2>4. /\ ask'[k].granted = ask[k].granted /\ ask'[k].status = "PENDING" /\ ask'[k].deciders = ask[k].deciders \cup {r}
          /\ \A j \in Refs \ {k} : ask'[j] = ask[j]
      BY <1>3, <1>4, <2>1 DEF Ask
    <2>5. \A j \in Refs : r \notin ask[j].deciders
      BY <1>1, <2>1, NotDeciding
    <2>6. \A j \in Refs : \A q \in ask[j].deciders : q # r /\ request'[q] = request[q]
      BY <1>1, <1>3, <2>5
    <2>7. DecidersKnown'
      <3>1. \A j \in Refs : IsFiniteSet(ask'[j].deciders)
        <4>1. \A j \in Refs : IsFiniteSet(ask[j].deciders) /\ IsFiniteSet(ask[j].deciders \cup {r})
          BY <1>2, FS_AddElement DEF DecidersKnown
        <4> QED BY <2>4, <4>1
      <3>2. \A j \in Refs : \A q \in ask'[j].deciders : q \in ask[j].deciders \/ (q = r /\ j = k)
        BY <2>4
      <3> QED BY <1>2, <2>2, <2>3, <2>6, <3>1, <3>2 DEF DecidersKnown
    <2>8. DecidersInPlace'
      <3> SUFFICES ASSUME NEW q \in Requests, request'[q].op = "decide"
                   PROVE  LET a == ask'[request'[q].k] IN
                          /\ request'[q].pc \in {"asked", "checked", "granted"} /\ q \in a.deciders
                          /\ request'[q].pc = "granted" => a.granted
                          /\ request'[q].pc = "asked" /\ ~request'[q].yes /\ a.granted => \E p \in a.deciders : p # q
        BY DEF DecidersInPlace
      <3>1. CASE q = r
        <4>1. ask[k].granted => \E p \in ask[k].deciders : p # r
          BY <1>2, <2>1, <2>6 DEF AsksExplained
        <4> QED BY <2>2, <2>3, <2>4, <3>1, <4>1
      <3>2. CASE q # r
        <4>1. request'[q] = request[q] /\ request[q].k \in Refs
          BY <1>1, <3>2, RequestFields
        <4>2. ask'[request[q].k].granted = ask[request[q].k].granted /\ ask[request[q].k].deciders \subseteq ask'[request[q].k].deciders
          BY <2>4, <4>1
        <4> QED BY <1>2, <4>1, <4>2 DEF DecidersInPlace
      <3> QED BY <3>1, <3>2
    <2>9. AsksExplained'
      <3> SUFFICES ASSUME NEW j \in Refs
                   PROVE  /\ ask'[j].status = "APPROVED" => ask'[j].granted
                          /\ ask'[j].granted /\ ask'[j].status = "PENDING" => \E q \in ask'[j].deciders : request'[q].pc \in {"granted", "dead"}
                          /\ ask'[j].status = "REJECTED" => \E q \in ask'[j].deciders : request'[q].pc = "done"
                          /\ ask'[j].granted /\ ask'[j].status = "REJECTED" => \E p, q \in ask'[j].deciders : p # q
        BY DEF AsksExplained
      <3>1. /\ ask'[j].status = ask[j].status /\ ask'[j].granted = ask[j].granted /\ ask[j].deciders \subseteq ask'[j].deciders
            /\ \A q \in ask[j].deciders : request'[q] = request[q]
        BY <2>1, <2>4, <2>6
      <3> QED BY <1>2, <3>1 DEF AsksExplained
    <2>10. AsksUnmade'
      <3>1. \A q \in Requests : request[q].pc \notin {"done", "dead"} => q # k /\ q \in Refs
        BY <1>2, <2>1 DEF AsksUnmade, Refs
      <3> QED BY <1>1, <1>2, <2>4, <3>1 DEF AsksUnmade
    <2> QED BY <2>7, <2>8, <2>9, <2>10 DEF AskInv
  <1>11. CASE DecideAccess(r)
    <2> DEFINE k == request[r].k
               status == IF request[r].yes THEN "APPROVED" ELSE "REJECTED"
    <2>1. /\ request[r].op = "decide" /\ request[r].pc = (IF request[r].yes THEN "granted" ELSE "asked") /\ Close(r)
          /\ ask' = [ask EXCEPT ![k].status = status]
      BY <1>11 DEF DecideAccess, MayDecide, At
    <2>2. /\ ask'[k].granted = ask[k].granted /\ ask'[k].status = status /\ ask'[k].deciders = ask[k].deciders
          /\ \A j \in Refs \ {k} : ask'[j] = ask[j]
      BY <1>3, <1>4, <2>1 DEF Ask
    <2>3. request'[r].pc = "done" /\ request'[r].op = ""
      BY <2>1, OneCloses
    <2>4. /\ r \in ask[k].deciders /\ k \in Refs /\ (request[r].yes => ask[k].granted)
          /\ ~request[r].yes /\ ask[k].granted => \E q \in ask[k].deciders : q # r
      BY <1>2, <1>4, <2>1 DEF DecidersInPlace
    <2>5. \A j \in Refs \ {k} : r \notin ask[j].deciders
      BY <1>1, <1>2, <2>1 DEF DecidersKnown
    <2> HIDE DEF k
    <2>6. \A j \in Refs : ask'[j].deciders = ask[j].deciders /\ ask'[j].granted = ask[j].granted
      BY <2>2
    <2>7. DecidersKnown'
      <3> SUFFICES ASSUME NEW j \in Refs
                   PROVE  /\ IsFiniteSet(ask[j].deciders)
                          /\ \A q \in ask[j].deciders : \/ request'[q].pc \in {"done", "dead"}
                                                        \/ request'[q].op = "decide" /\ request'[q].k = j
        BY <2>6 DEF DecidersKnown
      <3>1. \A q \in ask[j].deciders : q = r \/ request'[q] = request[q]
        BY <1>1, <1>3
      <3>2. \A q \in ask[j].deciders : \/ request[q].pc \in {"done", "dead"}
                                       \/ request[q].op = "decide" /\ request[q].k = j
        BY <1>2 DEF DecidersKnown
      <3>3. IsFiniteSet(ask[j].deciders)
        BY <1>2 DEF DecidersKnown
      <3> QED BY <2>3, <3>1, <3>2, <3>3
    <2>8. DecidersInPlace'
      <3>1. \A q \in Requests \ {r} : request[q].k \in Refs
        BY RequestFields
      <3> SUFFICES ASSUME NEW q \in Requests, request'[q].op = "decide"
                   PROVE  LET a == ask'[request'[q].k] IN
                          /\ request'[q].pc \in {"asked", "checked", "granted"} /\ q \in a.deciders
                          /\ request'[q].pc = "granted" => a.granted
                          /\ request'[q].pc = "asked" /\ ~request'[q].yes /\ a.granted => \E p \in a.deciders : p # q
        BY DEF DecidersInPlace
      <3>2. q # r /\ request'[q] = request[q] /\ request[q].k \in Refs
        BY <1>1, <2>3, <3>1
      <3> QED BY <1>2, <2>6, <3>2 DEF DecidersInPlace
    <2>9. AsksExplained'
      <3> SUFFICES ASSUME NEW j \in Refs
                   PROVE  /\ ask'[j].status = "APPROVED" => ask'[j].granted
                          /\ ask'[j].granted /\ ask'[j].status = "PENDING" => \E q \in ask'[j].deciders : request'[q].pc \in {"granted", "dead"}
                          /\ ask'[j].status = "REJECTED" => \E q \in ask'[j].deciders : request'[q].pc = "done"
                          /\ ask'[j].granted /\ ask'[j].status = "REJECTED" => \E p, q \in ask'[j].deciders : p # q
        BY DEF AsksExplained
      <3>1. CASE j = k
        BY <2>2, <2>3, <2>4, <3>1
      <3>2. CASE j # k
        <4>1. \A q \in ask[j].deciders : request'[q] = request[q]
          BY <1>1, <1>3, <2>5, <3>2
        <4> QED BY <1>2, <2>2, <3>2, <4>1 DEF AsksExplained
      <3> QED BY <3>1, <3>2
    <2>10. AsksUnmade'
      <3>1. \A q \in Requests : request[q].pc \notin {"done", "dead"} => q # k /\ q \in Refs
        BY <1>2, <2>4 DEF AsksUnmade, Refs
      <3> QED BY <1>1, <1>2, <2>2, <2>3, <3>1 DEF AsksUnmade
    <2> QED BY <2>7, <2>8, <2>9, <2>10 DEF AskInv
  <1> QED BY <1>1, <1>5, <1>6, <1>7, <1>8, <1>9, <1>10, <1>11 DEF Step, TouchesAsks

\* A decided access request has the access its decision says: what is approved was granted; what
\* was granted and is still pending has a decider between the two transactions, or one that died
\* there; what was granted and is rejected had two deciders (matters.ts, lines 424-438).
THEOREM DecisionsKept == Spec => []AccessDecisionsKept
  <1>1. Init => AskInv
    <2> SUFFICES ASSUME Init
                 PROVE  AskInv
      OBVIOUS
    <2>1. PICK asker \in Users :
            ask = [k \in Refs |-> IF k = Earlier THEN [NoAsk EXCEPT !.by = asker, !.status = "PENDING"] ELSE NoAsk]
      BY InitialRows
    <2>2. \A k \in Refs : /\ ask[k].deciders = {} /\ ~ask[k].granted /\ ask[k].status \in {"NONE", "PENDING"}
                          /\ k # Earlier => ask[k].status = "NONE"
      BY <2>1 DEF NoAsk
    <2>3. \A r \in Requests : request[r].op # "decide"
      <3>1. \A r \in Requests : request[r] = Fresh
        BY InitialRows
      <3>2. Fresh.op = ""
        BY DEF Fresh
      <3> QED BY <3>1, <3>2
    <2>4. \A r \in Requests : r \in Refs /\ r # Earlier
      BY PracticeConstants DEF Refs
    <2> QED BY <2>2, <2>3, <2>4, FS_EmptySet DEF AskInv, DecidersKnown, DecidersInPlace, AsksExplained, AsksUnmade
  <1>2. TypeOK /\ AskInv /\ [Next]_vars => AskInv'
    <2> SUFFICES ASSUME TypeOK, AskInv, UNCHANGED restVars
                 PROVE  AskInv'
      BY DeskSteps, AsksServed
    <2> QED BY DEF restVars, AskInv, DecidersKnown, DecidersInPlace, AsksExplained, AsksUnmade
  <1>3. AskInv => AccessDecisionsKept
    <2> SUFFICES ASSUME AskInv, NEW k \in Refs, ask[k].granted, ask[k].status = "REJECTED"
                 PROVE  Cardinality(ask[k].deciders) > 1
      BY DEF AccessDecisionsKept, AskInv, AsksExplained
    <2> DEFINE S == ask[k].deciders
    <2>1. IsFiniteSet(S) /\ \E q, r \in S : q # r
      BY DEF AskInv, DecidersKnown, AsksExplained
    <2> HIDE DEF S
    <2>2. PICK q, r \in S : q # r
      BY <2>1
    <2>3. Cardinality({q, r}) = 2
      <3>1. IsFiniteSet({q}) /\ Cardinality({q}) = 1
        BY FS_Singleton
      <3>2. Cardinality({q} \cup {r}) = 2
        <4>1. r \notin {q}
          BY <2>2
        <4>2. Cardinality({q} \cup {r}) = IF r \in {q} THEN Cardinality({q}) ELSE Cardinality({q}) + 1
          BY <3>1, FS_AddElement, Zenon
        <4> QED BY <3>1, <4>1, <4>2
      <3>3. {q, r} = {q} \cup {r}
        OBVIOUS
      <3> QED BY <3>2, <3>3
    <2>4. Cardinality({q, r}) <= Cardinality(S)
      BY <2>1, <2>2, FS_Subset
    <2>5. Cardinality(S) \in Nat
      BY <2>1, FS_CardinalityType
    <2> QED BY <2>3, <2>4, <2>5 DEF S
  <1> QED BY <1>1, <1>2, <1>3, DeskTypes, PTL DEF Spec


----------------------------------------------------------------------------
(* One-time tokens *)

ClaimsCounted == \A k \in Refs : token[k].claims = (IF token[k].status = "USED" THEN 1 ELSE 0)

\* A request that is not over has issued no token.
TokensUnissued ==
  \A r \in Requests : request[r].pc \notin {"done", "dead"} => token[r].status = "REVOKED" /\ token[r].claims = 0 /\ ~token[r].made

\* Who has no account is the newcomer.
Strangers == \A u \in Users : user[u].status = "NONE" => u = Newcomer /\ user[u].origin = "none"

\* The newcomer's account was made from one token if it was made from an invitation, and else from none.
MadeOnce ==
  /\ \A j, k \in Refs : token[j].made /\ token[k].made => j = k
  /\ (\E k \in Refs : token[k].made) <=> user[Newcomer].origin = "invited"

TokenInv == ClaimsCounted /\ TokensUnissued /\ Strangers /\ MadeOnce

LEMMA TokenFields ==
  ASSUME NEW t \in Token
  PROVE  LET revoked == [t EXCEPT !.status = "REVOKED"] IN
         revoked.status = "REVOKED" /\ revoked.claims = t.claims /\ revoked.made = t.made
  BY DEF Token

\* Tokens are issued and revoked.
LEMMA TokensStay ==
  ASSUME TokenInv,
         \A k \in Refs : /\ token'[k].claims = token[k].claims /\ token'[k].made = token[k].made
                         /\ token'[k].status = "USED" <=> token[k].status = "USED",
         \A r \in Requests : request'[r].pc \notin {"done", "dead"} =>
                               /\ request[r].pc \notin {"done", "dead"}
                               /\ token[r].status = "REVOKED" => token'[r].status = "REVOKED",
         \A u \in Users : /\ user'[u].origin = user[u].origin
                          /\ user'[u].status = "NONE" => user[u].status = "NONE"
  PROVE  TokenInv'
  <1>1. ClaimsCounted' /\ Strangers'
    BY DEF TokenInv, ClaimsCounted, Strangers
  <1>2. TokensUnissued'
    BY DEF TokenInv, TokensUnissued, Refs
  <1>3. MadeOnce'
    BY PracticeConstants DEF TokenInv, MadeOnce
  <1> QED BY <1>1, <1>2, <1>3 DEF TokenInv

LEMMA TokensServed ==
  ASSUME TypeOK, TokenInv, NEW r \in Requests, Serves(r)
  PROVE  TokenInv'
  <1>1. Step(r, request'[r]) /\ (\A q \in Requests \ {r} : request'[q] = request[q]) /\ request[r].pc \notin {"done", "dead"}
    BY ServesStep, OneGoes DEF Step
  <1>2. ClaimsCounted /\ TokensUnissued /\ Strangers /\ MadeOnce
    BY DEF TokenInv
  <1>3. /\ request[r].u \in Users /\ request[r].k \in Refs /\ token \in [Refs -> Token] /\ \A k \in Refs : token[k] \in Token
        /\ user \in [Users -> User] /\ \A u \in Users : user[u] \in User
    BY RequestFields DEF TypeOK
  <1>4. Newcomer \in Users /\ \A q \in Requests : q \in Refs
    BY PracticeConstants DEF Refs
  <1>5. CASE UNCHANGED token /\ \A u \in Users : /\ user'[u].origin = user[u].origin
                                                 /\ user'[u].status = "NONE" => user[u].status = "NONE"
    BY <1>1, <1>2, <1>5, TokensStay DEF TokenInv
  <1>6. CASE CreateUser(r)
    <2>1. /\ token' = token /\ user[Newcomer].status = "NONE" /\ Close(r)
          /\ user' = [user EXCEPT ![Newcomer].status = "ACTIVE", ![Newcomer].origin = "created"]
      BY <1>6 DEF CreateUser
    <2>2. /\ user'[Newcomer].status = "ACTIVE" /\ user'[Newcomer].origin = "created"
          /\ \A u \in Users \ {Newcomer} : user'[u] = user[u]
      BY <1>3, <1>4, <2>1 DEF User
    <2>3. \A k \in Refs : ~token[k].made
      BY <1>2, <1>4, <2>1 DEF Strangers, MadeOnce
    <2>4. request'[r].pc = "done"
      BY <2>1, OneCloses
    <2>5. TokensUnissued'
      BY <1>1, <1>2, <2>1, <2>4 DEF TokensUnissued
    <2> QED BY <1>2, <2>1, <2>2, <2>3, <2>5 DEF TokenInv, ClaimsCounted, Strangers, MadeOnce
  <1>7. CASE IssueToken(r)
    <2> DEFINE new == [NoToken EXCEPT !.kind = request[r].op, !.for = request[r].u, !.status = "LIVE"]
    <2>1. /\ Close(r) /\ UNCHANGED user
          /\ token' = [k \in Refs |->
                         IF k = r THEN new
                         ELSE IF k \in request[r].seen /\ token[k].status = "LIVE" THEN [token[k] EXCEPT !.status = "REVOKED"]
                         ELSE token[k]]
      BY <1>7 DEF IssueToken
    <2>2. new.status = "LIVE" /\ new.claims = 0 /\ new.made = FALSE
      BY DEF NoToken
    <2> HIDE DEF new
    <2>3. request'[r].pc = "done"
      BY <2>1, OneCloses
    <2>4. /\ token'[r] = new
          /\ \A k \in Refs \ {r} : \/ token'[k] = token[k]
                                   \/ token[k].status = "LIVE" /\ token'[k] = [token[k] EXCEPT !.status = "REVOKED"]
      BY <1>4, <2>1
    <2>5. \A k \in Refs \ {r} : /\ token'[k].claims = token[k].claims /\ token'[k].made = token[k].made
                                /\ token'[k].status = "USED" <=> token[k].status = "USED"
                                /\ token[k].status = "REVOKED" => token'[k].status = "REVOKED"
      <3> SUFFICES ASSUME NEW k \in Refs \ {r}
                   PROVE  /\ token'[k].claims = token[k].claims /\ token'[k].made = token[k].made
                          /\ token'[k].status = "USED" <=> token[k].status = "USED"
                          /\ token[k].status = "REVOKED" => token'[k].status = "REVOKED"
        OBVIOUS
      <3>1. CASE token'[k] = token[k]
        BY <3>1
      <3>2. CASE token[k].status = "LIVE" /\ token'[k] = [token[k] EXCEPT !.status = "REVOKED"]
        BY <1>3, <3>2, TokenFields
      <3> QED BY <2>4, <3>1, <3>2
    <2>6. token[r].status = "REVOKED" /\ token[r].claims = 0 /\ token[r].made = FALSE
      BY <1>1, <1>2, <1>3, <1>4 DEF TokensUnissued, Token
    <2>7. \A k \in Refs : /\ token'[k].claims = token[k].claims /\ token'[k].made = token[k].made
                          /\ token'[k].status = "USED" <=> token[k].status = "USED"
      BY <2>2, <2>4, <2>5, <2>6
    <2>8. \A q \in Requests : request'[q].pc \notin {"done", "dead"} =>
                                 /\ request[q].pc \notin {"done", "dead"}
                                 /\ token[q].status = "REVOKED" => token'[q].status = "REVOKED"
      BY <1>1, <1>4, <2>3, <2>5
    <2> QED BY <2>1, <2>7, <2>8, TokensStay
  <1>8. CASE CommitOffboard(r)
    <2> DEFINE u == request[r].u
    <2>1. /\ Close(r) /\ user' = [user EXCEPT ![u].status = "SUSPENDED", ![u].left = TRUE]
          /\ token' = [k \in Refs |-> IF token[k].for = u /\ token[k].status = "LIVE"
                                      THEN [token[k] EXCEPT !.status = "REVOKED"] ELSE token[k]]
      BY <1>8 DEF CommitOffboard
    <2>2. request'[r].pc = "done"
      BY <2>1, OneCloses
    <2>3. \A k \in Refs : \/ token'[k] = token[k]
                          \/ token[k].status = "LIVE" /\ token'[k] = [token[k] EXCEPT !.status = "REVOKED"]
      BY <2>1
    <2>4. \A k \in Refs : /\ token'[k].claims = token[k].claims /\ token'[k].made = token[k].made
                          /\ token'[k].status = "USED" <=> token[k].status = "USED"
                          /\ token[k].status = "REVOKED" => token'[k].status = "REVOKED"
      <3> SUFFICES ASSUME NEW k \in Refs
                   PROVE  /\ token'[k].claims = token[k].claims /\ token'[k].made = token[k].made
                          /\ token'[k].status = "USED" <=> token[k].status = "USED"
                          /\ token[k].status = "REVOKED" => token'[k].status = "REVOKED"
        OBVIOUS
      <3>1. CASE token'[k] = token[k]
        BY <3>1
      <3>2. CASE token[k].status = "LIVE" /\ token'[k] = [token[k] EXCEPT !.status = "REVOKED"]
        BY <1>3, <3>2, TokenFields
      <3> QED BY <2>3, <3>1, <3>2
    <2>5. \A p \in Users : /\ user'[p].origin = user[p].origin
                           /\ user'[p].status = "NONE" => user[p].status = "NONE"
      BY <1>3, <2>1 DEF User
    <2>6. \A q \in Requests : request'[q].pc \notin {"done", "dead"} =>
                                 /\ request[q].pc \notin {"done", "dead"}
                                 /\ token[q].status = "REVOKED" => token'[q].status = "REVOKED"
      BY <1>1, <1>4, <2>2, <2>4
    <2> QED BY <2>4, <2>5, <2>6, TokensStay
  <1>9. CASE ConsumeToken(r)
    <2> DEFINE k == request[r].k
               making == token[k].kind = "INVITATION" /\ request[r].yes
               p == token[k].for
    <2>1. /\ Close(r) /\ token[k].status = "LIVE" /\ (making => user[p].status = "NONE")
          /\ token' = [token EXCEPT ![k].status = "USED", ![k].claims = @ + 1, ![k].made = @ \/ making]
          /\ user' = IF making THEN [user EXCEPT ![p].status = "ACTIVE", ![p].origin = "invited"] ELSE user
      BY <1>9 DEF ConsumeToken, Claimable
    <2>2. k \in Refs /\ p \in Users /\ making \in BOOLEAN /\ token[k].claims \in Nat /\ token[k].made \in BOOLEAN
      BY <1>3 DEF Token
    <2>3. /\ token'[k].status = "USED" /\ token'[k].claims = token[k].claims + 1 /\ (token'[k].made <=> token[k].made \/ making)
          /\ \A j \in Refs \ {k} : token'[j] = token[j]
      <3> DEFINE old == token[k]
                 used == [old EXCEPT !.status = "USED", !.claims = @ + 1, !.made = @ \/ making]
      <3>1. old \in Token
        BY <1>3, <2>2
      <3>2. used.status = "USED" /\ used.claims = old.claims + 1 /\ (used.made <=> old.made \/ making)
        <4> HIDE DEF old, making
        <4> QED BY <3>1 DEF Token
      <3>3. token' = [token EXCEPT ![k] = used]
        BY <2>1
      <3> HIDE DEF used
      <3> QED BY <1>3, <2>2, <3>2, <3>3
    <2>4. making => p = Newcomer /\ user[Newcomer].origin = "none"
      BY <1>2, <2>1, <2>2 DEF Strangers
    <2>5. /\ \A u \in Users \ {Newcomer} : user'[u] = user[u]
          /\ making => user'[Newcomer].origin = "invited" /\ user'[Newcomer].status = "ACTIVE"
          /\ ~making => user' = user
      <3>1. CASE making
        BY <1>3, <1>4, <2>1, <2>4, <3>1 DEF User
      <3>2. CASE ~making
        BY <2>1, <3>2
      <3> QED BY <3>1, <3>2
    <2>6. request'[r].pc = "done"
      BY <2>1, OneCloses
    <2> HIDE DEF k, making, p
    <2>7. ClaimsCounted'
      <3>1. token[k].claims = 0
        BY <1>2, <2>1, <2>2 DEF ClaimsCounted
      <3>2. token'[k].claims = 1
        BY <2>3, <3>1
      <3> QED BY <1>2, <2>3, <3>2 DEF ClaimsCounted
    <2>8. TokensUnissued'
      <3>1. \A q \in Requests : request[q].pc \notin {"done", "dead"} => q # k
        BY <1>2, <2>1 DEF TokensUnissued
      <3> QED BY <1>1, <1>2, <1>4, <2>3, <2>6, <3>1 DEF TokensUnissued
    <2>9. Strangers'
      BY <1>2, <1>4, <2>5 DEF Strangers
    <2>10. MadeOnce'
      <3>1. CASE making
        <4>1. \A j \in Refs : ~token[j].made
          BY <1>2, <2>4, <3>1 DEF MadeOnce
        <4> QED BY <2>2, <2>3, <2>5, <3>1, <4>1 DEF MadeOnce
      <3>2. CASE ~making
        <4>1. \A j \in Refs : token'[j].made <=> token[j].made
          BY <2>3, <3>2
        <4> QED BY <1>2, <2>5, <3>2, <4>1 DEF MadeOnce
      <3> QED BY <3>1, <3>2
    <2> QED BY <2>7, <2>8, <2>9, <2>10 DEF TokenInv
  <1> QED BY <1>1, <1>5, <1>6, <1>7, <1>8, <1>9 DEF Step, TouchesTokens

\* A token is claimed once, and the newcomer's account is made from at most one invitation, exactly
\* when it was not created by an administrator (tokens.ts, lines 61-64; account.ts, lines 91-104).
THEOREM InvitedOnce == Spec => []InvitationsOnce
  <1>1. Init => TokenInv
    <2> SUFFICES ASSUME Init
                 PROVE  TokenInv
      OBVIOUS
    <2>1. \A k \in Refs : /\ k # Earlier => token[k] = NoToken
                          /\ token[k].claims = 0 /\ ~token[k].made /\ token[k].status # "USED"
      BY InitialRows
    <2>2. PICK both \in BOOLEAN : user = [u \in Users |-> Account(u, u = Founder \/ both)]
      BY InitialRows
    <2>3. \A u \in Users : IF u = Newcomer THEN user[u].origin = "none" ELSE user[u].status = "ACTIVE"
      BY <2>2 DEF Account
    <2>4. \A r \in Requests : token[r] = NoToken
      BY <2>1, PracticeConstants DEF Refs
    <2>5. NoToken.status = "REVOKED" /\ NoToken.claims = 0 /\ NoToken.made = FALSE
      BY DEF NoToken
    <2> QED BY <2>1, <2>3, <2>4, <2>5, PracticeConstants DEF TokenInv, ClaimsCounted, TokensUnissued, Strangers, MadeOnce
  <1>2. TypeOK /\ TokenInv /\ [Next]_vars => TokenInv'
    <2> SUFFICES ASSUME TypeOK, TokenInv, UNCHANGED restVars
                 PROVE  TokenInv'
      BY DeskSteps, TokensServed
    <2> QED BY DEF restVars, TokenInv, ClaimsCounted, TokensUnissued, Strangers, MadeOnce
  <1>3. TokenInv => InvitationsOnce
    <2> SUFFICES ASSUME TokenInv
                 PROVE  Cardinality({k \in Refs : token[k].made}) = (IF user[Newcomer].origin = "invited" THEN 1 ELSE 0)
      BY DEF InvitationsOnce, TokenInv, ClaimsCounted
    <2> DEFINE S == {k \in Refs : token[k].made}
    <2>1. \A j, k \in S : j = k
      BY DEF TokenInv, MadeOnce
    <2>2. S # {} <=> user[Newcomer].origin = "invited"
      BY DEF TokenInv, MadeOnce
    <2> HIDE DEF S
    <2>3. CASE S = {}
      <3>1. Cardinality(S) = 0
        BY <2>3, FS_EmptySet
      <3> QED BY <2>2, <2>3, <3>1 DEF S
    <2>4. CASE S # {}
      <3>1. PICK k \in S : TRUE
        BY <2>4
      <3>2. S = {k}
        BY <2>1, <3>1
      <3>3. Cardinality({k}) = 1
        BY FS_Singleton
      <3> QED BY <2>2, <2>4, <3>2, <3>3 DEF S
    <2> QED BY <2>3, <2>4
  <1> QED BY <1>1, <1>2, <1>3, DeskTypes, PTL DEF Spec


----------------------------------------------------------------------------
(* Work that is handed over *)

\* The work of a leaver goes to somebody else.
TransfersAway == \A r \in Requests : request[r].op = "offboard" => request[r].u # request[r].v

\* Nobody leaves and no work moves.
LEMMA WorkStays ==
  ASSUME WorkTransferred, UNCHANGED <<matter, task>>, \A u \in Users : user'[u].left => user[u].left
  PROVE  WorkTransferred'
  BY DEF WorkTransferred

LEMMA TaskMoves ==
  ASSUME WorkTransferred, UNCHANGED <<user, matter>>,
         task'.status = "OPEN" /\ user[task'.who].left => task'.carried
  PROVE  WorkTransferred'
  BY DEF WorkTransferred

LEMMA WorkServed ==
  ASSUME TypeOK, WorkTransferred, TransfersAway, NEW r \in Requests, Serves(r)
  PROVE  WorkTransferred' /\ TransfersAway'
  <1>1. Step(r, request'[r]) /\ (\A q \in Requests \ {r} : request'[q] = request[q])
    BY ServesStep, OneGoes DEF Step
  <1>2. /\ request[r].u \in Users /\ request[r].v \in Users /\ user \in [Users -> User] /\ \A u \in Users : user[u] \in User
        /\ matter \in Matter /\ task \in Task
    BY RequestFields DEF TypeOK
  <1>3. request'[r].op # "offboard" => TransfersAway'
    BY <1>1 DEF TransfersAway
  <1>4. CASE UNCHANGED <<matter, task>> /\ request'[r].op # "offboard" /\ \A u \in Users : user'[u].left => user[u].left
    BY <1>3, <1>4, WorkStays
  <1>5. ASSUME NEW u \in Users, NEW v \in Users, LoadOffboard(r, u, v), UNCHANGED task
        PROVE  WorkTransferred' /\ TransfersAway'
    <2> DEFINE rec == [Fresh EXCEPT !.pc = "loaded", !.op = "offboard", !.u = u, !.v = v, !.was = user[u].owner]
    <2>1. Go(r, rec) /\ u # v /\ UNCHANGED <<user, matter>>
      BY <1>5 DEF LoadOffboard
    <2>2. rec.u = u /\ rec.v = v
      BY DEF Fresh
    <2> HIDE DEF rec
    <2>3. request'[r] = rec
      BY <2>1, OneGoes
    <2>4. TransfersAway'
      BY <1>1, <2>1, <2>2, <2>3 DEF TransfersAway
    <2>5. WorkTransferred'
      BY <1>5, <2>1, WorkStays
    <2> QED BY <2>4, <2>5
  <1>6. ASSUME OpenOffboard(r), UNCHANGED task
        PROVE  WorkTransferred' /\ TransfersAway'
    <2> DEFINE me == request[r]
               rec == [me EXCEPT !.pc = "open", !.row = IF Holds(me.u) THEN member[me.u].row ELSE 0, !.yes = Holds(me.v)]
    <2>1. Go(r, rec) /\ UNCHANGED <<user, matter>> /\ me.op = "offboard"
      BY <1>6 DEF OpenOffboard, At
    <2>2. rec.u = me.u /\ rec.v = me.v
      BY RequestFields DEF Request
    <2> HIDE DEF rec
    <2>3. request'[r] = rec
      BY <2>1, OneGoes
    <2>4. TransfersAway'
      BY <1>1, <2>1, <2>2, <2>3 DEF TransfersAway
    <2>5. WorkTransferred'
      BY <1>6, <2>1, WorkStays
    <2> QED BY <2>4, <2>5
  <1>7. CASE Offboard(r)
    <2> DEFINE u == request[r].u
               v == request[r].v
    <2>1. /\ At(r, "open", "offboard") /\ Close(r) /\ matter' = Handed(r) /\ task' = HandedTask(r)
          /\ user' = [user EXCEPT ![u].status = "SUSPENDED", ![u].left = TRUE]
      BY <1>7 DEF Offboard, CommitOffboard
    <2>2. TransfersAway' /\ u # v
      BY <1>3, <2>1, OneCloses DEF TransfersAway, At
    <2>3. user'[u].left /\ \A p \in Users \ {u} : user'[p] = user[p]
      BY <1>2, <2>1 DEF User
    <2>4. /\ matter'.lead = (IF matter.lead = u /\ matter.open THEN v ELSE matter.lead)
          /\ matter'.owner = (IF matter.owner = u /\ matter.open THEN v ELSE matter.owner)
          /\ matter'.open = matter.open /\ (matter'.carried <=> matter.carried \/ user[v].left)
      BY <1>2, <2>1 DEF Handed, Matter
    <2>5. CASE task.status = "OPEN" /\ task.who = u
      <3>1. task'.who = v /\ task'.carried = user[v].left
        BY <1>2, <2>1, <2>5 DEF HandedTask, Task
      <3> QED BY <1>2, <2>2, <2>3, <2>4, <3>1 DEF WorkTransferred
    <2>6. CASE ~(task.status = "OPEN" /\ task.who = u)
      <3>1. task' = task
        BY <2>1, <2>6 DEF HandedTask
      <3> QED BY <1>2, <2>2, <2>3, <2>4, <2>6, <3>1 DEF WorkTransferred
    <2> QED BY <2>5, <2>6
  <1>8. CASE ChangeMatter(r)
    <2> DEFINE me == request[r]
    <2>1. /\ UNCHANGED user /\ Close(r)
          /\ matter' = [matter EXCEPT !.lead = me.v, !.open = me.yes, !.carried = user[me.v].left \/ user[matter.owner].left]
          /\ task' = IF Closing(r) /\ task.status = "OPEN" THEN [task EXCEPT !.status = "CANCELLED"] ELSE task
      BY <1>8 DEF ChangeMatter, WriteMatter
    <2>2. matter'.lead = me.v /\ matter'.owner = matter.owner /\ (matter'.carried <=> user[me.v].left \/ user[matter.owner].left)
      BY <1>2, <2>1 DEF Matter
    <2>3. task' = task \/ task'.status # "OPEN"
      BY <1>2, <2>1 DEF Task
    <2>4. TransfersAway'
      BY <1>3, <2>1, OneCloses
    <2> QED BY <2>1, <2>2, <2>3, <2>4 DEF WorkTransferred
  <1>9. ASSUME NEW status \in {"OPEN", "DONE", "CANCELLED", "DELETED"}, SetTask(r, status)
        PROVE  WorkTransferred' /\ TransfersAway'
    <2>1. /\ Close(r) /\ UNCHANGED <<user, matter>>
          /\ task' = IF task.status = "DELETED" THEN task
                     ELSE [task EXCEPT !.status = status, !.carried = @ \/ user[task.who].left]
      BY <1>9 DEF SetTask, Local
    <2>2. TransfersAway'
      BY <1>3, <2>1, OneCloses
    <2>3. task'.status = "OPEN" /\ user[task'.who].left => task'.carried
      <3>1. CASE task.status = "DELETED"
        BY <2>1, <3>1
      <3>2. CASE task.status # "DELETED"
        BY <1>2, <2>1, <3>2 DEF Task
      <3> QED BY <3>1, <3>2
    <2> QED BY <2>1, <2>2, <2>3, TaskMoves
  <1>10. ASSUME NEW status \in {"OPEN", "DONE", "CANCELLED"}, NEW open \in BOOLEAN, SaveTask(r, status, open)
         PROVE  WorkTransferred' /\ TransfersAway'
    <2>1. /\ Close(r) /\ UNCHANGED <<user, matter>>
          /\ task' = [status |-> status, who |-> request[r].u, carried |-> user[request[r].u].left]
      BY <1>10 DEF SaveTask, Local
    <2>2. TransfersAway'
      BY <1>3, <2>1, OneCloses
    <2> QED BY <2>1, <2>2, TaskMoves
  <1> QED BY <1>1, <1>4, <1>5, <1>6, <1>7, <1>8, <1>9, <1>10 DEF Step, TouchesWork

\* Nothing open stays with somebody who was offboarded, but what was given to them or opened again
\* afterwards: by a request that had read them active, or by a transfer to somebody who was leaving
\* too (account.ts, lines 183-185).
THEOREM WorkHandedOver == Spec => []WorkTransferred
  <1>1. Init => WorkTransferred /\ TransfersAway
    <2> SUFFICES ASSUME Init
                 PROVE  WorkTransferred /\ TransfersAway
      OBVIOUS
    <2>1. PICK both \in BOOLEAN : user = [u \in Users |-> Account(u, u = Founder \/ both)]
      BY InitialRows
    <2>2. \A u \in Users : ~user[u].left
      BY <2>1 DEF Account
    <2>3. \A r \in Requests : request[r] = Fresh
      BY InitialRows
    <2>4. Fresh.op = ""
      BY DEF Fresh
    <2> QED BY <2>2, <2>3, <2>4 DEF WorkTransferred, TransfersAway
  <1>2. TypeOK /\ WorkTransferred /\ TransfersAway /\ [Next]_vars => (WorkTransferred /\ TransfersAway)'
    <2> SUFFICES ASSUME TypeOK, WorkTransferred, TransfersAway, UNCHANGED restVars
                 PROVE  WorkTransferred' /\ TransfersAway'
      BY DeskSteps, WorkServed
    <2> QED BY DEF restVars, WorkTransferred, TransfersAway
  <1> QED BY <1>1, <1>2, DeskTypes, PTL DEF Spec


----------------------------------------------------------------------------
(* Dependencies of the task *)

\* Whoever completes the task while a dependency is open had counted before.
CompletersOvertaken == prior.open => \A r \in Requests : Completing(r) => r \in prior.overtaken

PriorInv == PriorsFirst /\ CompletersOvertaken

LEMMA PriorServed ==
  ASSUME TypeOK, PriorInv, NEW r \in Requests, Serves(r)
  PROVE  PriorInv'
  <1>1. Step(r, request'[r]) /\ (\A q \in Requests \ {r} : request'[q] = request[q])
    BY ServesStep, OneGoes DEF Step
  <1>2. prior \in Prior /\ \A q \in Requests \ {r} : Completing(q)' <=> Completing(q)
    BY <1>1 DEF TypeOK, Completing, At
  <1>3. PriorsFirst /\ CompletersOvertaken
    BY DEF PriorInv
  <1>4. CASE UNCHANGED prior /\ ~(request'[r].pc = "loaded" /\ request'[r].op = "task")
    <2>1. ~Completing(r)'
      BY <1>4 DEF Completing, At
    <2> QED BY <1>2, <1>3, <1>4, <2>1 DEF PriorInv, PriorsFirst, CompletersOvertaken
  <1>5. ASSUME Close(r), NEW open \in BOOLEAN, prior' = Depends(open)
        PROVE  PriorInv'
    <2>1. ~Completing(r)'
      BY <1>5, OneCloses DEF Completing, At
    <2>2. /\ prior'.early = prior.early /\ prior'.open = open
          /\ prior'.overtaken = (IF open /\ ~prior.open THEN prior.overtaken \cup {q \in Requests : Completing(q)}
                                 ELSE prior.overtaken)
      BY <1>2, <1>5 DEF Depends, Prior
    <2>3. PriorsFirst'
      BY <1>3, <2>2 DEF PriorsFirst
    <2>4. CompletersOvertaken'
      BY <1>2, <1>3, <2>1, <2>2 DEF CompletersOvertaken
    <2> QED BY <2>3, <2>4 DEF PriorInv
  <1>6. CASE ChangeMatter(r)
    <2>1. Close(r) /\ (prior' = prior \/ prior' = [prior EXCEPT !.open = FALSE])
      BY <1>6 DEF ChangeMatter, WriteMatter
    <2>2. ~Completing(r)'
      BY <2>1, OneCloses DEF Completing, At
    <2>3. prior'.early = prior.early /\ prior'.overtaken = prior.overtaken /\ (prior'.open => prior.open)
      BY <1>2, <2>1 DEF Prior
    <2> QED BY <1>2, <1>3, <2>2, <2>3 DEF PriorInv, PriorsFirst, CompletersOvertaken
  <1>7. ASSUME NEW yes \in BOOLEAN, LoadTask(r, yes)
        PROVE  PriorInv'
    <2> DEFINE rec == [Fresh EXCEPT !.pc = "loaded", !.op = "task", !.yes = yes]
    <2>1. Go(r, rec) /\ UNCHANGED prior /\ (yes => ~prior.open)
      BY <1>7 DEF LoadTask, deskVars
    <2>2. rec.yes = yes
      BY DEF Fresh
    <2> HIDE DEF rec
    <2>3. Completing(r)' => ~prior.open
      BY <2>1, <2>2, OneGoes DEF Completing
    <2> QED BY <1>2, <1>3, <2>1, <2>3 DEF PriorInv, PriorsFirst, CompletersOvertaken
  <1>8. ASSUME NEW open \in BOOLEAN, SetPrior(r, open)
        PROVE  PriorInv'
    BY <1>5, <1>8 DEF SetPrior
  <1>9. ASSUME NEW status \in {"OPEN", "DONE", "CANCELLED"}, NEW open \in BOOLEAN, SaveTask(r, status, open)
        PROVE  PriorInv'
    BY <1>5, <1>9 DEF SaveTask
  <1>10. ASSUME NEW status \in {"OPEN", "DONE", "CANCELLED", "DELETED"}, SetTask(r, status)
         PROVE  PriorInv'
    <2>1. Close(r) /\ prior' = IF Completing(r) /\ prior.open THEN [prior EXCEPT !.early = @ \cup {r}] ELSE prior
      BY <1>10 DEF SetTask
    <2>2. ~Completing(r)'
      BY <2>1, OneCloses DEF Completing, At
    <2>3. /\ prior'.open = prior.open /\ prior'.overtaken = prior.overtaken
          /\ prior'.early = prior.early \/ (prior'.early = prior.early \cup {r} /\ Completing(r) /\ prior.open)
      BY <1>2, <2>1 DEF Prior
    <2>4. PriorsFirst'
      BY <1>3, <2>3 DEF PriorsFirst, CompletersOvertaken
    <2>5. CompletersOvertaken'
      BY <1>2, <1>3, <2>2, <2>3 DEF CompletersOvertaken
    <2> QED BY <2>4, <2>5 DEF PriorInv
  <1> QED BY <1>1, <1>4, <1>6, <1>7, <1>8, <1>9, <1>10 DEF Step, TouchesPrior

----------------------------------------------------------------------------
(* The court import *)

LEMMA ImportServed ==
  ASSUME TypeOK, ImportMatches, NEW r \in Requests, Serves(r)
  PROVE  ImportMatches'
  <1>1. Step(r, request'[r]) /\ court \in Court
    BY ServesStep DEF TypeOK
  <1>2. CASE UNCHANGED court
    BY <1>2 DEF ImportMatches
  <1>3. CASE ApplyImport(r)
    BY <1>3 DEF ApplyImport, ImportMatches
  <1>4. CASE DiscardImport(r)
    <2>1. court'.status = "DISCARDED" /\ court'.applied = court.applied /\ court.status = "PENDING_REVIEW"
      BY <1>1, <1>4 DEF DiscardImport, Discardable, Court
    <2> QED BY <2>1 DEF ImportMatches
  <1> QED BY <1>1, <1>2, <1>3, <1>4 DEF Step, TouchesCourt


----------------------------------------------------------------------------
(* Timers *)

\* A request that is not over has started no timer.
TimersUnmade == \A r \in Requests : request[r].pc \notin {"done", "dead"} => timer[r].status = "NONE"

\* What a start has found, or is about to stop, is a timer.
FoundTimers ==
  \A r \in Starting : request[r].row = 1 \/ request[r].pc = "checked" => timer[request[r].k].status # "NONE"

\* Of two starts under way, one has seen the other.
StartsMet == \A q, r \in Starting : q = r \/ q \in timer[r].rivals \/ r \in timer[q].rivals

\* A start and a timer that runs have met too, unless the start is about to stop the timer.
Stopping(r, j) == request[r].row = 1 /\ request[r].k = j /\ request[r].pc \in {"loaded", "checked"}
StartsMeetRunning ==
  \A r \in Starting, j \in Running : Stopping(r, j) \/ j \in timer[r].rivals \/ r \in timer[j].rivals

TimerInv == TimersUnmade /\ FoundTimers /\ StartsMet /\ StartsMeetRunning /\ OneTimer

LEMMA TimersServed ==
  ASSUME TypeOK, TimerInv, NEW r \in Requests, Serves(r)
  PROVE  TimerInv'
  <1>1. /\ Step(r, request'[r]) /\ (\A q \in Requests \ {r} : request'[q] = request[q])
        /\ request[r].pc \notin {"done", "dead"}
    BY ServesStep, OneGoes DEF Step
  <1>2. TimersUnmade /\ FoundTimers /\ StartsMet /\ StartsMeetRunning /\ OneTimer
    BY DEF TimerInv
  <1>3. /\ timer \in [Refs -> Timer] /\ (\A k \in Refs : timer[k] \in Timer) /\ (\A q \in Requests : q \in Refs)
        /\ \A q \in Requests : request[q].k \in Refs
    BY RequestFields DEF TypeOK, Refs
  <1>4. r \notin Running /\ timer[r].status = "NONE"
    BY <1>1, <1>2 DEF TimersUnmade, Running
  <1>5. \A q \in Requests \ {r} : q \in Starting' <=> q \in Starting
    BY <1>1 DEF Starting
  <1>6. ASSUME timer' = timer, r \in Starting' => /\ r \in Starting /\ request'[r].k = request[r].k
                                                  /\ request'[r].row = 1 /\ request[r].row = 1
                                                  /\ request[r].pc = "loaded" /\ request'[r].pc = "checked"
        PROVE  TimerInv'
    <2>1. Running' = Running /\ Starting' \subseteq Starting
      BY <1>5, <1>6 DEF Running, Starting
    <2>2. TimersUnmade'
      BY <1>1, <1>2, <1>6 DEF TimersUnmade
    <2>3. FoundTimers'
      BY <1>1, <1>2, <1>6, <2>1 DEF FoundTimers, Starting
    <2>4. StartsMet' /\ OneTimer'
      BY <1>2, <1>6, <2>1 DEF StartsMet, OneTimer
    <2>5. \A q \in Starting', j \in Running : Stopping(q, j) => Stopping(q, j)'
      BY <1>1, <1>6 DEF Stopping, Starting
    <2>6. StartsMeetRunning'
      BY <1>2, <1>6, <2>1, <2>5 DEF StartsMeetRunning
    <2> QED BY <2>2, <2>3, <2>4, <2>6 DEF TimerInv
  <1>7. CASE UNCHANGED timer /\ request'[r].op # "timer"
    BY <1>6, <1>7 DEF Starting
  <1>8. ASSUME NEW k \in Refs, FindRunning(r, k)
        PROVE  TimerInv'
    <2> DEFINE row == IF Running = {} THEN 0 ELSE 1
               rec == [Fresh EXCEPT !.pc = "loaded", !.op = "timer", !.k = k, !.row = row]
    <2>1. /\ Go(r, rec) /\ (IF Running = {} THEN k = Earlier ELSE k \in Running)
          /\ timer' = [timer EXCEPT ![r].rivals = Starting \cup (Running \ {k})]
      BY <1>8 DEF FindRunning
    <2>2. rec.pc = "loaded" /\ rec.op = "timer" /\ rec.k = k /\ rec.row = row
      BY DEF Fresh
    <2>3. row = 1 <=> Running # {}
      OBVIOUS
    <2> HIDE DEF rec, row
    <2>4. request'[r] = rec
      BY <2>1, OneGoes
    <2>5. /\ timer'[r].rivals = Starting \cup (Running \ {k}) /\ timer'[r].status = timer[r].status
          /\ \A j \in Refs \ {r} : timer'[j] = timer[j]
      BY <1>3, <2>1 DEF Timer
    <2>6. /\ Running' = Running /\ \A j \in Refs : timer'[j].status = timer[j].status
      BY <1>3, <2>5 DEF Running
    <2>7. TimersUnmade'
      BY <1>1, <1>2, <1>3, <2>6 DEF TimersUnmade
    <2>8. FoundTimers'
      <3>1. row = 1 => timer[k].status # "NONE"
        BY <2>1, <2>3 DEF Running
      <3>2. ASSUME NEW q \in Starting', request'[q].row = 1 \/ request'[q].pc = "checked"
            PROVE  timer'[request'[q].k].status # "NONE"
        BY <1>1, <1>2, <1>3, <1>5, <2>2, <2>4, <2>6, <3>1, <3>2 DEF FoundTimers, Starting
      <3> QED BY <3>2 DEF FoundTimers
    <2>9. StartsMet'
      BY <1>2, <1>3, <1>5, <2>5 DEF StartsMet, Starting
    <2>10. StartsMeetRunning'
      <3>1. ASSUME NEW q \in Starting', NEW j \in Running
            PROVE  Stopping(q, j)' \/ j \in timer'[q].rivals \/ q \in timer'[j].rivals
        <4>1. CASE q = r
          BY <1>4, <2>1, <2>2, <2>3, <2>4, <2>5, <3>1, <4>1 DEF Stopping
        <4>2. CASE q # r
          <5>1. q \in Starting /\ j \in Refs \ {r} /\ q \in Refs \ {r}
            BY <1>3, <1>4, <1>5, <4>2 DEF Starting, Running
          <5>2. Stopping(q, j) => Stopping(q, j)'
            BY <1>1, <4>2 DEF Stopping, Starting
          <5> QED BY <1>2, <2>5, <5>1, <5>2 DEF StartsMeetRunning
        <4> QED BY <4>1, <4>2
      <3> QED BY <2>6, <3>1 DEF StartsMeetRunning
    <2>11. OneTimer'
      BY <1>2, <1>4, <2>5, <2>6 DEF OneTimer, Running
    <2> QED BY <2>7, <2>8, <2>9, <2>10, <2>11 DEF TimerInv
  <1>9. CASE FindTimer(r)
    <2>1. /\ At(r, "loaded", "timer") /\ request[r].row = 1 /\ UNCHANGED timer
          /\ Close(r) \/ Go(r, [request[r] EXCEPT !.pc = "checked"])
      BY <1>9 DEF FindTimer, deskVars
    <2>2. CASE Close(r)
      BY <1>6, <2>1, <2>2, OneCloses DEF Starting
    <2>3. CASE Go(r, [request[r] EXCEPT !.pc = "checked"])
      <3> DEFINE rec == [request[r] EXCEPT !.pc = "checked"]
      <3>1. rec.pc = "checked" /\ rec.k = request[r].k /\ rec.row = request[r].row
        BY RequestFields DEF Request
      <3>2. request'[r] = rec
        BY <2>3, OneGoes
      <3> HIDE DEF rec
      <3>3. r \in Starting
        BY <2>1 DEF Starting, At
      <3> QED BY <1>6, <2>1, <3>1, <3>2, <3>3 DEF At
    <2> QED BY <2>1, <2>2, <2>3
  <1>10. CASE StopTimer(r)
    <2> DEFINE k == request[r].k
               rec == [request[r] EXCEPT !.pc = "granted"]
    <2>1. At(r, "checked", "timer") /\ Go(r, rec) /\ timer' = [timer EXCEPT ![k].status = "STOPPED"]
      BY <1>10 DEF StopTimer
    <2>2. rec.pc = "granted" /\ rec.k = k /\ rec.row = request[r].row /\ rec.op = request[r].op
      BY RequestFields DEF Request
    <2> HIDE DEF rec
    <2>3. request'[r] = rec
      BY <2>1, OneGoes
    <2>4. Starting' = Starting /\ r \in Starting
      BY <1>5, <2>1, <2>2, <2>3 DEF Starting, At
    <2>5. k \in Refs /\ timer[k].status # "NONE"
      BY <1>2, <1>3, <2>1, <2>4 DEF FoundTimers, At
    <2>6. /\ timer'[k].status = "STOPPED" /\ (\A j \in Refs \ {k} : timer'[j] = timer[j])
          /\ \A j \in Refs : timer'[j].rivals = timer[j].rivals
      BY <1>3, <2>1, <2>5 DEF Timer
    <2> HIDE DEF k
    <2>7. Running' = Running \ {k} /\ \A j \in Refs : timer'[j].status = "NONE" <=> timer[j].status = "NONE"
      BY <2>5, <2>6 DEF Running
    <2>8. TimersUnmade'
      BY <1>1, <1>2, <1>3, <2>7 DEF TimersUnmade
    <2>9. FoundTimers'
      <3>1. ASSUME NEW q \in Starting, request'[q].row = 1 \/ request'[q].pc = "checked"
            PROVE  timer'[request'[q].k].status # "NONE"
        <4>1. CASE q = r
          BY <2>2, <2>3, <2>6, <4>1
        <4>2. CASE q # r
          BY <1>1, <1>2, <1>3, <2>7, <3>1, <4>2 DEF FoundTimers, Starting
        <4> QED BY <4>1, <4>2
      <3> QED BY <2>4, <3>1 DEF FoundTimers
    <2>10. StartsMet'
      BY <1>2, <1>3, <2>4, <2>6 DEF StartsMet, Starting
    <2>11. StartsMeetRunning'
      <3>1. ASSUME NEW q \in Starting, NEW j \in Running, j # k
            PROVE  Stopping(q, j)' \/ j \in timer'[q].rivals \/ q \in timer'[j].rivals
        <4>1. j \in Refs /\ q \in Refs
          BY <1>3 DEF Running, Starting
        <4>2. Stopping(q, j) => Stopping(q, j)'
          <5>1. CASE q = r
            BY <3>1, <5>1 DEF Stopping, k
          <5>2. CASE q # r
            BY <1>1, <5>2 DEF Stopping, Starting
          <5> QED BY <5>1, <5>2
        <4> QED BY <1>2, <2>6, <4>1, <4>2 DEF StartsMeetRunning
      <3> QED BY <2>4, <2>7, <3>1 DEF StartsMeetRunning
    <2>12. OneTimer'
      BY <1>2, <2>6, <2>7 DEF OneTimer, Running
    <2> QED BY <2>8, <2>9, <2>10, <2>11, <2>12 DEF TimerInv
  <1>11. CASE StartTimer(r)
    <2>1. request[r].op = "timer" /\ MayStart(r) /\ Close(r) /\ timer' = [timer EXCEPT ![r].status = "RUNNING"]
      BY <1>11 DEF StartTimer
    <2>2. r \in Starting /\ \A j \in Refs : ~Stopping(r, j)
      BY <1>1, <2>1 DEF Starting, MayStart, Stopping
    <2>3. request'[r].pc = "done" /\ Starting' = Starting \ {r}
      BY <1>5, <2>1, OneCloses DEF Starting
    <2>4. /\ timer'[r].status = "RUNNING" /\ (\A j \in Refs \ {r} : timer'[j] = timer[j])
          /\ \A j \in Refs : timer'[j].rivals = timer[j].rivals
      BY <1>3, <2>1 DEF Timer
    <2>5. Running' = Running \cup {r}
      BY <1>3, <2>4 DEF Running
    <2>6. TimersUnmade'
      BY <1>1, <1>2, <1>3, <2>3, <2>4 DEF TimersUnmade
    <2>7. FoundTimers'
      <3>1. ASSUME NEW q \in Starting \ {r}, request'[q].row = 1 \/ request'[q].pc = "checked"
            PROVE  timer'[request'[q].k].status # "NONE"
        <4>1. request'[q] = request[q] /\ request[q].k \in Refs
          BY <1>1, <1>3 DEF Starting
        <4>2. timer[request[q].k].status # "NONE"
          BY <1>2, <3>1, <4>1 DEF FoundTimers
        <4> QED BY <2>4, <4>1, <4>2
      <3> QED BY <2>3, <3>1 DEF FoundTimers
    <2>8. StartsMet'
      BY <1>2, <1>3, <2>3, <2>4 DEF StartsMet, Starting
    <2>9. StartsMeetRunning'
      <3>1. ASSUME NEW q \in Starting \ {r}, NEW j \in Running \cup {r}
            PROVE  Stopping(q, j)' \/ j \in timer'[q].rivals \/ q \in timer'[j].rivals
        <4>1. j \in Refs /\ q \in Refs /\ request'[q] = request[q]
          BY <1>1, <1>3 DEF Running, Starting
        <4>2. CASE j = r
          BY <1>2, <2>2, <2>4, <4>1, <4>2 DEF StartsMet
        <4>3. CASE j # r
          BY <1>2, <2>4, <4>1, <4>3 DEF StartsMeetRunning, Stopping
        <4> QED BY <4>2, <4>3
      <3> QED BY <2>3, <2>5, <3>1 DEF StartsMeetRunning
    <2>10. OneTimer'
      <3>1. \A j \in Running : j \in timer'[r].rivals \/ r \in timer'[j].rivals
        BY <1>2, <1>3, <2>2, <2>4 DEF StartsMeetRunning, Running
      <3>2. \A j, k \in Running : j = k \/ j \in timer'[k].rivals \/ k \in timer'[j].rivals
        BY <1>2, <2>4 DEF OneTimer, Running
      <3> QED BY <2>5, <3>1, <3>2 DEF OneTimer
    <2> QED BY <2>6, <2>7, <2>8, <2>9, <2>10 DEF TimerInv
  <1> QED BY <1>1, <1>7, <1>8, <1>9, <1>10, <1>11 DEF Step, TouchesTimers

\* The lawyer's timers run one at a time, unless two starts overlapped (finance.ts, lines 193-195);
\* an import has created something exactly when it is applied (court-import.ts, lines 48-84);
\* setTaskStatus completes a task with an open dependency only if that came to be open after the
\* count (tasks.ts, lines 86-91).
THEOREM DeskStaysConsistent == Spec => []DeskConsistent
  <1>1. Init => TimerInv /\ ImportMatches /\ PriorInv
    <2> SUFFICES ASSUME Init
                 PROVE  TimerInv /\ ImportMatches /\ PriorInv
      OBVIOUS
    <2>1. \A r \in Requests : request[r] = Fresh
      BY InitialRows
    <2>2. Fresh.op = ""
      BY DEF Fresh
    <2>3. Starting = {}
      BY <2>1, <2>2 DEF Starting
    <2>4. timer = [k \in Refs |-> [status |-> IF k = Earlier THEN "RUNNING" ELSE "NONE", rivals |-> {}]]
      BY DEF Init
    <2>5. Running \subseteq {Earlier}
      BY <2>4 DEF Running
    <2>6. TimersUnmade
      BY <2>4, PracticeConstants DEF TimersUnmade, Refs
    <2>7. TimerInv
      BY <2>3, <2>5, <2>6 DEF TimerInv, FoundTimers, StartsMet, StartsMeetRunning, OneTimer
    <2>8. ImportMatches /\ PriorInv
      BY DEF Init, ImportMatches, PriorInv, PriorsFirst, CompletersOvertaken
    <2> QED BY <2>7, <2>8
  <1>2. TypeOK /\ TimerInv /\ ImportMatches /\ PriorInv /\ [Next]_vars => (TimerInv /\ ImportMatches /\ PriorInv)'
    <2> SUFFICES ASSUME TypeOK, TimerInv, ImportMatches, PriorInv, UNCHANGED restVars
                 PROVE  TimerInv' /\ ImportMatches' /\ PriorInv'
      BY DeskSteps, TimersServed, ImportServed, PriorServed
    <2>1. ImportMatches' /\ PriorInv'
      BY DEF restVars, ImportMatches, PriorInv, PriorsFirst, CompletersOvertaken, Completing, At
    <2>2. TimerInv'
      BY DEF restVars, TimerInv, TimersUnmade, FoundTimers, StartsMet, StartsMeetRunning, Stopping, OneTimer, Running, Starting
    <2> QED BY <2>1, <2>2
  <1>3. TimerInv /\ ImportMatches /\ PriorInv => DeskConsistent
    BY DEF TimerInv, PriorInv, DeskConsistent
  <1> QED BY <1>1, <1>2, <1>3, DeskTypes, PTL DEF Spec

----------------------------------------------------------------------------
(* Openings, beside everything else *)

\* Numbers are given once and in order: those of the committed rows of a counter are 1, 2, 3 and so
\* on without a gap, whatever was rolled back, retried or refused, and at most one more is under
\* way (matters.ts, lines 18-26).
THEOREM NumbersStayInOrder == Spec => []NumbersInOrder
  <1>1. TypeOK /\ IntakeInv => NumbersInOrder
    BY InvNumbersInOrder
  <1> QED BY <1>1, DeskTypes, PTL

\* verifyAuditChain finds no broken link, at any time: each entry that it sees names the one before
\* it that it sees, although transactions that had appended are rolled back (audit.ts, lines 26-38).
THEOREM ChainStaysLinked == Spec => []ChainLinked
  <1>1. TypeOK /\ IntakeInv => ChainLinked
    BY InvChainLinked
  <1> QED BY <1>1, DeskTypes, PTL

\* Openings deadlock only over the first row of a counter, or if they began with different counters:
\* two of the same kind, or two that take a number from the same counter first, are put one after
\* another by its row (matters.ts, lines 20-25).
THEOREM DeadlocksStayExplained == Spec => []DeadlocksExplained
  <1>1. TypeOK /\ IntakeInv => DeadlocksExplained
    BY InvDeadlocksExplained
  <1> QED BY <1>1, DeskTypes, PTL

=============================================================================
