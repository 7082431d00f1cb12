-------------------------- MODULE ReminderOutcome --------------------------
(***************************************************************************)
(* What the reminder engine promises about each reminder, without leases,  *)
(* workers or statuses: a planned reminder is open until the user has been *)
(* told or it is closed, the user is told at most once and for good, and   *)
(* no reminder stays open for ever (the contract stated in                 *)
(* src/src/server/services/reminders.ts, lines 135-143).                   *)
(***************************************************************************)
CONSTANT Ids
VARIABLE outcome

\* How the outcome of one reminder may change.  A closed reminder can be
\* reopened, or told about, by a worker that claimed it before it was closed.
Moves == {<<"absent", "open">>, <<"open", "told">>, <<"open", "closed">>,
          <<"closed", "open">>, <<"closed", "told">>}

Init == outcome = [i \in Ids |-> "absent"]

\* One request may close and plan many reminders; a worker settles one.
Next ==
  /\ outcome' \in [Ids -> {"absent", "open", "closed", "told"}]
  /\ \A i \in Ids : outcome'[i] # outcome[i] => <<outcome[i], outcome'[i]>> \in Moves
  /\ \A i, j \in Ids : /\ outcome'[i] = "told" /\ outcome[i] # "told"
                       /\ outcome'[j] = "told" /\ outcome[j] # "told"
                       => i = j

Settle(i) == Next /\ outcome[i] = "open" /\ outcome'[i] # "open"

Safety == Init /\ [][Next]_outcome

Spec == Safety /\ \A i \in Ids : WF_outcome(Settle(i))
=============================================================================
