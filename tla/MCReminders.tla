---------------------------- MODULE MCReminders ----------------------------
(* Small instances of Reminders for TLC. *)
EXTENDS Reminders, TLC

Symmetry == Permutations(Workers) \cup Permutations(Clerks) \cup Permutations(Ids) \cup Permutations(Users)
=============================================================================
