----------------------------- MODULE MCBilling -----------------------------
(* Small instances of Billing for TLC. *)
EXTENDS Billing, TLC

Debits == {-1, 1, 2}

Symmetry == Permutations(Clerks) \cup Permutations(Invoices)
=============================================================================
