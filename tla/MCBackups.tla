------------------------------ MODULE MCBackups ------------------------------
(* One worker and the nightly command. *)
EXTENDS Backups
=============================================================================
