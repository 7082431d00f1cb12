------------------------------- MODULE Office -------------------------------
(* What the modules about one office share: the requests that its people make. *)

CONSTANT Requests \* requests served, each of them once
=============================================================================
