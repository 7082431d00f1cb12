------------------------------- MODULE MCDesk -------------------------------
(* Two founders, a newcomer, two requests and what happened before them. *)
EXTENDS Desk

CONSTANTS a, b, n, r1, r2

MCUsers    == {a, b, n}
MCRequests == {r1, r2}
=============================================================================
