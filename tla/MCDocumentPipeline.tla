------------------------- MODULE MCDocumentPipeline -------------------------
(* Two processes and two versions, the second of them infected. *)
EXTENDS DocumentPipeline

CONSTANTS w1, w2

MCWorkers == {w1, w2}
=============================================================================
