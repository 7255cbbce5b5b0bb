------------------------- MODULE MCDocumentIndexing -------------------------
(* The module of the run; the cfg gives the constants their values.         *)
EXTENDS DocumentIndexing
=============================================================================
