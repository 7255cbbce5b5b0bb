--------------------------- MODULE MCAgentWorker ---------------------------
(***************************************************************************)
(* Small instances of AgentWorker for TLC.                                 *)
(***************************************************************************)
EXTENDS AgentWorker, TLC

(* Processes are interchangeable: no definition orders them.                *)
Interchangeable == Permutations(Workers)
=============================================================================
