-------------------------- MODULE MCAgentRunStore --------------------------
(***************************************************************************)
(* Small instances of AgentRunStore for TLC.                               *)
(***************************************************************************)
EXTENDS AgentRunViews, TLC

(* Users, workers, tasks and request ids are interchangeable: no definition *)
(* of AgentRunStore orders them.                                            *)
Interchangeable ==
  Permutations(Users) \cup Permutations(Workers) \cup Permutations(Tasks)
    \cup Permutations(Requests)
=============================================================================
