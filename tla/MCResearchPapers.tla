-------------------------- MODULE MCResearchPapers --------------------------
(* ResearchPapers for TLC: two papers, two queries that find them in        *)
(* opposite orders, and one paper of which a second version appears.        *)
EXTENDS ResearchPapers, TLC

CONSTANTS p1, p2, q1, q2, a1, a2

MCVersions == p1 :> 2 @@ p2 :> 1
MCOrder == q1 :> <<p1, p2>> @@ q2 :> <<p2, p1>>
MCPaperOf == a1 :> p1 @@ a2 :> p1
=============================================================================
