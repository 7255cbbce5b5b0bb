----------------------------- MODULE MCQuestions -----------------------------
(***************************************************************************)
(* From a stored file to an answer, each part on its own: the text of a    *)
(* document and its chunks, the call of a provider, the request that reads *)
(* a Space and asks, the run that decides step by step, and the page that  *)
(* asks and shows the result.  They share no state.                        *)
(***************************************************************************)
EXTENDS ProviderCalls, KnowledgeAnswers, AgentDecisions, DocumentText, SpacePages

CONSTANTS s1, s2, p1, p2

\* Both papers, or documents, in one Space and one of them in the other.
MCInitial == {<<s1, p1>>, <<s1, p2>>, <<s2, p1>>}

VARIABLE view

vars == <<view, callVars, answersVars, decisionVars, textVars, pagesVars>>

Init ==
  /\ view \in {"text", "call", "request", "run", "page"}
  /\ CallInit
  /\ IF view = "request" THEN AnswersInit
     ELSE /\ joined = FALSE /\ changes = 0 /\ generator = FALSE /\ request = NoRequest
          /\ index = [d \in Documents |-> Nothing] /\ library = << >>
  /\ DecisionsInit
  /\ TextInit
  /\ PagesInit
  /\ view # "page" => shelf = "papers" /\ opened.space = s1

Next ==
  \/ view = "call" /\ CallNext /\ UNCHANGED <<view, answersVars, decisionVars, textVars, pagesVars>>
  \/ view = "request" /\ AnswersNext /\ UNCHANGED <<view, callVars, decisionVars, textVars, pagesVars>>
  \/ view = "run" /\ DecisionsNext /\ UNCHANGED <<view, callVars, answersVars, textVars, pagesVars>>
  \/ view = "text" /\ TextNext /\ UNCHANGED <<view, callVars, answersVars, decisionVars, pagesVars>>
  \/ view = "page" /\ PagesNext /\ UNCHANGED <<view, callVars, answersVars, decisionVars, textVars>>

Spec == Init /\ [][Next]_vars /\ CallFairness
=============================================================================
