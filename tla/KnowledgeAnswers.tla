-------------------------- MODULE KnowledgeAnswers --------------------------
(***************************************************************************)
(* One request that reads a Space and asks a model: semantic search, an    *)
(* answer grounded in documents, a comparison of saved papers, by HTTP or  *)
(* as a tool of an Agent run, and the arXiv search of that tool set.       *)
(*                                                                         *)
(* Every await is a step, so that documents, saved papers and the          *)
(* membership change in between.  What a provider call does inside is      *)
(* ProviderCalls; here it answers anything its schema allows, or fails.    *)
(* A document has one chunk per indexed version, and the order of chunks   *)
(* by distance may be any.                                                 *)
(***************************************************************************)
EXTENDS Integers, Sequences, FiniteSets

CONSTANTS
  Documents, Papers,
  Nothing,      \* no index, no reply, nothing generated yet
  MaxChanges    \* bound: changes by other requests during this one

ASSUME AnswersAssumption == IsFiniteSet(Documents) /\ MaxChanges \in Nat

VARIABLES
  joined,      \* the actor is a member of the Space
  index,       \* the active index of each document: version and model, or Nothing
  library,     \* each paper: saved in the Space, stored version, usable as a source
  changes,     \* number of changes so far
  generator,   \* the server was started with the generators configured
  request      \* the request, with what it has read

answersVars == <<joined, index, library, changes, generator, request>>

Current == "current"
Models == {Current, "former"}
Chunks(s) == {<<d, s[d].version>> : d \in {e \in Documents : s[e] # Nothing}}
Least(a, b) == IF a < b THEN a ELSE b

Arrangements(S) == {q \in [1 .. Cardinality(S) -> S] : \A i, j \in DOMAIN q : q[i] = q[j] => i = j}

(* Refusals and failures have a code and no content.                        *)
Code(c) == [code |-> c, content |-> << >>, said |-> << >>]

(* What the three tools make of the sources of their service: the first of  *)
(* them, numbered in order, as the observation of the step, and a draft of  *)
(* evidence for each.                                                       *)
Numbered(q, most) == [i \in 1 .. Least(Len(q), most) |-> [localEvidenceOrdinal |-> i, source |-> q[i]]]
ArxivObservation(q) == Numbered(q, 5)
KnowledgeObservation(q) == Numbered(q, 8)
AnswerObservation(q) == Numbered(q, 8)

Observation(kind, q) ==
  CASE kind = "arxiv" -> ArxivObservation(q)
    [] kind = "search" -> KnowledgeObservation(q)
    [] kind = "ask" -> AnswerObservation(q)

Drafts(observed) == [i \in DOMAIN observed |-> observed[i].source]

(* The schema of every tool result holds observation and evidence against   *)
(* each other, place by place.                                              *)
SameProvenance(observed, drafts) ==
  /\ DOMAIN observed = DOMAIN drafts
  /\ \A i \in DOMAIN observed : observed[i].localEvidenceOrdinal = i /\ observed[i].source = drafts[i]

(* How the codes of the services become those of the run; every other code  *)
(* that can arise here is in the tool's allowed set.                        *)
ToolCode(c) == IF c = "space_not_found" THEN "agent_space_access_revoked" ELSE c

(* The end of a tool call: a tool whose signal was aborted while it waited  *)
(* throws the reason of the abort, whatever its service has brought.        *)
ToolReply(r, reply) ==
  IF r.aborted THEN Code("aborted")
  ELSE LET observed == Observation(r.kind, reply.content) IN
       IF SameProvenance(observed, Drafts(observed))
       THEN [reply EXCEPT !.code = ToolCode(@), !.content = Drafts(observed)]
       ELSE Code("agent_tool_invalid_response")

Respond(r, reply) ==
  [r EXCEPT !.at = "done", !.reply = IF r.via = "http" THEN reply ELSE ToolReply(r, reply)]

At(kinds, stage) == request.at = stage /\ request.kind \in kinds
Becomes(r) == request' = r /\ UNCHANGED <<joined, index, library, changes, generator>>
Refuse(code) == Becomes(Respond(request, Code(code)))

-----------------------------------------------------------------------------
(* Authorisation and retrieval.                                             *)

Begin(kind, via, wanted) ==
  /\ request.at = "idle"
  /\ kind = "compare" => via = "http"
  /\ kind = "arxiv" => via = "tool"
  /\ Becomes([request EXCEPT !.kind = kind, !.via = via, !.wanted = wanted,
                             !.snapshots = {index},
                             !.at = IF via = "tool" THEN "authorise" ELSE "start"])

(* A tool checks the Space before it calls its service, and its signal      *)
(* before and after.                                                        *)
Authorise ==
  /\ request.at = "authorise"
  /\ IF request.aborted \/ ~joined THEN Refuse("space_not_found")
     ELSE Becomes([request EXCEPT !.at = IF request.kind = "arxiv" THEN "searching" ELSE "start"])

(* search_arxiv: public metadata, which needs no second check.              *)
SearchArxiv ==
  /\ At({"arxiv"}, "searching")
  /\ \/ Refuse("research_upstream_failure")
     \/ \E S \in SUBSET Papers : \E q \in Arrangements(S) :
          Becomes(Respond(request, [code |-> "ok", content |-> q, said |-> << >>]))

HasMembership ==
  /\ At({"search", "ask"}, "start")
  /\ IF joined THEN Becomes([request EXCEPT !.at = "embedding"]) ELSE Refuse("space_not_found")

(* The vector of the query, or a failure of the embedding: of the provider  *)
(* (it is not configured, refuses or is not there, all told alike here), or *)
(* of the check of its answer.                                              *)
EmbedQuery ==
  /\ At({"search", "ask"}, "embedding")
  /\ \/ Becomes([request EXCEPT !.at = "reading", !.since = joined])
     \/ \E c \in {"retrieval_embedding_unavailable", "retrieval_embedding_invalid_response"} : Refuse(c)

(* Mutant of Incompatible: one comparable document is enough.               *)
IncompatibleAll ==
  \A d \in Documents : index[d] # Nothing => index[d].model # Current

Incompatible ==
  \E d \in Documents : index[d] # Nothing /\ index[d].model # Current

Retrieved(limit) ==
  {q \in UNION {Arrangements(S) : S \in SUBSET {c \in Chunks(index) : index[c[1]].model = Current}} :
     Len(q) = Least(limit, Cardinality({c \in Chunks(index) : index[c[1]].model = Current}))}

(* One repeatable-read transaction under a share lock of the membership:    *)
(* nothing is returned from an index that the query cannot be compared to.  *)
SearchForMember ==
  /\ At({"search", "ask"}, "reading")
  /\ IF ~joined THEN Refuse("space_not_found")
     ELSE IF Chunks(index) = {} THEN Refuse("knowledge_not_indexed")
     ELSE IF Incompatible THEN Refuse("knowledge_embedding_incompatible")
     ELSE \E q \in Retrieved(request.wanted) :
            IF request.kind = "search"
            THEN Becomes(Respond(request, [code |-> "ok", content |-> q, said |-> << >>]))
            ELSE IF ~generator THEN Refuse("answer_generation_unavailable")
            ELSE Becomes([request EXCEPT !.at = "generating", !.sources = q])

-----------------------------------------------------------------------------
(* Grounded answers.                                                        *)

Marks == 1 .. Cardinality(Documents) + 1
Pairs(S) == {<< >>} \cup {<<a>> : a \in S} \cup {<<a, b>> : a \in S, b \in S}
Unique(q) == \A i, j \in DOMAIN q : q[i] = q[j] => i = j

(* What the schema of the generated answer lets through: the markers in the *)
(* text, without repetition, and the list of source ids.                    *)
Generated == [markers : {q \in Pairs(Marks) : Unique(q)}, ids : Pairs(Marks), enough : BOOLEAN]

(* Mutant of Acceptable: as many markers as ids, in any order.              *)
AcceptableCount(g) ==
  IF g.enough
  THEN g.markers # << >> /\ Len(g.markers) = Len(g.ids) /\ \A i \in DOMAIN g.ids : g.ids[i] <= Len(request.sources)
  ELSE g.markers = << >> /\ g.ids = << >>

Acceptable(g) ==
  IF g.enough
  THEN g.markers # << >> /\ g.markers = g.ids /\ \A i \in DOMAIN g.ids : g.ids[i] <= Len(request.sources)
  ELSE g.markers = << >> /\ g.ids = << >>

GenerateAnswer ==
  /\ At({"ask"}, "generating")
  /\ \/ \E c \in {"answer_upstream_timeout", "answer_upstream_failure", "answer_invalid_response"} : Refuse(c)
     \/ \E g \in Generated :
          /\ (g.enough <=> g.ids # << >>)
          /\ IF Acceptable(g)
             THEN Becomes([request EXCEPT !.at = "recheck", !.written = g, !.since = joined])
             ELSE Refuse("answer_invalid_response")

(* The citations follow the list of ids, each with the source it stands     *)
(* for; a tool makes them its observation and, in the same order, its       *)
(* evidence.                                                                *)
Cited ==
  [i \in DOMAIN request.written.ids |-> request.sources[request.written.ids[i]]]

(* Mutant of ReplyAnswer: the membership is not checked again.              *)
ReplyAnswerUnchecked ==
  /\ At({"ask"}, "recheck")
  /\ Becomes(Respond(request, [code |-> "ok", content |-> Cited, said |-> request.written.markers]))

ReplyAnswer ==
  /\ At({"ask"}, "recheck")
  /\ IF joined
     THEN Becomes(Respond(request, [code |-> "ok", content |-> Cited, said |-> request.written.markers]))
     ELSE Refuse("space_not_found")

-----------------------------------------------------------------------------
(* Paper comparison.                                                        *)

LoadPapers ==
  /\ At({"compare"}, "start")
  /\ IF ~joined THEN Refuse("space_not_found")
     ELSE LET wanted == request.wanted IN
       IF \E i \in DOMAIN wanted : ~library[wanted[i]].saved THEN Refuse("comparison_papers_not_found")
       ELSE IF \E i \in DOMAIN wanted : ~library[wanted[i]].usable THEN Refuse("comparison_source_unavailable")
       ELSE IF ~generator THEN Refuse("comparison_unavailable")
       ELSE Becomes([request EXCEPT !.at = "generating",
                                    !.sources = [i \in DOMAIN wanted |-> <<wanted[i], library[wanted[i]].version>>]])

(* One dimension names every selected paper exactly once, in any order; it  *)
(* is brought into the order of the request.                                *)
Exact(observed) ==
  Len(observed) = Len(request.wanted) /\ \A i \in DOMAIN request.wanted :
    \E j \in DOMAIN observed : observed[j] = request.wanted[i]

Normalized(observed) ==
  [i \in DOMAIN request.wanted |->
     observed[CHOOSE j \in DOMAIN observed : observed[j] = request.wanted[i]]]

GenerateComparison ==
  /\ At({"compare"}, "generating")
  /\ \/ \E c \in {"comparison_upstream_timeout", "comparison_upstream_failure"} : Refuse(c)
     \/ \E observed \in Pairs(Papers) :
          IF Exact(observed)
          THEN Becomes([request EXCEPT !.at = "recheck", !.written = Normalized(observed), !.since = joined])
          ELSE Refuse("comparison_invalid_response")

ReplyComparison ==
  /\ At({"compare"}, "recheck")
  /\ IF joined
     THEN Becomes(Respond(request, [code |-> "ok", content |-> request.sources, said |-> request.written]))
     ELSE Refuse("space_not_found")

-----------------------------------------------------------------------------
(* Other requests, the worker, and the run the tool belongs to.             *)

Waiting == request.at \notin {"idle", "done"}

AbortTool ==
  /\ Waiting /\ request.via = "tool" /\ ~request.aborted
  /\ Becomes([request EXCEPT !.aborted = TRUE])

(* A change others make, and what the request will be judged by.            *)
Change ==
  /\ Waiting /\ changes < MaxChanges
  /\ changes' = changes + 1
  /\ request' = [request EXCEPT !.snapshots = @ \cup {index'}, !.since = @ \/ joined']
  /\ UNCHANGED generator

ChangeMembership == joined' = ~joined /\ UNCHANGED <<index, library>> /\ Change

PublishIndex ==
  /\ \E d \in Documents :
       index' = [index EXCEPT ![d] =
                  [model |-> Current, version |-> IF @ = Nothing THEN 1 ELSE @.version + 1]]
  /\ UNCHANGED <<joined, library>>
  /\ Change

DeleteDocument ==
  /\ \E d \in Documents : index[d] # Nothing /\ index' = [index EXCEPT ![d] = Nothing]
  /\ UNCHANGED <<joined, library>>
  /\ Change

ChangeLibrary ==
  /\ \E p \in Papers :
       \/ library' = [library EXCEPT ![p].saved = ~@]
       \/ \E usable \in BOOLEAN :
            library' = [library EXCEPT ![p].version = @ + 1, ![p].usable = usable]
  /\ UNCHANGED <<joined, index>>
  /\ Change

NoRequest ==
  [kind |-> "search", via |-> "http", wanted |-> 1, at |-> "idle", aborted |-> FALSE,
   sources |-> << >>, written |-> Nothing, snapshots |-> {}, since |-> FALSE, reply |-> Nothing]

AnswersInit ==
  /\ joined = TRUE /\ changes = 0
  /\ index \in [Documents -> {Nothing} \cup [model : Models, version : {1}]]
  /\ library \in [Papers -> [saved : BOOLEAN, version : {1}, usable : {TRUE}]]
  /\ generator \in BOOLEAN
  /\ request = NoRequest

AnswersNext ==
  \/ \E via \in {"http", "tool"} :
       \/ \E limit \in 1 .. 2 : Begin("search", via, limit)
       \/ Begin("ask", via, 8)
       \/ Begin("arxiv", via, 1)
       \/ \E wanted \in {q \in Pairs(Papers) : Len(q) = 2 /\ Unique(q)} : Begin("compare", via, wanted)
  \/ Authorise
  \/ SearchArxiv
  \/ HasMembership
  \/ EmbedQuery
  \/ SearchForMember
  \/ GenerateAnswer
  \/ ReplyAnswer
  \/ LoadPapers
  \/ GenerateComparison
  \/ ReplyComparison
  \/ AbortTool
  \/ ChangeMembership
  \/ PublishIndex
  \/ DeleteDocument
  \/ ChangeLibrary

AnswersSpec == AnswersInit /\ [][AnswersNext]_answersVars

-----------------------------------------------------------------------------
Content(kinds) == request.at = "done" /\ request.kind \in kinds /\ request.reply.code = "ok"

(* What a model wrote about a Space, and what was read from it, is returned *)
(* only to somebody who was a member at some time since the last provider   *)
(* answered; a removal while the provider is asked is not overlooked.  A    *)
(* tool whose run was cut off returns nothing.                              *)
ReplyAuthorised ==
  /\ Content({"search", "ask", "compare"}) => request.since
  /\ Content({"search", "ask", "arxiv"}) => ~request.aborted

(* The sources behind a reply are the chunks nearest to the query in ONE    *)
(* state of the index that existed while the request ran, all of it         *)
(* comparable with the query: never a part of the knowledge base, never     *)
(* two versions of a document.                                              *)
Behind(q, limit) ==
  \E s \in request.snapshots :
    /\ \A d \in Documents : s[d] # Nothing => s[d].model = Current
    /\ Unique(q) /\ \A i \in DOMAIN q : q[i] \in Chunks(s)
    /\ Len(q) = Least(limit, Cardinality(Chunks(s)))

WholeIndex ==
  /\ request.kind = "ask" /\ request.sources # << >> => Behind(request.sources, request.wanted)
  /\ Content({"search"}) => Behind(request.reply.content, request.wanted)

(* Every marker in a grounded answer has its citation, at the same place,   *)
(* to the source the provider was shown under that mark; a comparison says  *)
(* something of each requested paper once, in the order of the request, and *)
(* shows the version of the paper the provider was given.                   *)
EvidenceMatches ==
  /\ Content({"ask"}) =>
       /\ Len(request.reply.content) = Len(request.reply.said)
       /\ \A i \in DOMAIN request.reply.said :
            /\ request.reply.said[i] \in DOMAIN request.sources
            /\ request.reply.content[i] = request.sources[request.reply.said[i]]
  /\ Content({"compare"}) =>
       request.reply.said = request.wanted /\ request.reply.content = request.sources
=============================================================================
