-------------------------- MODULE Questions_proofs --------------------------
(***************************************************************************)
(* Proofs about the questions a member asks of a Space, in four parts:     *)
(* a search or a grounded answer while the Space changes                   *)
(* (KnowledgeAnswers), the decisions of the model that runs an agent, taken*)
(* on rows that other workers may take over (AgentDecisions), the pages on *)
(* which the questions are put together (SpacePages), and the one call of a*)
(* provider they all make (ProviderCalls). Each part has an inductive      *)
(* invariant, a lemma for each action that has more than one thing to say, *)
(* and the theorems. The four share no variable.                           *)
(***************************************************************************)
EXTENDS ProviderCalls, KnowledgeAnswers, AgentDecisions, SpacePages, FiniteSetTheorems, TLAPS

-----------------------------------------------------------------------------
(* The inductive invariant of a request (KnowledgeAnswers).                 *)

Stages == {"idle", "authorise", "start", "searching", "embedding", "reading", "generating", "recheck", "done"}

RequestFields ==
  {"kind", "via", "wanted", "at", "aborted", "sources", "written", "snapshots", "since", "reply"}

RequestShape ==
  /\ DOMAIN request = RequestFields
  /\ request.kind \in {"search", "ask", "arxiv", "compare"}
  /\ request.via \in {"http", "tool"}
  /\ request.at \in Stages
  /\ request.since \in BOOLEAN /\ joined \in BOOLEAN

(* Which requests there are, and that only a tool can be aborted.           *)
RequestPath ==
  /\ request.at = "idle" => request = NoRequest
  /\ request.kind = "compare" => request.via = "http"
  /\ request.via = "http" => ~request.aborted
  /\ request.kind \in {"search", "ask"} /\ request.at # "idle" => request.wanted \in 1 .. 8
  /\ request.kind = "compare" => request.wanted \in Seq(Papers)

(* What the request has learnt of the membership is not older than the last *)
(* answer of a provider.                                                    *)
MembershipSeen ==
  request.at \in {"reading", "recheck"} /\ joined => request.since

(* Every state of the index since the request began is remembered.          *)
IndexRemembered == request.at # "idle" => index \in request.snapshots

(* What was read for an answer, and what was generated from it.             *)
SourcesWhole ==
  request.kind = "ask" /\ request.sources # << >> =>
    /\ Len(request.sources) \in Nat /\ DOMAIN request.sources = 1 .. Len(request.sources)
    /\ Behind(request.sources, request.wanted)

WrittenFits ==
  request.at = "recheck" =>
    /\ request.kind = "ask" =>
         /\ request.written.markers = request.written.ids
         /\ request.written.ids \in Seq(Nat) /\ Len(request.written.ids) <= 2
         /\ \A i \in DOMAIN request.written.ids : request.written.ids[i] \in DOMAIN request.sources
    /\ request.kind = "compare" => request.written = request.wanted

AnswersInv ==
  /\ RequestShape
  /\ RequestPath
  /\ MembershipSeen
  /\ IndexRemembered
  /\ SourcesWhole
  /\ WrittenFits
  /\ ReplyAuthorised
  /\ WholeIndex
  /\ EvidenceMatches

-----------------------------------------------------------------------------
(* What a reply becomes on its way out.                                     *)

(* The first of the sources of a reply are all of them when there are few.  *)
LEMMA NumberedAll ==
  ASSUME NEW S, NEW q \in Seq(S), NEW most \in Nat, Len(q) <= most
  PROVE  /\ Drafts(Numbered(q, most)) = q
         /\ SameProvenance(Numbered(q, most), Drafts(Numbered(q, most)))
<1>. DEFINE observed == Numbered(q, most)
<1>1. Least(Len(q), most) = Len(q)
  BY DEF Least
<1>2. observed = [i \in 1 .. Len(q) |-> [localEvidenceOrdinal |-> i, source |-> q[i]]]
  BY <1>1 DEF Numbered
<1>3. DOMAIN observed = 1 .. Len(q) /\ \A i \in 1 .. Len(q) :
        observed[i].localEvidenceOrdinal = i /\ observed[i].source = q[i]
  BY <1>2
<1>. HIDE DEF observed
<1>4. Drafts(observed) = [i \in 1 .. Len(q) |-> q[i]]
  BY <1>3 DEF Drafts
<1>5. q = [i \in 1 .. Len(q) |-> q[i]]
  OBVIOUS
<1>6. SameProvenance(observed, Drafts(observed))
  BY <1>3, <1>4 DEF SameProvenance
<1>. QED  BY <1>4, <1>5, <1>6 DEF observed

(* A reply ends the request and leaves what it has read as it is.           *)
LEMMA RespondFields ==
  ASSUME NEW r, DOMAIN r = RequestFields, NEW reply,
         NEW a, a = Respond(r, reply)
  PROVE  /\ DOMAIN a = RequestFields
         /\ a.at = "done" /\ a.kind = r.kind /\ a.via = r.via /\ a.wanted = r.wanted
         /\ a.aborted = r.aborted /\ a.sources = r.sources /\ a.written = r.written
         /\ a.snapshots = r.snapshots /\ a.since = r.since
         /\ r.via = "http" => a.reply = reply
         /\ r.via # "http" => a.reply = ToolReply(r, reply)
BY DEF Respond, RequestFields

(* A refusal stays one.                                                     *)
LEMMA RefusalKept ==
  ASSUME NEW r, NEW c, c # "ok"
  PROVE  ToolReply(r, Code(c)).code # "ok"
<1>1. CASE r.aborted
  BY <1>1 DEF ToolReply, Code
<1>2. CASE ~r.aborted
  <2>. DEFINE observed == Observation(r.kind, Code(c).content)
  <2>1. CASE SameProvenance(observed, Drafts(observed))
    <3>1. ToolReply(r, Code(c)) = [Code(c) EXCEPT !.code = ToolCode(@), !.content = Drafts(observed)]
      BY <1>2, <2>1 DEF ToolReply
    <3>2. ToolReply(r, Code(c)).code = ToolCode(c)
      BY <3>1 DEF Code
    <3>. QED  BY <3>2 DEF ToolCode
  <2>2. CASE ~SameProvenance(observed, Drafts(observed))
    BY <1>2, <2>2 DEF ToolReply, Code
  <2>. QED  BY <2>1, <2>2
<1>. QED  BY <1>1, <1>2

(* A tool that is not cut off returns what its service has brought.         *)
LEMMA ToolReplies ==
  ASSUME NEW r, r.kind \in {"search", "ask"}, NEW S, NEW q \in Seq(S), Len(q) <= 8, NEW said,
         NEW a, a = ToolReply(r, [code |-> "ok", content |-> q, said |-> said]),
         a.code = "ok"
  PROVE  ~r.aborted /\ a.content = q /\ a.said = said
<1>. DEFINE reply == [code |-> "ok", content |-> q, said |-> said]
            observed == Observation(r.kind, reply.content)
<1>1. ~r.aborted
  BY DEF ToolReply, Code
<1>2. observed = Numbered(q, 8)
  BY DEF Observation, KnowledgeObservation, AnswerObservation
<1>3. Drafts(observed) = q /\ SameProvenance(observed, Drafts(observed))
  BY <1>2, NumberedAll
<1>. HIDE DEF observed
<1>4. a = [reply EXCEPT !.code = ToolCode(@), !.content = q]
  BY <1>1, <1>3 DEF ToolReply, observed
<1>. QED  BY <1>1, <1>4

-----------------------------------------------------------------------------
(* Steps of a request, and of others during it.                             *)

(* A reply is right about what has been read; the rest of the invariant     *)
(* speaks of what the request still has to do.                              *)
LEMMA LastStep ==
  ASSUME AnswersInv, Waiting, NEW reply, Becomes(Respond(request, reply)),
         ReplyAuthorised',
         (Content({"search"}) => Behind(request.reply.content, request.wanted))',
         EvidenceMatches'
  PROVE  AnswersInv'
<1>1. /\ DOMAIN request' = RequestFields
      /\ request'.at = "done" /\ request'.kind = request.kind /\ request'.via = request.via
      /\ request'.wanted = request.wanted /\ request'.aborted = request.aborted
      /\ request'.sources = request.sources /\ request'.snapshots = request.snapshots
      /\ request'.since = request.since
  BY RespondFields DEF AnswersInv, RequestShape, Becomes
<1>2. index' = index /\ joined' = joined
  BY DEF Becomes
<1>3. RequestShape'
  BY <1>1, <1>2 DEF AnswersInv, RequestShape, Stages
<1>4. RequestPath'
  BY <1>1 DEF AnswersInv, RequestPath, Waiting
<1>5. MembershipSeen' /\ WrittenFits'
  BY <1>1 DEF MembershipSeen, WrittenFits
<1>6. IndexRemembered'
  BY <1>1, <1>2 DEF AnswersInv, IndexRemembered, Waiting
<1>7. SourcesWhole'
  BY <1>1 DEF AnswersInv, SourcesWhole, Behind
<1>8. WholeIndex'
  BY <1>7 DEF SourcesWhole, WholeIndex
<1>. QED  BY <1>3, <1>4, <1>5, <1>6, <1>7, <1>8 DEF AnswersInv

(* A refusal returns nothing.                                               *)
LEMMA RefuseStep ==
  ASSUME AnswersInv, Waiting, NEW c, c # "ok", Refuse(c)
  PROVE  AnswersInv'
<1>1. Becomes(Respond(request, Code(c)))
  BY DEF Refuse
<1>2. request'.reply.code # "ok"
  <2>1. \/ request'.reply = Code(c)
        \/ request'.reply = ToolReply(request, Code(c))
    BY <1>1, RespondFields DEF AnswersInv, RequestShape, Becomes
  <2>. QED  BY <2>1, RefusalKept DEF Code
<1>3. \A K : ~Content(K)'
  BY <1>2 DEF Content
<1>4. ReplyAuthorised' /\ EvidenceMatches'
  BY <1>3 DEF ReplyAuthorised, EvidenceMatches
<1>. QED  BY <1>1, <1>3, <1>4, LastStep

(* A request goes on to its next stage.                                     *)
LEMMA StageStep ==
  ASSUME AnswersInv, Waiting, NEW r, Becomes(r),
         DOMAIN r = RequestFields,
         r.kind = request.kind, r.via = request.via, r.wanted = request.wanted,
         r.aborted = request.aborted \/ r.via = "tool",
         r.snapshots = request.snapshots,
         r.at \in Stages \ {"idle", "done"}, r.since \in BOOLEAN,
         MembershipSeen', SourcesWhole', WrittenFits'
  PROVE  AnswersInv'
<1>1. request' = r /\ index' = index /\ joined' = joined
  BY DEF Becomes
<1>2. RequestShape'
  BY <1>1 DEF AnswersInv, RequestShape
<1>3. RequestPath'
  BY <1>1 DEF AnswersInv, RequestPath, Waiting
<1>4. IndexRemembered'
  BY <1>1 DEF AnswersInv, IndexRemembered, Waiting
<1>5. \A K : ~Content(K)'
  BY <1>1 DEF Content
<1>6. ReplyAuthorised' /\ WholeIndex' /\ EvidenceMatches'
  BY <1>5 DEF ReplyAuthorised, WholeIndex, EvidenceMatches, SourcesWhole
<1>. QED  BY <1>2, <1>3, <1>4, <1>6 DEF AnswersInv

(* What a reply with content must show, by HTTP and as a tool.              *)
LEMMA AnswerStep ==
  ASSUME AnswersInv, Waiting, request.kind \in {"search", "ask"}, request.since = TRUE,
         NEW S, NEW q \in Seq(S), Len(q) <= 8, NEW said,
         Becomes(Respond(request, [code |-> "ok", content |-> q, said |-> said])),
         request.kind = "search" => Behind(q, request.wanted),
         request.kind = "ask" => /\ Len(q) = Len(said)
                                 /\ \A i \in DOMAIN said : /\ said[i] \in DOMAIN request.sources
                                                           /\ q[i] = request.sources[said[i]]
  PROVE  AnswersInv'
<1>. DEFINE reply == [code |-> "ok", content |-> q, said |-> said]
            a == Respond(request, reply)
<1>0. request' = a
  BY DEF Becomes
<1>. HIDE DEF a
<1>1. /\ request'.kind = request.kind /\ request'.via = request.via
      /\ request'.wanted = request.wanted /\ request'.aborted = request.aborted
      /\ request'.sources = request.sources /\ request'.snapshots = request.snapshots
      /\ request'.since = request.since
      /\ request.via = "http" => request'.reply = reply
      /\ request.via # "http" => request'.reply = ToolReply(request, reply)
  <2>1. DOMAIN request = RequestFields
    BY DEF AnswersInv, RequestShape
  <2>. HIDE DEF reply
  <2>. QED  BY <1>0, <2>1, RespondFields DEF a
<1>2. CASE request'.reply.code = "ok"
  <2>1. request'.reply.content = q /\ request'.reply.said = said /\ ~request.aborted
    <3>1. CASE request.via = "http"
      BY <1>1, <3>1 DEF AnswersInv, RequestPath
    <3>2. CASE request.via # "http"
      BY <1>1, <1>2, <3>2, ToolReplies
    <3>. QED  BY <3>1, <3>2
  <2>2. ~request'.aborted
    BY <1>1, <2>1
  <2>3. request'.since
    BY <1>1
  <2>4. ReplyAuthorised'
    BY <2>2, <2>3 DEF ReplyAuthorised
  <2>5. (Content({"search"}) => Behind(request.reply.content, request.wanted))'
    BY <1>1, <2>1 DEF Content, Behind
  <2>6. EvidenceMatches'
    BY <1>1, <2>1 DEF EvidenceMatches, Content
  <2>. QED  BY <2>4, <2>5, <2>6, LastStep
<1>3. CASE request'.reply.code # "ok"
  <2>1. \A K : ~Content(K)'
    BY <1>3 DEF Content
  <2>2. ReplyAuthorised' /\ EvidenceMatches'
    BY <2>1 DEF ReplyAuthorised, EvidenceMatches
  <2>. QED  BY <2>1, <2>2, LastStep
<1>. QED  BY <1>2, <1>3

(* A document has one chunk of its active index, so there are finitely many. *)
LEMMA ChunksFinite == IsFiniteSet(Chunks(index))
<1>. DEFINE D == {e \in Documents : index[e] # Nothing}
            chunk == [d \in D |-> <<d, index[d].version>>]
<1>1. IsFiniteSet(D)
  BY FS_Subset, AnswersAssumption DEF AnswersAssumption
<1>2. chunk \in Surjection(D, Chunks(index))
  BY DEF Surjection, Chunks
<1>. QED  BY <1>1, <1>2, FS_Surjection

(* What the search returns of an index that can be compared to the query is *)
(* the nearest of all its chunks.                                           *)
LEMMA RetrievedWhole ==
  ASSUME ~Incompatible, NEW limit \in 1 .. 8, NEW q \in Retrieved(limit)
  PROVE  /\ q \in Seq(Chunks(index)) /\ Len(q) <= 8 /\ Unique(q)
         /\ \A i \in DOMAIN q : q[i] \in Chunks(index)
         /\ Len(q) = Least(limit, Cardinality(Chunks(index)))
         /\ \A d \in Documents : index[d] # Nothing => index[d].model = Current
<1>1. \A d \in Documents : index[d] # Nothing => index[d].model = Current
  BY DEF Incompatible
<1>2. {c \in Chunks(index) : index[c[1]].model = Current} = Chunks(index)
  BY <1>1 DEF Chunks
<1>3. Len(q) = Least(limit, Cardinality(Chunks(index)))
  BY <1>2 DEF Retrieved
<1>4. PICK S \in SUBSET Chunks(index) : q \in Arrangements(S)
  BY <1>2 DEF Retrieved
<1>5. Cardinality(S) \in Nat /\ Cardinality(Chunks(index)) \in Nat
  BY <1>4, ChunksFinite, FS_Subset, FS_CardinalityType
<1>6. q \in [1 .. Cardinality(S) -> S] /\ Unique(q)
  BY <1>4 DEF Arrangements, Unique
<1>7. q \in Seq(Chunks(index))
  BY <1>5, <1>6
<1>8. \A i \in DOMAIN q : q[i] \in Chunks(index)
  BY <1>6
<1>9. Len(q) <= 8
  BY <1>3, <1>5 DEF Least
<1>. QED  BY <1>1, <1>3, <1>6, <1>7, <1>8, <1>9

(* A request that only moves on.                                            *)
LEMMA MovesOn ==
  ASSUME AnswersInv, Waiting, NEW stage \in {"start", "searching", "embedding"},
         Becomes([request EXCEPT !.at = stage])
  PROVE  AnswersInv'
<1>. DEFINE r == [request EXCEPT !.at = stage]
<1>1. DOMAIN request = RequestFields /\ request.since \in BOOLEAN
  BY DEF AnswersInv, RequestShape
<1>2. /\ DOMAIN r = RequestFields
      /\ r.kind = request.kind /\ r.via = request.via /\ r.wanted = request.wanted
      /\ r.aborted = request.aborted /\ r.snapshots = request.snapshots
      /\ r.sources = request.sources
      /\ r.at = stage /\ r.since \in BOOLEAN
  BY <1>1 DEF RequestFields
<1>. HIDE DEF r
<1>3. Becomes(r)
  BY DEF r
<1>4. request' = r
  BY <1>3 DEF Becomes
<1>5. MembershipSeen' /\ WrittenFits'
  BY <1>2, <1>4 DEF MembershipSeen, WrittenFits
<1>6. SourcesWhole'
  BY <1>2, <1>4 DEF AnswersInv, SourcesWhole, Behind
<1>. QED  BY <1>2, <1>3, <1>5, <1>6, StageStep DEF Stages

LEMMA AuthoriseStep == AnswersInv /\ Authorise => AnswersInv'
<1>. SUFFICES ASSUME AnswersInv, Authorise PROVE AnswersInv'
  OBVIOUS
<1>1. Waiting
  BY DEF Authorise, Waiting
<1>2. CASE Refuse("space_not_found")
  BY <1>1, <1>2, RefuseStep
<1>3. CASE ~Refuse("space_not_found")
  <2>1. \/ Becomes([request EXCEPT !.at = "searching"])
        \/ Becomes([request EXCEPT !.at = "start"])
    BY <1>3 DEF Authorise
  <2>. QED  BY <1>1, <2>1, MovesOn
<1>. QED  BY <1>2, <1>3

LEMMA HasMembershipStep == AnswersInv /\ HasMembership => AnswersInv'
<1>. SUFFICES ASSUME AnswersInv, HasMembership PROVE AnswersInv'
  OBVIOUS
<1>1. Waiting
  BY DEF HasMembership, At, Waiting
<1>2. CASE joined
  BY <1>1, <1>2, MovesOn DEF HasMembership
<1>3. CASE ~joined
  BY <1>1, <1>3, RefuseStep DEF HasMembership
<1>. QED  BY <1>2, <1>3

LEMMA BeginStep ==
  ASSUME AnswersInv, NEW kind \in {"search", "ask", "arxiv", "compare"},
         NEW via \in {"http", "tool"}, NEW wanted, Begin(kind, via, wanted),
         kind \in {"search", "ask"} => wanted \in 1 .. 8,
         kind = "compare" => wanted \in Seq(Papers)
  PROVE  AnswersInv'
<1>. DEFINE r == [request EXCEPT !.kind = kind, !.via = via, !.wanted = wanted,
                                 !.snapshots = {index},
                                 !.at = IF via = "tool" THEN "authorise" ELSE "start"]
<1>0. request.sources = << >> /\ request.aborted = FALSE
  BY DEF AnswersInv, RequestPath, NoRequest, Begin
<1>1. DOMAIN request = RequestFields /\ request.since \in BOOLEAN /\ joined \in BOOLEAN
  BY DEF AnswersInv, RequestShape
<1>2. /\ DOMAIN r = RequestFields
      /\ r.kind = kind /\ r.via = via /\ r.wanted = wanted
      /\ r.aborted = request.aborted /\ r.snapshots = {index}
      /\ r.sources = request.sources
      /\ r.at \in {"authorise", "start"} /\ r.since \in BOOLEAN
  BY <1>1 DEF RequestFields
<1>. HIDE DEF r
<1>3. request' = r /\ index' = index /\ joined' = joined
  BY DEF r, Begin, Becomes
<1>4. RequestShape'
  BY <1>1, <1>2, <1>3 DEF RequestShape, Stages
<1>5. RequestPath'
  BY <1>0, <1>2, <1>3 DEF RequestPath, Begin
<1>6. MembershipSeen' /\ WrittenFits'
  BY <1>2, <1>3 DEF MembershipSeen, WrittenFits
<1>7. IndexRemembered'
  BY <1>2, <1>3 DEF IndexRemembered
<1>8. SourcesWhole'
  BY <1>0, <1>2, <1>3 DEF SourcesWhole
<1>9. \A K : ~Content(K)'
  BY <1>2, <1>3 DEF Content
<1>10. ReplyAuthorised' /\ WholeIndex' /\ EvidenceMatches'
  BY <1>8, <1>9 DEF ReplyAuthorised, WholeIndex, EvidenceMatches, SourcesWhole
<1>. QED  BY <1>4, <1>5, <1>6, <1>7, <1>8, <1>10 DEF AnswersInv

LEMMA EmbedQueryStep == AnswersInv /\ EmbedQuery => AnswersInv'
<1>. SUFFICES ASSUME AnswersInv, EmbedQuery PROVE AnswersInv'
  OBVIOUS
<1>1. Waiting
  BY DEF EmbedQuery, At, Waiting
<1>2. CASE \E c \in {"retrieval_embedding_unavailable", "retrieval_embedding_invalid_response"} : Refuse(c)
  BY <1>1, <1>2, RefuseStep
<1>3. CASE Becomes([request EXCEPT !.at = "reading", !.since = joined])
  <2>. DEFINE r == [request EXCEPT !.at = "reading", !.since = joined]
  <2>1. DOMAIN request = RequestFields /\ joined \in BOOLEAN
    BY DEF AnswersInv, RequestShape
  <2>2. /\ DOMAIN r = RequestFields
        /\ r.kind = request.kind /\ r.via = request.via /\ r.wanted = request.wanted
        /\ r.aborted = request.aborted /\ r.snapshots = request.snapshots
        /\ r.sources = request.sources
        /\ r.at = "reading" /\ r.since = joined /\ r.since \in BOOLEAN
    BY <2>1 DEF RequestFields
  <2>. HIDE DEF r
  <2>3. Becomes(r)
    BY <1>3 DEF r
  <2>4. request' = r /\ joined' = joined
    BY <2>3 DEF Becomes
  <2>5. MembershipSeen'
    <3>1. request'.since = joined'
      BY <2>2, <2>4
    <3>. QED  BY <3>1 DEF MembershipSeen
  <2>6. WrittenFits'
    BY <2>2, <2>4 DEF WrittenFits
  <2>7. SourcesWhole'
    BY <2>2, <2>4 DEF AnswersInv, SourcesWhole, Behind
  <2>. QED  BY <1>1, <2>2, <2>3, <2>5, <2>6, <2>7, StageStep DEF Stages
<1>. QED  BY <1>2, <1>3 DEF EmbedQuery

LEMMA SearchArxivStep == AnswersInv /\ SearchArxiv => AnswersInv'
<1>. SUFFICES ASSUME AnswersInv, SearchArxiv PROVE AnswersInv'
  OBVIOUS
<1>1. Waiting /\ request.kind = "arxiv"
  BY DEF SearchArxiv, At, Waiting
<1>2. CASE Refuse("research_upstream_failure")
  BY <1>1, <1>2, RefuseStep
<1>3. ASSUME NEW q, Becomes(Respond(request, [code |-> "ok", content |-> q, said |-> << >>]))
      PROVE  AnswersInv'
  <2>. DEFINE reply == [code |-> "ok", content |-> q, said |-> << >>]
              a == Respond(request, reply)
  <2>1. DOMAIN request = RequestFields
    BY DEF AnswersInv, RequestShape
  <2>2. request' = a
    BY <1>3 DEF Becomes
  <2>. HIDE DEF a, reply
  <2>3. /\ request'.kind = "arxiv" /\ request'.via = request.via
        /\ request'.aborted = request.aborted
        /\ request.via # "http" => request'.reply = ToolReply(request, reply)
    BY <1>1, <2>1, <2>2, RespondFields DEF a
  <2>4. ~Content({"search"})' /\ EvidenceMatches'
    BY <2>3 DEF EvidenceMatches, Content
  <2>5. ReplyAuthorised'
    <3>1. CASE request.via = "http"
      <4>1. ~request.aborted
        BY <3>1 DEF AnswersInv, RequestPath
      <4>. QED  BY <2>3, <4>1 DEF ReplyAuthorised, Content
    <3>2. CASE request.via # "http"
      <4>1. request'.reply.code = "ok" => ~request.aborted
        BY <2>3, <3>2 DEF ToolReply, Code
      <4>. QED  BY <2>3, <4>1 DEF ReplyAuthorised, Content
    <3>. QED  BY <3>1, <3>2
  <2>. QED  BY <1>1, <1>3, <2>4, <2>5, LastStep
<1>. QED  BY <1>2, <1>3 DEF SearchArxiv

LEMMA SearchForMemberStep == AnswersInv /\ SearchForMember => AnswersInv'
<1>. SUFFICES ASSUME AnswersInv, SearchForMember PROVE AnswersInv'
  OBVIOUS
<1>1. Waiting /\ request.kind \in {"search", "ask"} /\ request.at = "reading"
  BY DEF SearchForMember, At, Waiting
<1>2. CASE \E c \in {"space_not_found", "knowledge_not_indexed", "knowledge_embedding_incompatible",
                     "answer_generation_unavailable"} : Refuse(c)
  BY <1>1, <1>2, RefuseStep
<1>3. ASSUME joined, ~Incompatible, NEW q \in Retrieved(request.wanted),
             \/ /\ request.kind = "search"
                /\ Becomes(Respond(request, [code |-> "ok", content |-> q, said |-> << >>]))
             \/ /\ request.kind = "ask"
                /\ Becomes([request EXCEPT !.at = "generating", !.sources = q])
      PROVE  AnswersInv'
  <2>1. request.wanted \in 1 .. 8
    BY <1>1 DEF AnswersInv, RequestPath
  <2>2. /\ q \in Seq(Chunks(index)) /\ Len(q) <= 8 /\ Unique(q)
        /\ \A i \in DOMAIN q : q[i] \in Chunks(index)
        /\ Len(q) = Least(request.wanted, Cardinality(Chunks(index)))
        /\ \A d \in Documents : index[d] # Nothing => index[d].model = Current
    BY <1>3, <2>1, RetrievedWhole
  <2>3. index \in request.snapshots
    BY <1>1 DEF AnswersInv, IndexRemembered
  <2>4. Behind(q, request.wanted)
    BY <2>2, <2>3 DEF Behind
  <2>5. request.since = TRUE
    <3>1. request.since
      BY <1>1, <1>3 DEF AnswersInv, MembershipSeen
    <3>2. request.since \in BOOLEAN
      BY DEF AnswersInv, RequestShape
    <3>. QED  BY <3>1, <3>2
  <2>6. CASE request.kind = "search"
    <3>1. Becomes(Respond(request, [code |-> "ok", content |-> q, said |-> << >>]))
      BY <1>3, <2>6
    <3>. QED  BY <1>1, <2>2, <2>4, <2>5, <2>6, <3>1, AnswerStep
  <2>7. CASE request.kind = "ask"
    <3>. DEFINE r == [request EXCEPT !.at = "generating", !.sources = q]
    <3>1. DOMAIN request = RequestFields /\ request.since \in BOOLEAN
      BY DEF AnswersInv, RequestShape
    <3>2. /\ DOMAIN r = RequestFields
          /\ r.kind = request.kind /\ r.via = request.via /\ r.wanted = request.wanted
          /\ r.aborted = request.aborted /\ r.snapshots = request.snapshots
          /\ r.sources = q
          /\ r.at = "generating" /\ r.since \in BOOLEAN
      BY <3>1 DEF RequestFields
    <3>. HIDE DEF r
    <3>3. Becomes(r)
      BY <1>3, <2>7 DEF r
    <3>4. request' = r
      BY <3>3 DEF Becomes
    <3>5. MembershipSeen' /\ WrittenFits'
      BY <3>2, <3>4 DEF MembershipSeen, WrittenFits
    <3>6. SourcesWhole'
      BY <2>4, <3>2, <3>4 DEF SourcesWhole, Behind
    <3>. QED  BY <1>1, <3>2, <3>3, <3>5, <3>6, StageStep DEF Stages
  <2>. QED  BY <1>1, <2>6, <2>7
<1>. QED  BY <1>1, <1>2, <1>3 DEF SearchForMember

LEMMA GenerateAnswerStep == AnswersInv /\ GenerateAnswer => AnswersInv'
<1>. SUFFICES ASSUME AnswersInv, GenerateAnswer PROVE AnswersInv'
  OBVIOUS
<1>1. Waiting /\ request.kind = "ask"
  BY DEF GenerateAnswer, At, Waiting
<1>2. CASE \E c \in {"answer_upstream_timeout", "answer_upstream_failure", "answer_invalid_response"} : Refuse(c)
  BY <1>1, <1>2, RefuseStep
<1>3. ASSUME NEW g \in Generated, Acceptable(g), g.enough <=> g.ids # << >>,
             Becomes([request EXCEPT !.at = "recheck", !.written = g, !.since = joined])
      PROVE  AnswersInv'
  <2>. DEFINE r == [request EXCEPT !.at = "recheck", !.written = g, !.since = joined]
  <2>1. DOMAIN request = RequestFields /\ joined \in BOOLEAN
    BY DEF AnswersInv, RequestShape
  <2>2. /\ DOMAIN r = RequestFields
        /\ r.kind = request.kind /\ r.via = request.via /\ r.wanted = request.wanted
        /\ r.aborted = request.aborted /\ r.snapshots = request.snapshots
        /\ r.sources = request.sources /\ r.written = g
        /\ r.at = "recheck" /\ r.since = joined /\ r.since \in BOOLEAN
    BY <2>1 DEF RequestFields
  <2>. HIDE DEF r
  <2>3. Becomes(r)
    BY <1>3 DEF r
  <2>4. request' = r /\ joined' = joined
    BY <2>3 DEF Becomes
  <2>5. MembershipSeen'
    <3>1. request'.since = joined'
      BY <2>2, <2>4
    <3>. QED  BY <3>1 DEF MembershipSeen
  <2>6. SourcesWhole'
    BY <2>2, <2>4 DEF AnswersInv, SourcesWhole, Behind
  <2>7. g.markers = g.ids
    BY <1>3 DEF Acceptable
  <2>8. g.ids \in Seq(Nat) /\ Len(g.ids) <= 2
    <3>1. g.ids \in Pairs(Marks)
      BY DEF Generated
    <3>2. Marks \subseteq Nat
      BY DEF Marks
    <3>3. CASE g.ids = << >>
      BY <3>3
    <3>4. CASE \E a \in Nat : g.ids = <<a>>
      BY <3>4
    <3>5. CASE \E a, b \in Nat : g.ids = <<a, b>>
      BY <3>5
    <3>. QED  BY <3>1, <3>2, <3>3, <3>4, <3>5 DEF Pairs
  <2>9. \A i \in DOMAIN g.ids : g.ids[i] \in DOMAIN request.sources
    <3>1. CASE g.ids = << >>
      BY <3>1
    <3>2. CASE g.ids # << >>
      <4>1. \A i \in DOMAIN g.ids : g.ids[i] <= Len(request.sources)
        BY <1>3, <3>2 DEF Acceptable
      <4>2. \A i \in DOMAIN g.ids : g.ids[i] \in Nat /\ g.ids[i] >= 1
        <5>1. g.ids \in Pairs(Marks)
          BY DEF Generated
        <5>. QED  BY <5>1 DEF Pairs, Marks
      <4>3. request.sources # << >>
        <5>1. 1 \in DOMAIN g.ids
          BY <2>8, <3>2
        <5>. QED  BY <4>1, <4>2, <5>1
      <4>4. Len(request.sources) \in Nat /\ DOMAIN request.sources = 1 .. Len(request.sources)
        BY <1>1, <4>3 DEF AnswersInv, SourcesWhole
      <4>5. \A i \in DOMAIN g.ids : g.ids[i] \in 1 .. Len(request.sources)
        BY <4>1, <4>2, <4>4
      <4>. QED  BY <4>4, <4>5
    <3>. QED  BY <3>1, <3>2
  <2>10. WrittenFits'
    BY <1>1, <2>2, <2>4, <2>7, <2>8, <2>9 DEF WrittenFits
  <2>. QED  BY <1>1, <2>2, <2>3, <2>5, <2>6, <2>10, StageStep DEF Stages
<1>4. CASE Refuse("answer_invalid_response")
  BY <1>1, <1>4, RefuseStep
<1>. QED  BY <1>2, <1>3, <1>4 DEF GenerateAnswer

LEMMA ReplyAnswerStep == AnswersInv /\ ReplyAnswer => AnswersInv'
<1>. SUFFICES ASSUME AnswersInv, ReplyAnswer PROVE AnswersInv'
  OBVIOUS
<1>1. Waiting /\ request.kind = "ask" /\ request.at = "recheck"
  BY DEF ReplyAnswer, At, Waiting
<1>2. CASE ~joined
  BY <1>1, <1>2, RefuseStep DEF ReplyAnswer
<1>3. CASE joined
  <2>. DEFINE S == {request.sources[j] : j \in DOMAIN request.sources}
              ids == request.written.ids
              said == request.written.markers
  <2>1. Becomes(Respond(request, [code |-> "ok", content |-> Cited, said |-> said]))
    BY <1>3 DEF ReplyAnswer
  <2>2. /\ said = ids /\ ids \in Seq(Nat) /\ Len(ids) <= 2
        /\ \A i \in DOMAIN ids : ids[i] \in DOMAIN request.sources
    BY <1>1 DEF AnswersInv, WrittenFits
  <2>3. Cited = [i \in DOMAIN ids |-> request.sources[ids[i]]]
    BY DEF Cited
  <2>4. request.since = TRUE
    <3>1. request.since
      BY <1>1, <1>3 DEF AnswersInv, MembershipSeen
    <3>2. request.since \in BOOLEAN
      BY DEF AnswersInv, RequestShape
    <3>. QED  BY <3>1, <3>2
  <2>. HIDE DEF ids, said
  <2>5. DOMAIN ids = 1 .. Len(ids) /\ Len(ids) \in Nat
    BY <2>2
  <2>6. Cited \in Seq(S) /\ Len(Cited) = Len(ids)
    <3>1. Cited \in [1 .. Len(ids) -> S]
      BY <2>2, <2>3, <2>5
    <3>. QED  BY <2>5, <3>1
  <2>. HIDE DEF S
  <2>7. /\ Len(Cited) = Len(said)
        /\ \A i \in DOMAIN said : /\ said[i] \in DOMAIN request.sources
                                  /\ Cited[i] = request.sources[said[i]]
    BY <2>2, <2>3, <2>6
  <2>8. Len(Cited) <= 8
    BY <2>2, <2>5, <2>6
  <2>. QED  BY <1>1, <2>1, <2>4, <2>6, <2>7, <2>8, AnswerStep
<1>. QED  BY <1>2, <1>3

LEMMA LoadPapersStep == AnswersInv /\ LoadPapers => AnswersInv'
<1>. SUFFICES ASSUME AnswersInv, LoadPapers PROVE AnswersInv'
  OBVIOUS
<1>1. Waiting /\ request.kind = "compare"
  BY DEF LoadPapers, At, Waiting
<1>2. CASE \E c \in {"space_not_found", "comparison_papers_not_found", "comparison_source_unavailable",
                     "comparison_unavailable"} : Refuse(c)
  BY <1>1, <1>2, RefuseStep
<1>3. ASSUME NEW q, Becomes([request EXCEPT !.at = "generating", !.sources = q])
      PROVE  AnswersInv'
  <2>. DEFINE r == [request EXCEPT !.at = "generating", !.sources = q]
  <2>1. DOMAIN request = RequestFields /\ request.since \in BOOLEAN
    BY DEF AnswersInv, RequestShape
  <2>2. /\ DOMAIN r = RequestFields
        /\ r.kind = request.kind /\ r.via = request.via /\ r.wanted = request.wanted
        /\ r.aborted = request.aborted /\ r.snapshots = request.snapshots
        /\ r.at = "generating" /\ r.since \in BOOLEAN
    BY <2>1 DEF RequestFields
  <2>. HIDE DEF r
  <2>3. Becomes(r)
    BY <1>3 DEF r
  <2>4. request' = r
    BY <2>3 DEF Becomes
  <2>5. MembershipSeen' /\ WrittenFits' /\ SourcesWhole'
    BY <1>1, <2>2, <2>4 DEF MembershipSeen, WrittenFits, SourcesWhole
  <2>. QED  BY <1>1, <2>2, <2>3, <2>5, StageStep DEF Stages
<1>. QED  BY <1>2, <1>3 DEF LoadPapers

(* An answer that names every paper once is brought into their order.       *)
LEMMA NormalizedIsWanted ==
  ASSUME request.wanted \in Seq(Papers), NEW observed, Exact(observed)
  PROVE  Normalized(observed) = request.wanted
<1>1. \A i \in DOMAIN request.wanted : \E j \in DOMAIN observed : observed[j] = request.wanted[i]
  BY DEF Exact
<1>2. \A i \in DOMAIN request.wanted : Normalized(observed)[i] = request.wanted[i]
  BY <1>1 DEF Normalized
<1>3. DOMAIN Normalized(observed) = DOMAIN request.wanted
  BY DEF Normalized
<1>4. request.wanted = [i \in DOMAIN request.wanted |-> request.wanted[i]]
  OBVIOUS
<1>5. Normalized(observed) = [i \in DOMAIN request.wanted |-> Normalized(observed)[i]]
  BY DEF Normalized
<1>. QED  BY <1>2, <1>3, <1>4, <1>5

LEMMA GenerateComparisonStep == AnswersInv /\ GenerateComparison => AnswersInv'
<1>. SUFFICES ASSUME AnswersInv, GenerateComparison PROVE AnswersInv'
  OBVIOUS
<1>1. Waiting /\ request.kind = "compare"
  BY DEF GenerateComparison, At, Waiting
<1>2. CASE \E c \in {"comparison_upstream_timeout", "comparison_upstream_failure",
                     "comparison_invalid_response"} : Refuse(c)
  BY <1>1, <1>2, RefuseStep
<1>3. ASSUME NEW observed, Exact(observed),
             Becomes([request EXCEPT !.at = "recheck", !.written = Normalized(observed), !.since = joined])
      PROVE  AnswersInv'
  <2>. DEFINE r == [request EXCEPT !.at = "recheck", !.written = Normalized(observed), !.since = joined]
  <2>1. DOMAIN request = RequestFields /\ joined \in BOOLEAN
    BY DEF AnswersInv, RequestShape
  <2>2. /\ DOMAIN r = RequestFields
        /\ r.kind = request.kind /\ r.via = request.via /\ r.wanted = request.wanted
        /\ r.aborted = request.aborted /\ r.snapshots = request.snapshots
        /\ r.written = Normalized(observed)
        /\ r.at = "recheck" /\ r.since = joined /\ r.since \in BOOLEAN
    BY <2>1 DEF RequestFields
  <2>. HIDE DEF r
  <2>3. Becomes(r)
    BY <1>3 DEF r
  <2>4. request' = r /\ joined' = joined
    BY <2>3 DEF Becomes
  <2>5. MembershipSeen'
    <3>1. request'.since = joined'
      BY <2>2, <2>4
    <3>. QED  BY <3>1 DEF MembershipSeen
  <2>6. Normalized(observed) = request.wanted
    BY <1>1, <1>3, NormalizedIsWanted DEF AnswersInv, RequestPath
  <2>7. WrittenFits' /\ SourcesWhole'
    BY <1>1, <2>2, <2>4, <2>6 DEF WrittenFits, SourcesWhole
  <2>. QED  BY <1>1, <2>2, <2>3, <2>5, <2>7, StageStep DEF Stages
<1>. QED  BY <1>2, <1>3 DEF GenerateComparison

LEMMA ReplyComparisonStep == AnswersInv /\ ReplyComparison => AnswersInv'
<1>. SUFFICES ASSUME AnswersInv, ReplyComparison PROVE AnswersInv'
  OBVIOUS
<1>1. Waiting /\ request.kind = "compare" /\ request.at = "recheck"
  BY DEF ReplyComparison, At, Waiting
<1>2. CASE ~joined
  BY <1>1, <1>2, RefuseStep DEF ReplyComparison
<1>3. CASE joined
  <2>. DEFINE reply == [code |-> "ok", content |-> request.sources, said |-> request.written]
              a == Respond(request, reply)
  <2>1. Becomes(a)
    BY <1>3 DEF ReplyComparison
  <2>2. request' = a
    BY <2>1 DEF Becomes
  <2>3. request.via = "http" /\ request.written = request.wanted
    BY <1>1 DEF AnswersInv, RequestPath, WrittenFits
  <2>4. request.since
    BY <1>1, <1>3 DEF AnswersInv, MembershipSeen
  <2>5. DOMAIN request = RequestFields
    BY DEF AnswersInv, RequestShape
  <2>. HIDE DEF reply, a
  <2>6. /\ request'.kind = "compare" /\ request'.wanted = request.wanted
        /\ request'.sources = request.sources /\ request'.since = request.since
        /\ request'.reply = reply
    <3>1. /\ a.kind = request.kind /\ a.wanted = request.wanted
          /\ a.sources = request.sources /\ a.since = request.since
          /\ request.via = "http" => a.reply = reply
      BY <2>5, RespondFields DEF a
    <3>. QED  BY <1>1, <2>2, <2>3, <3>1
  <2>7. ReplyAuthorised'
    BY <2>4, <2>6 DEF ReplyAuthorised, Content
  <2>8. ~Content({"search"})' /\ EvidenceMatches'
    BY <2>3, <2>6 DEF Content, EvidenceMatches, reply
  <2>. QED  BY <1>1, <2>1, <2>7, <2>8, LastStep DEF reply, a
<1>. QED  BY <1>2, <1>3

LEMMA AbortToolStep == AnswersInv /\ AbortTool => AnswersInv'
<1>. SUFFICES ASSUME AnswersInv, AbortTool PROVE AnswersInv'
  OBVIOUS
<1>1. Waiting /\ request.via = "tool"
  BY DEF AbortTool
<1>. DEFINE r == [request EXCEPT !.aborted = TRUE]
<1>2. DOMAIN request = RequestFields /\ request.since \in BOOLEAN
  BY DEF AnswersInv, RequestShape
<1>3. /\ DOMAIN r = RequestFields
      /\ r.kind = request.kind /\ r.via = request.via /\ r.wanted = request.wanted
      /\ r.snapshots = request.snapshots /\ r.at = request.at
      /\ r.sources = request.sources /\ r.written = request.written
      /\ r.since = request.since /\ r.since \in BOOLEAN
  BY <1>2 DEF RequestFields
<1>. HIDE DEF r
<1>4. Becomes(r)
  BY DEF AbortTool, r
<1>5. request' = r /\ joined' = joined
  BY <1>4 DEF Becomes
<1>6. MembershipSeen'
  <2>1. request'.at = request.at /\ request'.since = request.since
    BY <1>3, <1>5
  <2>. QED  BY <1>5, <2>1 DEF AnswersInv, MembershipSeen
<1>7. WrittenFits'
  BY <1>3, <1>5 DEF AnswersInv, WrittenFits
<1>8. SourcesWhole'
  BY <1>3, <1>5 DEF AnswersInv, SourcesWhole, Behind
<1>9. r.at \in Stages \ {"idle", "done"}
  BY <1>1, <1>3 DEF AnswersInv, RequestShape, Waiting
<1>10. r.via = "tool"
  BY <1>1, <1>3
<1>. QED  BY <1>1, <1>3, <1>4, <1>6, <1>7, <1>8, <1>9, <1>10, StageStep

(* A change by others: what the index then is, is remembered with what it   *)
(* was, and so is a membership that returns.                                *)
LEMMA ChangeStep ==
  ASSUME AnswersInv, Change, joined' \in BOOLEAN
  PROVE  AnswersInv'
<1>1. Waiting
  BY DEF Change
<1>. DEFINE r == [request EXCEPT !.snapshots = @ \cup {index'}, !.since = @ \/ joined']
<1>2. DOMAIN request = RequestFields /\ request.since \in BOOLEAN
  BY DEF AnswersInv, RequestShape
<1>3. /\ DOMAIN request' = RequestFields
      /\ request'.kind = request.kind /\ request'.via = request.via /\ request'.wanted = request.wanted
      /\ request'.at = request.at /\ request'.aborted = request.aborted
      /\ request'.sources = request.sources /\ request'.written = request.written
      /\ request'.snapshots = request.snapshots \cup {index'}
      /\ request'.since = (request.since \/ joined')
  BY <1>2 DEF Change, RequestFields
<1>4. RequestShape'
  <2>1. request'.since \in BOOLEAN
    BY <1>3
  <2>. QED  BY <1>3, <2>1 DEF AnswersInv, RequestShape
<1>5. RequestPath'
  BY <1>1, <1>3 DEF AnswersInv, RequestPath, Waiting
<1>6. MembershipSeen'
  BY <1>3 DEF MembershipSeen
<1>7. IndexRemembered'
  BY <1>3 DEF IndexRemembered
<1>8. SourcesWhole'
  BY <1>3 DEF AnswersInv, SourcesWhole, Behind
<1>9. WrittenFits'
  BY <1>3 DEF AnswersInv, WrittenFits
<1>10. request'.at # "done"
  BY <1>1, <1>3 DEF Waiting
<1>11. ReplyAuthorised' /\ WholeIndex' /\ EvidenceMatches'
  BY <1>8, <1>10 DEF ReplyAuthorised, WholeIndex, EvidenceMatches, SourcesWhole, Content
<1>. QED  BY <1>4, <1>5, <1>6, <1>7, <1>8, <1>9, <1>11 DEF AnswersInv

LEMMA AnswersInitially == AnswersInit => AnswersInv
<1>. SUFFICES ASSUME AnswersInit PROVE AnswersInv
  OBVIOUS
<1>. USE DEF AnswersInit, NoRequest
<1>1. RequestShape
  BY DEF RequestShape, RequestFields, Stages
<1>2. RequestPath
  BY DEF RequestPath
<1>3. MembershipSeen /\ IndexRemembered /\ SourcesWhole /\ WrittenFits
  BY DEF MembershipSeen, IndexRemembered, SourcesWhole, WrittenFits
<1>4. ReplyAuthorised /\ WholeIndex /\ EvidenceMatches
  BY DEF ReplyAuthorised, WholeIndex, EvidenceMatches, Content
<1>. QED  BY <1>1, <1>2, <1>3, <1>4 DEF AnswersInv

LEMMA AnswersStep == AnswersInv /\ [AnswersNext]_answersVars => AnswersInv'
<1>. SUFFICES ASSUME AnswersInv, [AnswersNext]_answersVars PROVE AnswersInv'
  OBVIOUS
<1>1. ASSUME NEW via \in {"http", "tool"},
             \/ \E limit \in 1 .. 2 : Begin("search", via, limit)
             \/ Begin("ask", via, 8)
             \/ Begin("arxiv", via, 1)
             \/ \E wanted \in {q \in Pairs(Papers) : Len(q) = 2 /\ Unique(q)} : Begin("compare", via, wanted)
      PROVE  AnswersInv'
  <2>1. CASE \E limit \in 1 .. 2 : Begin("search", via, limit)
    BY <2>1, BeginStep
  <2>2. CASE Begin("ask", via, 8)
    BY <2>2, BeginStep
  <2>3. CASE Begin("arxiv", via, 1)
    BY <2>3, BeginStep
  <2>4. ASSUME NEW wanted \in Pairs(Papers), Len(wanted) = 2, Begin("compare", via, wanted)
        PROVE  AnswersInv'
    <3>1. PICK a, b \in Papers : wanted = << >> \/ wanted = <<a>> \/ wanted = <<a, b>>
      BY <2>4 DEF Pairs
    <3>2. wanted = <<a, b>>
      BY <2>4, <3>1
    <3>3. wanted \in Seq(Papers)
      BY <3>2
    <3>. QED  BY <2>4, <3>3, BeginStep
  <2>. QED  BY <1>1, <2>1, <2>2, <2>3, <2>4
<1>2. CASE ChangeMembership
  BY <1>2, ChangeStep DEF ChangeMembership
<1>3. CASE PublishIndex
  BY <1>3, ChangeStep DEF PublishIndex, AnswersInv, RequestShape
<1>4. CASE DeleteDocument
  BY <1>4, ChangeStep DEF DeleteDocument, AnswersInv, RequestShape
<1>5. CASE ChangeLibrary
  BY <1>5, ChangeStep DEF ChangeLibrary, AnswersInv, RequestShape
<1>6. CASE UNCHANGED answersVars
  <2>. USE <1>6 DEF answersVars
  <2>1. RequestShape' /\ RequestPath' /\ MembershipSeen' /\ IndexRemembered'
    BY DEF AnswersInv, RequestShape, RequestPath, MembershipSeen, IndexRemembered
  <2>2. SourcesWhole' /\ WrittenFits' /\ WholeIndex'
    BY DEF AnswersInv, SourcesWhole, WrittenFits, WholeIndex, Content, Behind
  <2>3. ReplyAuthorised' /\ EvidenceMatches'
    BY DEF AnswersInv, ReplyAuthorised, EvidenceMatches, Content
  <2>. QED  BY <2>1, <2>2, <2>3 DEF AnswersInv
<1>. QED
  BY <1>1, <1>2, <1>3, <1>4, <1>5, <1>6, AuthoriseStep, SearchArxivStep, HasMembershipStep,
     EmbedQueryStep, SearchForMemberStep, GenerateAnswerStep, ReplyAnswerStep, LoadPapersStep,
     GenerateComparisonStep, ReplyComparisonStep, AbortToolStep
  DEF AnswersNext

(* A request knows what it has read: the invariant of its steps.            *)
THEOREM AnswersInvariant == AnswersSpec => []AnswersInv
BY AnswersInitially, AnswersStep, PTL DEF AnswersSpec

(* Whatever happens to the membership or the run while a provider is asked, *)
(* a reply with content reaches only somebody who was a member since the    *)
(* last provider answered, and no tool that was cut off (answers.ts,        *)
(* comparison.ts and the agent tools check again).                          *)
THEOREM RepliesAuthorised == AnswersSpec => []ReplyAuthorised
<1>1. AnswersInv => ReplyAuthorised
  BY DEF AnswersInv
<1>. QED  BY <1>1, AnswersInvariant, PTL

(* However documents are published and deleted meanwhile, the sources of a  *)
(* reply are the nearest chunks of one state of the index, all of it        *)
(* comparable with the query (search.ts reads in one transaction).          *)
THEOREM SourcesOfOneIndex == AnswersSpec => []WholeIndex
<1>1. AnswersInv => WholeIndex
  BY DEF AnswersInv
<1>. QED  BY <1>1, AnswersInvariant, PTL

(* Every marker of an answer has its citation, and a comparison speaks of   *)
(* the papers requested, in their order, whatever the model generates.      *)
THEOREM EvidenceIsExact == AnswersSpec => []EvidenceMatches
<1>1. AnswersInv => EvidenceMatches
  BY DEF AnswersInv
<1>. QED  BY <1>1, AnswersInvariant, PTL

-----------------------------------------------------------------------------
(* The inductive invariant of a run that is decided (AgentDecisions).       *)

JobFields == {"status", "generation", "steps", "evidence", "bytes"}
BrainFields == {"at", "generation", "shown", "finalOnly"}
Steps == [tool : AllTools, status : {"running", "completed", "failed"}, size : Nat]

JobTyped ==
  /\ DOMAIN job = JobFields
  /\ job.generation \in Nat
  /\ job.steps \in Seq(Steps) /\ job.evidence \in Seq(Nat)

BrainTyped ==
  /\ DOMAIN brain = Workers
  /\ \A w \in Workers : DOMAIN brain[w] = BrainFields /\ brain[w].generation \in Nat

(* A generation is one worker's.                                            *)
Generations ==
  /\ \A w \in Workers : brain[w].generation <= job.generation
  /\ job.status = "running" => job.generation > 0
  /\ \A v, w \in Workers : Fenced(v) /\ Fenced(w) => v = w

RowsWhole == job.status \in {"queued", "running"} => BuildContext

StepRunning == job.steps # << >> /\ job.steps[Len(job.steps)].status = "running"
NoneRunning == \A i \in DOMAIN job.steps : job.steps[i].status # "running"

(* While a worker holds the run, the rows are as it has read them.          *)
WorkersAtWork ==
  \A w \in Workers : Fenced(w) =>
    /\ brain[w].at = "tool" => StepRunning
    /\ brain[w].at = "deciding" => NoneRunning /\ brain[w].shown = Context

DecisionsInv ==
  /\ JobTyped
  /\ BrainTyped
  /\ Generations
  /\ RowsWhole
  /\ WorkersAtWork
  /\ CitesWhatWasShown

-----------------------------------------------------------------------------
(* The context.                                                             *)

(* The sum over nothing: the one value of the fold that needs no induction. *)
LEMMA EmptySum == ASSUME NEW f, DOMAIN f = {} PROVE SumFunction(f) = 0
<1>. DEFINE Body(g) == [s \in SUBSET {} |->
                         IF s = {} THEN 0
                         ELSE LET x == CHOOSE y \in s : TRUE IN f[x] + g[s \ {x}]]
            iter == CHOOSE g : g = Body(g)
            zero == [s \in SUBSET {} |-> 0]
<1>1. \A g : Body(g) = zero
  OBVIOUS
<1>2. iter = zero
  BY <1>1
<1>3. SumFunction(f) = iter[{}]
  BY DEF SumFunction, SumFunctionOnSet, FoldFunctionOnSet, MapThenFoldSet
<1>. QED  BY <1>2, <1>3

LEMMA EmptyContext == Completed = {} => ContextBytes(Context) = PromptBytes
BY EmptySum DEF ContextBytes, Context, PromptBytes


(* The same steps and evidence make the same context.                       *)
LEMMA SameRows ==
  ASSUME job'.steps = job.steps, job'.evidence = job.evidence
  PROVE  /\ Completed' = Completed /\ Context' = Context
         /\ StepRunning' = StepRunning /\ NoneRunning' = NoneRunning
         /\ job'.bytes = job.bytes => (BuildContext' = BuildContext)
<1>1. Completed' = Completed /\ \A i : KeysOf(i)' = KeysOf(i)
  BY DEF Completed, KeysOf
<1>2. Context' = Context
  BY <1>1 DEF Context
<1>3. StepRunning' = StepRunning /\ NoneRunning' = NoneRunning
  BY DEF StepRunning, NoneRunning
<1>4. /\ StepOrderValid' = StepOrderValid /\ EvidenceValid' = EvidenceValid
      /\ job'.bytes = job.bytes => (SizeValid' = SizeValid)
  BY <1>1, <1>2 DEF StepOrderValid, EvidenceValid, SizeValid
<1>. QED  BY <1>1, <1>2, <1>3, <1>4 DEF BuildContext

-----------------------------------------------------------------------------
(* Every step keeps the invariant.                                          *)

(* A worker that gets another brain while the rows stay as they are.        *)
LEMMA BrainStep ==
  ASSUME DecisionsInv, NEW w \in Workers, NEW b, brain' = [brain EXCEPT ![w] = b],
         UNCHANGED <<job, answer>>,
         DOMAIN b = BrainFields, b.generation \in {0, brain[w].generation},
         Fenced(w) /\ b.generation # 0 =>
           /\ b.at = "tool" => StepRunning
           /\ b.at = "deciding" => NoneRunning /\ b.shown = Context
  PROVE  DecisionsInv'
<1>1. BrainTyped /\ DOMAIN brain = Workers
  BY DEF DecisionsInv, BrainTyped
<1>2. brain'[w] = b /\ \A v \in Workers \ {w} : brain'[v] = brain[v]
  BY <1>1
<1>3. JobTyped' /\ RowsWhole' /\ CitesWhatWasShown'
  <2>1. BuildContext' = BuildContext
    BY SameRows
  <2>. QED  BY <2>1 DEF DecisionsInv, JobTyped, RowsWhole, CitesWhatWasShown
<1>4. BrainTyped'
  BY <1>1, <1>2 DEF BrainTyped
<1>5. \A v \in Workers : Fenced(v)' => Fenced(v)
  <2>. SUFFICES ASSUME NEW v \in Workers, Fenced(v)' PROVE Fenced(v)
    OBVIOUS
  <2>1. job.status = "running" /\ job.generation > 0 /\ brain'[v].generation = job.generation
    BY DEF DecisionsInv, Generations, Fenced
  <2>2. job.generation \in Nat
    BY DEF DecisionsInv, JobTyped
  <2>. QED  BY <1>2, <2>1, <2>2 DEF Fenced
<1>6. Generations'
  <2>1. \A v \in Workers : brain'[v].generation <= job.generation
    BY <1>1, <1>2 DEF DecisionsInv, Generations, JobTyped
  <2>. QED  BY <1>5, <2>1 DEF DecisionsInv, Generations
<1>7. WorkersAtWork'
  <2>. SUFFICES ASSUME NEW v \in Workers, Fenced(v)'
                PROVE  /\ brain'[v].at = "tool" => StepRunning'
                       /\ brain'[v].at = "deciding" => NoneRunning' /\ brain'[v].shown = Context'
    BY DEF WorkersAtWork
  <2>1. StepRunning' = StepRunning /\ NoneRunning' = NoneRunning /\ Context' = Context
    BY SameRows
  <2>2. Fenced(v)
    BY <1>5
  <2>3. CASE v = w
    <3>1. b.generation # 0
      <4>1. job.generation > 0 /\ brain'[v].generation = job.generation /\ job.generation \in Nat
        BY <2>2 DEF DecisionsInv, Generations, Fenced, JobTyped
      <4>. QED  BY <1>2, <2>3, <4>1
    <3>. QED  BY <1>2, <2>1, <2>2, <2>3, <3>1
  <2>4. CASE v # w
    BY <1>2, <2>1, <2>2, <2>4 DEF DecisionsInv, WorkersAtWork
  <2>. QED  BY <2>3, <2>4
<1>. QED  BY <1>3, <1>4, <1>6, <1>7 DEF DecisionsInv

(* A run that is settled is nobody's.                                       *)
LEMMA SettleStep ==
  ASSUME DecisionsInv, NEW status, status \notin {"queued", "running"},
         job' = [job EXCEPT !.status = status],
         DOMAIN brain' = Workers,
         \A v \in Workers : DOMAIN brain'[v] = BrainFields
                            /\ brain'[v].generation \in {0, brain[v].generation},
         CitesWhatWasShown'
  PROVE  DecisionsInv'
<1>1. /\ DOMAIN job' = JobFields /\ job'.status = status /\ job'.generation = job.generation
      /\ job'.steps = job.steps /\ job'.evidence = job.evidence
  BY DEF DecisionsInv, JobTyped, JobFields
<1>2. JobTyped' /\ RowsWhole'
  BY <1>1 DEF DecisionsInv, JobTyped, RowsWhole
<1>3. BrainTyped'
  BY DEF DecisionsInv, BrainTyped
<1>4. \A v \in Workers : ~Fenced(v)'
  BY <1>1 DEF Fenced
<1>5. Generations'
  <2>1. \A v \in Workers : brain'[v].generation <= job'.generation
    BY <1>1 DEF DecisionsInv, Generations, JobTyped
  <2>. QED  BY <1>1, <1>4, <2>1 DEF Generations
<1>6. WorkersAtWork'
  BY <1>4 DEF WorkersAtWork
<1>. QED  BY <1>2, <1>3, <1>5, <1>6 DEF DecisionsInv

(* The worker that holds the run writes rows the next one accepts.          *)
LEMMA RowsStep ==
  ASSUME DecisionsInv, NEW w \in Workers, Fenced(w), NEW stage \in {"tool", "reading"},
         Continue(w, stage),
         JobTyped', job'.status = job.status, job'.generation = job.generation,
         BuildContext', stage = "tool" => StepRunning',
         DOMAIN job.evidence \subseteq DOMAIN job'.evidence, UNCHANGED answer
  PROVE  DecisionsInv'
<1>1. BrainTyped /\ DOMAIN brain = Workers
  BY DEF DecisionsInv, BrainTyped
<1>2. /\ brain'[w].at = stage /\ DOMAIN brain'[w] = BrainFields
      /\ brain'[w].generation = brain[w].generation
      /\ \A v \in Workers \ {w} : brain'[v] = brain[v]
  BY <1>1 DEF Continue, BrainTyped, BrainFields
<1>3. DOMAIN brain' = Workers
  BY <1>1 DEF Continue
<1>4. BrainTyped'
  BY <1>1, <1>2, <1>3 DEF BrainTyped
<1>5. \A v \in Workers : Fenced(v)' = Fenced(v)
  BY <1>2 DEF Fenced
<1>6. \A v \in Workers : Fenced(v)' => v = w
  BY <1>5 DEF DecisionsInv, Generations
<1>7. Generations'
  BY <1>2, <1>6 DEF DecisionsInv, Generations
<1>8. WorkersAtWork'
  BY <1>2, <1>6 DEF WorkersAtWork
<1>9. RowsWhole' /\ CitesWhatWasShown'
  BY DEF DecisionsInv, RowsWhole, CitesWhatWasShown
<1>. QED  BY <1>4, <1>7, <1>8, <1>9 DEF DecisionsInv

LEMMA AwayFields == DOMAIN Away = BrainFields /\ Away.generation = 0
BY DEF Away, BrainFields

LEMMA LeaveStep ==
  ASSUME DecisionsInv, NEW w \in Workers, Leave(w), UNCHANGED <<job, answer>>
  PROVE  DecisionsInv'
BY AwayFields, BrainStep DEF Leave

LEMMA SettledStep ==
  ASSUME DecisionsInv, NEW w \in Workers, NEW status \in {"failed", "completed"}, Settled(w, status),
         CitesWhatWasShown'
  PROVE  DecisionsInv'
<1>1. DOMAIN brain = Workers /\ \A v \in Workers : DOMAIN brain[v] = BrainFields
  BY DEF DecisionsInv, BrainTyped
<1>2. brain' = [brain EXCEPT ![w] = Away]
  BY DEF Settled, Leave
<1>3. brain'[w] = Away /\ \A v \in Workers \ {w} : brain'[v] = brain[v]
  BY <1>1, <1>2
<1>4. \A v \in Workers : DOMAIN brain'[v] = BrainFields /\ brain'[v].generation \in {0, brain[v].generation}
  BY <1>1, <1>3, AwayFields
<1>5. DOMAIN brain' = Workers
  BY <1>1, <1>2
<1>. QED  BY <1>4, <1>5, SettleStep DEF Settled

(* A run that fails keeps its evidence, and has no new answer.              *)
LEMMA FailedStep ==
  ASSUME DecisionsInv, NEW w \in Workers, Settled(w, "failed"), UNCHANGED answer
  PROVE  DecisionsInv'
<1>1. job'.evidence = job.evidence
  BY DEF Settled, DecisionsInv, JobTyped, JobFields
<1>2. CitesWhatWasShown'
  BY <1>1 DEF DecisionsInv, CitesWhatWasShown
<1>. QED  BY <1>2, SettledStep

LEMMA SettleOutsideStep == DecisionsInv /\ SettleOutside => DecisionsInv'
<1>. SUFFICES ASSUME DecisionsInv, SettleOutside PROVE DecisionsInv'
  OBVIOUS
<1>1. job' = [job EXCEPT !.status = "cancelled"] /\ UNCHANGED <<brain, answer>>
  BY DEF SettleOutside
<1>2. job'.evidence = job.evidence
  BY <1>1 DEF DecisionsInv, JobTyped, JobFields
<1>3. CitesWhatWasShown'
  BY <1>1, <1>2 DEF DecisionsInv, CitesWhatWasShown
<1>. QED  BY <1>1, <1>3, SettleStep DEF DecisionsInv, BrainTyped

LEMMA PutDownStep ==
  ASSUME DecisionsInv, NEW w \in Workers, PutDown(w)
  PROVE  DecisionsInv'
BY LeaveStep DEF PutDown

LEMMA TakeOverStep ==
  ASSUME DecisionsInv, NEW w \in Workers, TakeOver(w)
  PROVE  DecisionsInv'
<1>. DEFINE b == [Away EXCEPT !.at = "reading", !.generation = job.generation + 1]
<1>1. DOMAIN b = BrainFields /\ b.at = "reading" /\ b.generation = job.generation + 1
  BY DEF Away, BrainFields
<1>2. BrainTyped /\ DOMAIN brain = Workers /\ job.generation \in Nat
  BY DEF DecisionsInv, BrainTyped, JobTyped
<1>3. /\ DOMAIN job' = JobFields /\ job'.status = "running" /\ job'.generation = job.generation + 1
      /\ job'.steps = job.steps /\ job'.evidence = job.evidence /\ job'.bytes = job.bytes
  BY DEF TakeOver, DecisionsInv, JobTyped, JobFields
<1>4. brain' = [brain EXCEPT ![w] = b] /\ UNCHANGED answer
  BY DEF TakeOver
<1>. HIDE DEF b
<1>5. brain'[w] = b /\ DOMAIN brain' = Workers /\ \A v \in Workers \ {w} : brain'[v] = brain[v]
  BY <1>2, <1>4
<1>6. JobTyped'
  BY <1>2, <1>3 DEF DecisionsInv, JobTyped
<1>7. BrainTyped'
  BY <1>1, <1>2, <1>5 DEF BrainTyped
<1>8. RowsWhole'
  BY <1>3, SameRows DEF DecisionsInv, RowsWhole, TakeOver
<1>9. \A v \in Workers : Fenced(v)' => v = w
  <2>. SUFFICES ASSUME NEW v \in Workers \ {w} PROVE ~Fenced(v)'
    OBVIOUS
  <2>1. brain[v].generation <= job.generation /\ brain[v].generation \in Nat
    BY <1>2 DEF DecisionsInv, Generations, BrainTyped
  <2>. QED  BY <1>2, <1>3, <1>5, <2>1 DEF Fenced
<1>10. Generations'
  <2>1. \A v \in Workers : brain'[v].generation <= job'.generation
    BY <1>1, <1>2, <1>3, <1>5 DEF DecisionsInv, Generations, BrainTyped
  <2>2. job'.generation > 0
    BY <1>2, <1>3
  <2>. QED  BY <1>9, <2>1, <2>2 DEF Generations
<1>11. WorkersAtWork'
  BY <1>1, <1>5, <1>9 DEF WorkersAtWork
<1>12. CitesWhatWasShown'
  BY <1>3, <1>4 DEF DecisionsInv, CitesWhatWasShown
<1>. QED  BY <1>6, <1>7, <1>8, <1>10, <1>11, <1>12 DEF DecisionsInv

LEMMA ReadStep ==
  ASSUME DecisionsInv, NEW w \in Workers, Read(w)
  PROVE  DecisionsInv'
<1>1. Fenced(w) /\ UNCHANGED answer /\ BuildContext
  BY DEF Read, DecisionsInv, RowsWhole, Fenced
<1>2. CASE Settled(w, "failed")
  BY <1>1, <1>2, FailedStep
<1>3. brain[w].generation \in Nat /\ DOMAIN brain[w] = BrainFields
  BY DEF DecisionsInv, BrainTyped
<1>4. CASE /\ \E i \in DOMAIN job.steps : job.steps[i].status = "running"
           /\ Continue(w, "tool") /\ UNCHANGED job
  <2>. DEFINE b == [brain[w] EXCEPT !.at = "tool"]
  <2>1. DOMAIN b = BrainFields /\ b.generation = brain[w].generation /\ b.at = "tool"
    BY <1>3 DEF BrainFields
  <2>2. brain' = [brain EXCEPT ![w] = b]
    BY <1>4 DEF Continue
  <2>. HIDE DEF b
  <2>3. StepRunning
    <3>1. PICK i \in DOMAIN job.steps : job.steps[i].status = "running"
      BY <1>4
    <3>2. i = Len(job.steps)
      BY <1>1, <3>1 DEF BuildContext, StepOrderValid
    <3>3. job.steps # << >>
      BY <3>1
    <3>. QED  BY <3>1, <3>2, <3>3 DEF StepRunning
  <2>. QED  BY <1>1, <1>4, <2>1, <2>2, <2>3, BrainStep
<1>5. CASE /\ ~\E i \in DOMAIN job.steps : job.steps[i].status = "running"
           /\ brain' = [brain EXCEPT ![w].at = "deciding", ![w].shown = Context, ![w].finalOnly = FinalOnly]
           /\ UNCHANGED job
  <2>. DEFINE b == [brain[w] EXCEPT !.at = "deciding", !.shown = Context, !.finalOnly = FinalOnly]
  <2>1. DOMAIN b = BrainFields /\ b.generation = brain[w].generation /\ b.at = "deciding" /\ b.shown = Context
    BY <1>3 DEF BrainFields
  <2>2. brain' = [brain EXCEPT ![w] = b]
    BY <1>5 DEF DecisionsInv, BrainTyped
  <2>. HIDE DEF b
  <2>3. NoneRunning
    BY <1>5 DEF NoneRunning
  <2>. QED  BY <1>1, <1>5, <2>1, <2>2, <2>3, BrainStep
<1>. QED  BY <1>1, <1>2, <1>4, <1>5 DEF Read

(* A step that is started is the last, and adds nothing to the context.     *)
LEMMA StartToolStep ==
  ASSUME DecisionsInv, NEW w \in Workers, Fenced(w), NoneRunning, NEW tool \in AllTools,
         StartTool(w, tool)
  PROVE  DecisionsInv'
<1>. DEFINE new == [tool |-> tool, status |-> "running", size |-> 0]
<1>1. /\ DOMAIN job' = JobFields /\ job'.status = job.status /\ job'.generation = job.generation
      /\ job'.steps = Append(job.steps, new) /\ job'.evidence = job.evidence /\ job'.bytes = job.bytes
  BY DEF StartTool, DecisionsInv, JobTyped, JobFields
<1>2. new \in Steps /\ new.status = "running"
  BY DEF Steps
<1>. HIDE DEF new
<1>3. job.steps \in Seq(Steps)
  BY DEF DecisionsInv, JobTyped
<1>4. /\ job'.steps \in Seq(Steps) /\ Len(job'.steps) = Len(job.steps) + 1
      /\ DOMAIN job.steps = 1 .. Len(job.steps) /\ DOMAIN job'.steps = 1 .. Len(job.steps) + 1
      /\ job'.steps[Len(job.steps) + 1] = new
      /\ \A i \in DOMAIN job.steps : job'.steps[i] = job.steps[i]
      /\ Len(job.steps) \in Nat
  BY <1>1, <1>2, <1>3
<1>5. JobTyped'
  BY <1>1, <1>4 DEF DecisionsInv, JobTyped
<1>6. StepRunning'
  <2>1. job'.steps # << >>
    BY <1>4
  <2>. QED  BY <1>2, <1>4, <2>1 DEF StepRunning
<1>7. Completed' = Completed
  BY <1>2, <1>4 DEF Completed
<1>8. Context' = Context
  <2>1. \A i : KeysOf(i)' = KeysOf(i)
    BY <1>1 DEF KeysOf
  <2>2. \A i \in Completed : job'.steps[i].size = job.steps[i].size
    BY <1>4 DEF Completed
  <2>. QED  BY <1>7, <2>1, <2>2 DEF Context
<1>9. BuildContext
  BY DEF DecisionsInv, RowsWhole, Fenced
<1>10. StepOrderValid'
  BY <1>4 DEF StepOrderValid, NoneRunning
<1>11. EvidenceValid'
  BY <1>1, <1>7, <1>9 DEF BuildContext, EvidenceValid
<1>12. SizeValid'
  <2>1. (\E i \in DOMAIN job'.steps : job'.steps[i].status # "running")
          <=> (\E i \in DOMAIN job.steps : job.steps[i].status # "running")
    BY <1>2, <1>4
  <2>. QED  BY <1>1, <1>8, <1>9, <2>1 DEF BuildContext, SizeValid
<1>13. BuildContext'
  BY <1>8, <1>9, <1>10, <1>11, <1>12 DEF BuildContext
<1>14. Continue(w, "tool") /\ UNCHANGED answer
  BY DEF StartTool
<1>. QED  BY <1>1, <1>5, <1>6, <1>13, <1>14, RowsStep

(* What a final answer cites is in the context its author was shown.        *)
LEMMA CompleteFinalStep ==
  ASSUME DecisionsInv, NEW w \in Workers, Fenced(w), brain[w].shown = Context, NEW ids,
         CompleteFinal(w, ids)
  PROVE  DecisionsInv'
<1>1. CASE ids \subseteq DOMAIN job.evidence /\ \A k \in ids : job.evidence[k] \in Completed
  <2>. DEFINE seen == UNION {brain[w].shown[i].evidenceIds : i \in DOMAIN brain[w].shown}
  <2>1. Settled(w, "completed") /\ answer' = [ids |-> ids, seen |-> seen]
    BY <1>1 DEF CompleteFinal
  <2>2. seen = UNION {KeysOf(i) : i \in Completed}
    BY DEF Context
  <2>. HIDE DEF seen
  <2>3. ids \subseteq seen
    BY <1>1, <2>2 DEF KeysOf
  <2>4. seen \subseteq DOMAIN job.evidence
    BY <2>2 DEF KeysOf
  <2>5. job'.evidence = job.evidence
    BY <2>1 DEF Settled, DecisionsInv, JobTyped, JobFields
  <2>6. CitesWhatWasShown'
    BY <2>1, <2>3, <2>4, <2>5 DEF CitesWhatWasShown
  <2>. QED  BY <2>1, <2>6, SettledStep
<1>2. CASE ~(ids \subseteq DOMAIN job.evidence /\ \A k \in ids : job.evidence[k] \in Completed)
  BY <1>2, FailedStep DEF CompleteFinal
<1>. QED  BY <1>1, <1>2

LEMMA DecideStep ==
  ASSUME DecisionsInv, NEW w \in Workers, NEW reply, Decide(w, reply)
  PROVE  DecisionsInv'
<1>1. Fenced(w) /\ NoneRunning /\ brain[w].shown = Context
  BY DEF Decide, DecisionsInv, WorkersAtWork
<1>2. CASE Settled(w, "failed") /\ UNCHANGED answer
  BY <1>2, FailedStep
<1>3. CASE CompleteFinal(w, reply.ids)
  BY <1>1, <1>3, CompleteFinalStep
<1>4. CASE Prepared(reply.action, Descriptors(brain[w].finalOnly)) /\ StartTool(w, reply.action)
  BY <1>1, <1>4, StartToolStep DEF Prepared
<1>. QED  BY <1>2, <1>3, <1>4 DEF Decide

(* What the last step is while its worker holds the run.                    *)
LEMMA AtTool ==
  ASSUME DecisionsInv, NEW w \in Workers, Fenced(w), brain[w].at = "tool"
  PROVE  /\ Len(job.steps) \in DOMAIN job.steps /\ Len(job.steps) \in Nat
         /\ DOMAIN job.steps = 1 .. Len(job.steps)
         /\ job.steps[Len(job.steps)] \in Steps
         /\ job.steps[Len(job.steps)].status = "running"
         /\ Len(job.steps) \notin Completed
         /\ BuildContext /\ DOMAIN job = JobFields
<1>1. StepRunning /\ job.steps \in Seq(Steps) /\ BuildContext /\ DOMAIN job = JobFields
  BY DEF DecisionsInv, WorkersAtWork, JobTyped, RowsWhole, Fenced
<1>2. Len(job.steps) \in DOMAIN job.steps /\ Len(job.steps) \in Nat /\ DOMAIN job.steps = 1 .. Len(job.steps)
  BY <1>1 DEF StepRunning
<1>. QED  BY <1>1, <1>2 DEF StepRunning, Completed

LEMMA FailStepStep ==
  ASSUME DecisionsInv, NEW w \in Workers, FailStep(w)
  PROVE  DecisionsInv'
<1>. DEFINE n == Len(job.steps)
            failed == [job.steps[n] EXCEPT !.status = "failed"]
<1>1. /\ n \in DOMAIN job.steps /\ n \in Nat /\ DOMAIN job.steps = 1 .. n
      /\ job.steps[n] \in Steps /\ job.steps[n].status = "running" /\ n \notin Completed
      /\ BuildContext /\ DOMAIN job = JobFields /\ Fenced(w)
  BY AtTool DEF FailStep
<1>2. failed \in Steps /\ failed.status = "failed"
  BY <1>1 DEF Steps
<1>3. /\ DOMAIN job' = JobFields /\ job'.status = job.status /\ job'.generation = job.generation
      /\ job'.steps = [job.steps EXCEPT ![n] = failed] /\ job'.evidence = job.evidence
      /\ job'.bytes = ContextBytes(Context)
  <2>. HIDE DEF n
  <2>1. job' = [job EXCEPT !.steps[n].status = "failed", !.bytes = ContextBytes(Context)]
    BY DEF FailStep, n
  <2>. QED  BY <1>1, <2>1 DEF JobFields
<1>. HIDE DEF failed, n
<1>4. job.steps \in Seq(Steps) /\ job.evidence \in Seq(Nat)
  BY DEF DecisionsInv, JobTyped
<1>5. /\ job'.steps \in Seq(Steps) /\ Len(job'.steps) = n /\ DOMAIN job'.steps = DOMAIN job.steps
      /\ job'.steps[n] = failed
      /\ \A i \in DOMAIN job.steps : i # n => job'.steps[i] = job.steps[i]
  BY <1>1, <1>2, <1>3, <1>4 DEF n
<1>6. JobTyped'
  BY <1>3, <1>4, <1>5 DEF DecisionsInv, JobTyped
<1>7. Completed' = Completed
  BY <1>1, <1>2, <1>5 DEF Completed
<1>8. Context' = Context
  <2>1. \A i : KeysOf(i)' = KeysOf(i)
    BY <1>3 DEF KeysOf
  <2>2. \A i \in Completed : job'.steps[i].size = job.steps[i].size
    BY <1>1, <1>5 DEF Completed
  <2>. QED  BY <1>7, <2>1, <2>2 DEF Context
<1>9. StepOrderValid'
  BY <1>1, <1>2, <1>5 DEF BuildContext, StepOrderValid, n
<1>10. EvidenceValid'
  BY <1>1, <1>3, <1>7 DEF BuildContext, EvidenceValid
<1>11. SizeValid'
  <2>1. \E i \in DOMAIN job'.steps : job'.steps[i].status # "running"
    BY <1>1, <1>2, <1>5
  <2>. QED  BY <1>3, <1>8, <2>1 DEF SizeValid
<1>12. BuildContext'
  BY <1>1, <1>8, <1>9, <1>10, <1>11 DEF BuildContext
<1>13. Continue(w, "reading") /\ UNCHANGED answer
  BY DEF FailStep
<1>. QED  BY <1>1, <1>3, <1>6, <1>12, <1>13, RowsStep

(* The evidence of a step follows what there was.                           *)
LEMMA EvidenceAdded ==
  ASSUME NEW e \in Seq(Nat), NEW p \in Nat, NEW n \in Nat,
         NEW added, added = [k \in 1 .. p |-> n], NEW all, all = e \o added
  PROVE  /\ all \in Seq(Nat) /\ Len(all) = Len(e) + p
         /\ DOMAIN all = 1 .. Len(e) + p
         /\ \A k \in 1 .. Len(e) : all[k] = e[k]
         /\ \A k \in Len(e) + 1 .. Len(e) + p : all[k] = n
<1>1. added \in Seq(Nat) /\ Len(added) = p
  OBVIOUS
<1>2. \A k \in 1 .. p : added[k] = n
  OBVIOUS
<1>3. all \in Seq(Nat) /\ Len(all) = Len(e) + p
  BY <1>1
<1>4. DOMAIN all = 1 .. Len(e) + p
  BY <1>3
<1>5. \A k \in 1 .. Len(e) : all[k] = e[k]
  BY <1>1
<1>6. ASSUME NEW k \in Len(e) + 1 .. Len(e) + p PROVE all[k] = n
  <2>1. k - Len(e) \in 1 .. p
    OBVIOUS
  <2>2. all[k] = added[k - Len(e)]
    BY <1>1
  <2>. QED  BY <1>2, <2>1, <2>2
<1>. QED  BY <1>3, <1>4, <1>5, <1>6

(* A result that is stored becomes the context that was measured for it.    *)
LEMMA CompleteStepStep ==
  ASSUME DecisionsInv, NEW w \in Workers, NEW r \in Results, CompleteStep(w, r)
  PROVE  DecisionsInv'
<1>0. PICK n : n = Len(job.steps)
  OBVIOUS
<1>. DEFINE m == Len(job.evidence)
            added == [k \in 1 .. r.pieces |-> n]
            done == [job.steps[n] EXCEPT !.status = "completed", !.size = r.size]
<1>1. /\ n \in DOMAIN job.steps /\ n \in Nat /\ DOMAIN job.steps = 1 .. n
      /\ job.steps[n] \in Steps /\ job.steps[n].status = "running" /\ n \notin Completed
      /\ BuildContext /\ DOMAIN job = JobFields /\ Fenced(w)
  BY <1>0, AtTool DEF CompleteStep
<1>2. r.size \in Nat /\ r.pieces \in Nat
  BY DEF Results
<1>3. CASE Settled(w, "failed") /\ UNCHANGED answer
  BY <1>3, FailedStep
<1>4. CASE Leave(w) /\ UNCHANGED <<job, answer>>
  BY <1>4, LeaveStep
<1>5. ASSUME Fits(n, r), Continue(w, "reading"), UNCHANGED answer,
             job' = [job EXCEPT !.steps[n].status = "completed", !.steps[n].size = r.size,
                                !.evidence = @ \o added, !.bytes = ContextBytes(Appended(n, r))]
      PROVE  DecisionsInv'
  <2>1. done \in Steps /\ done.status = "completed" /\ done.size = r.size
    BY <1>1, <1>2 DEF Steps
  <2>2. job.steps \in Seq(Steps) /\ job.evidence \in Seq(Nat)
    BY DEF DecisionsInv, JobTyped
  <2>. HIDE DEF added
  <2>3. /\ DOMAIN job' = JobFields /\ job'.status = job.status /\ job'.generation = job.generation
        /\ job'.steps = [job.steps EXCEPT ![n] = done] /\ job'.evidence = job.evidence \o added
        /\ job'.bytes = ContextBytes(Appended(n, r))
    <3>. DEFINE j1 == [job EXCEPT !.steps = [job.steps EXCEPT ![n] = done]]
                j2 == [j1 EXCEPT !.evidence = job.evidence \o added]
                j3 == [j2 EXCEPT !.bytes = ContextBytes(Appended(n, r))]
    <3>1. job' = j3
      BY <1>1, <1>5 DEF JobFields, Steps
    <3>. QED  BY <1>1, <3>1 DEF JobFields
  <2>. HIDE DEF done
  <2>4. /\ job'.steps \in Seq(Steps) /\ Len(job'.steps) = n /\ DOMAIN job'.steps = DOMAIN job.steps
        /\ job'.steps[n] = done
        /\ \A i \in DOMAIN job.steps : i # n => job'.steps[i] = job.steps[i]
    BY <1>0, <1>1, <2>1, <2>2, <2>3
  <2>6. m \in Nat /\ DOMAIN job.evidence = 1 .. m
    BY <2>2
  <2>7. /\ job'.evidence \in Seq(Nat) /\ Len(job'.evidence) = m + r.pieces
        /\ DOMAIN job'.evidence = 1 .. m + r.pieces
        /\ \A k \in 1 .. m : job'.evidence[k] = job.evidence[k]
        /\ \A k \in m + 1 .. m + r.pieces : job'.evidence[k] = n
    <3>1. added = [k \in 1 .. r.pieces |-> n] /\ m = Len(job.evidence) /\ n \in Nat
      BY <1>1 DEF added
    <3>. HIDE DEF m
    <3>. QED  BY <1>2, <2>2, <2>3, <3>1, EvidenceAdded
  <2>. HIDE DEF m
  <2>8. JobTyped'
    BY <2>3, <2>4, <2>7 DEF DecisionsInv, JobTyped
  <2>9. Completed' = Completed \cup {n}
    BY <1>1, <2>1, <2>4 DEF Completed
  <2>10. \A k \in 1 .. m : job.evidence[k] \in Completed
    BY <1>1, <2>6 DEF BuildContext, EvidenceValid
  <2>11. KeysOf(n)' = m + 1 .. m + r.pieces
    <3>1. \A k \in 1 .. m + r.pieces : k \in 1 .. m \/ k \in m + 1 .. m + r.pieces
      BY <1>2, <2>6
    <3>2. m + 1 .. m + r.pieces \subseteq 1 .. m + r.pieces
      BY <1>2, <2>6
    <3>3. \A k \in 1 .. m : job'.evidence[k] # n
      BY <1>1, <2>7, <2>10
    <3>4. KeysOf(n)' = {k \in 1 .. m + r.pieces : job'.evidence[k] = n}
      BY <2>7 DEF KeysOf
    <3>. QED  BY <2>7, <3>1, <3>2, <3>3, <3>4
  <2>12. ASSUME NEW i, i \in Completed PROVE KeysOf(i)' = KeysOf(i)
    <3>1. i # n
      BY <1>1, <2>12
    <3>2. KeysOf(i)' = {k \in 1 .. m + r.pieces : job'.evidence[k] = i}
      BY <2>7 DEF KeysOf
    <3>3. KeysOf(i) = {k \in 1 .. m : job.evidence[k] = i}
      BY <2>6 DEF KeysOf
    <3>4. \A k \in 1 .. m + r.pieces : k \in 1 .. m \/ k \in m + 1 .. m + r.pieces
      BY <1>2, <2>6
    <3>5. 1 .. m \subseteq 1 .. m + r.pieces
      BY <1>2, <2>6
    <3>. QED  BY <2>7, <3>1, <3>2, <3>3, <3>4, <3>5
  <2>13. Context' = Appended(n, r)
    <3>1. \A i \in Completed : job'.steps[i].size = job.steps[i].size
      BY <1>1, <2>4 DEF Completed
    <3>2. job'.steps[n].size = r.size
      BY <2>1, <2>4
    <3>3. DOMAIN Context' = Completed \cup {n} /\ DOMAIN Appended(n, r) = Completed \cup {n}
      BY <2>9 DEF Context, Appended
    <3>4. \A i \in Completed : Context'[i] = Context[i] /\ Appended(n, r)[i] = Context[i]
      BY <1>1, <2>9, <2>12, <3>1 DEF Context, Appended
    <3>5. Context'[n] = Appended(n, r)[n]
      <4>1. Context'[n] = [size |-> r.size, evidenceIds |-> m + 1 .. m + r.pieces]
        BY <2>9, <2>11, <3>2 DEF Context
      <4>2. Appended(n, r)[n] = [size |-> r.size, evidenceIds |-> m + 1 .. m + r.pieces]
        BY DEF Appended, m
      <4>. QED  BY <4>1, <4>2
    <3>6. Context' = [i \in Completed \cup {n} |-> Context'[i]]
      BY <2>9 DEF Context
    <3>7. Appended(n, r) = [i \in Completed \cup {n} |-> Appended(n, r)[i]]
      BY DEF Appended
    <3>. QED  BY <3>4, <3>5, <3>6, <3>7
  <2>14. StepOrderValid'
    BY <1>1, <2>1, <2>4 DEF BuildContext, StepOrderValid
  <2>15. EvidenceValid'
    <3>1. m + r.pieces <= MaxEvidence
      BY <1>5 DEF Fits, m
    <3>2. \A k \in 1 .. m + r.pieces : k \in 1 .. m \/ k \in m + 1 .. m + r.pieces
      BY <1>2, <2>6
    <3>3. \A k \in 1 .. m + r.pieces : job'.evidence[k] \in Completed'
      BY <2>7, <2>9, <2>10, <3>2
    <3>. QED  BY <2>7, <3>1, <3>3 DEF EvidenceValid
  <2>16. ContextValid(Context)'
    <3>1. \A i, j \in Completed' : i # j => KeysOf(i)' \cap KeysOf(j)' = {}
      BY DEF KeysOf
    <3>2. \A i \in Completed' : Context'[i].evidenceIds = KeysOf(i)'
      BY DEF Context
    <3>. QED  BY <3>1, <3>2 DEF ContextValid, Context
  <2>17. ContextBytes(Context)' <= MaxBytes
    BY <1>5, <2>13 DEF Fits
  <2>18. SizeValid'
    <3>1. \E i \in DOMAIN job'.steps : job'.steps[i].status # "running"
      BY <1>1, <2>1, <2>4
    <3>. QED  BY <2>3, <2>13, <3>1 DEF SizeValid
  <2>19. BuildContext'
    BY <2>14, <2>15, <2>16, <2>17, <2>18 DEF BuildContext
  <2>20. DOMAIN job.evidence \subseteq DOMAIN job'.evidence
    BY <1>2, <2>6, <2>7
  <2>. QED  BY <1>1, <1>5, <2>3, <2>8, <2>19, <2>20, RowsStep
<1>. QED  BY <1>0, <1>3, <1>4, <1>5 DEF CompleteStep

LEMMA DecisionsInitially == DecisionsInit => DecisionsInv
<1>. SUFFICES ASSUME DecisionsInit PROVE DecisionsInv
  OBVIOUS
<1>1. /\ DOMAIN job = JobFields /\ job.status = "queued" /\ job.generation = 0
      /\ job.steps = << >> /\ job.evidence = << >> /\ job.bytes = 0
  BY DEF DecisionsInit, JobFields
<1>2. JobTyped
  BY <1>1 DEF JobTyped
<1>3. BrainTyped /\ \A w \in Workers : brain[w].generation = 0
  BY AwayFields DEF DecisionsInit, BrainTyped
<1>4. \A w \in Workers : ~Fenced(w)
  BY <1>1 DEF Fenced
<1>5. Generations
  BY <1>1, <1>3, <1>4 DEF Generations
<1>6. WorkersAtWork
  BY <1>4 DEF WorkersAtWork
<1>7. Completed = {}
  BY <1>1 DEF Completed
<1>8. BuildContext
  <2>1. StepOrderValid /\ EvidenceValid /\ SizeValid
    BY <1>1, DecisionAssumption DEF StepOrderValid, EvidenceValid, SizeValid, DecisionAssumption
  <2>2. ContextValid(Context)
    BY <1>7 DEF ContextValid, Context
  <2>3. ContextBytes(Context) <= MaxBytes
    BY <1>7, EmptyContext, DecisionAssumption DEF DecisionAssumption, PromptBytes
  <2>. QED  BY <2>1, <2>2, <2>3 DEF BuildContext
<1>9. RowsWhole
  BY <1>8 DEF RowsWhole
<1>10. CitesWhatWasShown
  BY DEF DecisionsInit, CitesWhatWasShown
<1>. QED  BY <1>2, <1>3, <1>5, <1>6, <1>9, <1>10 DEF DecisionsInv

LEMMA DecisionsStep == DecisionsInv /\ [DecisionsNext]_decisionVars => DecisionsInv'
<1>. SUFFICES ASSUME DecisionsInv, [DecisionsNext]_decisionVars PROVE DecisionsInv'
  OBVIOUS
<1>1. CASE UNCHANGED decisionVars
  <2>1. UNCHANGED <<job, brain, answer>>
    BY <1>1 DEF decisionVars
  <2>2. StepRunning' = StepRunning /\ NoneRunning' = NoneRunning /\ Context' = Context
        /\ BuildContext' = BuildContext
    BY <2>1, SameRows
  <2>3. \A w \in Workers : Fenced(w)' = Fenced(w)
    BY <2>1 DEF Fenced
  <2>4. WorkersAtWork' /\ RowsWhole' /\ Generations'
    BY <2>1, <2>2, <2>3 DEF DecisionsInv, WorkersAtWork, RowsWhole, Generations
  <2>. QED  BY <2>1, <2>4 DEF DecisionsInv, JobTyped, BrainTyped, CitesWhatWasShown
<1>2. CASE SettleOutside
  BY <1>2, SettleOutsideStep
<1>3. ASSUME NEW w \in Workers,
             \/ TakeOver(w) \/ PutDown(w) \/ Read(w) \/ FailStep(w)
             \/ \E r \in Results : CompleteStep(w, r)
             \/ \E reply \in Replies : Decide(w, reply)
      PROVE  DecisionsInv'
  BY <1>3, TakeOverStep, PutDownStep, ReadStep, FailStepStep, CompleteStepStep, DecideStep
<1>. QED  BY <1>1, <1>2, <1>3 DEF DecisionsNext

(* The rows of a run, and what the workers hold of it, fit together.        *)
THEOREM DecisionsInvariant == DecisionsSpec => []DecisionsInv
BY DecisionsInitially, DecisionsStep, PTL DEF DecisionsSpec

(* However often the run changes hands, and whatever its tools return, the  *)
(* rows that workers store make a context that the next one accepts: whole, *)
(* within its limits and of the size that was stored (context.ts).          *)
THEOREM RowsAreAccepted == DecisionsSpec => []StoredContextAccepted
<1>1. DecisionsInv => StoredContextAccepted
  BY DEF DecisionsInv, RowsWhole, StoredContextAccepted
<1>. QED  BY <1>1, DecisionsInvariant, PTL

(* A final answer cites only evidence its author had been shown: no rows    *)
(* change under a worker whose generation is still the run's.               *)
THEOREM CitationsWereShown == DecisionsSpec => []CitesWhatWasShown
<1>1. DecisionsInv => CitesWhatWasShown
  BY DEF DecisionsInv
<1>. QED  BY <1>1, DecisionsInvariant, PTL

-----------------------------------------------------------------------------
(* Pages of a Space (SpacePages).                                           *)

(* Filtering a selection leaves papers of it that are in the set.           *)
LEMMA FilteredKeeps ==
  ASSUME NEW sel \in Seq(Items), NEW S
  PROVE  /\ Filtered(sel, S) \in Seq(Items)
         /\ \A n \in DOMAIN Filtered(sel, S) :
              Filtered(sel, S)[n] \in S /\ \E i \in DOMAIN sel : Filtered(sel, S)[n] = sel[i]
<1>. DEFINE kept == {i \in DOMAIN sel : sel[i] \in S}
            Upto(i) == {j \in kept : j <= i}
            Place(i) == Cardinality(Upto(i))
            place == [i \in kept |-> Place(i)]
            N == Cardinality(kept)
<1>1. kept \subseteq 1 .. Len(sel) /\ kept \subseteq Int
  OBVIOUS
<1>2. IsFiniteSet(kept) /\ N \in Nat
  <2>1. Len(sel) \in Nat
    OBVIOUS
  <2>2. IsFiniteSet(1 .. Len(sel))
    BY <2>1, FS_Interval
  <2>. HIDE DEF kept
  <2>. QED  BY <1>1, <2>2, FS_Subset, FS_CardinalityType
<1>3. \A i \in kept : IsFiniteSet(Upto(i)) /\ Place(i) \in 1 .. N
  <2>. SUFFICES ASSUME NEW i \in kept PROVE IsFiniteSet(Upto(i)) /\ Place(i) \in 1 .. N
    OBVIOUS
  <2>1. Upto(i) \in SUBSET kept /\ i \in Upto(i)
    BY <1>1
  <2>. HIDE DEF Upto, kept
  <2>2. IsFiniteSet(Upto(i)) /\ Place(i) <= N /\ Place(i) \in Nat
    BY <1>2, <2>1, FS_Subset, FS_CardinalityType
  <2>3. Place(i) # 0
    BY <2>1, <2>2, FS_EmptySet
  <2>. QED  BY <1>2, <2>2, <2>3
<1>4. \A i, j \in kept : i < j => Place(i) # Place(j)
  <2>. SUFFICES ASSUME NEW i \in kept, NEW j \in kept, i < j PROVE Place(i) # Place(j)
    OBVIOUS
  <2>1. Upto(i) \in SUBSET Upto(j) /\ j \in Upto(j) /\ j \notin Upto(i)
    BY <1>1
  <2>. HIDE DEF Upto, kept
  <2>. QED  BY <1>3, <2>1, FS_Subset
<1>5. place \in Injection(kept, 1 .. N)
  <2>1. place \in [kept -> 1 .. N]
    BY <1>3
  <2>2. \A i, j \in kept : place[i] = place[j] => i = j
    <3>. HIDE DEF Place, kept
    <3>1. \A i, j \in kept : i < j \/ j < i \/ i = j
      BY <1>1
    <3>. QED  BY <1>4, <3>1
  <2>. QED  BY <2>1, <2>2 DEF Injection, IsInjective
<1>6. IsFiniteSet(1 .. N) /\ Cardinality(1 .. N) = N
  BY <1>2, FS_Interval
<1>7. place \in Surjection(kept, 1 .. N)
  <2>. HIDE DEF place, kept
  <2>. QED  BY <1>5, <1>6, FS_Injection DEF N
<1>8. \A n \in 1 .. N : \E i \in kept : Place(i) = n
  BY <1>7 DEF Surjection
<1>9. Filtered(sel, S) = [n \in 1 .. N |-> sel[CHOOSE i \in kept : Place(i) = n]]
  BY DEF Filtered
<1>10. \A n \in 1 .. N : \E i \in kept : Filtered(sel, S)[n] = sel[i]
  <2>. HIDE DEF kept, N, Place
  <2>. QED  BY <1>8, <1>9
<1>11. \A i \in kept : i \in DOMAIN sel /\ sel[i] \in S /\ sel[i] \in Items
  OBVIOUS
<1>. HIDE DEF kept, N, Place
<1>12. Filtered(sel, S) \in [1 .. N -> Items] /\ DOMAIN Filtered(sel, S) = 1 .. N
  BY <1>9, <1>10, <1>11
<1>. QED  BY <1>2, <1>10, <1>11, <1>12


-----------------------------------------------------------------------------
(* The inductive invariant of the pages.                                    *)

Acts ==
  [kind : {"remove", "upload", "reindex"}, record : Records,
   at : {"sent", "done", "refused"}, mounted : BOOLEAN]

PagesTyped ==
  /\ records \subseteq Records /\ gone \subseteq Records
  /\ opened \in [at : {"away", "saved", "compare", "knowledge"}, space : SpaceIds]
  /\ url \in Seq(Items)
  /\ list \in [SpaceIds -> Lists]
  /\ acts \subseteq Acts

(* Where something can be removed from, the list has been there, and is     *)
(* never again not: a refresh after a removal replaces what was in flight.  *)
ActsOnLists == \A a \in acts : list[a.record[1]].data # Nil

GoneRemoved == gone \cap records = {}

(* A list query lacks the records whose removal the page has confirmed where *)
(* they would stay listed: in a reply, and in what is shown when no fetch of *)
(* it is under way, be it only the fetch of a next page.  Only a next page,  *)
(* added to what is shown, that replaced such a fetch may keep them.         *)
Lacks(s, q) ==
  /\ q.next => q.data # Nil
  /\ \A i \in Items : <<s, i>> \in gone =>
       /\ q.phase = "read" /\ ~(q.next /\ q.cut) => i \notin q.reply
       /\ ((q.phase = "idle" /\ ~q.failed) \/ q.next) /\ ~q.cut => q.data # Nil /\ i \notin q.data

GoneUnlisted == \A s \in SpaceIds : Lacks(s, list[s])

SelectionListed ==
  opened.at = "compare" /\ list[opened.space].data # Nil
    => PapersIn(url) \subseteq list[opened.space].data

AskingOwn ==
  asking # Nil =>
    /\ DOMAIN asking = {"key", "of", "at"}
    /\ asking.key = opened.space /\ asking.of = opened.space

PagesInv ==
  /\ PagesTyped
  /\ ActsOnLists
  /\ GoneRemoved
  /\ GoneUnlisted
  /\ SelectionListed
  /\ AskingOwn

-----------------------------------------------------------------------------
(* What a change of the page or of a list leaves.                           *)

(* Whatever page is shown, with whatever lists, its selection is listed and *)
(* its question asked there.                                                *)
LEMMA ShownFits ==
  ASSUME PagesTyped, AskingOwn, NEW where, NEW lists \in [SpaceIds -> Lists], NEW sel \in Seq(Items),
         where \in [at : {"away", "saved", "compare", "knowledge"}, space : SpaceIds],
         Show(where, lists, sel)
  PROVE  /\ url' \in Seq(Items) /\ opened' = where /\ list' = lists
         /\ SelectionListed' /\ AskingOwn'
<1>1. opened' = where /\ list' = lists /\ url' = Reconciled(sel, where, lists)
      /\ asking' = AskKept(where, lists)
  BY DEF Show
<1>2. url' \in Seq(Items)
  BY <1>1, FilteredKeeps DEF Reconciled
<1>3. SelectionListed'
  <2>. SUFFICES ASSUME where.at = "compare", lists[where.space].data # Nil
                PROVE  PapersIn(url') \subseteq lists[where.space].data
    BY <1>1 DEF SelectionListed
  <2>1. url' = Filtered(sel, lists[where.space].data)
    BY <1>1 DEF Reconciled
  <2>. QED  BY <2>1, FilteredKeeps DEF PapersIn
<1>4. AskingOwn'
  <2>. DEFINE new == [key |-> InstanceKey(where.space), of |-> where.space, at |-> "idle"]
  <2>1. new.key = where.space /\ new.of = where.space /\ DOMAIN new = {"key", "of", "at"}
    BY DEF InstanceKey
  <2>. HIDE DEF new
  <2>2. asking' = Nil \/ asking' = new \/ (asking' = asking /\ asking # Nil /\ asking.key = where.space)
    BY <1>1 DEF AskKept, new, InstanceKey
  <2>. QED  BY <1>1, <2>1, <2>2 DEF AskingOwn
<1>. QED  BY <1>1, <1>2, <1>3, <1>4

(* A list query with a new request in flight.                               *)
LEMMA FetchTyped ==
  ASSUME NEW q \in Lists
  PROVE  /\ Fetch(q) \in Lists
         /\ Fetch(q).phase = "asked" /\ Fetch(q).next = FALSE /\ Fetch(q).data = q.data
         /\ \A s : Lacks(s, Fetch(q))
<1>1. /\ Fetch(q) \in Lists
      /\ Fetch(q).phase = "asked" /\ Fetch(q).next = FALSE /\ Fetch(q).data = q.data
  BY DEF Fetch, Lists
<1>. QED  BY <1>1 DEF Lacks

(* One list becomes another that forgets nothing it had.                    *)
LEMMA ListReplaced ==
  ASSUME PagesInv, NEW s \in SpaceIds, NEW q \in Lists,
         list' = [list EXCEPT ![s] = q],
         q.data = Nil => list[s].data = Nil,
         Lacks(s, q),
         UNCHANGED gone, \A a \in acts' : \E b \in acts : b.record = a.record
  PROVE  ActsOnLists' /\ GoneUnlisted' /\ list' \in [SpaceIds -> Lists]
<1>1. list \in [SpaceIds -> Lists]
  BY DEF PagesInv, PagesTyped
<1>2. list' \in [SpaceIds -> Lists] /\ list'[s] = q /\ \A t \in SpaceIds \ {s} : list'[t] = list[t]
  BY <1>1
<1>3. ActsOnLists'
  <2>. SUFFICES ASSUME NEW a \in acts' PROVE list'[a.record[1]].data # Nil
    BY DEF ActsOnLists
  <2>1. PICK b \in acts : b.record = a.record
    OBVIOUS
  <2>2. list[a.record[1]].data # Nil /\ a.record[1] \in SpaceIds
    BY <2>1 DEF PagesInv, ActsOnLists, PagesTyped, Records, Acts
  <2>. QED  BY <1>2, <2>2
<1>4. GoneUnlisted'
  <2>1. \A t \in SpaceIds : Lacks(t, list'[t])
    BY <1>2 DEF PagesInv, GoneUnlisted
  <2>. QED  BY <2>1 DEF GoneUnlisted, Lacks
<1>. QED  BY <1>2, <1>3, <1>4

-----------------------------------------------------------------------------
(* Every step keeps the invariant.                                          *)

(* What a step that changes neither records nor acts has to show.           *)
LEMMA ShowStep ==
  ASSUME PagesInv, NEW where, NEW s \in SpaceIds, NEW q \in Lists, NEW sel \in Seq(Items),
         where \in [at : {"away", "saved", "compare", "knowledge"}, space : SpaceIds],
         Show(where, [list EXCEPT ![s] = q], sel),
         q.data = Nil => list[s].data = Nil,
         Lacks(s, q),
         acts' \subseteq Acts, \A a \in acts' : \E b \in acts : b.record = a.record,
         UNCHANGED <<records, gone>>
  PROVE  PagesInv'
<1>. DEFINE lists == [list EXCEPT ![s] = q]
<1>1. lists \in [SpaceIds -> Lists]
  BY DEF PagesInv, PagesTyped
<1>2. /\ url' \in Seq(Items) /\ opened' = where /\ list' = lists
      /\ SelectionListed' /\ AskingOwn'
  <2>. HIDE DEF lists
  <2>1. Show(where, lists, sel)
    BY DEF lists
  <2>. QED  BY <1>1, <2>1, ShownFits DEF PagesInv
<1>3. ActsOnLists' /\ GoneUnlisted' /\ list' \in [SpaceIds -> Lists]
  BY <1>2, ListReplaced
<1>4. PagesTyped'
  BY <1>2, <1>3 DEF PagesInv, PagesTyped, Acts, Records
<1>5. GoneRemoved'
  BY DEF PagesInv, GoneRemoved
<1>. QED  BY <1>2, <1>3, <1>4, <1>5 DEF PagesInv

(* The same when no list changes.                                           *)
LEMMA LookStep ==
  ASSUME PagesInv, NEW where, NEW sel \in Seq(Items),
         where \in [at : {"away", "saved", "compare", "knowledge"}, space : SpaceIds],
         Show(where, list, sel),
         acts' \subseteq Acts, \A a \in acts' : \E b \in acts : b.record = a.record,
         UNCHANGED <<records, gone>>
  PROVE  PagesInv'
<1>1. /\ url' \in Seq(Items) /\ opened' = where /\ list' = list
      /\ SelectionListed' /\ AskingOwn'
  BY ShownFits DEF PagesInv, PagesTyped
<1>2. PagesTyped'
  BY <1>1 DEF PagesInv, PagesTyped, Acts, Records
<1>3. GoneRemoved' /\ GoneUnlisted'
  BY <1>1 DEF PagesInv, GoneRemoved, GoneUnlisted, Lacks
<1>4. ActsOnLists'
  <2>. SUFFICES ASSUME NEW a \in acts' PROVE list'[a.record[1]].data # Nil
    BY DEF ActsOnLists
  <2>1. PICK b \in acts : b.record = a.record
    OBVIOUS
  <2>. QED  BY <1>1, <2>1 DEF PagesInv, ActsOnLists
<1>. QED  BY <1>1, <1>2, <1>3, <1>4 DEF PagesInv

(* The same for a step that changes one list and shows nothing new: the     *)
(* list has the same data.                                                  *)
LEMMA ListStep ==
  ASSUME PagesInv, NEW s \in SpaceIds, NEW q \in Lists,
         list' = [list EXCEPT ![s] = q], q.data = list[s].data, Lacks(s, q),
         UNCHANGED <<records, opened, url, asking, acts, gone>>
  PROVE  PagesInv'
<1>1. ActsOnLists' /\ GoneUnlisted' /\ list' \in [SpaceIds -> Lists]
  BY ListReplaced
<1>2. PagesTyped'
  BY <1>1 DEF PagesInv, PagesTyped, Acts, Records
<1>3. GoneRemoved' /\ AskingOwn'
  BY DEF PagesInv, GoneRemoved, AskingOwn
<1>4. list'[opened.space].data = list[opened.space].data
  <2>1. list \in [SpaceIds -> Lists] /\ opened.space \in SpaceIds
    BY DEF PagesInv, PagesTyped
  <2>. QED  BY <2>1
<1>5. SelectionListed'
  BY <1>4 DEF PagesInv, SelectionListed
<1>. QED  BY <1>1, <1>2, <1>3, <1>5 DEF PagesInv

(* A page that is open, and the acts there are, are what they were.         *)
LEMMA TypesHere ==
  ASSUME PagesInv
  PROVE  /\ \A s \in SpaceIds : list[s] \in Lists
         /\ opened \in [at : {"away", "saved", "compare", "knowledge"}, space : SpaceIds]
         /\ opened.space \in SpaceIds
         /\ url \in Seq(Items)
         /\ acts \subseteq Acts
         /\ \A a \in acts : \E b \in acts : b.record = a.record
BY DEF PagesInv, PagesTyped

LEMMA ReadListStep ==
  ASSUME PagesInv, NEW s \in SpaceIds, ReadList(s)
  PROVE  PagesInv'
<1>. DEFINE before == IF list[s].next THEN list[s].data ELSE {}
            rows == {i \in Items : <<s, i>> \in records} \ before
<1>1. PICK found \in SUBSET Items, left \in BOOLEAN :
        /\ MayFind(rows, list[s].next, found, left)
        /\ list' = [list EXCEPT ![s] = [list[s] EXCEPT !.phase = "read", !.reply = before \cup found,
                                                      !.left = left]]
  BY DEF ReadList
<1>. DEFINE q == [list[s] EXCEPT !.phase = "read", !.reply = before \cup found, !.left = left]
<1>2. list[s] \in Lists /\ before \subseteq Items
  <2>1. list[s] \in Lists
    BY TypesHere
  <2>2. list[s].next => list[s].data # Nil
    BY DEF PagesInv, GoneUnlisted, Lacks
  <2>. QED  BY <2>1, <2>2 DEF Lists
<1>3. /\ q \in Lists /\ q.data = list[s].data /\ q.phase = "read" /\ q.reply = before \cup found
      /\ q.next = list[s].next /\ q.cut = list[s].cut
  BY <1>2 DEF Lists
<1>4. \A i \in found : <<s, i>> \notin gone
  BY <1>1 DEF MayFind, PagesInv, GoneRemoved
<1>. HIDE DEF q
<1>5. Lacks(s, q)
  <2>1. Lacks(s, list[s])
    BY DEF PagesInv, GoneUnlisted
  <2>. QED  BY <1>3, <1>4, <2>1 DEF Lacks
<1>6. list' = [list EXCEPT ![s] = q]
  BY <1>1 DEF q
<1>. QED  BY <1>3, <1>5, <1>6, ListStep DEF ReadList, actVars

LEMMA DeliverListStep ==
  ASSUME PagesInv, NEW s \in SpaceIds, DeliverList(s)
  PROVE  PagesInv'
<1>. DEFINE q == [NoList EXCEPT !.data = list[s].reply, !.more = list[s].left,
                                !.cut = list[s].cut /\ list[s].next]
<1>1. list[s] \in Lists /\ list[s].reply \in SUBSET Items
  BY TypesHere DEF Lists
<1>2. /\ q \in Lists /\ q.phase = "idle" /\ q.data = list[s].reply /\ q.next = FALSE
      /\ q.cut = (list[s].cut /\ list[s].next)
  BY <1>1 DEF Lists, NoList
<1>3. q.data # Nil
  BY <1>1, <1>2, PageBounds DEF PageBounds
<1>4. Show(opened, [list EXCEPT ![s] = q], url)
  BY DEF DeliverList, SetList
<1>. HIDE DEF q
<1>5. Lacks(s, q)
  BY <1>2, <1>3 DEF PagesInv, GoneUnlisted, Lacks, DeliverList
<1>6. UNCHANGED <<records, acts, gone>>
  BY DEF DeliverList, actVars
<1>. QED  BY <1>2, <1>3, <1>4, <1>5, <1>6, TypesHere, ShowStep

LEMMA ListFailsStep ==
  ASSUME PagesInv, NEW s \in SpaceIds, ListFails(s)
  PROVE  PagesInv'
<1>. DEFINE q == [Fetch(list[s]) EXCEPT !.phase = "idle", !.failed = TRUE]
<1>1. list[s] \in Lists
  BY TypesHere
<1>2. /\ q \in Lists /\ q.phase = "idle" /\ q.next = FALSE /\ q.data = list[s].data
      /\ q.failed = TRUE
  BY <1>1, FetchTyped DEF Lists
<1>3. Show(opened, [list EXCEPT ![s] = q], url)
  BY DEF ListFails, SetList
<1>. HIDE DEF q
<1>4. Lacks(s, q)
  BY <1>2 DEF Lacks
<1>5. UNCHANGED <<records, acts, gone>>
  BY DEF ListFails, actVars
<1>. QED  BY <1>2, <1>3, <1>4, <1>5, TypesHere, ShowStep

(* A query that is fetched again, be it joined or replaced, fits as before. *)
LEMMA RefetchedFits ==
  ASSUME PagesInv, NEW s \in SpaceIds
  PROVE  /\ Refetched(list[s]) \in Lists /\ Refetched(list[s]).data = list[s].data
         /\ Lacks(s, Refetched(list[s]))
<1>1. list[s] \in Lists /\ Lacks(s, list[s])
  BY TypesHere DEF PagesInv, GoneUnlisted
<1>2. Refetched(list[s]) = Fetch(list[s]) \/ Refetched(list[s]) = list[s]
  BY DEF Refetched
<1>. QED  BY <1>1, <1>2, FetchTyped

LEMMA RefreshStep ==
  ASSUME PagesInv, NEW s \in SpaceIds, Refresh(s)
  PROVE  PagesInv'
<1>1. list' = [list EXCEPT ![s] = Refetched(list[s])]
  BY DEF Refresh
<1>. QED  BY <1>1, RefetchedFits, ListStep DEF Refresh, actVars

(* The next page is asked for: a list that is idle and current is what it   *)
(* is added to, or the list is one that a next page has been put before.    *)
LEMMA LoadMoreStep ==
  ASSUME PagesInv, LoadMore
  PROVE  PagesInv'
<1>. DEFINE s == opened.space
            q == [Fetch(list[s]) EXCEPT !.next = TRUE,
                                        !.cut = list[s].cut \/ list[s].phase # "idle"]
<1>1. /\ s \in SpaceIds /\ list[s] \in Lists /\ Lacks(s, list[s])
      /\ list[s].data # Nil /\ ~list[s].failed
  BY TypesHere DEF PagesInv, GoneUnlisted, LoadMore, Rendered
<1>2. /\ q \in Lists /\ q.phase = "asked" /\ q.data = list[s].data
      /\ q.cut = (list[s].cut \/ list[s].phase # "idle")
  BY <1>1, FetchTyped DEF Lists
<1>3. list' = [list EXCEPT ![s] = q]
  BY DEF LoadMore
<1>. HIDE DEF q
<1>4. Lacks(s, q)
  BY <1>1, <1>2 DEF Lacks
<1>. QED  BY <1>1, <1>2, <1>3, <1>4, ListStep DEF LoadMore, actVars

(* A page that mounts joins a request in flight, or starts one.             *)
LEMMA JoinedFits ==
  ASSUME PagesInv, NEW s \in SpaceIds
  PROVE  /\ Joined(list[s]) \in Lists /\ Joined(list[s]).data = list[s].data
         /\ Lacks(s, Joined(list[s]))
<1>1. list[s] \in Lists /\ Lacks(s, list[s])
  BY TypesHere DEF PagesInv, GoneUnlisted
<1>2. Joined(list[s]) = Fetch(list[s]) \/ Joined(list[s]) = list[s]
  BY DEF Joined
<1>. QED  BY <1>1, <1>2, FetchTyped

LEMMA DetachedSame ==
  ASSUME PagesInv
  PROVE  Detached \subseteq Acts /\ \A a \in Detached : \E b \in acts : b.record = a.record
<1>1. \A b \in Acts : [b EXCEPT !.mounted = FALSE] \in Acts /\ [b EXCEPT !.mounted = FALSE].record = b.record
  BY DEF Acts
<1>2. acts \subseteq Acts
  BY TypesHere
<1>. QED  BY <1>1, <1>2 DEF Detached

LEMMA SelectionTyped == << >> \in Seq(Items) /\ \A sel \in Selections : sel \in Seq(Items)
BY PageBounds DEF Selections, PageBounds

LEMMA OpenPageStep ==
  ASSUME PagesInv, NEW s \in SpaceIds, NEW at \in {"saved", "compare", "knowledge"}, OpenPage(at, s)
  PROVE  PagesInv'
<1>. DEFINE where == [at |-> at, space |-> s]
<1>1. where \in [at : {"away", "saved", "compare", "knowledge"}, space : SpaceIds]
  OBVIOUS
<1>2. Show(where, [list EXCEPT ![s] = Joined(list[s])], << >>)
  BY DEF OpenPage
<1>. HIDE DEF where
<1>3. acts' = Detached /\ UNCHANGED <<records, gone>>
  BY DEF OpenPage
<1>. QED  BY <1>1, <1>2, <1>3, JoinedFits, DetachedSame, SelectionTyped, ShowStep

LEMMA ClosePageStep ==
  ASSUME PagesInv, ClosePage
  PROVE  PagesInv'
<1>. DEFINE where == [opened EXCEPT !.at = "away"]
<1>1. where \in [at : {"away", "saved", "compare", "knowledge"}, space : SpaceIds]
  BY TypesHere
<1>2. Show(where, list, << >>)
  BY DEF ClosePage
<1>. HIDE DEF where
<1>3. acts' = Detached /\ UNCHANGED <<records, gone>>
  BY DEF ClosePage
<1>. QED  BY <1>1, <1>2, <1>3, DetachedSame, SelectionTyped, LookStep

LEMMA JumpToSpaceStep ==
  ASSUME PagesInv, NEW s \in SpaceIds, NEW sel \in Selections, JumpToSpace(s, sel)
  PROVE  PagesInv'
<1>. DEFINE where == [opened EXCEPT !.space = s]
<1>1. where \in [at : {"away", "saved", "compare", "knowledge"}, space : SpaceIds]
  BY TypesHere
<1>2. Show(where, [list EXCEPT ![s] = Joined(list[s])], sel)
  BY DEF JumpToSpace
<1>. HIDE DEF where
<1>3. UNCHANGED <<records, acts, gone>>
  BY DEF JumpToSpace, actVars
<1>. QED  BY <1>1, <1>2, <1>3, JoinedFits, TypesHere, SelectionTyped, ShowStep

LEMMA BrowseStep ==
  ASSUME PagesInv, NEW sel \in Selections, Browse(sel)
  PROVE  PagesInv'
<1>1. Show(opened, list, sel) /\ UNCHANGED <<records, acts, gone>>
  BY DEF Browse, actVars
<1>. QED  BY <1>1, TypesHere, SelectionTyped, LookStep

(* A refresh after a change replaces a request in flight.                   *)
LEMMA RefetchedAfresh ==
  ASSUME PagesInv, NEW s \in SpaceIds, list[s].data # Nil
  PROVE  /\ Refetched(list[s]) \in Lists /\ Refetched(list[s]).data = list[s].data
         /\ Refetched(list[s]).phase = "asked" /\ Refetched(list[s]).next = FALSE
<1>1. Refetched(list[s]) = Fetch(list[s])
  BY DEF Refetched
<1>2. list[s] \in Lists
  BY TypesHere
<1>. QED  BY <1>1, <1>2, FetchTyped

LEMMA RefreshSelectionStep ==
  ASSUME PagesInv, RefreshSelection
  PROVE  PagesInv'
<1>1. Show(opened, [list EXCEPT ![opened.space] = Refetched(list[opened.space])], url)
  BY DEF RefreshSelection, SetList
<1>2. opened.space \in SpaceIds /\ list[opened.space].data # Nil
  BY TypesHere DEF RefreshSelection, Selecting, Rendered
<1>3. UNCHANGED <<records, acts, gone>>
  BY DEF RefreshSelection, actVars
<1>. QED  BY <1>1, <1>2, <1>3, RefetchedFits, TypesHere, ShowStep

LEMMA ToggleStep ==
  ASSUME PagesInv, NEW p \in Items, Toggle(p)
  PROVE  PagesInv'
<1>1. UNCHANGED <<records, opened, list, asking, acts, gone>>
  BY DEF Toggle, actVars
<1>2. /\ url' \in Seq(Items)
      /\ \A x \in PapersIn(url') : x \in PapersIn(url) \/ x = p
  <2>1. url \in Seq(Items)
    BY TypesHere
  <2>2. CASE url' = Filtered(url, Items \ {p})
    BY <2>1, <2>2, FilteredKeeps DEF PapersIn
  <2>3. CASE url' = Append(url, p)
    BY <2>1, <2>3 DEF PapersIn
  <2>. QED  BY <2>2, <2>3 DEF Toggle
<1>3. SelectionListed'
  BY <1>1, <1>2 DEF PagesInv, SelectionListed, Toggle
<1>4. PagesTyped'
  BY <1>1, <1>2 DEF PagesInv, PagesTyped, Acts, Records
<1>. QED  BY <1>1, <1>3, <1>4 DEF PagesInv, ActsOnLists, GoneRemoved, GoneUnlisted, Lacks, AskingOwn

LEMMA ComparisonSteps ==
  ASSUME PagesInv, UNCHANGED <<records, opened, url, list, asking, acts, gone>>
  PROVE  PagesInv'
<1>1. PagesTyped'
  BY DEF PagesInv, PagesTyped, Acts, Records
<1>2. SelectionListed'
  BY DEF PagesInv, SelectionListed
<1>. QED  BY <1>1, <1>2 DEF PagesInv, ActsOnLists, GoneRemoved, GoneUnlisted, Lacks, AskingOwn

LEMMA AskingSteps ==
  ASSUME PagesInv, UNCHANGED <<records, opened, url, list, acts, gone>>,
         asking # Nil, DOMAIN asking' = DOMAIN asking,
         asking'.key = asking.key, asking'.of \in {asking.of, opened.space}
  PROVE  PagesInv'
<1>1. PagesTyped'
  BY DEF PagesInv, PagesTyped, Acts, Records
<1>2. SelectionListed'
  BY DEF PagesInv, SelectionListed
<1>3. AskingOwn'
  BY DEF PagesInv, AskingOwn
<1>. QED  BY <1>1, <1>2, <1>3 DEF PagesInv, ActsOnLists, GoneRemoved, GoneUnlisted, Lacks

LEMMA SubmitStep ==
  ASSUME PagesInv, Submit
  PROVE  PagesInv'
<1>1. asking # Nil /\ DOMAIN asking = {"key", "of", "at"}
  BY DEF Submit, PagesInv, AskingOwn
<1>2. asking' = [asking EXCEPT !.of = opened.space, !.at = "pending"]
  BY DEF Submit
<1>3. DOMAIN asking' = DOMAIN asking /\ asking'.key = asking.key /\ asking'.of = opened.space
  BY <1>1, <1>2
<1>. QED  BY <1>1, <1>3, AskingSteps DEF Submit, actVars

LEMMA AskEndsStep ==
  ASSUME PagesInv, NEW end, AskEnds(end)
  PROVE  PagesInv'
<1>1. asking # Nil /\ DOMAIN asking = {"key", "of", "at"}
  BY DEF AskEnds, PagesInv, AskingOwn
<1>2. asking' = [asking EXCEPT !.at = end]
  BY DEF AskEnds
<1>3. DOMAIN asking' = DOMAIN asking /\ asking'.key = asking.key /\ asking'.of = asking.of
  BY <1>1, <1>2
<1>. QED  BY <1>1, <1>3, AskingSteps DEF AskEnds, actVars

(* The acts and the records change behind the page.                         *)
LEMMA ActsStep ==
  ASSUME PagesInv, UNCHANGED <<opened, url, list, asking>>,
         acts' \subseteq Acts, records' \subseteq Records, gone' \subseteq gone,
         gone' \cap records' = {},
         \A a \in acts' : list[a.record[1]].data # Nil
  PROVE  PagesInv'
<1>1. PagesTyped'
  BY DEF PagesInv, PagesTyped, Acts, Records
<1>2. SelectionListed' /\ AskingOwn' /\ GoneRemoved' /\ ActsOnLists'
  BY DEF PagesInv, SelectionListed, AskingOwn, GoneRemoved, ActsOnLists
<1>3. GoneUnlisted'
  BY DEF PagesInv, GoneUnlisted, Lacks
<1>. QED  BY <1>1, <1>2, <1>3 DEF PagesInv

LEMMA PressStep ==
  ASSUME PagesInv, NEW kind \in {"remove", "upload", "reindex"}, NEW i \in Items, Press(kind, i)
  PROVE  PagesInv'
<1>. DEFINE new == [kind |-> kind, record |-> <<opened.space, i>>, at |-> "sent", mounted |-> TRUE]
<1>1. new \in Acts /\ new.record[1] = opened.space
  BY TypesHere DEF Acts, Records
<1>2. acts' = acts \cup {new}
  BY DEF Press
<1>. HIDE DEF new
<1>3. list[opened.space].data # Nil
  BY DEF Press, Rendered
<1>4. \A a \in acts' : list[a.record[1]].data # Nil
  BY <1>1, <1>2, <1>3 DEF PagesInv, ActsOnLists
<1>5. acts' \subseteq Acts
  BY <1>1, <1>2, TypesHere
<1>6. UNCHANGED <<records, opened, url, list, asking, gone>>
  BY DEF Press
<1>7. records' \subseteq Records /\ gone' \cap records' = {}
  BY <1>6 DEF PagesInv, PagesTyped, GoneRemoved
<1>. QED  BY <1>4, <1>5, <1>6, <1>7, ActsStep

LEMMA ServeActStep ==
  ASSUME PagesInv, NEW a \in acts, ServeAct(a)
  PROVE  PagesInv'
<1>1. a \in Acts /\ a.record \in Records
  BY TypesHere DEF Acts
<1>2. PICK end \in {"refused", "done"} : acts' = (acts \ {a}) \cup {[a EXCEPT !.at = end]}
  BY DEF ServeAct
<1>. DEFINE b == [a EXCEPT !.at = end]
<1>3. b \in Acts /\ b.record = a.record
  BY <1>1 DEF Acts
<1>. HIDE DEF b
<1>4. acts' \subseteq Acts
  BY <1>2, <1>3, TypesHere DEF b
<1>5. \A c \in acts' : list[c.record[1]].data # Nil
  <2>1. \A c \in acts' : c \in acts \/ c = b
    BY <1>2 DEF b
  <2>2. \A c \in acts : list[c.record[1]].data # Nil
    BY DEF PagesInv, ActsOnLists
  <2>. QED  BY <1>3, <2>1, <2>2
<1>6. records \subseteq Records /\ gone \cap records = {}
  BY DEF PagesInv, PagesTyped, GoneRemoved
<1>7. \/ records' = records \ {a.record} /\ gone' = gone
      \/ records' = records \cup {a.record} /\ gone' = gone \ {a.record}
      \/ records' = records /\ gone' = gone
  <2>1. a.kind \in {"remove", "upload", "reindex"}
    BY <1>1 DEF Acts
  <2>. QED  BY <2>1 DEF ServeAct
<1>8. records' \subseteq Records /\ gone' \subseteq gone /\ gone' \cap records' = {}
  BY <1>1, <1>6, <1>7
<1>9. UNCHANGED <<opened, url, list, asking>>
  BY DEF ServeAct
<1>. QED  BY <1>4, <1>5, <1>8, <1>9, ActsStep

LEMMA ActFailsStep ==
  ASSUME PagesInv, NEW a \in acts, ActFails(a)
  PROVE  PagesInv'
<1>1. acts' = acts \ {a} /\ UNCHANGED <<records, opened, url, list, asking, gone>>
  BY DEF ActFails
<1>2. records' \subseteq Records /\ gone' \cap records' = {} /\ acts' \subseteq Acts
  BY <1>1, TypesHere DEF PagesInv, PagesTyped, GoneRemoved
<1>3. \A b \in acts' : list[b.record[1]].data # Nil
  BY <1>1 DEF PagesInv, ActsOnLists
<1>. QED  BY <1>1, <1>2, <1>3, ActsStep

LEMMA EditElsewhereStep ==
  ASSUME PagesInv, NEW r \in Records, EditElsewhere(r)
  PROVE  PagesInv'
<1>1. UNCHANGED <<opened, url, list, asking, acts>>
  BY DEF EditElsewhere
<1>2. records' \subseteq Records /\ gone' \subseteq gone /\ gone' \cap records' = {}
  BY DEF EditElsewhere, PagesInv, PagesTyped, GoneRemoved
<1>3. \A b \in acts' : list[b.record[1]].data # Nil
  BY <1>1 DEF PagesInv, ActsOnLists
<1>. QED  BY <1>1, <1>2, <1>3, TypesHere, ActsStep

(* A removal is confirmed: the list that may still have the record is being *)
(* read anew.                                                               *)
LEMMA FinishActStep ==
  ASSUME PagesInv, NEW a \in acts, FinishAct(a)
  PROVE  PagesInv'
<1>. DEFINE s == a.record[1]
            q == Refetched(list[s])
<1>1. s \in SpaceIds /\ a.record \in Records /\ list[s].data # Nil
  BY TypesHere DEF Acts, Records, PagesInv, ActsOnLists
<1>2. acts' = acts \ {a} /\ records' = records
  BY DEF FinishAct
<1>3. acts' \subseteq Acts /\ \A b \in acts' : b \in acts
  BY <1>2, TypesHere
<1>4. CASE ~Mounted(s)
  <2>1. UNCHANGED <<opened, url, list, asking, gone>>
    BY <1>4 DEF FinishAct
  <2>2. records' \subseteq Records /\ gone' \cap records' = {}
    BY <1>2, <2>1 DEF PagesInv, PagesTyped, GoneRemoved
  <2>3. \A b \in acts' : list[b.record[1]].data # Nil
    BY <1>3 DEF PagesInv, ActsOnLists
  <2>. QED  BY <1>3, <2>1, <2>2, <2>3, ActsStep
<1>5. CASE Mounted(s)
  <2>1. q \in Lists /\ q.data = list[s].data /\ q.phase = "asked" /\ q.next = FALSE
    BY <1>1, RefetchedAfresh
  <2>2. Show(opened, [list EXCEPT ![s] = q], url)
    BY <1>5 DEF FinishAct, SetList
  <2>. HIDE DEF q
  <2>. DEFINE lists == [list EXCEPT ![s] = q]
  <2>3. /\ lists \in [SpaceIds -> Lists] /\ lists[s] = q
        /\ \A t \in SpaceIds \ {s} : lists[t] = list[t]
    BY <1>1, <2>1 DEF PagesInv, PagesTyped
  <2>. HIDE DEF lists
  <2>4. /\ url' \in Seq(Items) /\ opened' = opened /\ list' = lists
        /\ SelectionListed' /\ AskingOwn'
    BY <2>2, <2>3, TypesHere, ShownFits DEF PagesInv, lists
  <2>5. /\ gone' \subseteq gone \cup {a.record}
        /\ a.record \in gone' => a.record \in gone \/ a.record \notin records
    BY <1>5 DEF FinishAct
  <2>6. GoneRemoved'
    BY <1>2, <2>5 DEF PagesInv, GoneRemoved
  <2>7. PagesTyped'
    BY <1>1, <1>2, <1>3, <2>3, <2>4, <2>5 DEF PagesInv, PagesTyped, Acts, Records
  <2>8. ActsOnLists'
    <3>. SUFFICES ASSUME NEW b \in acts' PROVE list'[b.record[1]].data # Nil
      BY DEF ActsOnLists
    <3>1. list[b.record[1]].data # Nil /\ b.record[1] \in SpaceIds
      BY <1>3, TypesHere DEF PagesInv, ActsOnLists, Acts, Records
    <3>2. list'[b.record[1]].data = list[b.record[1]].data
      BY <2>1, <2>3, <2>4, <3>1
    <3>. QED  BY <3>1, <3>2
  <2>9. GoneUnlisted'
    <3>. SUFFICES ASSUME NEW t \in SpaceIds PROVE Lacks(t, list[t])'
      BY DEF GoneUnlisted
    <3>1. CASE t = s
      BY <2>1, <2>3, <2>4, <3>1 DEF Lacks
    <3>2. CASE t # s
      <4>1. \A i \in Items : <<t, i>> \in gone' => <<t, i>> \in gone
        BY <2>5, <3>2, <1>1 DEF Records
      <4>2. list'[t] = list[t] /\ Lacks(t, list[t])
        BY <2>3, <2>4, <3>2 DEF PagesInv, GoneUnlisted
      <4>. QED  BY <4>1, <4>2 DEF Lacks
    <3>. QED  BY <3>1, <3>2
  <2>. QED  BY <2>4, <2>6, <2>7, <2>8, <2>9 DEF PagesInv
<1>. QED  BY <1>4, <1>5

LEMMA PagesInitially == PagesInit => PagesInv
<1>. SUFFICES ASSUME PagesInit PROVE PagesInv
  OBVIOUS
<1>1. PagesTyped
  <2>1. list \in [SpaceIds -> Lists]
    BY DEF PagesInit, Lists, NoList
  <2>2. records \subseteq Records
    BY PageBounds DEF PagesInit, PageBounds, Records
  <2>3. opened \in [at : {"away", "saved", "compare", "knowledge"}, space : SpaceIds]
    BY DEF PagesInit
  <2>. QED  BY <2>1, <2>2, <2>3, SelectionTyped DEF PagesInit, PagesTyped
<1>2. SelectionListed
  BY DEF PagesInit, SelectionListed
<1>3. ActsOnLists /\ GoneRemoved /\ GoneUnlisted /\ AskingOwn
  BY DEF PagesInit, ActsOnLists, GoneRemoved, GoneUnlisted, Lacks, NoList, AskingOwn
<1>. QED  BY <1>1, <1>2, <1>3 DEF PagesInv

LEMMA PagesStep == PagesInv /\ [PagesNext]_pagesVars => PagesInv'
<1>. SUFFICES ASSUME PagesInv, [PagesNext]_pagesVars PROVE PagesInv'
  OBVIOUS
<1>1. CASE Compare \/ \E end \in {"success", "papers", "space", "error"} : CompareEnds(end)
  BY <1>1, ComparisonSteps DEF Compare, CompareEnds, actVars
<1>2. CASE UNCHANGED pagesVars
  BY <1>2, ComparisonSteps DEF pagesVars, actVars
<1>3. CASE \E s \in SpaceIds :
             \/ ReadList(s) \/ DeliverList(s) \/ ListFails(s) \/ Refresh(s)
             \/ \E at \in {"saved", "compare", "knowledge"} : OpenPage(at, s)
             \/ \E sel \in Selections : JumpToSpace(s, sel)
  BY <1>3, ReadListStep, DeliverListStep, ListFailsStep, RefreshStep, OpenPageStep, JumpToSpaceStep
<1>4. CASE \/ ClosePage \/ RefreshSelection \/ LoadMore
           \/ \E sel \in Selections : Browse(sel)
           \/ \E p \in Items : Toggle(p)
  BY <1>4, ClosePageStep, RefreshSelectionStep, LoadMoreStep, BrowseStep, ToggleStep
<1>5. CASE \/ Submit
           \/ \E end \in {"success", "error"} : AskEnds(end)
  BY <1>5, SubmitStep, AskEndsStep
<1>6. CASE \/ \E kind \in {"remove", "upload", "reindex"}, i \in Items : Press(kind, i)
           \/ \E a \in acts : ServeAct(a) \/ FinishAct(a) \/ ActFails(a)
           \/ \E r \in Records : EditElsewhere(r)
  BY <1>6, PressStep, ServeActStep, FinishActStep, ActFailsStep, EditElsewhereStep
<1>. QED  BY <1>1, <1>2, <1>3, <1>4, <1>5, <1>6 DEF PagesNext

(* What the pages and the lists they are rendered from know of each other.  *)
THEOREM PagesInvariant == PagesSpec => []PagesInv
BY PagesInitially, PagesStep, PTL DEF PagesSpec

(* Once a removal is confirmed, the list shown lacks the record, whatever   *)
(* requests for it were in flight: FinishAct's refresh replaces them        *)
(* (saved-papers-page.tsx, knowledge-page.tsx).  The exception, and it ends *)
(* with the next refresh, is a next page of documents that replaced one.    *)
THEOREM RemovalIsFinal == PagesSpec => []RemovedStaysGone
<1>1. PagesInv => RemovedStaysGone
  <2>. SUFFICES ASSUME PagesInv, Rendered(opened, list), list[opened.space].phase = "idle",
                       ~list[opened.space].cut, NEW i \in list[opened.space].data
                PROVE  <<opened.space, i>> \notin gone
    BY DEF RemovedStaysGone
  <2>1. opened.space \in SpaceIds /\ gone \subseteq Records
    BY DEF PagesInv, PagesTyped
  <2>2. <<opened.space, i>> \in gone => i \in Items
    BY <2>1 DEF Records
  <2>. QED  BY <2>1, <2>2 DEF PagesInv, GoneUnlisted, Lacks, Rendered
<1>. QED  BY <1>1, PagesInvariant, PTL

(* A result on the page fits what the page shows, however the selection,    *)
(* the Space and the lists changed while it was generated.                  *)
THEOREM ResultsFit == PagesSpec => []ResultFitsPage
<1>1. PagesInv => ResultFitsPage
  <2>. SUFFICES ASSUME PagesInv PROVE ResultFitsPage
    OBVIOUS
  <2>1. ASSUME opened.at = "compare", Rendered(opened, list), MutationView = "success"
        PROVE  PapersIn(comparison.papers) \subseteq list[opened.space].data
    <3>1. comparison # Nil /\ comparison.space = opened.space
      BY <2>1 DEF MutationView
    <3>2. comparison.at = "success" /\ comparison.papers = url
      BY <2>1, <3>1 DEF MutationView, SamePapers
    <3>3. PapersIn(url) \subseteq list[opened.space].data
      BY <2>1 DEF PagesInv, SelectionListed, Rendered
    <3>. QED  BY <3>1, <3>2, <3>3
  <2>2. asking # Nil /\ asking.at = "success" => asking.of = opened.space
    BY DEF PagesInv, AskingOwn
  <2>. QED  BY <2>1, <2>2 DEF ResultFitsPage
<1>. QED  BY <1>1, PagesInvariant, PTL


-----------------------------------------------------------------------------
(* One call of a provider (ProviderCalls).                                  *)

CallPhases == {"idle", "headers", "body", "drain", "ended"}

CallRow ==
  [adapter : Adapters, batch : Nat, batches : Nat, attempt : Nat, sent : Nat,
   phase : CallPhases, timer : {"off", "armed", "fired"}, verdict : Refusals \cup {None},
   aborted : BOOLEAN, result : CallResults \cup {None}]

(* Every request is one of the attempts of one of the batches.              *)
Counted(c) ==
  /\ c.batch \in 1 .. c.batches /\ c.attempt \in 1 .. MaxAttempts
  /\ c.sent <= (IF MaxAttempts = 1 THEN c.batch - 1 ELSE 2 * (c.batch - 1)) + c.attempt

(* While a body is read nothing is decided; a failure status is, and only a *)
(* decision can be aborted.                                                 *)
CallOrder(c) ==
  /\ c.phase \in {"idle", "headers", "body"} => c.verdict = None /\ ~c.aborted
  /\ c.phase = "drain" => c.verdict \in Refusals
  /\ c.phase # "ended" => c.result = None
  /\ c.phase = "ended" =>
       /\ c.result \in CallResults /\ c.timer = "off"
       /\ c.aborted <=> c.result = "aborted"
       /\ c.verdict \in {"refused", "broken"} /\ ~c.aborted =>
            c.result = FailureOf(c.adapter, c.verdict).kind
  /\ c.phase \in {"headers", "body"} => c.timer = "armed"
  /\ c.phase = "drain" => c.timer # "off"
  /\ c.phase = "idle" => c.timer = "off"
  /\ c.aborted => c.adapter = "decision"

CallOk(c) == c \in CallRow /\ Counted(c) /\ CallOrder(c)
CallInv == CallOk(call)

(* What the adapters make of a failure: a status that is refused for good   *)
(* is not tried again.                                                      *)
LEMMA FailureKinds ==
  ASSUME NEW a \in Adapters, NEW e \in Events
  PROVE  /\ FailureOf(a, e).kind \in CallResults \ {"ok", "aborted"}
         /\ e \in {"refused", "broken"} => ~FailureOf(a, e).retryable
<1>1. CASE a = "embedding"
  BY <1>1, Zenon DEF FailureOf, EmbeddingFailure, Failure, Events, CallResults, Refusals
<1>2. CASE a = "answer"
  BY <1>2 DEF FailureOf, AnswerFailure, Failure, Events, CallResults, Refusals
<1>3. CASE a = "comparison"
  BY <1>3 DEF FailureOf, ComparisonFailure, Failure, Events, CallResults, Refusals
<1>4. CASE a = "summary"
  BY <1>4 DEF FailureOf, SummaryFailure, Failure, Events, CallResults, Refusals
<1>5. CASE a = "decision"
  BY <1>5 DEF FailureOf, DecisionFailure, Failure, Events, CallResults, Refusals
<1>. QED  BY <1>1, <1>2, <1>3, <1>4, <1>5 DEF Adapters

LEMMA RequestOk ==
  ASSUME NEW a \in Adapters, NEW batches \in Nat, NEW batch \in 1 .. batches,
         NEW attempt \in 1 .. MaxAttempts, NEW sent \in Nat,
         sent <= (IF MaxAttempts = 1 THEN batch - 1 ELSE 2 * (batch - 1)) + attempt
  PROVE  CallOk(Request(a, batch, batches, attempt, sent))
<1>. DEFINE c == Request(a, batch, batches, attempt, sent)
<1>1. batch \in Nat /\ attempt \in Nat /\ None \notin Refusals \cup CallResults
  BY CallAssumption, NoVerdict
<1>2. c \in CallRow
  BY <1>1 DEF Request, CallRow, CallPhases
<1>3. /\ c.batch = batch /\ c.batches = batches /\ c.attempt = attempt /\ c.sent = sent
      /\ c.phase = "headers" /\ c.timer = "armed" /\ c.verdict = None /\ c.result = None
      /\ c.aborted = FALSE
  BY DEF Request
<1>. HIDE DEF c
<1>4. Counted(c)
  BY <1>3 DEF Counted
<1>5. CallOrder(c)
  BY <1>3 DEF CallOrder
<1>. QED  BY <1>2, <1>4, <1>5 DEF CallOk, c

LEMMA EndedOk ==
  ASSUME NEW c \in CallRow, NEW result \in CallResults, Counted(c),
         c.aborted <=> result = "aborted", c.aborted => c.adapter = "decision",
         c.verdict \in {"refused", "broken"} /\ ~c.aborted =>
           result = FailureOf(c.adapter, c.verdict).kind
  PROVE  CallOk(Ended(c, result))
<1>. DEFINE d == Ended(c, result)
<1>1. d \in CallRow
  BY DEF Ended, CallRow, CallPhases
<1>2. /\ d.adapter = c.adapter /\ d.batch = c.batch /\ d.batches = c.batches /\ d.attempt = c.attempt
      /\ d.sent = c.sent /\ d.verdict = c.verdict /\ d.aborted = c.aborted
      /\ d.phase = "ended" /\ d.timer = "off" /\ d.result = result
  BY DEF Ended, CallRow
<1>. HIDE DEF d
<1>3. Counted(d)
  BY <1>2 DEF Counted
<1>4. CallOrder(d)
  BY <1>2 DEF CallOrder
<1>. QED  BY <1>1, <1>3, <1>4 DEF CallOk, d

LEMMA FailedOk ==
  ASSUME NEW c, CallOk(c), c.phase \in {"headers", "body", "drain"}, NEW e \in Events,
         c.verdict # None => e = c.verdict
  PROVE  CallOk(Failed(c, e))
<1>. DEFINE f == FailureOf(c.adapter, e)
<1>1. /\ c \in CallRow /\ Counted(c) /\ CallOrder(c) /\ c.adapter \in Adapters
      /\ c.batch \in Nat /\ c.batches \in Nat /\ c.attempt \in Nat /\ c.sent \in Nat
      /\ (c.aborted => c.adapter = "decision") /\ MaxAttempts \in {1, 2}
  BY CallAssumption DEF CallOk, CallRow, CallOrder
<1>2. f.kind \in CallResults \ {"ok", "aborted"} /\ (e \in {"refused", "broken"} => ~f.retryable)
  BY <1>1, FailureKinds
<1>3. c.verdict \in {"refused", "broken"} => e = c.verdict
  BY NoVerdict DEF Refusals
<1>4. CASE c.aborted
  <2>1. Failed(c, e) = Ended(c, "aborted")
    BY <1>4 DEF Failed
  <2>2. "aborted" \in CallResults
    BY DEF CallResults
  <2>. QED  BY <1>1, <1>4, <2>1, <2>2, EndedOk
<1>5. CASE ~c.aborted /\ f.retryable /\ c.attempt < MaxAttempts
  <2>1. Failed(c, e) = Request(c.adapter, c.batch, c.batches, c.attempt + 1, c.sent + 1)
    BY <1>5 DEF Failed
  <2>2. /\ c.attempt + 1 \in 1 .. MaxAttempts /\ c.sent + 1 \in Nat /\ c.batch \in 1 .. c.batches
        /\ c.sent + 1 <= (IF MaxAttempts = 1 THEN c.batch - 1 ELSE 2 * (c.batch - 1)) + (c.attempt + 1)
    BY <1>1, <1>5 DEF Counted
  <2>. QED  BY <1>1, <2>1, <2>2, RequestOk
<1>6. CASE ~c.aborted /\ ~(f.retryable /\ c.attempt < MaxAttempts)
  <2>1. Failed(c, e) = Ended(c, f.kind)
    BY <1>6 DEF Failed
  <2>2. c.verdict \in {"refused", "broken"} => f.kind = FailureOf(c.adapter, c.verdict).kind
    BY <1>3
  <2>. HIDE DEF f
  <2>3. f.kind \in CallResults /\ f.kind # "aborted"
    BY <1>2
  <2>. QED  BY <1>1, <1>6, <2>1, <2>2, <2>3, EndedOk
<1>. QED  BY <1>4, <1>5, <1>6

LEMMA AnsweredOk ==
  ASSUME NEW c, CallOk(c), c.phase = "body"
  PROVE  CallOk(Answered(c))
<1>1. /\ c \in CallRow /\ Counted(c) /\ CallOrder(c) /\ c.adapter \in Adapters
      /\ c.batch \in Nat /\ c.batches \in Nat /\ c.attempt \in Nat /\ c.sent \in Nat
      /\ MaxAttempts \in {1, 2} /\ c.verdict = None /\ ~c.aborted
  BY CallAssumption DEF CallOk, CallRow, CallOrder
<1>2. CASE c.batch = c.batches
  <2>1. Answered(c) = Ended(c, "ok") /\ "ok" \in CallResults
    BY <1>2 DEF Answered, CallResults
  <2>2. c.verdict \notin {"refused", "broken"}
    BY <1>1, NoVerdict DEF Refusals
  <2>. QED  BY <1>1, <2>1, <2>2, EndedOk
<1>3. CASE c.batch # c.batches
  <2>1. Answered(c) = Request(c.adapter, c.batch + 1, c.batches, 1, c.sent + 1)
    BY <1>3 DEF Answered
  <2>2. /\ c.batch + 1 \in 1 .. c.batches /\ 1 \in 1 .. MaxAttempts /\ c.sent + 1 \in Nat
        /\ c.sent + 1 <= (IF MaxAttempts = 1 THEN (c.batch + 1) - 1 ELSE 2 * ((c.batch + 1) - 1)) + 1
    BY <1>1, <1>3 DEF Counted
  <2>. QED  BY <1>1, <2>1, <2>2, RequestOk
<1>. QED  BY <1>2, <1>3

LEMMA CallInitially == CallInit => CallInv
<1>. SUFFICES ASSUME CallInit PROVE CallOk(call)
  BY DEF CallInv
<1>. DEFINE r == Request("answer", 1, 1, 1, 0)
<1>1. r \in CallRow /\ Counted(r)
  <2>1. "answer" \in Adapters /\ 1 \in 1 .. MaxAttempts
    BY CallAssumption DEF Adapters
  <2>2. 0 <= (IF MaxAttempts = 1 THEN 1 - 1 ELSE 2 * (1 - 1)) + 1
    OBVIOUS
  <2>. QED  BY <2>1, <2>2, RequestOk DEF CallOk
<1>2. r.aborted = FALSE /\ r.verdict = None /\ r.result = None
  BY DEF Request
<1>. HIDE DEF r
<1>3. call = [r EXCEPT !.phase = "idle", !.timer = "off"]
  BY DEF CallInit, Idle, r
<1>4. call \in CallRow
  BY <1>1, <1>3 DEF CallRow, CallPhases
<1>5. /\ call.phase = "idle" /\ call.timer = "off" /\ call.aborted = FALSE /\ call.verdict = None
      /\ call.result = None /\ call.batch = r.batch /\ call.batches = r.batches
      /\ call.attempt = r.attempt /\ call.sent = r.sent
  BY <1>1, <1>2, <1>3 DEF CallRow
<1>6. Counted(call)
  BY <1>1, <1>5 DEF Counted
<1>. QED  BY <1>4, <1>5, <1>6 DEF CallOk, CallOrder

(* A request that goes on: its phase, its verdict or its timer changes.     *)
LEMMA GoesOn ==
  ASSUME NEW c, CallOk(c), NEW d \in CallRow,
         /\ d.batch = c.batch /\ d.batches = c.batches /\ d.attempt = c.attempt /\ d.sent = c.sent
         /\ d.adapter = c.adapter /\ d.result = None /\ d.phase \in {"body", "drain"},
         d.phase = "body" => d.verdict = None /\ ~d.aborted /\ d.timer = "armed",
         d.phase = "drain" => d.verdict \in Refusals /\ d.timer # "off",
         d.aborted => d.adapter = "decision"
  PROVE  CallOk(d)
<1>1. Counted(d)
  BY DEF CallOk, Counted
<1>2. CallOrder(d)
  BY DEF CallOrder
<1>. QED  BY <1>1, <1>2 DEF CallOk

LEMMA CallStep == CallInv /\ [CallNext]_callVars => CallInv'
<1>. SUFFICES ASSUME CallOk(call), [CallNext]_callVars PROVE CallOk(call')
  BY DEF CallInv, CallOk, Counted, CallOrder
<1>0. call \in CallRow /\ Counted(call) /\ CallOrder(call)
  BY DEF CallOk
<1>1. ASSUME NEW adapter \in Adapters, NEW batches \in 1 .. MaxBatches, StartCall(adapter, batches)
      PROVE  CallOk(call')
  <2>1. /\ batches \in Nat /\ 1 \in 1 .. batches /\ 1 \in 1 .. MaxAttempts
        /\ 1 <= (IF MaxAttempts = 1 THEN 1 - 1 ELSE 2 * (1 - 1)) + 1
    BY CallAssumption
  <2>. QED  BY <1>1, <2>1, RequestOk DEF StartCall
<1>2. CASE Unprepared
  <2>. DEFINE r == Request("decision", 1, 1, 1, 0)
  <2>1. CallOk(r)
    <3>1. /\ "decision" \in Adapters /\ 1 \in 1 .. MaxAttempts
          /\ 0 <= (IF MaxAttempts = 1 THEN 1 - 1 ELSE 2 * (1 - 1)) + 1
      BY CallAssumption DEF Adapters
    <3>. QED  BY <3>1, RequestOk
  <2>2. r.aborted = FALSE /\ r.verdict = None
    BY DEF Request
  <2>3. call' = Ended(r, "unavailable") /\ "unavailable" \in CallResults
    BY <1>2 DEF Unprepared, CallResults
  <2>4. None \notin {"refused", "broken"}
    BY NoVerdict DEF Refusals
  <2>. HIDE DEF r
  <2>. QED  BY <2>1, <2>2, <2>3, <2>4, EndedOk DEF CallOk
<1>3. CASE Headers
  <2>1. call.phase = "headers" /\ call.verdict = None /\ call.aborted = FALSE /\ call.timer = "armed"
        /\ call.result = None
    BY <1>0, <1>3 DEF Headers, CallOrder, CallRow
  <2>2. CASE call' = [call EXCEPT !.phase = "body"]
    <3>1. call' \in CallRow
      BY <1>0, <2>2 DEF CallRow, CallPhases
    <3>. QED  BY <1>0, <2>1, <2>2, <3>1, GoesOn DEF CallRow
  <2>3. ASSUME NEW e \in Refusals, call' = [call EXCEPT !.phase = "drain", !.verdict = e]
        PROVE  CallOk(call')
    <3>1. call' \in CallRow
      BY <1>0, <2>3 DEF CallRow, CallPhases
    <3>. QED  BY <1>0, <2>1, <2>3, <3>1, GoesOn DEF CallRow
  <2>. QED  BY <1>3, <2>2, <2>3 DEF Headers
<1>4. CASE NoConnection
  <2>1. call.verdict = None /\ "unreachable" \in Events
    BY <1>0, <1>4 DEF NoConnection, CallOrder, Events
  <2>. QED  BY <1>4, <2>1, FailedOk DEF NoConnection
<1>5. CASE BodyRead
  BY <1>5, AnsweredOk DEF BodyRead
<1>6. CASE BodyFails
  <2>1. PICK e \in BodyEvents(call.adapter) : call' = Failed(call, e)
    BY <1>6 DEF BodyFails
  <2>2. e \in Events
    BY <1>0, <2>1 DEF BodyEvents, EmbeddingBody, AnswerBody, ComparisonBody, SummaryBody,
                      DecisionBody, Events, CallRow, Adapters
  <2>3. call.phase = "body" /\ call.verdict = None
    BY <1>0, <1>6 DEF BodyFails, CallOrder
  <2>. QED  BY <2>1, <2>2, <2>3, FailedOk
<1>7. CASE Drained
  <2>1. call.phase = "drain" /\ call.verdict \in Events
    BY <1>0, <1>7 DEF Drained, CallOrder, Events
  <2>. QED  BY <1>7, <2>1, FailedOk DEF Drained
<1>8. CASE TimerFires
  <2>1. call.timer = "armed" /\ call.phase \in {"headers", "body", "drain"}
    BY <1>0, <1>8 DEF TimerFires, CallRow, CallPhases, CallOrder
  <2>2. CASE call.phase \in {"headers", "body"}
    <3>1. PICK e \in {"late", "late_body"} : call' = Failed(call, e)
      BY <1>8, <2>2 DEF TimerFires
    <3>2. e \in Events /\ call.verdict = None
      BY <1>0, <2>2 DEF Events, CallOrder
    <3>. QED  BY <2>1, <3>1, <3>2, FailedOk
  <2>3. CASE call.phase = "drain"
    <3>1. call' = [call EXCEPT !.timer = "fired"]
      BY <1>8, <2>3 DEF TimerFires
    <3>2. call' \in CallRow
      BY <1>0, <3>1 DEF CallRow
    <3>3. call.verdict \in Refusals /\ call.result = None /\ (call.aborted => call.adapter = "decision")
      BY <1>0, <2>3 DEF CallOrder
    <3>. QED  BY <1>0, <2>3, <3>1, <3>2, <3>3, GoesOn DEF CallRow
  <2>. QED  BY <2>1, <2>2, <2>3
<1>9. CASE CallerLeaves
  <2>1. call.adapter = "decision" /\ call.phase \in {"headers", "body", "drain"} /\ call.result = None
    BY <1>0, <1>9 DEF CallerLeaves, CallOrder
  <2>. DEFINE left == [call EXCEPT !.aborted = TRUE]
  <2>2. /\ left \in CallRow /\ left.aborted = TRUE /\ left.adapter = call.adapter
        /\ left.batch = call.batch /\ left.batches = call.batches /\ left.attempt = call.attempt
        /\ left.sent = call.sent /\ left.result = call.result /\ left.phase = call.phase
        /\ left.verdict = call.verdict /\ left.timer = call.timer
    BY <1>0 DEF CallRow
  <2>. HIDE DEF left
  <2>3. CASE call.phase = "drain"
    <3>1. call' = left
      BY <1>9, <2>3 DEF CallerLeaves, left
    <3>2. call.verdict \in Refusals /\ call.timer # "off"
      BY <1>0, <2>3 DEF CallOrder
    <3>. QED  BY <2>1, <2>2, <2>3, <3>1, <3>2, GoesOn
  <2>4. CASE call.phase # "drain"
    <3>1. call' = Ended(left, "aborted") /\ "aborted" \in CallResults
      BY <1>9, <2>4 DEF CallerLeaves, left, CallResults
    <3>2. Counted(left)
      BY <1>0, <2>2 DEF Counted
    <3>. QED  BY <2>1, <2>2, <3>1, <3>2, EndedOk
  <2>. QED  BY <2>3, <2>4
<1>10. CASE UNCHANGED callVars
  BY <1>10 DEF callVars
<1>. QED  BY <1>1, <1>2, <1>3, <1>4, <1>5, <1>6, <1>7, <1>8, <1>9, <1>10 DEF CallNext

(* The requests, timers, verdicts and ends of a call fit together in every  *)
(* adapter, however answers, timers and the caller's signal cross.          *)
THEOREM CallInvariant == CallSpec => []CallInv
BY CallInitially, CallStep, PTL DEF CallSpec

(* A call that has ended says what happened to it: a status that refuses    *)
(* for good is told, though the timer fires while its body is thrown away,  *)
(* and an abort is told whenever the caller left (the catch clauses of the  *)
(* adapters).                                                               *)
THEOREM EndsToldRight == CallSpec => [](call.phase = "ended" => ToldRight)
<1>1. CallInv => (call.phase = "ended" => ToldRight)
  BY DEF CallInv, CallOk, CallOrder, ToldRight
<1>. QED  BY <1>1, CallInvariant, PTL

(* A call never sends more than MaxAttempts requests for a batch of texts,  *)
(* whatever the provider answers.                                           *)
THEOREM RequestsBounded == CallSpec => [](call.sent <= MaxAttempts * call.batches)
<1>1. CallInv => call.sent <= MaxAttempts * call.batches
  BY CallAssumption DEF CallInv, CallOk, CallRow, Counted
<1>. QED  BY <1>1, CallInvariant, PTL

(* Once the caller has left nothing more is sent, not even the retry of a   *)
(* failure that would be retried.                                           *)
THEOREM NothingSentAfterAbort == CallSpec => [][call.aborted => call'.sent = call.sent]_callVars
<1>1. CallInv /\ [CallNext]_callVars => [call.aborted => call'.sent = call.sent]_callVars
  <2>. SUFFICES ASSUME CallOk(call), CallNext, call.aborted PROVE call'.sent = call.sent
    BY DEF CallInv
  <2>1. call \in CallRow /\ call.phase \in {"drain", "ended"} /\ (call.phase = "drain" => call.verdict \in Refusals)
    BY DEF CallOk, CallOrder, CallRow, CallPhases
  <2>2. CASE Drained
    BY <2>1, <2>2 DEF Drained, Failed, Ended, CallRow
  <2>3. CASE TimerFires
    <3>1. call.phase = "drain" /\ call' = [call EXCEPT !.timer = "fired"]
      BY <2>1, <2>3 DEF TimerFires, CallOk, CallOrder
    <3>. QED  BY <2>1, <3>1 DEF CallRow
  <2>. QED  BY <2>1, <2>2, <2>3 DEF CallNext, StartCall, Unprepared, Headers, NoConnection,
                                    BodyRead, BodyFails, CallerLeaves
<1>. QED  BY <1>1, CallInvariant, PTL DEF CallSpec
=============================================================================
