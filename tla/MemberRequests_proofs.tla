------------------------ MODULE MemberRequests_proofs ------------------------
(***************************************************************************)
(* Proofs about what a member asks the server for: searches and summaries  *)
(* of papers (ResearchPapers), the commands of the Agent pages             *)
(* (AgentCommands), the pages that follow a run (RunFollowing), and the    *)
(* lists that are read page by page (PagedLists); for any number of        *)
(* papers, queries, searches, requests, versions, forms, intents, runs,    *)
(* rows and pages.                                                         *)
(*                                                                         *)
(* A summary is generated from a paper that may change meanwhile, by a     *)
(* generation that several requests share.  What holds the answers         *)
(* together is that a stored paper never gets older (PapersGrow), so       *)
(* whatever is read later is not older than what a request began with      *)
(* (AskedBefore), and that a generation works for the key it is kept under *)
(* (KeyedBySource); what is stored agrees with its paper because of the    *)
(* row locks (LockedCurrent).  A search shares the request in flight for   *)
(* its query, which has one job at the scheduler from its first attempt to *)
(* its last (JobsInv).  A command is repeated with the key the dialog or   *)
(* page keeps for its intent, so an intent has one key (CreationKeyed,     *)
(* RetryKeyed) and a key is stored once.  A reply about a run was true     *)
(* once, and runs only move on (WasTrue, RunsAdvance).  A list has a       *)
(* cursor, and what was there all the time is shown or still behind it     *)
(* (PlaceKept).                                                            *)
(***************************************************************************)
EXTENDS ResearchPapers, AgentCommands, RunFollowing, PagedLists, FiniteSetTheorems, TLAPS

-----------------------------------------------------------------------------
(* Papers and summaries: the inductive invariant.                           *)

Ranked == [Papers -> Nat]

AnswersTyped ==
  /\ upstream \in Ranked
  /\ \A q \in Queries : cache[q] = None \/ cache[q] \in Ranked
  /\ paper \in Ranked

(* The rows a search writes are papers that arXiv had.                      *)
SearchesTyped ==
  /\ DOMAIN search = Searches
  /\ \A r \in Searches : search[r].at = "upserting" => search[r].rows \in Ranked

Asking ==
  [at : {"source", "generation", "answer"}, source : Nat, asked : Nat, tries : 0 .. 2]
Requests == {Free} \cup Asking

GenerationsTyped ==
  /\ DOMAIN generation = Papers
  /\ \A p \in Papers : DOMAIN generation[p] = Ranks

(* A generation is kept under the key of the source it works from.          *)
KeyedBySource ==
  \A p \in Papers : \A k \in Ranks :
    generation[p][k].at # "absent" => generation[p][k].source = k

(* The paper is not older now than when the request began, and neither is   *)
(* the source the request has in hand.                                      *)
AskedBefore ==
  \A a \in Readers : request[a] # Free =>
    request[a].asked <= paper[PaperOf[a]] /\ request[a].asked <= request[a].source

ResearchInv ==
  /\ AnswersTyped
  /\ SearchesTyped
  /\ request \in [Readers -> Requests]
  /\ GenerationsTyped
  /\ KeyedBySource
  /\ AskedBefore

(* No stored paper gets older.                                              *)
PapersGrow == \A p \in Papers : paper[p] <= paper'[p]

-----------------------------------------------------------------------------
LEMMA ResearchInit == Init => ResearchInv
  BY DEF Init, SearchInit, ResearchInv, AnswersTyped, Ranked, SearchesTyped, Free, Requests,
         GenerationsTyped, KeyedBySource, Absent, AskedBefore

(* A request that is under way has its fields.                              *)
LEMMA UnderWay ==
  ASSUME NEW r \in Requests
  PROVE  /\ r # Free => r \in Asking
         /\ r.at \in {"source", "generation", "answer"} => r # Free
  BY DEF Requests, Asking, Free

(* A step that touches neither papers nor requests nor generations.         *)
LEMMA OthersKept ==
  ASSUME ResearchInv, AnswersTyped', SearchesTyped', UNCHANGED <<request, generation>>, PapersGrow
  PROVE  ResearchInv'
<1>1. AskedBefore'
  <2>. SUFFICES ASSUME NEW a \in Readers, request[a] # Free
                PROVE  request[a].asked <= paper'[PaperOf[a]] /\ request[a].asked <= request[a].source
    BY DEF AskedBefore
  <2>1. PaperOf[a] \in Papers
    BY ResearchConstants
  <2>2. request[a].asked \in Nat
    BY UnderWay DEF ResearchInv, Asking
  <2>3. /\ paper[PaperOf[a]] \in Nat /\ paper'[PaperOf[a]] \in Nat
        /\ paper[PaperOf[a]] <= paper'[PaperOf[a]]
    BY <2>1 DEF ResearchInv, AnswersTyped, Ranked, PapersGrow
  <2>. QED  BY <2>2, <2>3 DEF ResearchInv, AskedBefore
<1>. QED  BY <1>1 DEF ResearchInv, GenerationsTyped, KeyedBySource

-----------------------------------------------------------------------------
(* The searches.                                                            *)

LEMMA CacheSteps ==
  ASSUME ResearchInv,
         \/ ArxivStep
         \/ \E q \in Queries : FetchEnds(q)
         \/ \E r \in Searches, q \in Queries : BeginSearch(r, q)
  PROVE  ResearchInv' /\ UNCHANGED paper
<1>. USE DEF ResearchInv
<1>1. UNCHANGED <<paper, request, generation>>
  BY DEF ArxivStep, FetchEnds, BeginSearch, researchVars
<1>2. CASE ArxivStep
  <2>1. AnswersTyped'
    <3>1. ASSUME NEW q \in Queries, Forget(q) PROVE AnswersTyped'
      <4>1. \A c \in Queries : cache'[c] \in {cache[c], None}
        BY <3>1 DEF Forget
      <4>. QED  BY <1>1, <3>1, <4>1 DEF Forget, AnswersTyped
    <3>2. ASSUME NEW p \in Papers, Publish(p) PROVE AnswersTyped'
      BY <1>1, <3>2 DEF Publish, AnswersTyped, Ranked
    <3>. QED  BY <1>2, <3>1, <3>2 DEF ArxivStep
  <2>2. SearchesTyped'
    BY <1>2 DEF ArxivStep, researchVars, SearchesTyped
  <2>. QED  BY <1>1, <2>1, <2>2, OthersKept DEF PapersGrow, AnswersTyped, Ranked
<1>3. ASSUME NEW q \in Queries, FetchEnds(q) PROVE ResearchInv'
  <2>1. upstream' = upstream
    BY <1>3 DEF FetchEnds, FetchAnswered, FetchFailed, FetchRetried
  <2>2. \A c \in Queries : cache'[c] \in {cache[c], None, upstream}
    BY <1>3 DEF FetchEnds, FetchAnswered, FetchFailed, FetchRetried, Keep
  <2>3. AnswersTyped'
    BY <1>1, <2>1, <2>2 DEF AnswersTyped
  <2>4. SearchesTyped'
    <3>1. \/ search' = search \/ search' = Answered(q, Free)
          \/ search' = Answered(q, Upserting(q, upstream))
      BY <1>3 DEF FetchEnds
    <3>. QED  BY <3>1 DEF SearchesTyped, Answered, Upserting, Free, AnswersTyped
  <2>. QED  BY <1>1, <2>3, <2>4, OthersKept DEF PapersGrow, AnswersTyped, Ranked
<1>4. ASSUME NEW r \in Searches, NEW q \in Queries, BeginSearch(r, q) PROVE ResearchInv'
  <2>1. UNCHANGED <<upstream, cache>>
    BY <1>4 DEF BeginSearch, Join, StartRequest, searchVars
  <2>2. AnswersTyped'
    BY <1>1, <2>1 DEF AnswersTyped
  <2>3. \/ cache[q] \in Ranked /\ search' = [search EXCEPT ![r] = Upserting(q, cache[q])]
        \/ search' = [search EXCEPT ![r] = Waiting(q)]
    BY <1>4 DEF BeginSearch, Cached, Kept, AnswersTyped
  <2>4. SearchesTyped'
    BY <2>3 DEF SearchesTyped, Upserting, Waiting
  <2>. QED  BY <1>1, <2>2, <2>4, OthersKept DEF PapersGrow, AnswersTyped, Ranked
<1>. QED  BY <1>1, <1>2, <1>3, <1>4

LEMMA SearchSteps ==
  ASSUME ResearchInv, NEW r \in Searches, SearchStep(r) \/ UpsertFails(r)
  PROVE  ResearchInv' /\ PapersGrow
<1>. USE DEF ResearchInv
<1>1. UNCHANGED <<upstream, cache, request, generation>>
  BY DEF SearchStep, LockRow, CommitPapers, BreakDeadlock, UpsertFails, searchVars
<1>2. SearchesTyped'
  <2>1. \/ search' = [search EXCEPT ![r].locked = @ + 1]
        \/ search' = [search EXCEPT ![r] = Free]
    BY DEF SearchStep, LockRow, CommitPapers, BreakDeadlock, UpsertFails
  <2>2. CASE search' = [search EXCEPT ![r] = Free]
    BY <2>2 DEF SearchesTyped, Free
  <2>3. CASE search' = [search EXCEPT ![r].locked = @ + 1]
    <3>1. search'[r].at = search[r].at /\ search'[r].rows = search[r].rows
      BY <2>3 DEF SearchesTyped
    <3>2. DOMAIN search' = Searches /\ \A s \in Searches \ {r} : search'[s] = search[s]
      BY <2>3 DEF SearchesTyped
    <3>. QED  BY <3>1, <3>2 DEF SearchesTyped
  <2>. QED  BY <2>1, <2>2, <2>3
<1>3. PapersGrow /\ AnswersTyped'
  <2>1. CASE CommitPapers(r)
    <3>1. search[r].rows \in Ranked
      BY <2>1 DEF CommitPapers, SearchesTyped
    <3>. QED  BY <1>1, <2>1, <3>1 DEF CommitPapers, Refreshed, PapersGrow, AnswersTyped, Ranked
  <2>2. CASE ~CommitPapers(r)
    <3>1. paper' = paper
      BY <2>2 DEF SearchStep, LockRow, BreakDeadlock, UpsertFails
    <3>. QED  BY <1>1, <3>1 DEF PapersGrow, AnswersTyped, Ranked
  <2>. QED  BY <2>1, <2>2
<1>. QED  BY <1>1, <1>2, <1>3, OthersKept

-----------------------------------------------------------------------------
(* The requests for a summary.                                              *)

(* What every reply is, once the requests are typed and their sources are   *)
(* new enough.                                                              *)
LEMMA RequestsKept ==
  ASSUME ResearchInv, UNCHANGED <<searchVars, paper, search>>,
         GenerationsTyped', KeyedBySource',
         DOMAIN request' = Readers, request' = [a \in Readers |-> request'[a]],
         \A a \in Readers :
           \/ request'[a] = request[a] \/ request'[a] = Free
           \/ /\ request'[a] \in Asking
              /\ request'[a].asked <= paper[PaperOf[a]]
              /\ request'[a].asked <= request'[a].source
  PROVE  ResearchInv'
<1>1. AnswersTyped' /\ SearchesTyped'
  BY DEF ResearchInv, AnswersTyped, SearchesTyped, searchVars
<1>2. request' \in [Readers -> Requests]
  <2>1. \A a \in Readers : request'[a] \in Requests
    BY DEF ResearchInv, Requests
  <2>. QED  BY <2>1
<1>3. AskedBefore'
  BY DEF ResearchInv, AskedBefore
<1>. QED  BY <1>1, <1>2, <1>3 DEF ResearchInv

LEMMA ReaderSteps ==
  ASSUME ResearchInv, NEW a \in Readers, ReadSource(a) \/ ReadSummary(a) \/ ReadNoSummary(a) \/ Respond(a)
  PROVE  ResearchInv'
<1>. USE DEF ResearchInv
<1>1. UNCHANGED <<searchVars, paper, search, generation>>
  BY DEF ReadSource, ReadSummary, ReadNoSummary, Respond
<1>2. GenerationsTyped' /\ KeyedBySource'
  BY <1>1 DEF GenerationsTyped, KeyedBySource
<1>3. PICK next : request' = [request EXCEPT ![a] = next]
  BY DEF ReadSource, ReadSummary, ReadNoSummary, Respond
<1>4. \/ request'[a] = Free
      \/ /\ request'[a] \in Asking
         /\ request'[a].asked <= paper[PaperOf[a]]
         /\ request'[a].asked <= request'[a].source
  <2>1. CASE ReadSource(a)
    <3>1. paper[PaperOf[a]] \in Nat
      BY ResearchConstants DEF AnswersTyped, Ranked
    <3>2. request'[a] = [at |-> "source", source |-> paper[PaperOf[a]],
                         asked |-> paper[PaperOf[a]], tries |-> 0]
      BY <2>1 DEF ReadSource
    <3>. QED  BY <3>1, <3>2 DEF Asking
  <2>2. CASE ReadSummary(a)
    <3>. DEFINE q == request[a]
    <3>1. /\ q \in Asking
          /\ q.asked <= paper[PaperOf[a]] /\ q.asked <= q.source
      BY <2>2, UnderWay DEF ReadSummary, AskedBefore
    <3>2. request'[a] = [q EXCEPT !.at = "answer", !.source = q.source]
      BY <2>2 DEF ReadSummary, Fresh
    <3>3. q.source \in Nat /\ 0 \in 0 .. 2
      BY <3>1 DEF Asking
    <3>. HIDE DEF q
    <3>4. request'[a] \in Asking /\ request'[a].asked = q.asked /\ request'[a].source = q.source
      BY <3>1, <3>2, <3>3 DEF Asking
    <3>. QED  BY <3>1, <3>4
  <2>3. CASE ReadNoSummary(a) \/ Respond(a)
    BY <2>3 DEF ReadNoSummary, Respond
  <2>. QED  BY <2>1, <2>2, <2>3
<1>. QED  BY <1>1, <1>2, <1>3, <1>4, RequestsKept

-----------------------------------------------------------------------------
(* The generations.                                                         *)

(* A generation of the source it is joined or started for.                  *)
LEMMA Coalescing ==
  ASSUME NEW g, NEW p \in Papers, NEW v,
         DOMAIN g = Papers, \A x \in Papers : DOMAIN g[x] = Ranks,
         \A x \in Papers : \A k \in Ranks : g[x][k].at # "absent" => g[x][k].source = k,
         NEW h, h = Coalesced(g, p, v)
  PROVE  /\ DOMAIN h = Papers /\ \A x \in Papers : DOMAIN h[x] = Ranks
         /\ \A x \in Papers : \A k \in Ranks : h[x][k].at # "absent" => h[x][k].source = k
  BY DEF Coalesced, Key, Generation

LEMMA BeginSteps ==
  ASSUME ResearchInv, NEW a \in Readers, BeginGeneration(a)
  PROVE  ResearchInv'
<1>. USE DEF ResearchInv
<1>. DEFINE q == request[a]
<1>1. /\ UNCHANGED <<searchVars, paper, search>>
      /\ generation' = Coalesced(generation, PaperOf[a], q.source)
      /\ request' = [request EXCEPT ![a] = [q EXCEPT !.at = "generation", !.tries = 1]]
  BY DEF BeginGeneration
<1>2. GenerationsTyped' /\ KeyedBySource'
  <2>1. PaperOf[a] \in Papers
    BY ResearchConstants
  <2>. HIDE DEF q
  <2>. QED  BY <1>1, <2>1, Coalescing DEF GenerationsTyped, KeyedBySource
<1>3. /\ q \in Asking
      /\ q.asked <= paper[PaperOf[a]] /\ q.asked <= q.source
  BY UnderWay DEF BeginGeneration, AskedBefore
<1>. HIDE DEF q
<1>4. /\ request'[a] \in Asking
      /\ request'[a].asked <= paper[PaperOf[a]]
      /\ request'[a].asked <= request'[a].source
  <2>1. 1 \in 0 .. 2 /\ q.source \in Nat
    BY <1>3 DEF Asking
  <2>. DEFINE r == [q EXCEPT !.at = "generation", !.tries = 1]
  <2>3. r \in Asking /\ r.asked = q.asked /\ r.source = q.source
    BY <1>3, <2>1 DEF Asking
  <2>4. request'[a] = r
    BY <1>1
  <2>. HIDE DEF r
  <2>. QED  BY <1>3, <2>3, <2>4
<1>. QED  BY <1>1, <1>2, <1>4, RequestsKept

(* Those who wait for a generation know its source.                         *)
LEMMA Waiters ==
  ASSUME ResearchInv, NEW a \in Readers, NEW p, NEW k, Awaits(a, p, k)
  PROVE  /\ request[a] \in Asking
         /\ PaperOf[a] = p /\ request[a].source = k
         /\ request[a].asked <= paper[p] /\ request[a].asked <= k
         /\ p \in Papers /\ paper[p] \in Nat
  BY UnderWay, ResearchConstants DEF ResearchInv, Awaits, Key, AskedBefore, AnswersTyped, Ranked

(* A generation that ends leaves its key.                                   *)
LEMMA Clearing ==
  ASSUME ResearchInv, NEW p \in Papers, NEW k \in Ranks,
         NEW g, g = [generation EXCEPT ![p][k] = Absent]
  PROVE  /\ DOMAIN g = Papers /\ \A x \in Papers : DOMAIN g[x] = Ranks
         /\ \A x \in Papers : \A j \in Ranks : g[x][j].at # "absent" => g[x][j].source = j
  BY DEF ResearchInv, GenerationsTyped, KeyedBySource, Absent

LEMMA RetrySteps ==
  ASSUME ResearchInv, NEW p \in Papers, NEW k \in Ranks,
         RetryWith(p, k, paper[p]), UNCHANGED <<searchVars, paper, summary, search>>
  PROVE  ResearchInv'
<1>. DEFINE again == {a \in Readers : Awaits(a, p, k) /\ request[a].tries < 2}
            cleared == [generation EXCEPT ![p][k] = Absent]
            again2(a) == [request[a] EXCEPT !.source = paper[p], !.tries = 2]
<1>1. /\ generation' = IF again = {} THEN cleared ELSE Coalesced(cleared, p, paper[p])
      /\ request' = [a \in Readers |->
           IF Awaits(a, p, k) THEN [b \in Readers |-> IF b \in again THEN again2(b) ELSE Free][a]
           ELSE request[a]]
  BY DEF RetryWith, Over
<1>2. GenerationsTyped' /\ KeyedBySource'
  <2>1. /\ DOMAIN cleared = Papers /\ \A x \in Papers : DOMAIN cleared[x] = Ranks
        /\ \A x \in Papers : \A j \in Ranks : cleared[x][j].at # "absent" => cleared[x][j].source = j
    <3>1. PICK g : g = cleared
      OBVIOUS
    <3>2. /\ DOMAIN g = Papers /\ \A x \in Papers : DOMAIN g[x] = Ranks
          /\ \A x \in Papers : \A j \in Ranks : g[x][j].at # "absent" => g[x][j].source = j
      BY <3>1, Clearing
    <3>. HIDE DEF cleared
    <3>. QED  BY <3>1, <3>2
  <2>2. generation' = cleared \/ generation' = Coalesced(cleared, p, paper[p])
    BY <1>1
  <2>. HIDE DEF cleared, again
  <2>3. /\ DOMAIN generation' = Papers /\ \A x \in Papers : DOMAIN generation'[x] = Ranks
        /\ \A x \in Papers : \A j \in Ranks :
             generation'[x][j].at # "absent" => generation'[x][j].source = j
    BY <2>1, <2>2, Coalescing
  <2>. QED  BY <2>3 DEF GenerationsTyped, KeyedBySource
<1>3. ASSUME NEW a \in Readers
      PROVE  \/ request'[a] = request[a] \/ request'[a] = Free
             \/ /\ request'[a] \in Asking
                /\ request'[a].asked <= paper[PaperOf[a]]
                /\ request'[a].asked <= request'[a].source
  <2>1. CASE a \in again
    <3>1. Awaits(a, p, k) /\ request'[a] = again2(a)
      BY <1>1, <2>1
    <3>2. /\ request[a] \in Asking /\ PaperOf[a] = p /\ paper[p] \in Nat
          /\ request[a].asked <= paper[p] /\ 2 \in 0 .. 2
      BY <3>1, Waiters
    <3>. DEFINE q == request[a]
                r == request'[a]
    <3>3. q \in Asking /\ r = [q EXCEPT !.source = paper[p], !.tries = 2]
      BY <3>1, <3>2
    <3>. HIDE DEF q, r
    <3>4. r \in Asking /\ r.asked = q.asked /\ r.source = paper[p]
      BY <3>2, <3>3 DEF Asking
    <3>. QED  BY <3>2, <3>4 DEF q, r
  <2>2. CASE a \notin again
    BY <1>1, <2>2
  <2>. QED  BY <2>1, <2>2
<1>4. DOMAIN request' = Readers /\ request' = [a \in Readers |-> request'[a]]
  BY <1>1
<1>. QED  BY <1>2, <1>3, <1>4, RequestsKept

LEMMA StageSteps ==
  ASSUME ResearchInv, NEW p \in Papers, NEW k \in Ranks, NEW from, NEW next, from # "absent",
         Stage(p, k, from, next), UNCHANGED <<searchVars, paper, search>>
  PROVE  ResearchInv'
<1>1. GenerationsTyped' /\ KeyedBySource'
  <2>1. generation' = [generation EXCEPT ![p] = [generation[p] EXCEPT ![k] = [generation[p][k] EXCEPT !.at = next]]]
    BY DEF Stage
  <2>2. generation[p][k].source = k
    BY DEF Stage, ResearchInv, KeyedBySource
  <2>3. [generation[p][k] EXCEPT !.at = next].source = generation[p][k].source
    OBVIOUS
  <2>. QED  BY <2>1, <2>2, <2>3 DEF ResearchInv, GenerationsTyped, KeyedBySource
<1>2. UNCHANGED request /\ request \in [Readers -> Requests]
  BY DEF Stage, ResearchInv
<1>. QED  BY <1>1, <1>2, RequestsKept

LEMMA EndSteps ==
  ASSUME ResearchInv, NEW p \in Papers, NEW k \in Ranks, CommitSummary(p, k) \/ GenerationFails(p, k)
  PROVE  ResearchInv'
<1>. DEFINE delivered(a) == [request[a] EXCEPT !.at = "answer", !.source = k, !.tries = 0]
<1>1. /\ UNCHANGED <<searchVars, paper, search>>
      /\ generation' = [generation EXCEPT ![p][k] = Absent]
  BY DEF CommitSummary, GenerationFails
<1>2. GenerationsTyped' /\ KeyedBySource'
  BY <1>1, Clearing DEF GenerationsTyped, KeyedBySource
<1>3. \/ Over(p, k, [a \in Readers |-> delivered(a)])
      \/ Over(p, k, Lost)
  <2>1. CASE CommitSummary(p, k)
    <3>1. generation[p][k].source = k
      BY <2>1 DEF CommitSummary, ResearchInv, KeyedBySource
    <3>. QED  BY <2>1, <3>1 DEF CommitSummary
  <2>2. CASE GenerationFails(p, k)
    BY <2>2 DEF GenerationFails
  <2>. QED  BY <2>1, <2>2
<1>4. /\ DOMAIN request' = Readers /\ request' = [a \in Readers |-> request'[a]]
      /\ \A a \in Readers : \/ request'[a] = request[a] \/ request'[a] = Free
                            \/ Awaits(a, p, k) /\ request'[a] = delivered(a)
  BY <1>3 DEF Over, Lost
<1>5. ASSUME NEW a \in Readers, Awaits(a, p, k), request'[a] = delivered(a)
      PROVE  /\ request'[a] \in Asking
             /\ request'[a].asked <= paper[PaperOf[a]]
             /\ request'[a].asked <= request'[a].source
  <2>1. /\ request[a] \in Asking /\ PaperOf[a] = p /\ k = request[a].source
        /\ request[a].asked <= paper[p] /\ request[a].asked <= k /\ 0 \in 0 .. 2
    BY <1>5, Waiters
  <2>2. k \in Nat
    BY <2>1 DEF Asking
  <2>. DEFINE q == request[a]
              r == request'[a]
  <2>3. q \in Asking /\ r = [q EXCEPT !.at = "answer", !.source = k, !.tries = 0]
    BY <1>5, <2>1
  <2>. HIDE DEF q, r
  <2>4. r \in Asking /\ r.asked = q.asked /\ r.source = k
    BY <2>1, <2>2, <2>3 DEF Asking
  <2>. QED  BY <2>1, <2>4 DEF q, r
<1>. QED  BY <1>1, <1>2, <1>4, <1>5, RequestsKept

LEMMA GenerationSteps ==
  ASSUME ResearchInv, NEW p \in Papers, NEW k \in Ranks, GenerationStep(p, k)
  PROVE  ResearchInv'
<1>1. CASE RecheckSource(p, k)
  BY <1>1, StageSteps, RetrySteps DEF RecheckSource
<1>2. CASE LockSource(p, k)
  BY <1>2, StageSteps DEF LockSource
<1>3. CASE ReadChangedSource(p, k)
  BY <1>3, RetrySteps DEF ReadChangedSource
<1>. QED  BY <1>1, <1>2, <1>3, EndSteps DEF GenerationStep

-----------------------------------------------------------------------------
LEMMA ResearchKept ==
  ASSUME ResearchInv, [Next]_vars
  PROVE  ResearchInv' /\ PapersGrow
<1>1. CASE \/ ArxivStep \/ \E q \in Queries : FetchEnds(q)
           \/ \E r \in Searches, q \in Queries : BeginSearch(r, q)
  BY <1>1, CacheSteps DEF PapersGrow, ResearchInv, AnswersTyped, Ranked
<1>2. CASE \E r \in Searches : SearchStep(r) \/ UpsertFails(r)
  BY <1>2, SearchSteps
<1>3. CASE \/ \E a \in Readers : ReadSource(a) \/ ReaderStep(a)
           \/ \E p \in Papers, k \in Ranks : GenerationStep(p, k)
  <2>1. ResearchInv'
    BY <1>3, ReaderSteps, BeginSteps, GenerationSteps DEF ReaderStep
  <2>2. UNCHANGED paper
    BY <1>3 DEF ReadSource, ReaderStep, ReadSummary, ReadNoSummary, BeginGeneration, Respond,
       GenerationStep, RecheckSource, LockSource, ReadChangedSource, CommitSummary, GenerationFails
  <2>. QED  BY <2>1, <2>2 DEF PapersGrow, ResearchInv, AnswersTyped, Ranked
<1>4. CASE UNCHANGED vars
  BY <1>4 DEF vars, searchVars, researchVars, ResearchInv, AnswersTyped, Ranked, SearchesTyped,
     GenerationsTyped, KeyedBySource, AskedBefore, PapersGrow
<1>. QED  BY <1>1, <1>2, <1>3, <1>4 DEF Next

(* Generations are kept under the keys of their sources, and no request is  *)
(* ahead of the paper it asks about.                                        *)
THEOREM ResearchInvariant == Spec => []ResearchInv
  BY ResearchInit, ResearchKept, PTL DEF Spec

(* A stored paper never gets older, in whichever order overlapping searches *)
(* commit the answers they were given.                                      *)
THEOREM PapersNeverOlder == Spec => [][PapersGrow]_vars
  BY ResearchInvariant, ResearchKept, PTL DEF Spec

(* Whoever asks for a summary never gets one of a paper older than the one  *)
(* that was stored when they asked.                                         *)
THEOREM AnswersNeverOlder == Spec => []AnswerNotOlder
<1>1. ResearchInv => AnswerNotOlder
  BY UnderWay DEF ResearchInv, AnswerNotOlder, AskedBefore
<1>. QED  BY <1>1, ResearchInvariant, PTL

-----------------------------------------------------------------------------
(* The rows: a summary is committed while its paper is what it was made     *)
(* from.                                                                    *)

(* A summary that is being stored was made from the paper as it is, and no  *)
(* search has locked that paper to replace it.                              *)
LockedCurrent ==
  \A p \in Papers : \A k \in Ranks : generation[p][k].at = "locked" =>
    k = paper[p] /\ \A r \in Searches : p \notin Locked(r)

RowsInv ==
  /\ \A r \in Searches : search[r].at = "upserting" => search[r].locked \in Nat
  /\ LockedCurrent

LEMMA RowsInit == Init => RowsInv
  BY DEF Init, RowsInv, LockedCurrent, Free, Absent

(* The next row a search locks is the one it asked for.                     *)
LEMMA NextRow ==
  ASSUME ResearchInv, RowsInv, NEW r \in Searches, LockRow(r)
  PROVE  /\ Locked(r)' \subseteq Locked(r) \cup {Wanted(r)}
         /\ search'[r].locked \in Nat
<1>1. search[r].at = "upserting" /\ search[r].locked \in Nat
  BY DEF LockRow, Wanted, RowsInv
<1>2. /\ search'[r].at = search[r].at /\ search'[r].query = search[r].query
      /\ search'[r].locked = search[r].locked + 1
  BY DEF LockRow, ResearchInv, SearchesTyped
<1>3. Wanted(r) = Order[search[r].query][search[r].locked + 1]
  BY <1>1 DEF LockRow, Wanted
<1>4. ASSUME NEW x \in Locked(r)' PROVE x \in Locked(r) \cup {Wanted(r)}
  <2>1. PICK i \in 1 .. search[r].locked + 1 : x = Order[search[r].query][i]
    BY <1>1, <1>2, <1>4 DEF Locked
  <2>2. CASE i = search[r].locked + 1
    BY <1>3, <2>1, <2>2
  <2>3. CASE i # search[r].locked + 1
    <3>1. i \in 1 .. search[r].locked
      BY <1>1, <2>3
    <3>. QED  BY <1>1, <2>1, <3>1 DEF Locked
  <2>. QED  BY <2>2, <2>3
<1>. QED  BY <1>1, <1>2, <1>4

(* The other searches hold what they held, or nothing.                      *)
LEMMA OtherRows ==
  ASSUME ResearchInv, RowsInv, NEW r \in Searches,
         \/ CommitPapers(r) \/ UpsertFails(r) \/ \E s \in Searches : BreakDeadlock(r, s)
  PROVE  \A s \in Searches : /\ Locked(s)' \subseteq Locked(s)
                             /\ search'[s].at = "upserting" => search'[s].locked \in Nat
<1>1. search' = [search EXCEPT ![r] = Free]
  BY DEF CommitPapers, UpsertFails, BreakDeadlock
<1>2. Free.at # "upserting"
  BY DEF Free
<1>3. ASSUME NEW s \in Searches
      PROVE  /\ Locked(s)' \subseteq Locked(s)
             /\ search'[s].at = "upserting" => search'[s].locked \in Nat
  <2>1. CASE s = r
    BY <1>1, <1>2, <2>1 DEF ResearchInv, SearchesTyped, Locked
  <2>2. CASE s # r
    <3>1. search'[s] = search[s]
      BY <1>1, <2>2 DEF ResearchInv, SearchesTyped
    <3>. QED  BY <3>1 DEF Locked, RowsInv
  <2>. QED  BY <2>1, <2>2
<1>. QED  BY <1>3

LEMMA StoringRows ==
  ASSUME ResearchInv, RowsInv, NEW r \in Searches, SearchStep(r) \/ UpsertFails(r)
  PROVE  RowsInv'
<1>1. UNCHANGED generation
  BY DEF SearchStep, UpsertFails, LockRow, CommitPapers, BreakDeadlock
<1>2. CASE LockRow(r)
  <2>1. paper' = paper /\ \A s \in Searches \ {r} : search'[s] = search[s]
    BY <1>2 DEF LockRow, ResearchInv, SearchesTyped
  <2>2. \A s \in Searches \ {r} : Locked(s)' = Locked(s)
    BY <2>1 DEF Locked
  <2>3. \A p \in Papers : \A k \in Ranks : generation[p][k].at = "locked" => p # Wanted(r)
    BY <1>2 DEF LockRow, Shared
  <2>4. LockedCurrent'
    BY <1>1, <1>2, <2>1, <2>2, <2>3, NextRow DEF RowsInv, LockedCurrent
  <2>. QED  BY <1>2, <2>1, <2>4, NextRow DEF RowsInv
<1>3. CASE CommitPapers(r) \/ UpsertFails(r) \/ \E s \in Searches : BreakDeadlock(r, s)
  <2>1. \A p \in Papers : p \notin Locked(r) => paper'[p] = paper[p]
    BY <1>3 DEF CommitPapers, UpsertFails, BreakDeadlock
  <2>. QED  BY <1>1, <1>3, <2>1, OtherRows DEF RowsInv, LockedCurrent
<1>. QED  BY <1>2, <1>3 DEF SearchStep

(* A search that begins or is answered holds nothing yet.                   *)
LEMMA FreshRows ==
  ASSUME ResearchInv, RowsInv,
         \/ \E r \in Searches, q \in Queries : BeginSearch(r, q)
         \/ \E q \in Queries : FetchEnds(q)
  PROVE  RowsInv'
<1>1. UNCHANGED <<paper, generation>>
  BY DEF BeginSearch, FetchEnds
<1>2. ASSUME NEW s \in Searches
      PROVE  \/ search'[s] = search[s]
             \/ search'[s].at # "upserting"
             \/ search'[s].at = "upserting" /\ search'[s].locked = 0
  <2>1. ASSUME NEW r \in Searches, NEW q \in Queries, BeginSearch(r, q)
        PROVE  \/ search'[s] = search[s]
               \/ search'[s] = Waiting(q)
               \/ search'[s] = Upserting(q, cache[q])
    BY <2>1 DEF BeginSearch, ResearchInv, SearchesTyped
  <2>2. ASSUME NEW q \in Queries, FetchEnds(q)
        PROVE  \/ search'[s] = search[s]
               \/ search'[s] = Free
               \/ search'[s] = Upserting(q, upstream)
    BY <2>2 DEF FetchEnds, Answered
  <2>3. /\ Free.at # "upserting"
        /\ \A q \in Queries : /\ Waiting(q).at # "upserting"
                             /\ \A a : Upserting(q, a).at = "upserting" /\ Upserting(q, a).locked = 0
    BY DEF Waiting, Upserting, Free
  <2>4. CASE \E r \in Searches, q \in Queries : BeginSearch(r, q)
    BY <2>1, <2>3, <2>4
  <2>5. CASE \E q \in Queries : FetchEnds(q)
    BY <2>2, <2>3, <2>5
  <2>. QED  BY <2>4, <2>5
<1>3. ASSUME NEW s \in Searches
      PROVE  /\ Locked(s)' \subseteq Locked(s)
             /\ search'[s].at = "upserting" => search'[s].locked \in Nat
  <2>1. CASE search'[s] = search[s]
    BY <2>1 DEF Locked, RowsInv
  <2>2. CASE search'[s].at # "upserting"
    BY <2>2 DEF Locked
  <2>3. CASE search'[s].at = "upserting" /\ search'[s].locked = 0
    BY <2>3 DEF Locked
  <2>. QED  BY <1>2, <2>1, <2>2, <2>3
<1>. QED  BY <1>1, <1>3 DEF RowsInv, LockedCurrent

(* A generation reaches its lock only while no search holds the row.        *)
LEMMA GenerationRows ==
  ASSUME ResearchInv, RowsInv, NEW p \in Papers, NEW k \in Ranks, GenerationStep(p, k)
  PROVE  RowsInv'
<1>1. UNCHANGED <<paper, search>>
  BY DEF GenerationStep, RecheckSource, LockSource, ReadChangedSource, CommitSummary, GenerationFails
<1>2. ASSUME \A x \in Papers : \A j \in Ranks : generation'[x][j].at = "locked" =>
               generation[x][j].at = "locked" \/ (x = p /\ j = k /\ LockSource(p, k) /\ k = paper[p])
      PROVE  RowsInv'
  <2>1. \A r \in Searches : Locked(r)' = Locked(r)
    BY <1>1 DEF Locked
  <2>. QED  BY <1>1, <1>2, <2>1 DEF RowsInv, LockedCurrent, LockSource
<1>3. ASSUME NEW from, NEW next, Stage(p, k, from, next), NEW x \in Papers, NEW j \in Ranks
      PROVE  /\ x # p \/ j # k => generation'[x][j] = generation[x][j]
             /\ x = p /\ j = k => generation'[x][j].at \in {from, next}
  BY <1>3 DEF Stage, ResearchInv, GenerationsTyped
<1>4. ASSUME NEW g, NEW x \in Papers, NEW v, DOMAIN g = Papers, \A y \in Papers : DOMAIN g[y] = Ranks,
             NEW y \in Papers, NEW j \in Ranks, Coalesced(g, x, v)[y][j].at = "locked"
      PROVE  g[y][j].at = "locked"
  BY <1>4 DEF Coalesced, Key, Generation
<1>5. ASSUME NEW g, g = [generation EXCEPT ![p][k] = Absent], NEW y \in Papers, NEW j \in Ranks,
             g[y][j].at = "locked"
      PROVE  generation[y][j].at = "locked"
  BY <1>5 DEF Absent, ResearchInv, GenerationsTyped
<1>6. ASSUME RetryWith(p, k, paper[p]), NEW y \in Papers, NEW j \in Ranks, generation'[y][j].at = "locked"
      PROVE  generation[y][j].at = "locked"
  <2>1. PICK g : g = [generation EXCEPT ![p][k] = Absent]
    OBVIOUS
  <2>2. generation' = g \/ generation' = Coalesced(g, p, paper[p])
    BY <1>6, <2>1 DEF RetryWith
  <2>3. DOMAIN g = Papers /\ \A x \in Papers : DOMAIN g[x] = Ranks
    BY <2>1, Clearing
  <2>4. g[y][j].at = "locked"
    BY <1>4, <1>6, <2>2, <2>3
  <2>. QED  BY <1>5, <2>1, <2>4
<1>7. CASE RecheckSource(p, k)
  <2>1. Stage(p, k, "generating", "checked") \/ RetryWith(p, k, paper[p])
    BY <1>7 DEF RecheckSource
  <2>2. CASE Stage(p, k, "generating", "checked")
    BY <1>2, <1>3, <2>2
  <2>. QED  BY <1>2, <1>6, <2>1, <2>2
<1>8. CASE LockSource(p, k)
  <2>1. CASE Stage(p, k, "checked", "locked") /\ generation[p][k].source = paper[p]
    <3>1. k = paper[p]
      BY <2>1 DEF Stage, ResearchInv, KeyedBySource
    <3>. QED  BY <1>2, <1>3, <1>8, <2>1, <3>1
  <2>2. CASE Stage(p, k, "checked", "changed")
    BY <1>2, <1>3, <2>2
  <2>. QED  BY <1>8, <2>1, <2>2 DEF LockSource
<1>9. CASE ReadChangedSource(p, k)
  BY <1>2, <1>6, <1>9 DEF ReadChangedSource
<1>10. CASE CommitSummary(p, k) \/ GenerationFails(p, k)
  <2>1. generation' = [generation EXCEPT ![p][k] = Absent]
    BY <1>10 DEF CommitSummary, GenerationFails
  <2>. QED  BY <1>2, <1>5, <2>1
<1>. QED  BY <1>7, <1>8, <1>9, <1>10 DEF GenerationStep

LEMMA RowsKept ==
  ASSUME ResearchInv, RowsInv, [Next]_vars
  PROVE  RowsInv'
<1>1. ASSUME UNCHANGED <<paper, search, generation>> PROVE RowsInv'
  BY <1>1 DEF RowsInv, LockedCurrent, Locked
<1>2. CASE UNCHANGED vars
  BY <1>1, <1>2 DEF vars, researchVars
<1>3. CASE ArxivStep
  BY <1>1, <1>3 DEF ArxivStep, researchVars
<1>4. ASSUME NEW a \in Readers, ReadSource(a) \/ ReaderStep(a) PROVE RowsInv'
  <2>1. CASE BeginGeneration(a)
    <3>1. /\ UNCHANGED <<paper, search>> /\ PaperOf[a] \in Papers
          /\ generation' = Coalesced(generation, PaperOf[a], request[a].source)
      BY <2>1, ResearchConstants DEF BeginGeneration
    <3>2. ASSUME NEW y \in Papers, NEW j \in Ranks, generation'[y][j].at = "locked"
          PROVE  generation[y][j].at = "locked"
      BY <3>1, <3>2 DEF Coalesced, Key, Generation, ResearchInv, GenerationsTyped
    <3>. QED  BY <3>1, <3>2 DEF RowsInv, LockedCurrent, Locked
  <2>. QED  BY <1>1, <1>4, <2>1 DEF ReadSource, ReaderStep, ReadSummary, ReadNoSummary, Respond
<1>. QED  BY <1>2, <1>3, <1>4, StoringRows, FreshRows, GenerationRows DEF Next

THEOREM RowsInvariant == Spec => []RowsInv
  BY ResearchInvariant, RowsInit, RowsKept, PTL DEF Spec

(* A summary is stored only while the paper it was made from is the paper   *)
(* that is stored: whatever a search has done since the generation began,   *)
(* the comparison under the lock sees it, and none does anything before     *)
(* the lock is given back.                                                  *)
THEOREM SummariesCurrent ==
  Spec => [][\A p \in Papers : summary'[p] # summary[p] => summary'[p] = paper[p]]_vars
<1>1. ASSUME ResearchInv, RowsInv, [Next]_vars, NEW p \in Papers, summary'[p] # summary[p]
      PROVE  summary'[p] = paper[p]
  <2>1. PICK x \in Papers, k \in Ranks : CommitSummary(x, k)
    BY <1>1 DEF Next, ArxivStep, BeginSearch, FetchEnds, SearchStep, UpsertFails, LockRow, CommitPapers,
       BreakDeadlock, ReadSource, ReaderStep, ReadSummary, ReadNoSummary, BeginGeneration, Respond,
       GenerationStep, RecheckSource, LockSource, ReadChangedSource, GenerationFails, vars, researchVars
  <2>2. /\ summary' = [summary EXCEPT ![x] = generation[x][k].source]
        /\ generation[x][k].at = "locked"
    BY <2>1 DEF CommitSummary
  <2>3. generation[x][k].source = paper[x]
    BY <1>1, <2>2 DEF ResearchInv, KeyedBySource, RowsInv, LockedCurrent
  <2>. QED  BY <1>1, <2>2, <2>3
<1>2. ResearchInv /\ RowsInv /\ [Next]_vars =>
        [\A p \in Papers : summary'[p] # summary[p] => summary'[p] = paper[p]]_vars
  BY <1>1
<1>. QED  BY <1>2, ResearchInvariant, RowsInvariant, PTL DEF Spec

-----------------------------------------------------------------------------
(* Searches: a search that waits has a job, and a query never two.          *)

(* Every place in the line holds another query than the others and than the *)
(* job that runs, and nothing waits behind nothing.                         *)
Lined(line, job) ==
  /\ line \in Seq(Queries) /\ job \in Queries \cup {None}
  /\ \A i, j \in 1 .. Len(line) : line[i] = line[j] => i = j
  /\ \A i \in 1 .. Len(line) : line[i] # job
  /\ job = None => line = <<>>

(* The query has the job that runs, or one that waits.                      *)
HasJob(q, line, job) == job = q \/ \E i \in 1 .. Len(line) : line[i] = q

(* A search waits only for a request in flight.                             *)
WaitersServed ==
  \A r \in Searches : \A q \in Queries : search[r] = Waiting(q) => attempt[q] > 0

JobsInv ==
  /\ DOMAIN search = Searches
  /\ attempt \in [Queries -> 0 .. MaxAttempts]
  /\ Lined(queue, active)
  /\ \A q \in Queries : attempt[q] > 0 <=> HasJob(q, queue, active)
  /\ WaitersServed

LEMMA DrainedLine ==
  ASSUME NEW jobs \in Seq(Queries), Drained(jobs),
         \A i, j \in 1 .. Len(jobs) : jobs[i] = jobs[j] => i = j
  PROVE  /\ Lined(queue', active')
         /\ \A q \in Queries : HasJob(q, queue', active') <=> \E i \in 1 .. Len(jobs) : jobs[i] = q
<1>. USE SearchBounds DEF Drained, Lined, HasJob
<1>1. CASE jobs = <<>>
  BY <1>1
<1>2. CASE jobs # <<>>
  <2>1. /\ queue' = Tail(jobs) /\ active' = jobs[1] /\ jobs[1] \in Queries
        /\ Tail(jobs) \in Seq(Queries) /\ Len(Tail(jobs)) = Len(jobs) - 1 /\ Len(jobs) \in Nat \ {0}
        /\ \A i \in 1 .. Len(Tail(jobs)) : Tail(jobs)[i] = jobs[i + 1]
    BY <1>2
  <2>2. Lined(queue', active')
    BY <2>1
  <2>3. ASSUME NEW q \in Queries
        PROVE  HasJob(q, queue', active') <=> \E i \in 1 .. Len(jobs) : jobs[i] = q
    <3>1. ASSUME NEW i \in 1 .. Len(jobs), jobs[i] = q PROVE HasJob(q, queue', active')
      <4>1. CASE i = 1
        BY <2>1, <3>1, <4>1
      <4>2. CASE i # 1
        <5>1. i - 1 \in 1 .. Len(Tail(jobs)) /\ Tail(jobs)[i - 1] = q
          BY <2>1, <3>1, <4>2
        <5>. QED  BY <2>1, <5>1
      <4>. QED  BY <4>1, <4>2
    <3>2. ASSUME HasJob(q, queue', active') PROVE \E i \in 1 .. Len(jobs) : jobs[i] = q
      <4>1. CASE active' = q
        BY <2>1, <4>1
      <4>2. ASSUME NEW i \in 1 .. Len(Tail(jobs)), Tail(jobs)[i] = q
            PROVE  \E n \in 1 .. Len(jobs) : jobs[n] = q
        <5>1. i + 1 \in 1 .. Len(jobs) /\ jobs[i + 1] = q
          BY <2>1, <4>2
        <5>. QED  BY <5>1
      <4>. QED  BY <2>1, <3>2, <4>1, <4>2
    <3>. QED  BY <3>1, <3>2
  <2>. QED  BY <2>2, <2>3
<1>. QED  BY <1>1, <1>2

LEMMA AppendedLine ==
  ASSUME NEW line \in Seq(Queries), NEW q \in Queries,
         \A i, j \in 1 .. Len(line) : line[i] = line[j] => i = j,
         \A i \in 1 .. Len(line) : line[i] # q
  PROVE  /\ Append(line, q) \in Seq(Queries)
         /\ \A i, j \in 1 .. Len(Append(line, q)) : Append(line, q)[i] = Append(line, q)[j] => i = j
         /\ \A c \in Queries : (\E i \in 1 .. Len(Append(line, q)) : Append(line, q)[i] = c)
                                 <=> c = q \/ \E i \in 1 .. Len(line) : line[i] = c
<1>1. /\ Append(line, q) \in Seq(Queries) /\ Len(Append(line, q)) = Len(line) + 1 /\ Len(line) \in Nat
      /\ \A i \in 1 .. Len(line) : Append(line, q)[i] = line[i]
      /\ Append(line, q)[Len(line) + 1] = q
  OBVIOUS
<1>2. \A i, j \in 1 .. Len(Append(line, q)) : Append(line, q)[i] = Append(line, q)[j] => i = j
  BY <1>1
<1>3. ASSUME NEW c \in Queries
      PROVE  (\E i \in 1 .. Len(Append(line, q)) : Append(line, q)[i] = c)
               <=> c = q \/ \E i \in 1 .. Len(line) : line[i] = c
  <2>1. ASSUME NEW i \in 1 .. Len(Append(line, q)), Append(line, q)[i] = c
        PROVE  c = q \/ \E n \in 1 .. Len(line) : line[n] = c
    BY <1>1, <2>1
  <2>2. Len(line) + 1 \in 1 .. Len(Append(line, q))
    BY <1>1
  <2>3. \A i \in 1 .. Len(line) : i \in 1 .. Len(Append(line, q))
    BY <1>1
  <2>. QED  BY <1>1, <2>1, <2>2, <2>3
<1>. QED  BY <1>1, <1>2, <1>3

LEMMA ScheduledLine ==
  ASSUME Lined(queue, active), NEW q \in Queries, ~HasJob(q, queue, active), Scheduled(q)
  PROVE  /\ Lined(queue', active')
         /\ \A c \in Queries : HasJob(c, queue', active') <=> c = q \/ HasJob(c, queue, active)
<1>1. CASE active = None
  <2>1. Drained(<<q>>) /\ <<q>> \in Seq(Queries) /\ Len(<<q>>) = 1 /\ <<q>>[1] = q /\ queue = <<>>
    BY <1>1 DEF Scheduled, Lined
  <2>2. queue' = <<>> /\ active' = q
    BY <2>1 DEF Drained
  <2>. QED  BY <1>1, <2>1, <2>2, SearchBounds DEF Lined, HasJob
<1>2. CASE active # None
  <2>1. queue' = Append(queue, q) /\ active' = active
    BY <1>2 DEF Scheduled
  <2>2. /\ Append(queue, q) \in Seq(Queries)
        /\ \A i, j \in 1 .. Len(Append(queue, q)) : Append(queue, q)[i] = Append(queue, q)[j] => i = j
        /\ \A c \in Queries : (\E i \in 1 .. Len(Append(queue, q)) : Append(queue, q)[i] = c)
                                <=> c = q \/ \E i \in 1 .. Len(queue) : queue[i] = c
    BY AppendedLine DEF Lined, HasJob
  <2>3. active \in Queries /\ active # q /\ \A i \in 1 .. Len(queue) : queue[i] # active
    BY <1>2 DEF Lined, HasJob
  <2>4. \A i \in 1 .. Len(Append(queue, q)) : Append(queue, q)[i] # active
    BY <2>2, <2>3
  <2>. QED  BY <1>2, <2>1, <2>2, <2>3, <2>4 DEF Lined, HasJob
<1>. QED  BY <1>1, <1>2

LEMMA JobsInit == Init => JobsInv
<1>1. Lined(<<>>, None) /\ \A q \in Queries : ~HasJob(q, <<>>, None)
  BY SearchBounds DEF Lined, HasJob
<1>2. \A q \in Queries : Free # Waiting(q)
  BY DEF Free, Waiting
<1>. QED  BY <1>1, <1>2, SearchBounds DEF Init, SearchInit, JobsInv, WaitersServed

(* A search begins.                                                         *)
LEMMA BeginJob ==
  ASSUME JobsInv, NEW r \in Searches, NEW q \in Queries, BeginSearch(r, q)
  PROVE  JobsInv'
<1>. USE DEF JobsInv
<1>1. CASE UNCHANGED searchVars /\ search' = [search EXCEPT ![r] = Upserting(q, cache[q])]
  <2>1. \A c \in Queries : Upserting(q, cache[q]) # Waiting(c)
    BY DEF Upserting, Waiting
  <2>2. attempt' = attempt /\ queue' = queue /\ active' = active
    BY <1>1 DEF searchVars
  <2>3. WaitersServed'
    BY <1>1, <2>1, <2>2 DEF WaitersServed
  <2>. QED  BY <1>1, <2>2, <2>3
<1>2. CASE Join(q) /\ search' = [search EXCEPT ![r] = Waiting(q)]
  <2>1. attempt' = attempt /\ queue' = queue /\ active' = active /\ attempt[q] > 0
    BY <1>2 DEF searchVars, Join
  <2>2. \A c \in Queries : Waiting(q) = Waiting(c) => c = q
    BY DEF Waiting
  <2>3. WaitersServed'
    BY <1>2, <2>1, <2>2 DEF WaitersServed
  <2>. QED  BY <1>2, <2>1, <2>3
<1>3. CASE StartRequest(q) /\ search' = [search EXCEPT ![r] = Waiting(q)]
  <2>1. attempt' = [attempt EXCEPT ![q] = 1] /\ attempt[q] = 0 /\ Scheduled(q)
    BY <1>3 DEF StartRequest
  <2>2. /\ Lined(queue', active')
        /\ \A c \in Queries : HasJob(c, queue', active') <=> c = q \/ HasJob(c, queue, active)
    BY <2>1, ScheduledLine
  <2>3. attempt' \in [Queries -> 0 .. MaxAttempts]
    BY <2>1, SearchBounds
  <2>4. \A c \in Queries : attempt'[c] > 0 <=> HasJob(c, queue', active')
    BY <2>1, <2>2
  <2>5. \A c \in Queries : Waiting(q) = Waiting(c) => c = q
    BY DEF Waiting
  <2>6. WaitersServed'
    BY <1>3, <2>1, <2>5 DEF WaitersServed
  <2>. QED  BY <1>3, <2>2, <2>3, <2>4, <2>6
<1>. QED  BY <1>1, <1>2, <1>3 DEF BeginSearch

(* The job that ran is over, and the next one in the line runs.             *)
LEMMA EndJob ==
  ASSUME JobsInv, NEW q \in Queries, active = q, Drained(queue),
         attempt' = [attempt EXCEPT ![q] = 0]
  PROVE  /\ Lined(queue', active') /\ attempt' \in [Queries -> 0 .. MaxAttempts]
         /\ \A c \in Queries : attempt'[c] > 0 <=> HasJob(c, queue', active')
<1>1. /\ Lined(queue', active')
      /\ \A c \in Queries : HasJob(c, queue', active') <=> \E i \in 1 .. Len(queue) : queue[i] = c
  BY DrainedLine DEF JobsInv, Lined
<1>2. attempt' \in [Queries -> 0 .. MaxAttempts]
  BY SearchBounds DEF JobsInv
<1>3. ASSUME NEW c \in Queries PROVE attempt'[c] > 0 <=> HasJob(c, queue', active')
  <2>1. CASE c = q
    BY <1>1, <2>1 DEF JobsInv, Lined
  <2>2. CASE c # q
    <3>1. attempt'[c] = attempt[c] /\ active # c
      BY <2>2 DEF JobsInv
    <3>2. attempt[c] > 0 <=> \E i \in 1 .. Len(queue) : queue[i] = c
      BY <3>1 DEF JobsInv, HasJob
    <3>. QED  BY <1>1, <3>1, <3>2
  <2>. QED  BY <2>1, <2>2
<1>. QED  BY <1>1, <1>2, <1>3

LEMMA FetchJob ==
  ASSUME JobsInv, NEW q \in Queries, FetchEnds(q)
  PROVE  JobsInv'
<1>1. CASE FetchRetried(q) /\ UNCHANGED search
  <2>1. /\ attempt' = [attempt EXCEPT ![q] = @ + 1] /\ active = q /\ attempt[q] < MaxAttempts
        /\ Drained(Append(queue, q))
    BY <1>1 DEF FetchRetried
  <2>2. /\ Append(queue, q) \in Seq(Queries)
        /\ \A i, j \in 1 .. Len(Append(queue, q)) : Append(queue, q)[i] = Append(queue, q)[j] => i = j
        /\ \A c \in Queries : (\E i \in 1 .. Len(Append(queue, q)) : Append(queue, q)[i] = c)
                                <=> c = q \/ \E i \in 1 .. Len(queue) : queue[i] = c
    BY <2>1, AppendedLine DEF JobsInv, Lined
  <2>3. /\ Lined(queue', active')
        /\ \A c \in Queries : HasJob(c, queue', active')
             <=> \E i \in 1 .. Len(Append(queue, q)) : Append(queue, q)[i] = c
    BY <2>1, <2>2, DrainedLine
  <2>4. attempt' \in [Queries -> 0 .. MaxAttempts] /\ \A c \in Queries : attempt'[c] > 0 <=> attempt[c] > 0 \/ c = q
    BY <2>1, SearchBounds DEF JobsInv
  <2>5. \A c \in Queries : attempt'[c] > 0 <=> HasJob(c, queue', active')
    BY <2>1, <2>2, <2>3, <2>4 DEF JobsInv, HasJob
  <2>6. WaitersServed'
    BY <1>1, <2>4 DEF JobsInv, WaitersServed
  <2>. QED  BY <1>1, <2>3, <2>4, <2>5, <2>6 DEF JobsInv
<1>2. CASE /\ FetchAnswered(q) \/ FetchFailed(q)
           /\ search' = Answered(q, Upserting(q, upstream)) \/ search' = Answered(q, Free)
  <2>1. active = q /\ Drained(queue) /\ attempt' = [attempt EXCEPT ![q] = 0]
    BY <1>2 DEF FetchAnswered, FetchFailed
  <2>2. DOMAIN search' = Searches
    BY <1>2 DEF Answered
  <2>3. WaitersServed'
    <3>1. ASSUME NEW r \in Searches, NEW c \in Queries, search'[r] = Waiting(c)
          PROVE  attempt'[c] > 0
      <4>1. Waiting(c) # Upserting(q, upstream) /\ Waiting(c) # Free /\ (c = q => Waiting(c) = Waiting(q))
        BY DEF Waiting, Upserting, Free
      <4>2. search[r] = Waiting(c) /\ c # q
        BY <1>2, <3>1, <4>1 DEF Answered
      <4>. QED  BY <2>1, <4>2 DEF JobsInv, WaitersServed
    <3>. QED  BY <3>1 DEF WaitersServed
  <2>. QED  BY <2>1, <2>2, <2>3, EndJob DEF JobsInv
<1>. QED  BY <1>1, <1>2 DEF FetchEnds

(* What a search does after the answer.                                     *)
LEMMA AfterAnswer ==
  ASSUME JobsInv, NEW r \in Searches, SearchStep(r) \/ UpsertFails(r)
  PROVE  JobsInv'
<1>1. /\ attempt' = attempt /\ queue' = queue /\ active' = active
      /\ \/ search' = [search EXCEPT ![r] = Free]
         \/ search[r].at = "upserting" /\ search' = [search EXCEPT ![r].locked = @ + 1]
  BY DEF SearchStep, UpsertFails, LockRow, Wanted, CommitPapers, BreakDeadlock, searchVars
<1>2. WaitersServed'
  <2>1. ASSUME NEW s \in Searches, NEW q \in Queries, search'[s] = Waiting(q)
        PROVE  search[s] = Waiting(q)
    <3>1. CASE search' = [search EXCEPT ![r] = Free]
      BY <2>1, <3>1 DEF JobsInv, Free, Waiting
    <3>2. CASE search[r].at = "upserting" /\ search' = [search EXCEPT ![r].locked = @ + 1]
      <4>1. CASE s = r
        <5>1. search'[r].at = search[r].at
          BY <3>2 DEF JobsInv
        <5>. QED  BY <2>1, <3>2, <4>1, <5>1 DEF Waiting
      <4>2. CASE s # r
        BY <2>1, <3>2, <4>2 DEF JobsInv
      <4>. QED  BY <4>1, <4>2
    <3>. QED  BY <1>1, <3>1, <3>2
  <2>. QED  BY <1>1, <2>1 DEF JobsInv, WaitersServed
<1>. QED  BY <1>1, <1>2 DEF JobsInv

LEMMA JobsKept ==
  ASSUME JobsInv, [Next]_vars
  PROVE  JobsInv'
<1>1. ASSUME UNCHANGED <<attempt, queue, active, search>> PROVE JobsInv'
  BY <1>1 DEF JobsInv, WaitersServed
<1>2. CASE UNCHANGED vars
  BY <1>1, <1>2 DEF vars, searchVars, researchVars
<1>3. CASE ArxivStep
  BY <1>1, <1>3 DEF ArxivStep, Forget, Publish, researchVars
<1>4. CASE \E a \in Readers : ReadSource(a) \/ ReaderStep(a)
  BY <1>1, <1>4 DEF ReadSource, ReaderStep, ReadSummary, ReadNoSummary, BeginGeneration, Respond, searchVars
<1>5. CASE \E p \in Papers, k \in Ranks : GenerationStep(p, k)
  BY <1>1, <1>5 DEF GenerationStep, RecheckSource, LockSource, ReadChangedSource, CommitSummary,
                    GenerationFails, searchVars
<1>. QED  BY <1>2, <1>3, <1>4, <1>5, BeginJob, FetchJob, AfterAnswer DEF Next

(* A query has one job while its request is in flight and none when it is   *)
(* not: none of its two attempts is lost in the line or runs twice.         *)
THEOREM OneJobPerRequest == Spec => []JobsInv
  BY JobsInit, JobsKept, PTL DEF Spec

(* A search that waits for arXiv waits for a job that runs or is in the     *)
(* line, also when the request it shares was begun by another search or     *)
(* has failed once.                                                         *)
THEOREM NobodyWaitsForNothing ==
  Spec => [](\A r \in Searches : \A q \in Queries :
               search[r] = Waiting(q) => HasJob(q, queue, active))
<1>1. JobsInv => \A r \in Searches : \A q \in Queries :
        search[r] = Waiting(q) => HasJob(q, queue, active)
  BY DEF JobsInv, WaitersServed
<1>. QED  BY <1>1, OneJobPerRequest, PTL

-----------------------------------------------------------------------------
(* The cache, and what arXiv has published.                                 *)

(* The cache holds no more entries than it may, and no answer, and no paper *)
(* that was stored from one, is newer than what arXiv has.                  *)
CacheInv ==
  /\ upstream \in [Papers -> Nat] /\ \A p \in Papers : upstream[p] \in 1 .. Versions[p]
  /\ IsFiniteSet(Kept) /\ Cardinality(Kept) <= MaxEntries
  /\ DOMAIN cache = Queries
  /\ \A q \in Kept : \A p \in Papers : cache[q][p] <= upstream[p]
  /\ \A r \in Searches :
       search[r].at = "upserting" => \A p \in Papers : search[r].rows[p] <= upstream[p]
  /\ \A p \in Papers : paper[p] <= upstream[p]

LEMMA CacheInit == Init => CacheInv
<1>1. ASSUME Init PROVE IsFiniteSet(Kept) /\ Cardinality(Kept) <= MaxEntries
  <2>1. Kept = {}
    BY <1>1 DEF Init, SearchInit, Kept
  <2>. QED  BY <2>1, FS_EmptySet, SearchBounds
<1>. QED  BY <1>1, SearchBounds DEF Init, SearchInit, CacheInv, Kept, Free

(* An answer makes room for itself.                                         *)
LEMMA KeptBounded ==
  ASSUME IsFiniteSet(Kept), Cardinality(Kept) <= MaxEntries, NEW q \in Queries, NEW answer,
         Keep(q, answer)
  PROVE  IsFiniteSet(Kept') /\ Cardinality(Kept') <= MaxEntries
<1>1. PICK evicted \in SUBSET (Kept \ {q}) :
        /\ Cardinality(evicted) = IF Cardinality(Kept \cup {q}) > MaxEntries THEN 1 ELSE 0
        /\ cache' = [c \in Queries |-> IF c = q THEN answer ELSE IF c \in evicted THEN None ELSE cache[c]]
  BY DEF Keep
<1>2. Kept' \subseteq (Kept \cup {q}) \ evicted
  BY <1>1 DEF Kept
<1>3. /\ IsFiniteSet(Kept \cup {q}) /\ Cardinality(Kept) \in Nat /\ Cardinality(Kept \cup {q}) \in Nat
      /\ Cardinality(Kept \cup {q}) <= Cardinality(Kept) + 1
  <2>1. IsFiniteSet(Kept \cup {q})
    BY FS_AddElement
  <2>. QED  BY <2>1, FS_AddElement, FS_CardinalityType
<1>4. CASE Cardinality(Kept \cup {q}) <= MaxEntries
  <2>1. Kept' \in SUBSET (Kept \cup {q})
    BY <1>2
  <2>2. IsFiniteSet(Kept') /\ Cardinality(Kept') <= Cardinality(Kept \cup {q})
    BY <1>3, <2>1, FS_Subset
  <2>3. Cardinality(Kept') \in Nat
    BY <2>2, FS_CardinalityType
  <2>. QED  BY <1>3, <1>4, <2>2, <2>3, SearchBounds
<1>5. CASE Cardinality(Kept \cup {q}) > MaxEntries
  <2>1. IsFiniteSet(evicted) /\ Cardinality(evicted) = 1
    BY <1>1, <1>5, FS_Subset, FS_RemoveElement
  <2>2. PICK e : evicted = {e}
    BY <2>1, FS_Singleton
  <2>3. e \in Kept
    BY <1>1, <2>2
  <2>4. Kept' \in SUBSET ((Kept \cup {q}) \ {e})
    BY <1>2, <2>2
  <2>5. /\ IsFiniteSet((Kept \cup {q}) \ {e})
        /\ Cardinality((Kept \cup {q}) \ {e}) = Cardinality(Kept \cup {q}) - 1
    BY <1>3, <2>3, FS_RemoveElement
  <2>6. IsFiniteSet(Kept') /\ Cardinality(Kept') <= Cardinality((Kept \cup {q}) \ {e})
    BY <2>4, <2>5, FS_Subset
  <2>7. Cardinality(Kept') \in Nat
    BY <2>6, FS_CardinalityType
  <2>. QED  BY <1>3, <2>5, <2>6, <2>7, SearchBounds
<1>. QED  BY <1>3, <1>4, <1>5, SearchBounds

(* What arXiv publishes, and an entry that expires.                         *)
LEMMA ArxivCache ==
  ASSUME ResearchInv, CacheInv, ArxivStep
  PROVE  CacheInv'
<1>1. UNCHANGED <<paper, search>>
  BY DEF ArxivStep, researchVars
<1>2. ASSUME NEW q \in Queries, Forget(q) PROVE CacheInv'
  <2>1. Kept' \in SUBSET Kept /\ \A c \in Kept' : cache'[c] = cache[c]
    BY <1>2 DEF Forget, Kept, CacheInv
  <2>2. IsFiniteSet(Kept') /\ Cardinality(Kept') <= Cardinality(Kept)
    BY <2>1, FS_Subset DEF CacheInv
  <2>3. Cardinality(Kept') \in Nat /\ Cardinality(Kept) \in Nat
    BY <2>2, FS_CardinalityType DEF CacheInv
  <2>4. Cardinality(Kept') <= MaxEntries
    BY <2>2, <2>3, SearchBounds DEF CacheInv
  <2>5. upstream' = upstream /\ DOMAIN cache' = Queries
    BY <1>2 DEF Forget, CacheInv
  <2>. QED  BY <1>1, <2>1, <2>2, <2>4, <2>5 DEF CacheInv
<1>3. ASSUME NEW p \in Papers, Publish(p) PROVE CacheInv'
  <2>1. /\ upstream' = [upstream EXCEPT ![p] = @ + 1] /\ upstream[p] < Versions[p] /\ cache' = cache
    BY <1>3 DEF Publish
  <2>2. /\ upstream' \in [Papers -> Nat] /\ \A x \in Papers : upstream'[x] \in 1 .. Versions[x]
        /\ \A x \in Papers : upstream[x] \in Nat /\ upstream'[x] \in Nat /\ upstream[x] <= upstream'[x]
    <3>1. \A x \in Papers : upstream[x] \in Nat /\ Versions[x] \in Nat /\ upstream[x] \in 1 .. Versions[x]
      BY SearchBounds DEF CacheInv
    <3>2. \A x \in Papers : upstream'[x] = IF x = p THEN upstream[x] + 1 ELSE upstream[x]
      BY <2>1 DEF CacheInv
    <3>3. DOMAIN upstream' = Papers /\ upstream' = [x \in Papers |-> upstream'[x]]
      BY <2>1 DEF CacheInv
    <3>4. \A x \in Papers : upstream'[x] \in Nat /\ upstream'[x] \in 1 .. Versions[x] /\ upstream[x] <= upstream'[x]
      BY <2>1, <3>1, <3>2
    <3>. QED  BY <3>1, <3>3, <3>4
  <2>3. Kept' = Kept
    BY <2>1 DEF Kept
  <2>4. ASSUME NEW x \in Papers PROVE paper[x] <= upstream'[x]
    <3>1. paper[x] \in Nat
      BY DEF ResearchInv, AnswersTyped, Ranked
    <3>. QED  BY <2>2, <3>1 DEF CacheInv
  <2>5. ASSUME NEW r \in Searches, search[r].at = "upserting", NEW x \in Papers
        PROVE  search[r].rows[x] <= upstream'[x]
    <3>1. search[r].rows[x] \in Nat
      BY <2>5 DEF ResearchInv, SearchesTyped, Ranked
    <3>. QED  BY <2>2, <2>5, <3>1 DEF CacheInv
  <2>6. ASSUME NEW q \in Kept, NEW x \in Papers PROVE cache[q][x] <= upstream'[x]
    <3>1. cache[q][x] \in Nat
      BY DEF ResearchInv, AnswersTyped, Ranked, Kept
    <3>. QED  BY <2>2, <3>1 DEF CacheInv
  <2>. QED  BY <1>1, <2>1, <2>2, <2>3, <2>4, <2>5, <2>6 DEF CacheInv
<1>. QED  BY <1>2, <1>3 DEF ArxivStep

LEMMA BeginCache ==
  ASSUME ResearchInv, CacheInv, NEW r \in Searches, NEW q \in Queries, BeginSearch(r, q)
  PROVE  CacheInv'
<1>1. UNCHANGED <<paper, upstream, cache>>
  BY DEF BeginSearch, Join, StartRequest, searchVars
<1>2. \/ q \in Kept /\ search' = [search EXCEPT ![r] = Upserting(q, cache[q])]
      \/ search' = [search EXCEPT ![r] = Waiting(q)]
  BY DEF BeginSearch, Cached
<1>3. ASSUME NEW s \in Searches, search'[s].at = "upserting", NEW p \in Papers
      PROVE  search'[s].rows[p] <= upstream[p]
  <2>1. CASE s # r
    BY <1>2, <1>3, <2>1 DEF ResearchInv, SearchesTyped, CacheInv
  <2>2. CASE s = r
    <3>1. q \in Kept /\ search'[s] = Upserting(q, cache[q])
      BY <1>2, <1>3, <2>2 DEF ResearchInv, SearchesTyped, Waiting
    <3>. QED  BY <3>1 DEF CacheInv, Upserting
  <2>. QED  BY <2>1, <2>2
<1>4. Kept' = Kept
  BY <1>1 DEF Kept
<1>. QED  BY <1>1, <1>3, <1>4 DEF CacheInv

LEMMA FetchCache ==
  ASSUME ResearchInv, CacheInv, NEW q \in Queries, FetchEnds(q)
  PROVE  CacheInv'
<1>1. UNCHANGED <<paper, upstream>>
  BY DEF FetchEnds, FetchAnswered, FetchFailed, FetchRetried
<1>2. Keep(q, upstream) \/ cache' = cache
  BY DEF FetchEnds, FetchAnswered, FetchFailed, FetchRetried
<1>3. \/ search' = search \/ search' = Answered(q, Free) \/ search' = Answered(q, Upserting(q, upstream))
  BY DEF FetchEnds
<1>4. IsFiniteSet(Kept') /\ Cardinality(Kept') <= MaxEntries
  <2>1. CASE cache' = cache
    <3>1. Kept' = Kept
      BY <2>1 DEF Kept
    <3>. QED  BY <3>1 DEF CacheInv
  <2>. QED  BY <1>2, <2>1, KeptBounded DEF CacheInv
<1>5. DOMAIN cache' = Queries /\ \A c \in Kept' : cache'[c] = upstream \/ (c \in Kept /\ cache'[c] = cache[c])
  <2>1. CASE cache' = cache
    BY <2>1 DEF Kept, CacheInv
  <2>2. CASE Keep(q, upstream)
    <3>1. PICK evicted \in SUBSET (Kept \ {q}) :
            cache' = [c \in Queries |-> IF c = q THEN upstream ELSE IF c \in evicted THEN None ELSE cache[c]]
      BY <2>2 DEF Keep
    <3>2. ASSUME NEW c \in Kept' PROVE cache'[c] = upstream \/ (c \in Kept /\ cache'[c] = cache[c])
      <4>1. c \in Queries /\ cache'[c] # None
        BY DEF Kept
      <4>2. cache'[c] = IF c = q THEN upstream ELSE IF c \in evicted THEN None ELSE cache[c]
        BY <3>1, <4>1
      <4>3. c = q \/ c \notin evicted
        BY <4>1, <4>2
      <4>4. cache'[c] = upstream \/ (cache'[c] = cache[c] /\ cache[c] # None)
        BY <4>1, <4>2, <4>3
      <4>5. cache[c] # None => c \in Kept
        BY <4>1 DEF Kept
      <4>. QED  BY <4>4, <4>5
    <3>. QED  BY <3>1, <3>2
  <2>. QED  BY <1>2, <2>1, <2>2
<1>6. \A p \in Papers : upstream[p] <= upstream[p]
  BY DEF CacheInv
<1>7. ASSUME NEW r \in Searches, search'[r].at = "upserting", NEW p \in Papers
      PROVE  search'[r].rows[p] <= upstream[p]
  <2>1. \/ search'[r] = search[r] \/ search'[r] = Free \/ search'[r] = Upserting(q, upstream)
    BY <1>3 DEF Answered
  <2>. QED  BY <1>6, <1>7, <2>1 DEF Free, Upserting, CacheInv
<1>8. \A c \in Kept' : \A p \in Papers : cache'[c][p] <= upstream[p]
  BY <1>5, <1>6 DEF CacheInv
<1>. QED  BY <1>1, <1>4, <1>5, <1>7, <1>8 DEF CacheInv

LEMMA StoringCache ==
  ASSUME ResearchInv, CacheInv, NEW r \in Searches, SearchStep(r) \/ UpsertFails(r)
  PROVE  CacheInv'
<1>1. UNCHANGED <<upstream, cache>>
  BY DEF SearchStep, UpsertFails, LockRow, CommitPapers, BreakDeadlock, searchVars
<1>2. \/ search' = [search EXCEPT ![r].locked = @ + 1]
      \/ search' = [search EXCEPT ![r] = Free]
  BY DEF SearchStep, LockRow, CommitPapers, BreakDeadlock, UpsertFails
<1>3. ASSUME NEW s \in Searches, search'[s].at = "upserting", NEW p \in Papers
      PROVE  search'[s].rows[p] <= upstream[p]
  <2>1. CASE search' = [search EXCEPT ![r] = Free]
    BY <1>3, <2>1 DEF ResearchInv, SearchesTyped, Free, CacheInv
  <2>2. CASE search' = [search EXCEPT ![r].locked = @ + 1]
    <3>1. search'[s].at = search[s].at /\ search'[s].rows = search[s].rows
      BY <2>2 DEF ResearchInv, SearchesTyped
    <3>. QED  BY <1>3, <3>1 DEF CacheInv
  <2>. QED  BY <1>2, <2>1, <2>2
<1>4. ASSUME NEW p \in Papers PROVE paper'[p] <= upstream[p]
  <2>1. CASE CommitPapers(r)
    BY <2>1 DEF CommitPapers, Refreshed, CacheInv
  <2>2. CASE ~CommitPapers(r)
    BY <2>2 DEF SearchStep, LockRow, BreakDeadlock, UpsertFails, CacheInv
  <2>. QED  BY <2>1, <2>2
<1>5. Kept' = Kept
  BY <1>1 DEF Kept
<1>. QED  BY <1>1, <1>3, <1>4, <1>5 DEF CacheInv

LEMMA CacheKept ==
  ASSUME ResearchInv, CacheInv, [Next]_vars
  PROVE  CacheInv'
<1>1. ASSUME UNCHANGED <<searchVars, paper, search>> PROVE CacheInv'
  BY <1>1 DEF CacheInv, searchVars, Kept
<1>2. CASE UNCHANGED vars
  BY <1>1, <1>2 DEF vars, researchVars
<1>3. CASE \E a \in Readers : ReadSource(a) \/ ReaderStep(a)
  BY <1>1, <1>3 DEF ReadSource, ReaderStep, ReadSummary, ReadNoSummary, BeginGeneration, Respond
<1>4. CASE \E p \in Papers, k \in Ranks : GenerationStep(p, k)
  BY <1>1, <1>4 DEF GenerationStep, RecheckSource, LockSource, ReadChangedSource, CommitSummary,
                    GenerationFails
<1>. QED  BY <1>2, <1>3, <1>4, ArxivCache, BeginCache, FetchCache, StoringCache DEF Next

THEOREM CacheInvariant == Spec => []CacheInv
  BY ResearchInvariant, CacheInit, CacheKept, PTL DEF Spec

(* The cache never grows beyond its limit, however many queries there are,  *)
(* a query has at most maxAttempts attempts, and the scheduler never idles  *)
(* while a job waits.                                                       *)
THEOREM SearchTypeCorrect == Spec => []SearchTypeOK
<1>1. ResearchInv /\ JobsInv /\ CacheInv => SearchTypeOK
  BY DEF ResearchInv, AnswersTyped, Ranked, JobsInv, Lined, CacheInv, SearchTypeOK
<1>. QED  BY <1>1, ResearchInvariant, OneJobPerRequest, CacheInvariant, PTL

(* No stored paper is newer than what arXiv has published: an answer from   *)
(* the cache, or one that waited for a lock, is at most older.              *)
THEOREM NothingInvented == Spec => [](\A p \in Papers : paper[p] <= upstream[p])
<1>1. CacheInv => \A p \in Papers : paper[p] <= upstream[p]
  BY DEF CacheInv
<1>. QED  BY <1>1, CacheInvariant, PTL

-----------------------------------------------------------------------------
(* Commands of the Agent pages: the inductive invariant.                    *)

Identities == [fingerprint : Forms \cup Nat, id : Nat]
RunRecords ==
  [over : BOOLEAN, key : Nat \cup {NoValue}, intent : (Nat \X Nat) \cup {NoValue}]
TaskRecords == [key : Nat, form : Forms, intent : Nat, runs : Seq(RunRecords)]
CreateCalls ==
  [serial : Nat, kind : {"create"}, key : Nat, content : Forms, intent : Nat, phase : {"sent", "insert"}]
RetryCalls ==
  [serial : Nat, kind : {"retry"}, key : Nat, content : Nat, intent : Nat \X Nat, phase : {"sent"}]
FormStates ==
  [content : Forms, identity : Identities \cup {NoValue}, intent : Nat, awaits : Nat \cup {NoValue}]
Views ==
  [task : Nat, attempt : Nat, identity : Identities \cup {NoValue}, mount : Nat,
   awaits : Nat \cup {NoValue}]

CommandsTyped ==
  /\ tasks \in Seq(TaskRecords)
  /\ form \in FormStates
  /\ \A c \in calls : IF c.kind = "create" THEN c \in CreateCalls ELSE c \in RetryCalls
  /\ sent \in Nat
  /\ view # NoValue => view \in Views

(* Every task has its first run, and what retries and the page refer to is  *)
(* stored.                                                                  *)
AttemptsStand ==
  /\ \A t \in DOMAIN tasks : tasks[t].runs # << >> /\ tasks[t].runs[1].intent = NoValue
  /\ \A c \in calls : c.kind = "retry" => c.content \in DOMAIN tasks
  /\ view # NoValue =>
       /\ view.task \in DOMAIN tasks
       /\ view.attempt \in DOMAIN tasks[view.task].runs

(* The intents that creation requests and tasks carry, with their keys.     *)
Submissions ==
  {<<c.intent, c.key>> : c \in {x \in calls : x.kind = "create"}}
  \cup {<<tasks[t].intent, tasks[t].key>> : t \in DOMAIN tasks}

(* An intent has one key: the identity the form keeps until it is another   *)
(* intent.                                                                  *)
CreationKeyed ==
  /\ \A t, u \in DOMAIN tasks : t # u => tasks[t].key # tasks[u].key
  /\ \A p, q \in Submissions : p[1] = q[1] => p[2] = q[2]
  /\ form.identity # NoValue => form.identity.fingerprint = form.content
  /\ \A p \in Submissions :
       /\ p[1] <= form.intent
       /\ p[1] = form.intent => form.identity # NoValue /\ form.identity.id = p[2]

Later(task) == DOMAIN task.runs \ {1}

(* The same of the retries of a task: an intent is a page that was opened   *)
(* and the run it showed when Retry was pressed.                            *)
Retries(requests, stored, t) ==
  {<<c.intent, c.key>> : c \in {x \in requests : x.kind = "retry" /\ x.content = t}}
  \cup {<<stored[t].runs[k].intent, stored[t].runs[k].key>> : k \in Later(stored[t])}

RetryKeyed ==
  /\ \A t \in DOMAIN tasks :
       /\ \A j, k \in Later(tasks[t]) : j # k => tasks[t].runs[j].key # tasks[t].runs[k].key
       /\ \A p \in Retries(calls, tasks, t) : p[1] \in Nat \X Nat /\ p[1][1] < sent
       /\ \A p, q \in Retries(calls, tasks, t) : p[1] = q[1] => p[2] = q[2]
  /\ view # NoValue =>
       /\ view.mount <= sent
       /\ \A p \in Retries(calls, tasks, view.task) : p[1][1] = view.mount =>
            /\ p[1][2] <= view.attempt
            /\ p[1][2] = view.attempt =>
                 /\ view.identity # NoValue
                 /\ view.identity.fingerprint = view.attempt /\ view.identity.id = p[2]

CommandsInv == CommandsTyped /\ AttemptsStand /\ CreationKeyed /\ RetryKeyed

-----------------------------------------------------------------------------
(* Each request to the server takes its place among the calls, and Finish   *)
(* takes it away again.  What that does to the form and to the page is one  *)
(* of the following.                                                        *)

FormMoves ==
  /\ form' \in FormStates
  /\ form'.content = form.content
  /\ \/ form'.identity = form.identity /\ form'.intent = form.intent
     \/ form'.identity = NoValue /\ form'.intent = form.intent + 1

\* The page is the same but for what it awaits and, perhaps, a later attempt.
SamePage ==
  /\ view # NoValue
  /\ view' \in Views
  /\ view'.task = view.task /\ view'.attempt \in DOMAIN tasks'[view.task].runs
  /\ view.attempt <= view'.attempt
  /\ view'.identity = view.identity /\ view'.mount = view.mount

NewPage ==
  /\ view' \in Views
  /\ view'.task \in DOMAIN tasks' /\ view'.attempt \in DOMAIN tasks'[view'.task].runs
  /\ view'.mount = sent

PageMoves == view' = NoValue \/ SamePage \/ NewPage

LEMMA RecordsTyped ==
  ASSUME CommandsTyped
  PROVE  /\ form.content \in Forms /\ form.intent \in Nat
         /\ form.identity \in Identities \cup {NoValue}
         /\ \A t \in DOMAIN tasks :
              /\ t \in Nat /\ tasks[t] \in TaskRecords /\ tasks[t].runs \in Seq(RunRecords)
              /\ tasks[t].intent \in Nat /\ tasks[t].key \in Nat
              /\ \A k \in DOMAIN tasks[t].runs : k \in Nat /\ tasks[t].runs[k] \in RunRecords
         /\ \A c \in calls :
              /\ c.key \in Nat /\ c.serial \in Nat
              /\ c.kind = "create" => c.content \in Forms /\ c.intent \in Nat
              /\ c.kind # "create" =>
                   /\ c \in RetryCalls /\ c.kind = "retry"
                   /\ c.content \in Nat /\ c.intent \in Nat \X Nat
         /\ view # NoValue =>
              /\ view.task \in Nat /\ view.attempt \in Nat /\ view.mount \in Nat
              /\ view.identity \in Identities \cup {NoValue}
<1>1. \A t \in DOMAIN tasks : t \in Nat /\ tasks[t] \in TaskRecords
  BY DEF CommandsTyped
<1>2. \A t \in DOMAIN tasks :
        /\ tasks[t].runs \in Seq(RunRecords) /\ tasks[t].intent \in Nat /\ tasks[t].key \in Nat
  BY <1>1 DEF TaskRecords
<1>3. \A t \in DOMAIN tasks : \A k \in DOMAIN tasks[t].runs :
        k \in Nat /\ tasks[t].runs[k] \in RunRecords
  BY <1>2
<1>4. form.content \in Forms /\ form.intent \in Nat /\ form.identity \in Identities \cup {NoValue}
  BY DEF CommandsTyped, FormStates
<1>5. \A c \in calls :
        /\ c.key \in Nat /\ c.serial \in Nat
        /\ c.kind = "create" => c.content \in Forms /\ c.intent \in Nat
        /\ c.kind # "create" =>
             /\ c \in RetryCalls /\ c.kind = "retry"
             /\ c.content \in Nat /\ c.intent \in Nat \X Nat
  BY DEF CommandsTyped, CreateCalls, RetryCalls
<1>6. view # NoValue =>
        /\ view.task \in Nat /\ view.attempt \in Nat /\ view.mount \in Nat
        /\ view.identity \in Identities \cup {NoValue}
  BY DEF CommandsTyped, Views
<1>. QED
  BY <1>1, <1>2, <1>3, <1>4, <1>5, <1>6

(* A step that makes no submission keeps the keys of creations: it leaves   *)
(* the form alone but for a new intent.                                     *)
LEMMA CreationKept ==
  ASSUME CommandsTyped, CreationKeyed, FormMoves,
         Submissions' \subseteq Submissions,
         \A t, u \in DOMAIN tasks' : t # u => tasks'[t].key # tasks'[u].key
  PROVE  CreationKeyed'
<1>1. \A p \in Submissions : p[1] \in Nat
  BY RecordsTyped DEF Submissions
<1>2. form.intent \in Nat
  BY RecordsTyped
<1>. QED
  BY <1>1, <1>2 DEF CreationKeyed, FormMoves

(* The same for the retries of each task.                                   *)
LEMMA RetryKept ==
  ASSUME CommandsTyped, AttemptsStand, RetryKeyed, PageMoves, sent' = sent,
         DOMAIN tasks \subseteq DOMAIN tasks',
         \A t \in DOMAIN tasks : Retries(calls', tasks', t) \subseteq Retries(calls, tasks, t),
         \A t \in DOMAIN tasks' \ DOMAIN tasks : Retries(calls', tasks', t) = {},
         \A t \in DOMAIN tasks' : \A j, k \in Later(tasks'[t]) :
           j # k => tasks'[t].runs[j].key # tasks'[t].runs[k].key
  PROVE  RetryKeyed'
<1>1. sent \in Nat
  BY DEF CommandsTyped
<1>2. ASSUME NEW t \in DOMAIN tasks'
      PROVE  /\ \A p \in Retries(calls', tasks', t) : p[1] \in Nat \X Nat /\ p[1][1] < sent
             /\ \A p, q \in Retries(calls', tasks', t) : p[1] = q[1] => p[2] = q[2]
  <2>1. CASE t \in DOMAIN tasks
    BY <2>1 DEF RetryKeyed
  <2>2. CASE t \notin DOMAIN tasks
    BY <1>2, <2>2
  <2>. QED
    BY <2>1, <2>2
<1>3. ASSUME view' # NoValue
      PROVE  /\ view'.mount <= sent
             /\ \A p \in Retries(calls', tasks', view'.task) : p[1][1] = view'.mount =>
                  /\ p[1][2] <= view'.attempt
                  /\ p[1][2] = view'.attempt =>
                       /\ view'.identity # NoValue
                       /\ view'.identity.fingerprint = view'.attempt /\ view'.identity.id = p[2]
  <2>1. CASE SamePage
    <3>1. /\ view.task \in DOMAIN tasks /\ view.mount <= sent
          /\ view.attempt \in Nat /\ view'.attempt \in Nat
      BY <2>1, RecordsTyped DEF SamePage, AttemptsStand, RetryKeyed, Views
    <3>2. ASSUME NEW p \in Retries(calls', tasks', view.task), p[1][1] = view.mount
          PROVE  /\ p[1][2] <= view'.attempt
                 /\ p[1][2] = view'.attempt =>
                      /\ view.identity # NoValue
                      /\ view.identity.fingerprint = view'.attempt /\ view.identity.id = p[2]
      <4>1. p \in Retries(calls, tasks, view.task)
        BY <3>1
      <4>2. p[1][2] \in Nat
        BY <3>1, <4>1 DEF RetryKeyed
      <4>3. /\ p[1][2] <= view.attempt
            /\ p[1][2] = view.attempt =>
                 /\ view.identity # NoValue
                 /\ view.identity.fingerprint = view.attempt /\ view.identity.id = p[2]
        BY <2>1, <3>2, <4>1 DEF RetryKeyed, SamePage
      <4>4. view.attempt <= view'.attempt
        BY <2>1 DEF SamePage
      <4>5. p[1][2] = view'.attempt => view'.attempt = view.attempt
        BY <3>1, <4>2, <4>3, <4>4
      <4>. QED
        BY <3>1, <4>2, <4>3, <4>4, <4>5
    <3>3. view'.task = view.task /\ view'.mount = view.mount /\ view'.identity = view.identity
      BY <2>1 DEF SamePage
    <3>. QED
      BY <3>1, <3>2, <3>3
  <2>2. CASE NewPage
    <3>1. \A p \in Retries(calls', tasks', view'.task) : p[1][1] # view'.mount
      <4>1. view'.task \in DOMAIN tasks' /\ view'.mount = sent
        BY <2>2 DEF NewPage
      <4>2. \A p \in Retries(calls', tasks', view'.task) : p[1] \in Nat \X Nat /\ p[1][1] < sent
        BY <4>1, <1>2
      <4>. QED
        BY <4>1, <4>2, <1>1
    <3>2. view'.mount <= sent
      BY <2>2, <1>1 DEF NewPage
    <3>. QED
      BY <3>1, <3>2
  <2>. QED
    BY <1>3, <2>1, <2>2 DEF PageMoves
<1>4. \A t \in DOMAIN tasks' : \A j, k \in Later(tasks'[t]) :
        j # k => tasks'[t].runs[j].key # tasks'[t].runs[k].key
  OBVIOUS
<1>. QED
  BY <1>2, <1>3, <1>4 DEF RetryKeyed

(* Finish: the call is gone, and the form and the page have moved.          *)
LEMMA FinishMoves ==
  ASSUME CommandsTyped, AttemptsStand,
         NEW call \in calls, NEW result, Finish(call, result),
         DOMAIN tasks \subseteq DOMAIN tasks',
         \A t \in DOMAIN tasks : DOMAIN tasks[t].runs \subseteq DOMAIN tasks'[t].runs,
         result # NoValue => /\ result.task \in DOMAIN tasks'
                             /\ result.run \in DOMAIN tasks'[result.task].runs
                             /\ result.task \in Nat /\ result.run \in Nat
  PROVE  FormMoves /\ PageMoves /\ calls' = calls \ {call}
<1>1. calls' = calls \ {call}
  BY DEF Finish
<1>2. /\ form \in FormStates /\ sent \in Nat
      /\ form.intent \in Nat
  BY RecordsTyped DEF CommandsTyped
<1>3. FormMoves
  <2>1. CASE form' = form
    BY <1>2, <2>1 DEF FormMoves
  <2>2. CASE form' = [form EXCEPT !.awaits = NoValue]
    BY <1>2, <2>2 DEF FormMoves, FormStates
  <2>3. CASE form' = [form EXCEPT !.awaits = NoValue, !.identity = NoValue, !.intent = @ + 1]
    <3>1. form.intent + 1 \in Nat
      BY <1>2
    <3>2. /\ form' \in FormStates /\ form'.content = form.content
          /\ form'.identity = NoValue /\ form'.intent = form.intent + 1
      BY <1>2, <2>3, <3>1 DEF FormStates
    <3>. QED
      BY <3>2 DEF FormMoves
  <2>. QED
    BY <2>1, <2>2, <2>3 DEF Finish
<1>4. ASSUME view' = view PROVE PageMoves
  <2>1. ASSUME view # NoValue PROVE SamePage
    <3>1. view \in Views /\ view.attempt \in Nat /\ view.task \in DOMAIN tasks
          /\ view.attempt \in DOMAIN tasks'[view.task].runs
      BY <2>1, RecordsTyped DEF CommandsTyped, AttemptsStand
    <3>. QED
      BY <1>4, <2>1, <3>1 DEF SamePage
  <2>. QED
    BY <1>4, <2>1 DEF PageMoves
<1>5. ASSUME view # NoValue, view' = [view EXCEPT !.awaits = NoValue] PROVE PageMoves
  <2>1. view \in Views /\ view.attempt \in Nat /\ view.task \in DOMAIN tasks
        /\ view.attempt \in DOMAIN tasks'[view.task].runs
    BY <1>5, RecordsTyped DEF CommandsTyped, AttemptsStand
  <2>2. /\ view' \in Views /\ view'.task = view.task /\ view'.attempt = view.attempt
        /\ view'.identity = view.identity /\ view'.mount = view.mount
    BY <1>5, <2>1 DEF Views
  <2>. QED
    BY <1>5, <2>1, <2>2 DEF SamePage, PageMoves
<1>6. ASSUME result # NoValue, view' = Opened(result.task, result.run) PROVE PageMoves
  BY <1>2, <1>6 DEF Opened, NewPage, Views, PageMoves
<1>. QED
  BY <1>1, <1>3, <1>4, <1>5, <1>6 DEF Finish

-----------------------------------------------------------------------------
(* The steps.                                                               *)

LEMMA CommandsStart == CommandsInit => CommandsInv
<1>. SUFFICES ASSUME CommandsInit PROVE CommandsInv
  OBVIOUS
<1>1. PICK c \in Forms :
        form = [content |-> c, identity |-> NoValue, intent |-> 0, awaits |-> NoValue]
  BY DEF CommandsInit
<1>2. tasks = << >> /\ calls = {} /\ sent = 0 /\ view = NoValue
  BY DEF CommandsInit
<1>3. CommandsTyped
  BY <1>1, <1>2 DEF CommandsTyped, FormStates
<1>4. Submissions = {}
  BY <1>2 DEF Submissions
<1>5. AttemptsStand
  BY <1>2 DEF AttemptsStand
<1>6. CreationKeyed
  BY <1>1, <1>2, <1>4 DEF CreationKeyed
<1>7. RetryKeyed
  BY <1>2 DEF RetryKeyed
<1>. QED
  BY <1>3, <1>5, <1>6, <1>7 DEF CommandsInv

\* A step of the form or the page that neither asks nor stores anything.
LEMMA QuietStep ==
  ASSUME CommandsInv, FormMoves, PageMoves, UNCHANGED <<tasks, calls, sent>>
  PROVE  CommandsInv'
<1>1. CommandsTyped /\ AttemptsStand /\ CreationKeyed /\ RetryKeyed
  BY DEF CommandsInv
<1>2. view' # NoValue =>
        /\ view' \in Views /\ view'.task \in DOMAIN tasks'
        /\ view'.attempt \in DOMAIN tasks'[view'.task].runs
  BY <1>1 DEF PageMoves, SamePage, NewPage, AttemptsStand
<1>3. CommandsTyped'
  BY <1>1, <1>2 DEF CommandsTyped, FormMoves
<1>4. AttemptsStand'
  BY <1>1, <1>2 DEF AttemptsStand
<1>5. CreationKeyed'
  <2>1. Submissions' = Submissions
    BY DEF Submissions
  <2>2. \A t, u \in DOMAIN tasks' : t # u => tasks'[t].key # tasks'[u].key
    BY <1>1 DEF CreationKeyed
  <2>. QED
    BY <1>1, <2>1, <2>2, CreationKept
<1>6. RetryKeyed'
  <2>1. \A t \in DOMAIN tasks' : \A j, k \in Later(tasks'[t]) :
          j # k => tasks'[t].runs[j].key # tasks'[t].runs[k].key
    BY <1>1 DEF RetryKeyed
  <2>. QED
    BY <1>1, <2>1, RetryKept
<1>. QED
  BY <1>3, <1>4, <1>5, <1>6 DEF CommandsInv

\* The page stays as it is.
LEMMA PageStays ==
  ASSUME CommandsTyped, AttemptsStand, view' = view,
         \A t \in DOMAIN tasks : DOMAIN tasks[t].runs \subseteq DOMAIN tasks'[t].runs
  PROVE  PageMoves
<1>1. ASSUME view # NoValue PROVE SamePage
  <2>1. /\ view \in Views /\ view.attempt \in Nat /\ view.task \in DOMAIN tasks
        /\ view.attempt \in DOMAIN tasks'[view.task].runs
    BY <1>1, RecordsTyped DEF CommandsTyped, AttemptsStand
  <2>. QED
    BY <1>1, <2>1 DEF SamePage
<1>. QED
  BY <1>1 DEF PageMoves

LEMMA FormStays ==
  ASSUME CommandsTyped, form' = form
  PROVE  FormMoves
BY DEF CommandsTyped, FormMoves

LEMMA EditFormKeeps ==
  ASSUME CommandsInv, NEW c \in Forms, EditForm(c)
  PROVE  CommandsInv'
<1>1. CommandsTyped /\ AttemptsStand /\ CreationKeyed /\ RetryKeyed
  BY DEF CommandsInv
<1>2. /\ form' = [form EXCEPT !.content = c, !.identity = NoValue, !.intent = @ + 1]
      /\ UNCHANGED <<tasks, calls, sent, view>>
  BY DEF EditForm
<1>3. form.intent \in Nat /\ form.intent + 1 \in Nat
  BY <1>1, RecordsTyped
<1>4. /\ form' \in FormStates /\ form'.content = c
      /\ form'.identity = NoValue /\ form'.intent = form.intent + 1
  BY <1>1, <1>2, <1>3 DEF CommandsTyped, FormStates
<1>5. CommandsTyped' /\ AttemptsStand' /\ RetryKeyed'
  BY <1>1, <1>2, <1>4 DEF CommandsTyped, AttemptsStand, RetryKeyed
<1>6. CreationKeyed'
  <2>1. Submissions' = Submissions
    BY <1>2 DEF Submissions
  <2>2. \A p \in Submissions : p[1] \in Nat
    BY <1>1, RecordsTyped DEF Submissions
  <2>. QED
    BY <1>1, <1>2, <1>3, <1>4, <2>1, <2>2 DEF CreationKeyed
<1>. QED
  BY <1>5, <1>6 DEF CommandsInv

\* What ResolveIdentity gives: an identity for this fingerprint, the current
\* one if it was for this fingerprint already.
LEMMA Resolved ==
  ASSUME CommandsAssumption, sent \in Nat,
         NEW current \in Identities \cup {NoValue}, NEW f \in Forms \cup Nat
  PROVE  /\ ResolveIdentity(current, f) \in Identities
         /\ ResolveIdentity(current, f) # NoValue
         /\ ResolveIdentity(current, f).fingerprint = f
         /\ current # NoValue /\ current.fingerprint = f => ResolveIdentity(current, f) = current
<1>1. ResolveIdentity(current, f) \in Identities
  BY DEF ResolveIdentity, Identities
<1>2. NoValue \notin Identities
  BY DEF CommandsAssumption, Identities
<1>. QED
  BY <1>1, <1>2 DEF ResolveIdentity

LEMMA SubmitFormKeeps ==
  ASSUME CommandsAssumption, CommandsInv, SubmitForm
  PROVE  CommandsInv'
<1>1. CommandsTyped /\ AttemptsStand /\ CreationKeyed /\ RetryKeyed
  BY DEF CommandsInv
<1>. DEFINE identity == ResolveIdentity(form.identity, form.content)
            posted == [serial |-> sent + 1, kind |-> "create", key |-> identity.id,
                        content |-> form.content, intent |-> form.intent, phase |-> "sent"]
<1>2. /\ form' = [form EXCEPT !.identity = identity, !.awaits = sent + 1]
      /\ calls' = calls \cup {posted} /\ sent' = sent + 1
      /\ UNCHANGED <<tasks, view>>
  BY DEF SubmitForm, SendCall
<1>3. /\ form.content \in Forms /\ form.intent \in Nat /\ sent \in Nat
      /\ form.identity \in Identities \cup {NoValue}
  BY <1>1, RecordsTyped DEF CommandsTyped
<1>4. /\ identity \in Identities /\ identity # NoValue /\ identity.fingerprint = form.content
      /\ form.identity # NoValue => identity = form.identity
  BY <1>1, <1>3, Resolved DEF CreationKeyed
<1>. HIDE DEF identity
<1>5. /\ form' \in FormStates /\ form'.content = form.content
      /\ form'.identity = identity /\ form'.intent = form.intent
  <2>1. form \in FormStates /\ sent + 1 \in Nat
    BY <1>1, <1>3 DEF CommandsTyped
  <2>. QED
    BY <1>2, <1>4, <2>1 DEF FormStates
<1>6. /\ posted \in CreateCalls /\ posted.kind = "create"
      /\ posted.intent = form.intent /\ posted.key = identity.id
  BY <1>3, <1>4 DEF CreateCalls, Identities
<1>. HIDE DEF posted
<1>7. CommandsTyped'
  BY <1>1, <1>2, <1>3, <1>5, <1>6 DEF CommandsTyped
<1>8. AttemptsStand'
  BY <1>1, <1>2, <1>6 DEF AttemptsStand
<1>9. CreationKeyed'
  <2>1. Submissions' = Submissions \cup {<<form.intent, identity.id>>}
    BY <1>2, <1>6 DEF Submissions
  <2>2. \A p \in Submissions : p[1] = form.intent => p[2] = identity.id
    BY <1>1, <1>4 DEF CreationKeyed
  <2>3. \A p, q \in Submissions' : p[1] = q[1] => p[2] = q[2]
    BY <1>1, <2>1, <2>2 DEF CreationKeyed
  <2>4. \A p \in Submissions' :
          /\ p[1] <= form'.intent
          /\ p[1] = form'.intent => form'.identity # NoValue /\ form'.identity.id = p[2]
    BY <1>1, <1>3, <1>4, <1>5, <2>1, <2>2 DEF CreationKeyed
  <2>. QED
    BY <1>1, <1>2, <1>4, <1>5, <2>3, <2>4 DEF CreationKeyed
<1>10. RetryKeyed'
  <2>1. \A t : Retries(calls', tasks', t) = Retries(calls, tasks, t)
    BY <1>2, <1>6 DEF Retries
  <2>2. \A t \in DOMAIN tasks : \A p \in Retries(calls, tasks, t) :
          p[1] \in Nat \X Nat /\ p[1][1] < sent + 1
    BY <1>1, <1>3 DEF RetryKeyed
  <2>3. view # NoValue => view.mount \in Nat /\ view.mount <= sent + 1
    BY <1>1, <1>3, RecordsTyped DEF RetryKeyed
  <2>4. tasks' = tasks /\ view' = view /\ sent' = sent + 1
    BY <1>2
  <2>5. \A t \in DOMAIN tasks :
          /\ \A j, k \in Later(tasks[t]) : j # k => tasks[t].runs[j].key # tasks[t].runs[k].key
          /\ \A p, q \in Retries(calls, tasks, t) : p[1] = q[1] => p[2] = q[2]
    BY <1>1 DEF RetryKeyed
  <2>6. view # NoValue =>
          \A p \in Retries(calls, tasks, view.task) : p[1][1] = view.mount =>
            /\ p[1][2] <= view.attempt
            /\ p[1][2] = view.attempt =>
                 /\ view.identity # NoValue
                 /\ view.identity.fingerprint = view.attempt /\ view.identity.id = p[2]
    BY <1>1 DEF RetryKeyed
  <2>. QED
    BY <2>1, <2>2, <2>3, <2>4, <2>5, <2>6 DEF RetryKeyed
<1>. QED
  BY <1>7, <1>8, <1>9, <1>10 DEF CommandsInv

LEMMA PressRetryKeeps ==
  ASSUME CommandsAssumption, CommandsInv, PressRetry
  PROVE  CommandsInv'
<1>1. CommandsTyped /\ AttemptsStand /\ CreationKeyed /\ RetryKeyed
  BY DEF CommandsInv
<1>. DEFINE identity == ResolveIdentity(view.identity, view.attempt)
            intent == <<view.mount, view.attempt>>
            posted == [serial |-> sent + 1, kind |-> "retry", key |-> identity.id,
                        content |-> view.task, intent |-> intent, phase |-> "sent"]
<1>2. /\ view # NoValue
      /\ view' = [view EXCEPT !.identity = identity, !.awaits = sent + 1]
      /\ calls' = calls \cup {posted} /\ sent' = sent + 1
      /\ UNCHANGED <<tasks, form>>
  BY DEF PressRetry, SendCall
<1>3. /\ view.task \in Nat /\ view.attempt \in Nat /\ view.mount \in Nat /\ sent \in Nat
      /\ view.identity \in Identities \cup {NoValue}
      /\ view \in Views /\ view.task \in DOMAIN tasks
      /\ view.attempt \in DOMAIN tasks[view.task].runs /\ view.mount <= sent
  BY <1>1, <1>2, RecordsTyped DEF CommandsTyped, AttemptsStand, RetryKeyed
<1>4. /\ identity \in Identities /\ identity # NoValue /\ identity.fingerprint = view.attempt
      /\ view.identity # NoValue /\ view.identity.fingerprint = view.attempt
           => identity = view.identity
  BY <1>3, Resolved
<1>. HIDE DEF identity
<1>5. /\ view' \in Views /\ view'.task = view.task /\ view'.attempt = view.attempt
      /\ view'.mount = view.mount /\ view'.identity = identity
  <2>1. sent + 1 \in Nat
    BY <1>3
  <2>. QED
    BY <1>2, <1>3, <1>4, <2>1 DEF Views
<1>6. /\ posted \in RetryCalls /\ posted.kind = "retry" /\ posted.content = view.task
      /\ posted.intent = intent /\ posted.key = identity.id
  BY <1>3, <1>4 DEF RetryCalls, Identities
<1>7. intent \in Nat \X Nat /\ intent[1] = view.mount /\ intent[2] = view.attempt
  BY <1>3
<1>. HIDE DEF posted, intent
<1>8. CommandsTyped'
  BY <1>1, <1>2, <1>3, <1>5, <1>6 DEF CommandsTyped
<1>9. AttemptsStand'
  BY <1>1, <1>2, <1>3, <1>5, <1>6 DEF AttemptsStand
<1>10. CreationKeyed'
  <2>1. Submissions' = Submissions
    BY <1>2, <1>6 DEF Submissions
  <2>. QED
    BY <1>1, <1>2, <2>1 DEF CreationKeyed
<1>11. RetryKeyed'
  <2>1. /\ Retries(calls', tasks', view.task)
             = Retries(calls, tasks, view.task) \cup {<<intent, identity.id>>}
        /\ \A t : t # view.task => Retries(calls', tasks', t) = Retries(calls, tasks, t)
    BY <1>2, <1>6 DEF Retries
  <2>2. \A p \in Retries(calls, tasks, view.task) :
          p[1] \in Nat \X Nat /\ p[1][1] < sent
    BY <1>1, <1>3 DEF RetryKeyed
  <2>3. \A p \in Retries(calls, tasks, view.task) :
          p[1][1] = view.mount => /\ p[1][2] <= view.attempt
                                  /\ p[1][2] = view.attempt => p[2] = identity.id
    BY <1>1, <1>2, <1>4 DEF RetryKeyed
  <2>4. \A p \in Retries(calls, tasks, view.task) : p[1] = intent => p[2] = identity.id
    BY <1>7, <2>3
  <2>5. ASSUME NEW t \in DOMAIN tasks'
        PROVE  /\ \A p \in Retries(calls', tasks', t) : p[1] \in Nat \X Nat /\ p[1][1] < sent'
               /\ \A p, q \in Retries(calls', tasks', t) : p[1] = q[1] => p[2] = q[2]
    <3>1. /\ \A p \in Retries(calls, tasks, t) : p[1] \in Nat \X Nat /\ p[1][1] < sent
          /\ \A p, q \in Retries(calls, tasks, t) : p[1] = q[1] => p[2] = q[2]
      BY <1>1, <1>2, <2>5 DEF RetryKeyed
    <3>2. \A p \in Retries(calls, tasks, t) : p[1][1] < sent + 1
      BY <1>3, <3>1
    <3>3. CASE t = view.task
      <4>1. \A p, q \in Retries(calls', tasks', t) : p[1] = q[1] => p[2] = q[2]
        BY <2>1, <2>4, <3>1, <3>3
      <4>2. \A p \in Retries(calls', tasks', t) : p[1] \in Nat \X Nat /\ p[1][1] < sent'
        <5>1. intent[1] < sent + 1
          BY <1>3, <1>7
        <5>2. \A p \in {<<intent, identity.id>>} : p[1] = intent
          OBVIOUS
        <5>. QED
          BY <1>2, <1>7, <2>1, <3>1, <3>2, <3>3, <5>1, <5>2
      <4>. QED
        BY <4>1, <4>2
    <3>4. CASE t # view.task
      <4>1. Retries(calls', tasks', t) = Retries(calls, tasks, t) /\ sent' = sent + 1
        BY <1>2, <2>1, <3>4
      <4>. QED
        BY <3>1, <3>2, <4>1
    <3>. QED
      BY <3>3, <3>4
  <2>6. \A p \in Retries(calls', tasks', view'.task) : p[1][1] = view'.mount =>
          /\ p[1][2] <= view'.attempt
          /\ p[1][2] = view'.attempt =>
               /\ view'.identity # NoValue
               /\ view'.identity.fingerprint = view'.attempt /\ view'.identity.id = p[2]
    BY <1>3, <1>4, <1>5, <1>7, <2>1, <2>3
  <2>7. view'.mount <= sent'
    BY <1>2, <1>3, <1>5
  <2>8. \A t \in DOMAIN tasks' : \A j, k \in Later(tasks'[t]) :
          j # k => tasks'[t].runs[j].key # tasks'[t].runs[k].key
    BY <1>1, <1>2 DEF RetryKeyed
  <2>. QED
    BY <2>5, <2>6, <2>7, <2>8 DEF RetryKeyed
<1>. QED
  BY <1>8, <1>9, <1>10, <1>11 DEF CommandsInv

\* The tab gives up waiting, learns of a later attempt, or leaves the page.
LEMMA PageStepsKeep ==
  ASSUME CommandsInv, LoseReply \/ RefreshView \/ LeaveView
  PROVE  CommandsInv'
<1>1. CommandsTyped /\ AttemptsStand
  BY DEF CommandsInv
<1>2. UNCHANGED <<tasks, calls, sent>>
  BY DEF LoseReply, RefreshView, LeaveView
<1>3. FormMoves
  <2>1. CASE form' = [form EXCEPT !.awaits = NoValue]
    BY <1>1, <2>1 DEF FormMoves, FormStates, CommandsTyped
  <2>2. CASE form' = form
    BY <1>1, <2>2, FormStays
  <2>. QED
    BY <2>1, <2>2 DEF LoseReply, RefreshView, LeaveView
<1>4. PageMoves
  <2>1. CASE view' = view
    BY <1>1, <1>2, <2>1, PageStays
  <2>2. ASSUME view # NoValue
        PROVE  /\ view \in Views /\ view.attempt \in Nat /\ view.task \in DOMAIN tasks
               /\ view.attempt \in 1 .. LatestAttempt(view.task)
               /\ LatestAttempt(view.task) \in DOMAIN tasks[view.task].runs
               /\ LatestAttempt(view.task) \in Nat
    BY <1>1, <2>2, RecordsTyped DEF CommandsTyped, AttemptsStand, LatestAttempt
  <2>3. CASE view # NoValue /\ view' = [view EXCEPT !.awaits = NoValue]
    <3>1. /\ view' \in Views /\ view'.task = view.task /\ view'.attempt = view.attempt
          /\ view'.identity = view.identity /\ view'.mount = view.mount
      BY <2>2, <2>3 DEF Views
    <3>. QED
      BY <1>1, <1>2, <2>2, <2>3, <3>1 DEF SamePage, PageMoves, AttemptsStand
  <2>4. CASE RefreshView
    <3>1. view # NoValue /\ view' = [view EXCEPT !.attempt = LatestAttempt(view.task)]
      BY <2>4 DEF RefreshView
    <3>2. /\ view' \in Views /\ view'.task = view.task
          /\ view'.attempt = LatestAttempt(view.task)
          /\ view'.identity = view.identity /\ view'.mount = view.mount
      BY <2>2, <3>1 DEF Views
    <3>. QED
      BY <1>2, <2>2, <3>1, <3>2 DEF SamePage, PageMoves
  <2>5. CASE LeaveView
    BY <2>5 DEF LeaveView, PageMoves
  <2>. QED
    BY <2>1, <2>3, <2>4, <2>5 DEF LoseReply
<1>. QED
  BY <1>2, <1>3, <1>4, QuietStep

\* The server is done with a call without storing anything.
LEMMA FinishKeeps ==
  ASSUME CommandsInv, NEW call \in calls, NEW result, Finish(call, result),
         UNCHANGED <<tasks, sent>>,
         result # NoValue => /\ result.task \in DOMAIN tasks
                             /\ result.run \in DOMAIN tasks[result.task].runs
                             /\ result.task \in Nat /\ result.run \in Nat
  PROVE  CommandsInv'
<1>1. CommandsTyped /\ AttemptsStand /\ CreationKeyed /\ RetryKeyed
  BY DEF CommandsInv
<1>2. FormMoves /\ PageMoves /\ calls' = calls \ {call}
  BY <1>1, FinishMoves
<1>3. view' # NoValue =>
        /\ view' \in Views /\ view'.task \in DOMAIN tasks'
        /\ view'.attempt \in DOMAIN tasks'[view'.task].runs
  BY <1>1, <1>2 DEF PageMoves, SamePage, NewPage, AttemptsStand
<1>4. CommandsTyped'
  BY <1>1, <1>2, <1>3 DEF CommandsTyped, FormMoves
<1>5. AttemptsStand'
  BY <1>1, <1>2, <1>3 DEF AttemptsStand
<1>6. CreationKeyed'
  <2>1. Submissions' \subseteq Submissions
    BY <1>2 DEF Submissions
  <2>2. \A t, u \in DOMAIN tasks' : t # u => tasks'[t].key # tasks'[u].key
    BY <1>1 DEF CreationKeyed
  <2>. QED
    BY <1>1, <1>2, <2>1, <2>2, CreationKept
<1>7. RetryKeyed'
  <2>1. \A t \in DOMAIN tasks : Retries(calls', tasks', t) \subseteq Retries(calls, tasks, t)
    BY <1>2 DEF Retries
  <2>2. \A t \in DOMAIN tasks' : \A j, k \in Later(tasks'[t]) :
          j # k => tasks'[t].runs[j].key # tasks'[t].runs[k].key
    BY <1>1 DEF RetryKeyed
  <2>. QED
    BY <1>1, <1>2, <2>1, <2>2, RetryKept
<1>. QED
  BY <1>4, <1>5, <1>6, <1>7 DEF CommandsInv

LEMMA ExistingStands ==
  ASSUME CommandsInv, NEW call, NEW t \in DOMAIN tasks, Existing(t, call) # NoValue
  PROVE  LET result == Existing(t, call) IN
         /\ result.task \in DOMAIN tasks
         /\ result.run \in DOMAIN tasks[result.task].runs
         /\ result.task \in Nat /\ result.run \in Nat
<1>1. CommandsTyped /\ AttemptsStand
  BY DEF CommandsInv
<1>2. t \in Nat /\ 1 \in DOMAIN tasks[t].runs
  BY <1>1, RecordsTyped DEF AttemptsStand
<1>. QED
  BY <1>2 DEF Existing

LEMMA LookUpTaskKeeps ==
  ASSUME CommandsInv, NEW call \in calls, LookUpTask(call)
  PROVE  CommandsInv'
<1>1. CommandsTyped /\ AttemptsStand /\ CreationKeyed /\ RetryKeyed
  BY DEF CommandsInv
<1>2. UNCHANGED <<tasks, sent>> /\ call.kind = "create"
  BY DEF LookUpTask
<1>3. CASE Finish(call, NoValue)
  BY <1>2, <1>3, FinishKeeps
<1>4. ASSUME NEW t \in TaskOf(call.key), Finish(call, Existing(t, call)) PROVE CommandsInv'
  <2>1. t \in DOMAIN tasks
    BY DEF TaskOf
  <2>. QED
    BY <1>2, <1>4, <2>1, FinishKeeps, ExistingStands
<1>5. ASSUME calls' = (calls \ {call}) \cup {[call EXCEPT !.phase = "insert"]},
             UNCHANGED <<form, view>>
      PROVE  CommandsInv'
  <2>. DEFINE locked == [call EXCEPT !.phase = "insert"]
  <2>1. call \in CreateCalls
    BY <1>1, <1>2 DEF CommandsTyped
  <2>2. /\ locked \in CreateCalls /\ locked.kind = "create"
        /\ locked.intent = call.intent /\ locked.key = call.key
    BY <2>1 DEF CreateCalls
  <2>. HIDE DEF locked
  <2>3. calls' = (calls \ {call}) \cup {locked}
    BY <1>5 DEF locked
  <2>4. CommandsTyped'
    BY <1>1, <1>2, <1>5, <2>2, <2>3 DEF CommandsTyped
  <2>5. AttemptsStand'
    BY <1>1, <1>2, <1>5, <2>2, <2>3 DEF AttemptsStand
  <2>6. Submissions' = Submissions
    BY <1>2, <2>2, <2>3 DEF Submissions
  <2>7. \A t : Retries(calls', tasks', t) = Retries(calls, tasks, t)
    BY <1>2, <2>2, <2>3 DEF Retries
  <2>8. CreationKeyed'
    BY <1>1, <1>2, <1>5, <2>6 DEF CreationKeyed
  <2>9. RetryKeyed'
    <3>1. \A t \in DOMAIN tasks' :
            /\ \A j, k \in Later(tasks'[t]) : j # k => tasks'[t].runs[j].key # tasks'[t].runs[k].key
            /\ \A p \in Retries(calls', tasks', t) : p[1] \in Nat \X Nat /\ p[1][1] < sent'
            /\ \A p, q \in Retries(calls', tasks', t) : p[1] = q[1] => p[2] = q[2]
      BY <1>1, <1>2, <2>7 DEF RetryKeyed
    <3>2. view # NoValue => Retries(calls', tasks', view'.task) = Retries(calls, tasks, view.task)
      BY <1>5, <2>7
    <3>. QED
      BY <1>1, <1>2, <1>5, <3>1, <3>2 DEF RetryKeyed
  <2>. QED
    BY <2>4, <2>5, <2>8, <2>9 DEF CommandsInv
<1>. QED
  BY <1>3, <1>4, <1>5 DEF LookUpTask

LEMMA CreateTaskKeeps ==
  ASSUME CommandsInv, NEW call \in calls, CreateTask(call)
  PROVE  CommandsInv'
<1>1. CommandsTyped /\ AttemptsStand /\ CreationKeyed /\ RetryKeyed
  BY DEF CommandsInv
<1>2. sent' = sent /\ call.kind = "create"
  BY DEF CreateTask
<1>3. ASSUME NEW t \in TaskOf(call.key), Finish(call, Existing(t, call)), UNCHANGED tasks
      PROVE  CommandsInv'
  <2>1. t \in DOMAIN tasks
    BY DEF TaskOf
  <2>. QED
    BY <1>2, <1>3, <2>1, FinishKeeps, ExistingStands
<1>4. ASSUME TaskOf(call.key) = {},
             tasks' = Append(tasks, NewTask(call.key, call.content, call.intent)),
             Finish(call, [task |-> Len(tasks) + 1, run |-> 1])
      PROVE  CommandsInv'
  <2>. DEFINE new == NewTask(call.key, call.content, call.intent)
              N == Len(tasks)
              result == [task |-> N + 1, run |-> 1]
  <2>1. call \in CreateCalls /\ tasks \in Seq(TaskRecords)
    BY <1>1, <1>2 DEF CommandsTyped
  <2>2. NewRun(NoValue, NoValue) \in RunRecords
    BY DEF NewRun, RunRecords
  <2>3. <<NewRun(NoValue, NoValue)>> \in Seq(RunRecords)
    BY <2>2
  <2>4. /\ new \in TaskRecords /\ new.key = call.key /\ new.intent = call.intent
        /\ new.runs = <<NewRun(NoValue, NoValue)>>
    BY <2>1, <2>3 DEF NewTask, TaskRecords, CreateCalls
  <2>5. new.runs # << >> /\ DOMAIN new.runs = {1} /\ new.runs[1].intent = NoValue
    BY <2>4 DEF NewRun
  <2>. HIDE DEF new
  <2>6. /\ tasks' \in Seq(TaskRecords) /\ N \in Nat
        /\ DOMAIN tasks = 1 .. N /\ DOMAIN tasks' = 1 .. N + 1
        /\ tasks'[N + 1] = new
        /\ \A t \in DOMAIN tasks : tasks'[t] = tasks[t]
    BY <1>4, <2>1, <2>4 DEF new
  <2>7. N + 1 \in DOMAIN tasks' /\ N + 1 \notin DOMAIN tasks /\ N + 1 \in Nat
        /\ DOMAIN tasks \subseteq DOMAIN tasks'
        /\ \A t \in DOMAIN tasks' : t = N + 1 \/ t \in DOMAIN tasks
    BY <2>6
  <2>. HIDE DEF N
  <2>8. FormMoves /\ PageMoves /\ calls' = calls \ {call}
    <3>1. /\ result.task = N + 1 /\ result.run = 1
          /\ result.run \in DOMAIN tasks'[result.task].runs
      BY <2>5, <2>6
    <3>2. Finish(call, result)
      BY <1>4 DEF N
    <3>. HIDE DEF result
    <3>. QED
      BY <1>1, <2>6, <2>7, <3>1, <3>2, FinishMoves
  <2>9. view' # NoValue =>
          /\ view' \in Views /\ view'.task \in DOMAIN tasks'
          /\ view'.attempt \in DOMAIN tasks'[view'.task].runs
    BY <1>1, <2>7, <2>8 DEF PageMoves, SamePage, NewPage, AttemptsStand
  <2>10. CommandsTyped'
    BY <1>1, <1>2, <2>6, <2>8, <2>9 DEF CommandsTyped, FormMoves
  <2>11. AttemptsStand'
    BY <1>1, <2>5, <2>6, <2>7, <2>8, <2>9 DEF AttemptsStand
  <2>12. CreationKeyed'
    <3>1. Submissions' \subseteq Submissions
      <4>1. <<new.intent, new.key>> \in Submissions
        BY <1>2, <2>4 DEF Submissions
      <4>2. \A t \in DOMAIN tasks' : <<tasks'[t].intent, tasks'[t].key>> \in Submissions
        BY <2>6, <2>7, <4>1 DEF Submissions
      <4>. QED
        BY <2>8, <4>2 DEF Submissions
    <3>2. \A t \in DOMAIN tasks : tasks[t].key # new.key
      BY <1>4, <2>4 DEF TaskOf
    <3>3. \A t, u \in DOMAIN tasks' : t # u => tasks'[t].key # tasks'[u].key
      BY <1>1, <2>6, <2>7, <3>2 DEF CreationKeyed
    <3>. QED
      BY <1>1, <2>8, <3>1, <3>3, CreationKept
  <2>13. RetryKeyed'
    <3>1. \A t \in DOMAIN tasks : Retries(calls', tasks', t) \subseteq Retries(calls, tasks, t)
      BY <2>6, <2>8 DEF Retries
    <3>2. Later(new) = {}
      BY <2>5 DEF Later
    <3>3. Retries(calls', tasks', N + 1) = {}
      <4>1. \A c \in calls : c.kind = "retry" => c.content # N + 1
        BY <1>1, <2>7 DEF AttemptsStand
      <4>. QED
        BY <2>6, <2>8, <3>2, <4>1 DEF Retries
    <3>4. \A t \in DOMAIN tasks' : \A j, k \in Later(tasks'[t]) :
            j # k => tasks'[t].runs[j].key # tasks'[t].runs[k].key
      BY <1>1, <2>6, <2>7, <3>2 DEF RetryKeyed
    <3>5. \A t \in DOMAIN tasks' \ DOMAIN tasks : Retries(calls', tasks', t) = {}
      BY <2>7, <3>3
    <3>. QED
      BY <1>1, <1>2, <2>7, <2>8, <3>1, <3>4, <3>5, RetryKept
  <2>. QED
    BY <2>10, <2>11, <2>12, <2>13 DEF CommandsInv
<1>. QED
  BY <1>3, <1>4 DEF CreateTask, InsertTask

\* One run more, or one run that is over now: the others and every key stay.
LEMMA RunsChange ==
  ASSUME CommandsInv, NEW t \in DOMAIN tasks, NEW rs \in Seq(RunRecords),
         tasks' = [tasks EXCEPT ![t].runs = rs],
         DOMAIN tasks[t].runs \subseteq DOMAIN rs,
         rs[1].intent = NoValue
  PROVE  /\ tasks' \in Seq(TaskRecords) /\ DOMAIN tasks' = DOMAIN tasks
         /\ tasks'[t].runs = rs /\ rs # << >>
         /\ tasks'[t].key = tasks[t].key /\ tasks'[t].intent = tasks[t].intent
         /\ \A u \in DOMAIN tasks : u # t => tasks'[u] = tasks[u]
         /\ \A u \in DOMAIN tasks : DOMAIN tasks[u].runs \subseteq DOMAIN tasks'[u].runs
         /\ \A u \in DOMAIN tasks' :
              tasks'[u].runs # << >> /\ tasks'[u].runs[1].intent = NoValue
<1>1. CommandsTyped /\ AttemptsStand
  BY DEF CommandsInv
<1>2. tasks \in Seq(TaskRecords) /\ tasks[t] \in TaskRecords
  BY <1>1, RecordsTyped DEF CommandsTyped
<1>. DEFINE altered == [tasks[t] EXCEPT !.runs = rs]
<1>3. /\ altered \in TaskRecords /\ altered.runs = rs
      /\ altered.key = tasks[t].key /\ altered.intent = tasks[t].intent
  BY <1>2 DEF TaskRecords
<1>. HIDE DEF altered
<1>4. tasks' = [tasks EXCEPT ![t] = altered]
  BY DEF altered
<1>5. /\ tasks' \in Seq(TaskRecords) /\ DOMAIN tasks' = DOMAIN tasks /\ tasks'[t] = altered
      /\ \A u \in DOMAIN tasks : u # t => tasks'[u] = tasks[u]
  <2>1. DOMAIN tasks = 1 .. Len(tasks) /\ tasks \in [1 .. Len(tasks) -> TaskRecords]
        /\ Len(tasks) \in Nat
    BY <1>2
  <2>2. tasks' \in [1 .. Len(tasks) -> TaskRecords]
    BY <1>3, <1>4, <2>1
  <2>3. tasks' \in Seq(TaskRecords)
    BY <2>1, <2>2
  <2>. QED
    BY <1>4, <2>1, <2>2, <2>3
<1>6. rs # << >>
  <2>1. 1 \in DOMAIN tasks[t].runs
    BY <1>1, RecordsTyped DEF AttemptsStand
  <2>. QED
    BY <2>1
<1>7. \A u \in DOMAIN tasks : DOMAIN tasks[u].runs \subseteq DOMAIN tasks'[u].runs
  BY <1>3, <1>5
<1>8. \A u \in DOMAIN tasks' :
        tasks'[u].runs # << >> /\ tasks'[u].runs[1].intent = NoValue
  BY <1>1, <1>3, <1>5, <1>6 DEF AttemptsStand
<1>. QED
  BY <1>3, <1>5, <1>6, <1>7, <1>8

LEMMA EndRunKeeps ==
  ASSUME CommandsInv, NEW t \in DOMAIN tasks, EndRun(t)
  PROVE  CommandsInv'
<1>1. CommandsTyped /\ AttemptsStand /\ CreationKeyed /\ RetryKeyed
  BY DEF CommandsInv
<1>. DEFINE N == LatestAttempt(t)
            over == [tasks[t].runs[N] EXCEPT !.over = TRUE]
            rs == [tasks[t].runs EXCEPT ![N] = over]
<1>2. /\ tasks[t].runs \in Seq(RunRecords) /\ tasks[t].runs # << >>
      /\ tasks[t].runs[1].intent = NoValue
  BY <1>1, RecordsTyped DEF AttemptsStand
<1>3. N = Len(tasks[t].runs) /\ N \in DOMAIN tasks[t].runs /\ tasks[t].runs[N] \in RunRecords
  BY <1>2 DEF LatestAttempt
<1>4. /\ over \in RunRecords /\ over.key = tasks[t].runs[N].key
      /\ over.intent = tasks[t].runs[N].intent
  BY <1>3 DEF RunRecords
<1>5. tasks' = [tasks EXCEPT ![t].runs = rs] /\ UNCHANGED <<form, calls, sent, view>>
  BY DEF EndRun
<1>. HIDE DEF over
<1>6. /\ rs \in Seq(RunRecords) /\ DOMAIN rs = DOMAIN tasks[t].runs
      /\ \A k \in DOMAIN rs : rs[k].key = tasks[t].runs[k].key
                              /\ rs[k].intent = tasks[t].runs[k].intent
  <2>1. /\ tasks[t].runs \in [1 .. N -> RunRecords] /\ DOMAIN tasks[t].runs = 1 .. N
        /\ N \in Nat
    BY <1>2, <1>3
  <2>2. rs \in [1 .. N -> RunRecords]
    BY <1>4, <2>1
  <2>3. rs \in Seq(RunRecords)
    BY <2>1, <2>2
  <2>. HIDE DEF N
  <2>4. \A k \in 1 .. N : rs[k] = IF k = N THEN over ELSE tasks[t].runs[k]
    BY <2>1
  <2>. QED
    BY <1>4, <2>1, <2>2, <2>3, <2>4
<1>. HIDE DEF rs
<1>7. rs[1].intent = NoValue
  <2>1. 1 \in DOMAIN rs
    BY <1>2, <1>6
  <2>. QED
    BY <1>2, <1>6, <2>1
<1>8. /\ tasks' \in Seq(TaskRecords) /\ DOMAIN tasks' = DOMAIN tasks
      /\ tasks'[t].runs = rs /\ rs # << >>
      /\ tasks'[t].key = tasks[t].key /\ tasks'[t].intent = tasks[t].intent
      /\ \A u \in DOMAIN tasks : u # t => tasks'[u] = tasks[u]
      /\ \A u \in DOMAIN tasks : DOMAIN tasks[u].runs \subseteq DOMAIN tasks'[u].runs
      /\ \A u \in DOMAIN tasks' :
           tasks'[u].runs # << >> /\ tasks'[u].runs[1].intent = NoValue
  BY <1>5, <1>6, <1>7, RunsChange
<1>9. CommandsTyped'
  BY <1>1, <1>5, <1>8 DEF CommandsTyped
<1>10. AttemptsStand'
  BY <1>1, <1>5, <1>8 DEF AttemptsStand
<1>11. CreationKeyed'
  <2>1. Submissions' = Submissions
    BY <1>5, <1>8 DEF Submissions
  <2>2. \A u, v \in DOMAIN tasks' : u # v => tasks'[u].key # tasks'[v].key
    BY <1>1, <1>8 DEF CreationKeyed
  <2>. QED
    BY <1>1, <1>5, <2>1, <2>2 DEF CreationKeyed
<1>12. RetryKeyed'
  <2>1. Later(tasks'[t]) = Later(tasks[t])
    BY <1>6, <1>8 DEF Later
  <2>2. \A k \in Later(tasks[t]) : /\ tasks'[t].runs[k].key = tasks[t].runs[k].key
                                   /\ tasks'[t].runs[k].intent = tasks[t].runs[k].intent
    BY <1>6, <1>8 DEF Later
  <2>3. \A u \in DOMAIN tasks : Retries(calls', tasks', u) = Retries(calls, tasks, u)
    <3>1. calls' = calls
      BY <1>5
    <3>2. ASSUME NEW u \in DOMAIN tasks, u # t
          PROVE  Retries(calls', tasks', u) = Retries(calls, tasks, u)
      <4>1. tasks'[u] = tasks[u]
        BY <1>8, <3>2
      <4>. QED
        BY <3>1, <4>1 DEF Retries
    <3>3. Retries(calls', tasks', t) = Retries(calls, tasks, t)
      BY <2>1, <2>2, <3>1 DEF Retries
    <3>. QED
      BY <3>2, <3>3
  <2>4. \A u \in DOMAIN tasks' : \A j, k \in Later(tasks'[u]) :
          j # k => tasks'[u].runs[j].key # tasks'[u].runs[k].key
    <3>1. ASSUME NEW u \in DOMAIN tasks', NEW j \in Later(tasks'[u]), NEW k \in Later(tasks'[u]),
                 j # k
          PROVE  tasks'[u].runs[j].key # tasks'[u].runs[k].key
      <4>1. CASE u = t
        BY <1>1, <1>8, <2>1, <2>2, <3>1, <4>1 DEF RetryKeyed
      <4>2. CASE u # t
        BY <1>1, <1>8, <3>1, <4>2 DEF RetryKeyed
      <4>. QED
        BY <4>1, <4>2
    <3>. QED
      BY <3>1
  <2>5. PageMoves
    BY <1>1, <1>5, <1>8, PageStays
  <2>. QED
    BY <1>1, <1>5, <1>8, <2>3, <2>4, <2>5, RetryKept
<1>. QED
  BY <1>9, <1>10, <1>11, <1>12 DEF CommandsInv

LEMMA RetryTaskKeeps ==
  ASSUME CommandsInv, NEW call \in calls, RetryTask(call)
  PROVE  CommandsInv'
<1>1. CommandsTyped /\ AttemptsStand /\ CreationKeyed /\ RetryKeyed
  BY DEF CommandsInv
<1>. DEFINE t == call.content
            N == LatestAttempt(t)
<1>2. /\ sent' = sent /\ call.kind = "retry" /\ t \in DOMAIN tasks /\ t \in Nat
      /\ call.key \in Nat /\ call.intent \in Nat \X Nat
  BY <1>1, RecordsTyped DEF RetryTask, AttemptsStand
<1>3. CASE Finish(call, NoValue) /\ UNCHANGED tasks
  BY <1>2, <1>3, FinishKeeps
<1>4. ASSUME NEW k \in RunsOfKey(t, call.key), Finish(call, [task |-> t, run |-> k]), UNCHANGED tasks
      PROVE  CommandsInv'
  <2>. DEFINE result == [task |-> t, run |-> k]
  <2>1. k \in DOMAIN tasks[t].runs /\ k \in Nat
    BY <1>1, <1>2, RecordsTyped DEF RunsOfKey
  <2>2. /\ result.task \in DOMAIN tasks /\ result.run \in DOMAIN tasks[result.task].runs
        /\ result.task \in Nat /\ result.run \in Nat
    BY <1>2, <2>1
  <2>. HIDE DEF result
  <2>3. Finish(call, result)
    BY <1>4 DEF result
  <2>. QED
    BY <1>2, <1>4, <2>2, <2>3, FinishKeeps
<1>5. ASSUME RunsOfKey(t, call.key) = {},
             tasks' = [tasks EXCEPT ![t].runs = Append(@, NewRun(call.key, call.intent))],
             Finish(call, [task |-> t, run |-> N + 1])
      PROVE  CommandsInv'
  <2>. DEFINE new == NewRun(call.key, call.intent)
              rs == Append(tasks[t].runs, new)
              result == [task |-> t, run |-> N + 1]
  <2>1. new \in RunRecords /\ new.key = call.key /\ new.intent = call.intent
    BY <1>2 DEF NewRun, RunRecords
  <2>2. /\ tasks[t].runs \in Seq(RunRecords) /\ tasks[t].runs # << >>
        /\ tasks[t].runs[1].intent = NoValue
    BY <1>1, <1>2, RecordsTyped DEF AttemptsStand
  <2>3. tasks' = [tasks EXCEPT ![t].runs = rs]
    BY <1>5
  <2>. HIDE DEF new, t
  <2>4. /\ N \in Nat /\ N >= 1 /\ DOMAIN tasks[t].runs = 1 .. N
        /\ rs \in Seq(RunRecords) /\ DOMAIN rs = 1 .. N + 1
        /\ rs[N + 1] = new /\ \A k \in 1 .. N : rs[k] = tasks[t].runs[k]
    BY <2>1, <2>2 DEF LatestAttempt
  <2>5. rs[1].intent = NoValue
    BY <2>2, <2>4
  <2>. HIDE DEF rs, N
  <2>6. DOMAIN tasks[t].runs \subseteq DOMAIN rs
    BY <2>4
  <2>7. /\ tasks' \in Seq(TaskRecords) /\ DOMAIN tasks' = DOMAIN tasks
        /\ tasks'[t].runs = rs /\ rs # << >>
        /\ tasks'[t].key = tasks[t].key /\ tasks'[t].intent = tasks[t].intent
        /\ \A u \in DOMAIN tasks : u # t => tasks'[u] = tasks[u]
        /\ \A u \in DOMAIN tasks : DOMAIN tasks[u].runs \subseteq DOMAIN tasks'[u].runs
        /\ \A u \in DOMAIN tasks' :
             tasks'[u].runs # << >> /\ tasks'[u].runs[1].intent = NoValue
    BY <1>2, <2>3, <2>4, <2>5, <2>6, RunsChange
  <2>8. FormMoves /\ PageMoves /\ calls' = calls \ {call}
    <3>1. /\ result.task = t /\ result.run = N + 1 /\ N + 1 \in Nat
          /\ result.run \in DOMAIN tasks'[result.task].runs
      BY <2>4, <2>7
    <3>2. Finish(call, result)
      BY <1>5
    <3>. HIDE DEF result
    <3>. QED
      BY <1>1, <1>2, <2>7, <3>1, <3>2, FinishMoves
  <2>9. view' # NoValue =>
          /\ view' \in Views /\ view'.task \in DOMAIN tasks'
          /\ view'.attempt \in DOMAIN tasks'[view'.task].runs
    BY <1>1, <2>7, <2>8 DEF PageMoves, SamePage, NewPage, AttemptsStand
  <2>10. CommandsTyped'
    BY <1>1, <1>2, <2>7, <2>8, <2>9 DEF CommandsTyped, FormMoves
  <2>11. AttemptsStand'
    BY <1>1, <2>7, <2>8, <2>9 DEF AttemptsStand
  <2>12. CreationKeyed'
    <3>1. Submissions' \subseteq Submissions
      BY <2>7, <2>8 DEF Submissions
    <3>2. \A u, v \in DOMAIN tasks' : u # v => tasks'[u].key # tasks'[v].key
      BY <1>1, <2>7 DEF CreationKeyed
    <3>. QED
      BY <1>1, <2>8, <3>1, <3>2, CreationKept
  <2>13. RetryKeyed'
    <3>2. /\ Later(tasks'[t]) = Later(tasks[t]) \cup {N + 1}
          /\ N + 1 \notin Later(tasks[t])
          /\ \A k \in Later(tasks[t]) : tasks'[t].runs[k] = tasks[t].runs[k]
          /\ tasks'[t].runs[N + 1] = new
      BY <2>4, <2>7 DEF Later
    <3>3. <<new.intent, new.key>> \in Retries(calls, tasks, t)
      BY <1>2, <2>1 DEF Retries, t
    <3>4. Retries(calls', tasks', t) \subseteq Retries(calls, tasks, t)
      BY <2>8, <3>2, <3>3 DEF Retries
    <3>5. \A u \in DOMAIN tasks : Retries(calls', tasks', u) \subseteq Retries(calls, tasks, u)
      <4>1. \A u \in DOMAIN tasks : u # t =>
              Retries(calls', tasks', u) \subseteq Retries(calls, tasks, u)
        BY <2>7, <2>8 DEF Retries
      <4>. QED
        BY <3>4, <4>1
    <3>6. \A k \in Later(tasks[t]) : tasks[t].runs[k].key # new.key
      BY <1>5, <2>1 DEF RunsOfKey, Later
    <3>7. \A u \in DOMAIN tasks' : \A j, k \in Later(tasks'[u]) :
            j # k => tasks'[u].runs[j].key # tasks'[u].runs[k].key
      <4>1. ASSUME NEW u \in DOMAIN tasks', NEW j \in Later(tasks'[u]),
                   NEW k \in Later(tasks'[u]), j # k
            PROVE  tasks'[u].runs[j].key # tasks'[u].runs[k].key
        <5>1. CASE u = t
          <6>1. \A i, l \in Later(tasks[t]) : i # l => tasks[t].runs[i].key # tasks[t].runs[l].key
            BY <1>1, <1>2 DEF RetryKeyed, t
          <6>. QED
            BY <3>2, <3>6, <4>1, <5>1, <6>1
        <5>2. CASE u # t
          BY <1>1, <2>7, <4>1, <5>2 DEF RetryKeyed
        <5>. QED
          BY <5>1, <5>2
      <4>. QED
        BY <4>1
    <3>. QED
      BY <1>1, <1>2, <2>7, <2>8, <3>5, <3>7, RetryKept
  <2>. QED
    BY <2>10, <2>11, <2>12, <2>13 DEF CommandsInv
<1>. QED
  BY <1>3, <1>4, <1>5 DEF RetryTask, CreateRetryRun

LEMMA CommandsStep ==
  ASSUME CommandsAssumption, CommandsInv, [CommandsNext]_commandsVars
  PROVE  CommandsInv'
<1>1. ASSUME NEW c \in Forms, EditForm(c) PROVE CommandsInv'
  BY <1>1, EditFormKeeps
<1>2. CASE SubmitForm
  BY <1>2, SubmitFormKeeps
<1>3. CASE PressRetry
  BY <1>3, PressRetryKeeps
<1>4. CASE LoseReply \/ RefreshView \/ LeaveView
  BY <1>4, PageStepsKeep
<1>5. ASSUME NEW call \in calls, LookUpTask(call) \/ CreateTask(call) \/ RetryTask(call)
      PROVE  CommandsInv'
  BY <1>5, LookUpTaskKeeps, CreateTaskKeeps, RetryTaskKeeps
<1>6. ASSUME NEW t \in DOMAIN tasks, EndRun(t) PROVE CommandsInv'
  BY <1>6, EndRunKeeps
<1>7. CASE Administer \/ UNCHANGED commandsVars
  <2>1. UNCHANGED <<tasks, form, calls, sent, view>>
    BY <1>7 DEF Administer, commandsVars
  <2>2. FormMoves /\ PageMoves
    BY <2>1, FormStays, PageStays DEF CommandsInv
  <2>. QED
    BY <2>1, <2>2, QuietStep
<1>. QED
  BY <1>1, <1>2, <1>3, <1>4, <1>5, <1>6, <1>7 DEF CommandsNext

(* Keys and intents go together wherever they are: in the form, on the page, *)
(* in requests on their way and in what is stored.                          *)
THEOREM CommandsInvariant == CommandsSpec => []CommandsInv
<1>1. CommandsInv /\ [CommandsNext]_commandsVars => CommandsInv'
  BY CommandsAssumption, CommandsStep
<1>. QED
  BY <1>1, CommandsStart, PTL DEF CommandsSpec

(* However often a submission is repeated because its reply was lost or     *)
(* late, it makes one task, and pressing Retry for one run on one page      *)
(* makes one run.                                                           *)
THEOREM OneCommandPerIntent == CommandsSpec => []OnePerIntent
<1>1. CommandsInv => OnePerIntent
  <2>. SUFFICES ASSUME CommandsInv PROVE OnePerIntent
    OBVIOUS
  <2>1. CommandsTyped /\ AttemptsStand /\ CreationKeyed /\ RetryKeyed
    BY DEF CommandsInv
  <2>2. ASSUME NEW i \in DOMAIN tasks, NEW j \in DOMAIN tasks, i # j
        PROVE  tasks[i].intent # tasks[j].intent
    <3>1. /\ <<tasks[i].intent, tasks[i].key>> \in Submissions
          /\ <<tasks[j].intent, tasks[j].key>> \in Submissions
      BY DEF Submissions
    <3>2. tasks[i].key # tasks[j].key
      BY <2>1, <2>2 DEF CreationKeyed
    <3>. QED
      BY <2>1, <3>1, <3>2 DEF CreationKeyed
  <2>3. ASSUME NEW t \in DOMAIN tasks, NEW j \in DOMAIN tasks[t].runs,
               NEW k \in DOMAIN tasks[t].runs, j # k, tasks[t].runs[j].intent # NoValue,
               tasks[t].runs[j].intent = tasks[t].runs[k].intent
        PROVE  FALSE
    <3>1. j \in Later(tasks[t]) /\ k \in Later(tasks[t])
      BY <2>1, <2>3 DEF AttemptsStand, Later
    <3>2. /\ <<tasks[t].runs[j].intent, tasks[t].runs[j].key>> \in Retries(calls, tasks, t)
          /\ <<tasks[t].runs[k].intent, tasks[t].runs[k].key>> \in Retries(calls, tasks, t)
      BY <3>1 DEF Retries
    <3>3. tasks[t].runs[j].key # tasks[t].runs[k].key
      BY <2>1, <2>3, <3>1 DEF RetryKeyed
    <3>. QED
      BY <2>1, <2>3, <3>2, <3>3 DEF RetryKeyed
  <2>. QED
    BY <2>2, <2>3 DEF OnePerIntent
<1>. QED
  BY <1>1, CommandsInvariant, PTL

-----------------------------------------------------------------------------
(* Lists read page by page: the inductive invariant.                        *)

ListItems ==
  [kind : DOMAIN Rank \cup Tables, key : Int \X Int, at : Int, space : Spaces \cup {NoItem}]
RowRecords ==
  [table : Tables, id : Nat, space : Spaces \cup {NoItem}, at : Int, then : Int,
   status : {"none", "queued", "over"}]

(* The rows, as the tables' keys have it; the Space of a member or of a     *)
(* saved paper gives its row.                                               *)
Sound(R) ==
  /\ R \subseteq RowRecords
  /\ IsFiniteSet(R)
  /\ \A r, s \in R : r.table = s.table /\ r.id = s.id => r = s
  /\ \A r \in R : (r.table = "connections") = (r.space = NoItem)
  /\ \A r \in R : r.table \in {"space_members", "saved_papers"} =>
       r.id = IF r.space = HomeSpace THEN 1 ELSE 2

RowsSound == Sound(rows)

ReaderStates ==
  [query : PageQueries, phase : {"more", "asked", "checked", "end", "refused"},
   cursor : ListItems \cup {NoItem}, seen : Seq(ListItems), there : SUBSET ListItems,
   was : SUBSET Spaces, gained : SUBSET (Spaces \cup {NoItem})]

Reading == reader.phase \in {"more", "asked", "checked"}

(* What was read so far is sorted, and what it passed over is not "there":  *)
(* the rows that are have been seen or are still behind the cursor.         *)
PlaceKept ==
  reader # Idle =>
    /\ reader \in ReaderStates
    /\ \A i, j \in DOMAIN reader.seen : i < j => Before(reader.seen[j], reader.seen[i])
    /\ Reading =>
         /\ \A query \in PageQueries :
              query = reader.query => reader.there \subseteq Listed(query)
         /\ IF reader.cursor = NoItem THEN reader.seen = << >>
            ELSE reader.seen # << >> /\ reader.cursor = reader.seen[Len(reader.seen)]
         /\ \A e \in reader.there : e \in Range(reader.seen) \/ Behind(reader.cursor, e)
    /\ reader.phase = "end" => reader.there \subseteq Range(reader.seen)

(* "was" keeps the Spaces the reader has had access to since the request.   *)
AccessKept ==
  /\ reader # Idle =>
       /\ reader.phase \in {"asked", "checked"} => Accessible \subseteq reader.was
       /\ reader.phase = "checked" => reader.query.space \in reader.was \cup {NoItem}
       /\ reader.gained \subseteq reader.was \cup {NoItem}
  /\ overview \in [left : SUBSET {"activity", "spaces", "work"}, spaces : SUBSET Spaces,
                   was : SUBSET Spaces]
  /\ overview.left # {} => Accessible \subseteq overview.was
  /\ overview.spaces \subseteq overview.was

ListsInv == RowsSound /\ PlaceKept /\ AccessKept

-----------------------------------------------------------------------------
(* Order.                                                                   *)

\* Items that differ in time or key are ordered, one way only.
LEMMA BeforeOrders ==
  ASSUME NEW e \in ListItems, NEW f \in ListItems
  PROVE  /\ ~(Before(e, f) /\ Before(f, e)) /\ ~Before(e, e)
         /\ (e.at = f.at /\ e.key = f.key) \/ Before(e, f) \/ Before(f, e)
<1>1. /\ e.at \in Int /\ f.at \in Int /\ e.key \in Int \X Int /\ f.key \in Int \X Int
  BY DEF ListItems
<1>2. /\ e.key[1] \in Int /\ e.key[2] \in Int /\ f.key[1] \in Int /\ f.key[2] \in Int
      /\ e.key = <<e.key[1], e.key[2]>> /\ f.key = <<f.key[1], f.key[2]>>
  BY <1>1
<1>. QED
  BY <1>1, <1>2 DEF Before, KeyBefore

LEMMA BeforeTransitive ==
  ASSUME NEW e \in ListItems, NEW f \in ListItems, NEW g \in ListItems,
         Before(e, f), Before(f, g)
  PROVE  Before(e, g)
<1>1. /\ e.at \in Int /\ f.at \in Int /\ g.at \in Int
      /\ e.key[1] \in Int /\ e.key[2] \in Int /\ f.key[1] \in Int /\ f.key[2] \in Int
      /\ g.key[1] \in Int /\ g.key[2] \in Int
  BY DEF ListItems
<1>. QED
  BY <1>1 DEF Before, KeyBefore

Sorted(S) == \A e, f \in S : e # f => Before(e, f) \/ Before(f, e)
RankIn(S) == [e \in S |-> Cardinality({f \in S : Before(e, f)})]

(* In a finite set of items, each has its own number of items newer than    *)
(* it, and all the numbers below the size occur.                            *)
LEMMA RanksCount ==
  ASSUME NEW S, IsFiniteSet(S), S \subseteq ListItems, Sorted(S)
  PROVE  /\ Cardinality(S) \in Nat
         /\ RankIn(S) \in [S -> 0 .. Cardinality(S) - 1]
         /\ \A e, f \in S : Before(e, f) => RankIn(S)[f] < RankIn(S)[e]
         /\ \A e, f \in S : RankIn(S)[e] = RankIn(S)[f] => e = f
         /\ \A i \in 0 .. Cardinality(S) - 1 : \E e \in S : RankIn(S)[e] = i
<1>. DEFINE Newer(e) == {f \in S : Before(e, f)}
            N == Cardinality(S)
<1>1. N \in Nat
  BY FS_CardinalityType
<1>2. ASSUME NEW e \in S
      PROVE  /\ IsFiniteSet(Newer(e)) /\ Cardinality(Newer(e)) \in 0 .. N - 1
             /\ Cardinality(Newer(e)) \in Nat
             /\ RankIn(S)[e] = Cardinality(Newer(e))
  <2>1. Newer(e) \subseteq S /\ e \notin Newer(e)
    BY <1>2, BeforeOrders
  <2>2. IsFiniteSet(Newer(e)) /\ Cardinality(Newer(e)) <= N /\ Cardinality(Newer(e)) # N
    BY <2>1, FS_Subset
  <2>3. Cardinality(Newer(e)) \in Nat
    BY <2>2, FS_CardinalityType
  <2>4. RankIn(S)[e] = Cardinality(Newer(e))
    BY <1>2 DEF RankIn
  <2>. HIDE DEF Newer
  <2>. QED
    BY <1>1, <2>2, <2>3, <2>4
<1>3. RankIn(S) \in [S -> 0 .. N - 1]
  BY <1>2 DEF RankIn
<1>4. ASSUME NEW e \in S, NEW f \in S, Before(e, f)
      PROVE  RankIn(S)[f] < RankIn(S)[e]
  <2>1. Newer(f) \subseteq Newer(e)
    BY <1>4, BeforeTransitive
  <2>2. f \in Newer(e) /\ f \notin Newer(f)
    BY <1>4, BeforeOrders
  <2>3. Cardinality(Newer(f)) <= Cardinality(Newer(e)) /\ Cardinality(Newer(f)) # Cardinality(Newer(e))
    BY <1>2, <2>1, <2>2, FS_Subset
  <2>4. /\ Cardinality(Newer(f)) \in Nat /\ Cardinality(Newer(e)) \in Nat
        /\ RankIn(S)[f] = Cardinality(Newer(f)) /\ RankIn(S)[e] = Cardinality(Newer(e))
    BY <1>2
  <2>. HIDE DEF Newer
  <2>. QED
    BY <2>3, <2>4
<1>. HIDE DEF Newer
<1>5. ASSUME NEW e \in S, NEW f \in S, RankIn(S)[e] = RankIn(S)[f]
      PROVE  e = f
  <2>1. RankIn(S)[e] \in Int /\ RankIn(S)[f] \in Int
    BY <1>1, <1>3
  <2>. QED
    BY <1>4, <1>5, <2>1 DEF Sorted
<1>6. \A i \in 0 .. N - 1 : \E e \in S : RankIn(S)[e] = i
  <2>1. RankIn(S) \in Injection(S, 0 .. N - 1)
    BY <1>3, <1>5 DEF Injection, IsInjective
  <2>2. IsFiniteSet(0 .. N - 1) /\ Cardinality(0 .. N - 1) = N
    <3>1. N - 1 \in Int /\ 0 \in Int
      BY <1>1
    <3>2. /\ IsFiniteSet(0 .. N - 1)
          /\ Cardinality(0 .. N - 1) = IF 0 > N - 1 THEN 0 ELSE (N - 1) - 0 + 1
      BY <3>1, FS_Interval
    <3>. QED
      BY <1>1, <3>2
  <2>3. RankIn(S) \in Surjection(S, 0 .. N - 1)
    BY <2>1, <2>2, FS_Injection
  <2>. QED
    BY <2>3 DEF Surjection
<1>. QED
  BY <1>1, <1>3, <1>4, <1>5, <1>6

(* The page that is made of the rows found behind the cursor.               *)
Newest(found) ==
  LET number == Cardinality(found)
  IN [items |-> [i \in 1 .. (IF number < PageLimit THEN number ELSE PageLimit) |->
                   CHOOSE e \in found : Cardinality({f \in found : Before(e, f)}) = i - 1],
      more |-> number > PageLimit]

(* It has the newest of them, newest first, and what is left comes after    *)
(* the last of them.                                                        *)
LEMMA PageRows ==
  ASSUME ListsAssumption, NEW found,
         IsFiniteSet(found), found \subseteq ListItems, Sorted(found),
         NEW slice, slice = Newest(found)
  PROVE  /\ slice.items \in Seq(found) /\ slice.more \in BOOLEAN
         /\ \A i, j \in DOMAIN slice.items : i < j => Before(slice.items[j], slice.items[i])
         /\ slice.more =>
              /\ slice.items # << >>
              /\ \A e \in found :
                   e \in Range(slice.items) \/ Before(e, slice.items[Len(slice.items)])
         /\ ~slice.more => found \subseteq Range(slice.items)
<1>. DEFINE N == Cardinality(found)
            n == IF N < PageLimit THEN N ELSE PageLimit
            items == [i \in 1 .. n |->
                        CHOOSE e \in found : Cardinality({f \in found : Before(e, f)}) = i - 1]
            rank == RankIn(found)
<1>1. PageLimit \in Nat /\ PageLimit >= 1
  BY DEF ListsAssumption
<1>2. /\ N \in Nat
      /\ rank \in [found -> 0 .. N - 1]
      /\ \A e, f \in found : Before(e, f) => rank[f] < rank[e]
      /\ \A e, f \in found : rank[e] = rank[f] => e = f
      /\ \A i \in 0 .. N - 1 : \E e \in found : rank[e] = i
  <2>. HIDE DEF N, rank
  <2>1. Cardinality(found) \in Nat
    BY RanksCount
  <2>2. RankIn(found) \in [found -> 0 .. Cardinality(found) - 1]
    BY RanksCount
  <2>3. \A e, f \in found : Before(e, f) => RankIn(found)[f] < RankIn(found)[e]
    BY RanksCount
  <2>4. \A e, f \in found : RankIn(found)[e] = RankIn(found)[f] => e = f
    BY RanksCount
  <2>5. \A i \in 0 .. Cardinality(found) - 1 : \E e \in found : RankIn(found)[e] = i
    BY RanksCount
  <2>. QED
    BY <2>1, <2>2, <2>3, <2>4, <2>5 DEF N, rank
<1>3. slice.items = items /\ slice.more = (N > PageLimit)
  <2>1. slice = [items |-> items, more |-> N > PageLimit]
    BY DEF Newest
  <2>. HIDE DEF items, N
  <2>. QED
    BY <2>1
<1>4. n \in Nat /\ n <= N /\ n <= PageLimit /\ (n < N <=> N > PageLimit)
      /\ (N > PageLimit => n >= 1)
  <2>. HIDE DEF N
  <2>. QED
    BY <1>1, <1>2
<1>5. \A i \in 1 .. n : items[i] \in found /\ rank[items[i]] = i - 1
  <2>. SUFFICES ASSUME NEW i \in 1 .. n PROVE items[i] \in found /\ rank[items[i]] = i - 1
    OBVIOUS
  <2>1. i - 1 \in 0 .. N - 1
    <3>. HIDE DEF N, n
    <3>. QED
      BY <1>2, <1>4
  <2>2. \A e \in found : rank[e] = Cardinality({f \in found : Before(e, f)})
    BY DEF RankIn
  <2>3. \E e \in found : Cardinality({f \in found : Before(e, f)}) = i - 1
    BY <1>2, <2>1, <2>2
  <2>4. items[i] = CHOOSE e \in found : Cardinality({f \in found : Before(e, f)}) = i - 1
    OBVIOUS
  <2>. HIDE DEF items
  <2>5. items[i] \in found /\ Cardinality({f \in found : Before(items[i], f)}) = i - 1
    BY <2>3, <2>4
  <2>. QED
    BY <2>2, <2>5
<1>6. DOMAIN items = 1 .. n /\ Len(items) = n /\ items \in Seq(found)
  <2>1. DOMAIN items = 1 .. n /\ items \in [1 .. n -> found]
    BY <1>5
  <2>. HIDE DEF items, n
  <2>. QED
    BY <1>4, <2>1
<1>. HIDE DEF items, n, N, rank
<1>7. \A i, j \in 1 .. n : i < j => Before(items[j], items[i])
  <2>1. ASSUME NEW i \in 1 .. n, NEW j \in 1 .. n, i < j PROVE Before(items[j], items[i])
    <3>1. /\ items[i] \in found /\ items[j] \in found
          /\ rank[items[i]] = i - 1 /\ rank[items[j]] = j - 1
      BY <1>5
    <3>2. rank[items[i]] < rank[items[j]]
      BY <2>1, <3>1
    <3>3. ~Before(items[i], items[j]) /\ items[i] # items[j]
      BY <1>2, <2>1, <3>1, <3>2
    <3>. QED
      BY <3>1, <3>3 DEF Sorted
  <2>. QED
    BY <2>1
<1>8. ASSUME NEW e \in found
      PROVE  \/ e \in Range(items)
             \/ n < N /\ n >= 1 /\ Before(e, items[n])
  <2>1. rank[e] \in 0 .. N - 1
    BY <1>2
  <2>2. CASE rank[e] < n
    <3>1. rank[e] + 1 \in 1 .. n
      BY <1>4, <2>1, <2>2
    <3>2. items[rank[e] + 1] \in found /\ rank[items[rank[e] + 1]] = rank[e]
      BY <1>5, <2>1, <3>1
    <3>3. items[rank[e] + 1] = e
      BY <1>2, <3>2
    <3>. QED
      BY <1>6, <3>1, <3>3 DEF Range
  <2>3. CASE rank[e] >= n
    <3>1. n < N /\ n >= 1
      BY <1>1, <1>2, <1>4, <2>1, <2>3
    <3>2. items[n] \in found /\ rank[items[n]] = n - 1
      BY <1>4, <1>5, <3>1
    <3>3. rank[items[n]] < rank[e]
      BY <1>4, <2>1, <2>3, <3>2
    <3>4. ~Before(items[n], e) /\ items[n] # e
      BY <1>2, <1>4, <2>1, <3>2, <3>3
    <3>. QED
      BY <3>1, <3>2, <3>4 DEF Sorted
  <2>. QED
    BY <1>4, <2>1, <2>2, <2>3
<1>9. N > PageLimit => items # << >>
  BY <1>4, <1>6
<1>10. \A i, j \in DOMAIN slice.items : i < j => Before(slice.items[j], slice.items[i])
  BY <1>3, <1>6, <1>7
<1>11. slice.more =>
         /\ slice.items # << >>
         /\ \A e \in found : e \in Range(slice.items) \/ Before(e, slice.items[Len(slice.items)])
  BY <1>3, <1>6, <1>8, <1>9
<1>12. ~slice.more => found \subseteq Range(slice.items)
  BY <1>3, <1>4, <1>8
<1>13. slice.items \in Seq(found) /\ slice.more \in BOOLEAN
  BY <1>3, <1>6
<1>. QED
  BY <1>10, <1>11, <1>12, <1>13


-----------------------------------------------------------------------------
(* The lists.  Every row of a list comes from one row of a table, and a     *)
(* table has one row with an id.                                            *)

Kinds == DOMAIN Rank
TableOf ==
  [agent_run_created |-> "agent_runs", agent_task_created |-> "agent_tasks",
   chat_message_created |-> "chat_messages", connection_accepted |-> "connections",
   connection_requested |-> "connections", document_uploaded |-> "documents",
   member_joined |-> "space_members", paper_saved |-> "saved_papers",
   space_created |-> "research_spaces"]
EventFrom(k, r) == Event(k, r, IF k = "connection_accepted" THEN r.then ELSE r.at)

LEMMA KindsCount ==
  /\ IsFiniteSet(Kinds)
  /\ \A k \in Kinds : Rank[k] \in 1 .. 9
  /\ \A k, l \in Kinds : Rank[k] = Rank[l] => k = l
<1>1. \A k \in Kinds : Rank[k] \in 1 .. 9
  <2>1. Kinds = {"agent_run_created", "agent_task_created", "chat_message_created",
                 "connection_accepted", "connection_requested", "document_uploaded",
                 "member_joined", "paper_saved", "space_created"}
    BY DEF Kinds, Rank
  <2>2. \A k \in Kinds : Rank[k] \in 1 .. 9
    BY <2>1 DEF Rank
  <2>. QED
    BY <2>2
<1>2. \A k, l \in Kinds : Rank[k] = Rank[l] => k = l
  BY DEF Kinds, Rank
<1>3. Rank \in Injection(Kinds, 1 .. 9)
  <2>1. Rank \in [Kinds -> 1 .. 9]
    BY <1>1 DEF Kinds, Rank
  <2>. QED
    BY <1>2, <2>1 DEF Injection, IsInjective
<1>4. IsFiniteSet(1 .. 9)
  <2>1. 1 \in Int /\ 9 \in Int
    OBVIOUS
  <2>. QED
    BY <2>1, FS_Interval
<1>. QED
  BY <1>1, <1>2, <1>3, <1>4, FS_Injection

LEMMA EventSource ==
  ASSUME NEW e \in ActivityEvents
  PROVE  \E k \in Kinds, r \in rows : r.table = TableOf[k] /\ e = EventFrom(k, r)

<1>1. CASE e \in ConnectionRequested
  BY <1>1 DEF ConnectionRequested, In, Kinds, Rank, TableOf, EventFrom
<1>2. CASE e \in ConnectionAccepted
  BY <1>2 DEF ConnectionAccepted, In, Kinds, Rank, TableOf, EventFrom
<1>3. CASE e \in SpaceCreated
  BY <1>3 DEF SpaceCreated, EventsOf, In, Kinds, Rank, TableOf, EventFrom
<1>4. CASE e \in MemberJoined
  BY <1>4 DEF MemberJoined, EventsOf, In, Kinds, Rank, TableOf, EventFrom
<1>5. CASE e \in ChatMessageCreated
  BY <1>5 DEF ChatMessageCreated, EventsOf, In, Kinds, Rank, TableOf, EventFrom
<1>6. CASE e \in PaperSaved
  BY <1>6 DEF PaperSaved, EventsOf, In, Kinds, Rank, TableOf, EventFrom
<1>7. CASE e \in DocumentUploaded
  BY <1>7 DEF DocumentUploaded, EventsOf, In, Kinds, Rank, TableOf, EventFrom
<1>8. CASE e \in AgentTaskCreated
  BY <1>8 DEF AgentTaskCreated, EventsOf, In, Kinds, Rank, TableOf, EventFrom
<1>9. CASE e \in AgentRunCreated
  BY <1>9 DEF AgentRunCreated, EventsOf, In, Kinds, Rank, TableOf, EventFrom
<1>. QED
  BY <1>1, <1>2, <1>3, <1>4, <1>5, <1>6, <1>7, <1>8, <1>9 DEF ActivityEvents

LEMMA ActivitySound ==
  ASSUME RowsSound
  PROVE  /\ ActivityEvents \subseteq ListItems
         /\ IsFiniteSet(ActivityEvents)
         /\ Sorted(ActivityEvents)
<1>1. \A r \in rows : /\ r.at \in Int /\ r.then \in Int /\ r.id \in Nat
                      /\ r.space \in Spaces \cup {NoItem}
  BY DEF RowsSound, Sound, RowRecords
<1>2. \A k \in Kinds, r \in rows : EventFrom(k, r) \in ListItems
  BY <1>1, KindsCount DEF EventFrom, Event, ListItems, Kinds
<1>3. ActivityEvents \subseteq ListItems
  BY <1>2, EventSource
<1>4. IsFiniteSet(ActivityEvents)
  <2>. DEFINE P == Kinds \X rows
              f == [p \in P |-> EventFrom(p[1], p[2])]
              T == {f[p] : p \in P}
  <2>1. IsFiniteSet(P)
    BY KindsCount, FS_Product DEF RowsSound, Sound
  <2>2. f \in Surjection(P, T)
    <3>1. f = [p \in P |-> f[p]]
      OBVIOUS
    <3>. HIDE DEF f, P
    <3>. QED
      BY <3>1 DEF Surjection
  <2>3. ActivityEvents \subseteq T
    <3>. SUFFICES ASSUME NEW e \in ActivityEvents PROVE e \in T
      OBVIOUS
    <3>1. PICK k \in Kinds, r \in rows : e = EventFrom(k, r)
      BY EventSource
    <3>2. <<k, r>> \in P /\ f[<<k, r>>] = e
      BY <3>1
    <3>. HIDE DEF f, P
    <3>. QED
      BY <3>2
  <2>. HIDE DEF f, P, T
  <2>4. IsFiniteSet(T)
    BY <2>1, <2>2, FS_Surjection
  <2>. QED
    BY <2>3, <2>4, FS_Subset
<1>5. Sorted(ActivityEvents)
  <2>. SUFFICES ASSUME NEW e \in ActivityEvents, NEW f \in ActivityEvents, e # f
                PROVE  Before(e, f) \/ Before(f, e)
    BY DEF Sorted
  <2>1. PICK k \in Kinds : \E r \in rows : r.table = TableOf[k] /\ e = EventFrom(k, r)
    BY EventSource
  <2>2. PICK r \in rows : r.table = TableOf[k] /\ e = EventFrom(k, r)
    BY <2>1
  <2>3. PICK l \in Kinds : \E s \in rows : s.table = TableOf[l] /\ f = EventFrom(l, s)
    BY EventSource
  <2>4. PICK s \in rows : s.table = TableOf[l] /\ f = EventFrom(l, s)
    BY <2>3
  <2>5. e.key = <<Rank[k], r.id>> /\ f.key = <<Rank[l], s.id>>
    BY <2>2, <2>4 DEF EventFrom, Event
  <2>6. ASSUME e.key = f.key PROVE FALSE
    <3>1. Rank[k] = Rank[l] /\ r.id = s.id
      BY <2>5, <2>6
    <3>2. k = l
      BY <3>1, KindsCount
    <3>3. r = s
      BY <2>2, <2>4, <3>1, <3>2 DEF RowsSound, Sound
    <3>. QED
      BY <2>2, <2>4, <3>2, <3>3
  <2>. QED
    BY <1>3, <2>6, BeforeOrders
<1>. QED
  BY <1>3, <1>4, <1>5

LEMMA ItemsSound ==
  ASSUME RowsSound, NEW table, NEW S, S \subseteq {Item(r) : r \in In(table)}
  PROVE  S \subseteq ListItems /\ IsFiniteSet(S) /\ Sorted(S)
<1>1. \A r \in rows : /\ r.table \in Tables /\ r.at \in Int /\ r.id \in Nat
                      /\ r.space \in Spaces \cup {NoItem}
  BY DEF RowsSound, Sound, RowRecords
<1>2. \A r \in rows : Item(r) \in ListItems
  BY <1>1 DEF Item, ListItems
<1>3. S \subseteq ListItems
  BY <1>2 DEF In
<1>4. IsFiniteSet(S)
  <2>. DEFINE f == [r \in rows |-> Item(r)]
              T == {f[r] : r \in rows}
  <2>1. f \in Surjection(rows, T)
    <3>1. f = [r \in rows |-> f[r]]
      OBVIOUS
    <3>. HIDE DEF f
    <3>. QED
      BY <3>1 DEF Surjection
  <2>2. S \subseteq T
    BY DEF In
  <2>. HIDE DEF f, T
  <2>3. IsFiniteSet(T)
    BY <2>1, FS_Surjection DEF RowsSound, Sound
  <2>. QED
    BY <2>2, <2>3, FS_Subset
<1>5. Sorted(S)
  <2>. SUFFICES ASSUME NEW e \in S, NEW f \in S, e # f
                PROVE  Before(e, f) \/ Before(f, e)
    BY DEF Sorted
  <2>1. PICK r \in In(table) : e = Item(r)
    OBVIOUS
  <2>2. PICK s \in In(table) : f = Item(s)
    OBVIOUS
  <2>3. r.table = s.table /\ r \in rows /\ s \in rows
    BY DEF In
  <2>4. r.id # s.id
    BY <2>1, <2>2, <2>3 DEF RowsSound, Sound
  <2>5. e.key = <<0, r.id>> /\ f.key = <<0, s.id>>
    BY <2>1, <2>2 DEF Item
  <2>6. e.key # f.key
    BY <2>4, <2>5
  <2>. QED
    BY <1>3, <2>6, BeforeOrders
<1>. QED
  BY <1>3, <1>4, <1>5

LEMMA ListedSound ==
  ASSUME RowsSound, NEW query \in PageQueries
  PROVE  /\ Listed(query) \subseteq ListItems
         /\ IsFiniteSet(Listed(query))
         /\ Sorted(Listed(query))
<1>1. query.list \in {"activity", "chat", "documents", "tasks"}
  BY DEF PageQueries
<1>2. CASE query.list = "activity"
  <2>1. Listed(query) \subseteq ActivityEvents
    BY <1>2 DEF Listed, FeedRows
  <2>2. IsFiniteSet(Listed(query))
    BY <2>1, ActivitySound, FS_Subset
  <2>. QED
    BY <2>1, <2>2, ActivitySound DEF Sorted
<1>3. CASE query.list = "chat"
  <2>1. Listed(query) \subseteq {Item(r) : r \in In("chat_messages")}
    BY <1>3 DEF Listed, MessageRows
  <2>. QED
    BY <2>1, ItemsSound
<1>4. CASE query.list = "documents"
  <2>1. Listed(query) \subseteq {Item(r) : r \in In("documents")}
    BY <1>4 DEF Listed, DocumentRows
  <2>. QED
    BY <2>1, ItemsSound
<1>5. CASE query.list = "tasks"
  <2>1. Listed(query) \subseteq {Item(r) : r \in In("agent_tasks")}
    BY <1>5 DEF Listed, TaskRows
  <2>. QED
    BY <2>1, ItemsSound
<1>. QED
  BY <1>1, <1>2, <1>3, <1>4, <1>5

-----------------------------------------------------------------------------
(* The edits keep the rows sound.                                           *)

LEMMA SoundWith ==
  ASSUME NEW R, Sound(R), NEW row \in RowRecords,
         (row.table = "connections") = (row.space = NoItem),
         row.table \in {"space_members", "saved_papers"} =>
           row.id = IF row.space = HomeSpace THEN 1 ELSE 2,
         \A r \in R : r.table = row.table => r.id # row.id
  PROVE  Sound(R \cup {row})
<1>1. IsFiniteSet(R \cup {row})
  BY FS_AddElement DEF Sound
<1>. QED
  BY <1>1 DEF Sound

LEMMA SoundWithout ==
  ASSUME NEW R, Sound(R), NEW S, S \subseteq R
  PROVE  Sound(S)
<1>1. IsFiniteSet(S)
  BY FS_Subset DEF Sound
<1>. QED
  BY <1>1 DEF Sound

\* A row is changed in what is neither its key nor its Space.
LEMMA SoundChanged ==
  ASSUME NEW R, Sound(R), NEW r \in R, NEW row \in RowRecords,
         row.table = r.table, row.id = r.id, row.space = r.space
  PROVE  Sound((R \ {r}) \cup {row})
<1>1. Sound(R \ {r})
  BY SoundWithout
<1>2. \A s \in R \ {r} : s.table = row.table => s.id # row.id
  BY DEF Sound
<1>3. /\ (row.table = "connections") = (row.space = NoItem)
      /\ row.table \in {"space_members", "saved_papers"} =>
           row.id = IF row.space = HomeSpace THEN 1 ELSE 2
  BY DEF Sound
<1>. QED
  BY <1>1, <1>2, <1>3, SoundWith

LEMMA FreshIdTyped ==
  ASSUME RowsSound, NEW table
  PROVE  FreshId(table) \in Nat
<1>1. IsFiniteSet(In(table))
  BY FS_Subset DEF In, RowsSound, Sound
<1>2. Cardinality(In(table)) \in Nat
  BY <1>1, FS_CardinalityType
<1>. QED
  BY <1>2 DEF FreshId

LEMMA RowTyped ==
  ASSUME NEW table \in Tables, NEW id \in Nat, NEW space \in Spaces \cup {NoItem}, NEW at \in Int
  PROVE  \A row : row = Row(table, id, space, at) =>
           row \in RowRecords /\ row.table = table /\ row.id = id /\ row.space = space
  BY DEF Row, RowRecords, NoTime

LEMMA QueuedTyped ==
  ASSUME NEW table \in Tables, NEW id \in Nat, NEW space \in Spaces \cup {NoItem}, NEW at \in Int
  PROVE  /\ [Row(table, id, space, at) EXCEPT !.status = "queued"] \in RowRecords
         /\ [Row(table, id, space, at) EXCEPT !.status = "queued"].table = table
         /\ [Row(table, id, space, at) EXCEPT !.status = "queued"].id = id
         /\ [Row(table, id, space, at) EXCEPT !.status = "queued"].space = space
  BY DEF Row, RowRecords, NoTime

Edits ==
  \/ \E at \in Times :
       \/ \E table \in {"connections", "chat_messages", "documents"}, s \in Spaces \cup {NoItem} :
            InsertRow(table, s, at)
       \/ \E s \in Spaces : SavePaper(s, at) \/ AddTask(s, at)
       \/ \E t \in In("agent_tasks") : AddRun(t, at)
       \/ \E r \in rows : AcceptConnection(r, at)
       \/ AddMember(at)
  \/ \E r \in rows : EndWork(r) \/ DeleteRow(r)
  \/ DeleteSpace
  \/ RemoveMember

\* What an edit makes of the readers, whatever the rows become.
Noticed ==
  /\ edits' = edits + 1
  /\ \E query \in {reader.query} :
       reader' = IF query = NoItem THEN reader
                 ELSE [reader EXCEPT !.there = @ \cap Listed(query)', !.was = @ \cup Accessible']
  /\ overview' = IF overview = NoOverview THEN overview
                 ELSE [overview EXCEPT !.was = @ \cup Accessible']

LEMMA EditsSound ==
  ASSUME ListsAssumption, RowsSound, Edits
  PROVE  RowsSound' /\ Noticed
<1>1. ASSUME NEW new, Sound(new), Edit(new)
      PROVE  RowsSound' /\ Noticed
  BY <1>1 DEF Edit, Noticed, RowsSound
<1>2. \A at \in Times : at \in Int
  BY DEF Times
<1>3. HomeSpace # OtherSpace /\ NoItem # HomeSpace /\ NoItem # OtherSpace
  BY DEF ListsAssumption
<1>4. \A r \in rows : /\ r \in RowRecords /\ (r.table = "connections") = (r.space = NoItem)
                      /\ r.id \in Nat /\ r.space \in Spaces \cup {NoItem}
                      /\ r.table \in Tables
  BY DEF RowsSound, Sound, RowRecords
<1>5. ASSUME NEW at \in Times, NEW table \in {"connections", "chat_messages", "documents"},
             NEW s \in Spaces \cup {NoItem}, InsertRow(table, s, at)
      PROVE  RowsSound' /\ Noticed
  <2>. DEFINE row == [Row(table, FreshId(table), s, at) EXCEPT !.status = "queued"]
  <2>1. FreshId(table) \in Nat /\ table \in Tables
    BY FreshIdTyped DEF Tables
  <2>2. /\ row \in RowRecords /\ row.table = table /\ row.id = FreshId(table) /\ row.space = s
    BY <1>2, <2>1, QueuedTyped
  <2>3. /\ (table = "connections") = (s = NoItem)
        /\ FreshId(table) \notin Created(table)
        /\ Edit(rows \cup {row})
    BY <1>5 DEF InsertRow
  <2>. HIDE DEF row
  <2>4. \A r \in rows : r.table = row.table => r.id # row.id
    BY <2>2, <2>3 DEF Created, In
  <2>5. Sound(rows \cup {row})
    BY <2>2, <2>3, <2>4, SoundWith DEF RowsSound
  <2>. QED
    BY <1>1, <2>3, <2>5
<1>6. ASSUME NEW at \in Times, NEW s \in Spaces, SavePaper(s, at)
      PROVE  RowsSound' /\ Noticed
  <2>. DEFINE id == IF s = HomeSpace THEN 1 ELSE 2
              row == Row("saved_papers", id, s, at)
  <2>1. id \in Nat /\ "saved_papers" \in Tables /\ s # NoItem
    BY <1>3 DEF Tables, Spaces
  <2>2. /\ row \in RowRecords /\ row.table = "saved_papers" /\ row.id = id /\ row.space = s
    BY <1>2, <2>1, RowTyped
  <2>3. {r \in In("saved_papers") : r.space = s} = {} /\ Edit(rows \cup {row})
    BY <1>6 DEF SavePaper
  <2>. HIDE DEF row
  <2>4. ASSUME NEW r \in rows, r.table = row.table, r.id = row.id PROVE FALSE
    <3>1. r.table = "saved_papers" /\ r.id = id
      BY <2>2, <2>4
    <3>2. r.space # s
      BY <2>3, <3>1 DEF In
    <3>3. r.id = IF r.space = HomeSpace THEN 1 ELSE 2
      BY <3>1 DEF RowsSound, Sound
    <3>4. r.space \in Spaces
      BY <1>4, <3>1
    <3>. QED
      BY <3>1, <3>2, <3>3, <3>4, <1>3 DEF Spaces
  <2>5. Sound(rows \cup {row})
    BY <2>1, <2>2, <2>4, SoundWith DEF RowsSound
  <2>. QED
    BY <1>1, <2>3, <2>5
<1>7. ASSUME NEW at \in Times, NEW s \in Spaces, AddTask(s, at)
      PROVE  RowsSound' /\ Noticed
  <2>. DEFINE t == FreshId("agent_tasks")
              task == Row("agent_tasks", t, s, at)
              run == [Row("agent_runs", RunId(t, 1), s, at) EXCEPT !.status = "queued"]
  <2>1. /\ t \in Nat /\ RunId(t, 1) \in Nat
        /\ "agent_tasks" \in Tables /\ "agent_runs" \in Tables /\ s # NoItem
    BY <1>3, FreshIdTyped DEF Tables, RunId, Spaces
  <2>2. /\ task \in RowRecords /\ task.table = "agent_tasks" /\ task.id = t /\ task.space = s
    BY <1>2, <2>1, RowTyped
  <2>3. /\ run \in RowRecords /\ run.table = "agent_runs" /\ run.id = RunId(t, 1)
        /\ run.space = s
    BY <1>2, <2>1, QueuedTyped
  <2>4. /\ t \notin Created("agent_tasks") /\ RunId(t, 1) \notin Created("agent_runs")
        /\ Edit(rows \cup {task, run})
    BY <1>7 DEF AddTask
  <2>. HIDE DEF task, run, t
  <2>5. \A r \in rows : r.table = task.table => r.id # task.id
    BY <2>2, <2>4 DEF Created, In
  <2>6. Sound(rows \cup {task})
    BY <2>1, <2>2, <2>5, SoundWith DEF RowsSound
  <2>7. \A r \in rows \cup {task} : r.table = run.table => r.id # run.id
    BY <2>2, <2>3, <2>4 DEF Created, In
  <2>8. Sound((rows \cup {task}) \cup {run})
    BY <2>1, <2>3, <2>6, <2>7, SoundWith
  <2>9. rows \cup {task, run} = (rows \cup {task}) \cup {run}
    OBVIOUS
  <2>10. Sound(rows \cup {task, run})
    BY <2>8, <2>9
  <2>. QED
    BY <1>1, <2>4, <2>10
<1>8. ASSUME NEW at \in Times, NEW t \in In("agent_tasks"), AddRun(t, at)
      PROVE  RowsSound' /\ Noticed
  <2>1. PICK r \in LatestRunOf(t) :
          /\ r.id + 1 \notin Created("agent_runs")
          /\ Edit(rows \cup {[Row("agent_runs", r.id + 1, t.space, at) EXCEPT !.status = "queued"]})
    BY <1>8 DEF AddRun
  <2>. DEFINE row == [Row("agent_runs", r.id + 1, t.space, at) EXCEPT !.status = "queued"]
  <2>2. r \in rows /\ t \in rows /\ t.table = "agent_tasks"
    BY DEF LatestRunOf, RunsOf, In
  <2>3. /\ r.id + 1 \in Nat /\ t.space \in Spaces \cup {NoItem} /\ t.space # NoItem
        /\ "agent_runs" \in Tables
    BY <1>4, <2>2 DEF Tables
  <2>4. /\ row \in RowRecords /\ row.table = "agent_runs" /\ row.id = r.id + 1
        /\ row.space = t.space
    BY <1>2, <2>3, QueuedTyped
  <2>5. Edit(rows \cup {row})
    BY <2>1
  <2>. HIDE DEF row
  <2>6. \A x \in rows : x.table = row.table => x.id # row.id
    BY <2>1, <2>4 DEF Created, In
  <2>7. Sound(rows \cup {row})
    BY <2>3, <2>4, <2>6, SoundWith DEF RowsSound
  <2>. QED
    BY <1>1, <2>5, <2>7
<1>9. ASSUME NEW at \in Times, NEW r \in rows, AcceptConnection(r, at)
      PROVE  RowsSound' /\ Noticed
  <2>1. Edit((rows \ {r}) \cup {[r EXCEPT !.then = at]})
    BY <1>9 DEF AcceptConnection
  <2>2. /\ [r EXCEPT !.then = at] \in RowRecords
        /\ [r EXCEPT !.then = at].table = r.table /\ [r EXCEPT !.then = at].id = r.id
        /\ [r EXCEPT !.then = at].space = r.space
    BY <1>2, <1>4 DEF RowRecords
  <2>3. Sound((rows \ {r}) \cup {[r EXCEPT !.then = at]})
    BY <2>2, SoundChanged DEF RowsSound
  <2>. QED
    BY <1>1, <2>1, <2>3
<1>10. ASSUME NEW at \in Times, AddMember(at)
       PROVE  RowsSound' /\ Noticed
  <2>. DEFINE row == Row("space_members", 2, OtherSpace, at)
  <2>1. /\ row \in RowRecords /\ row.table = "space_members" /\ row.id = 2
        /\ row.space = OtherSpace
    <3>1. "space_members" \in Tables /\ 2 \in Nat /\ OtherSpace \in Spaces \cup {NoItem}
      BY DEF Tables, Spaces
    <3>. QED
      BY <1>2, <3>1, RowTyped
  <2>2. OtherSpace \notin Accessible /\ Edit(rows \cup {row})
    BY <1>10 DEF AddMember
  <2>. HIDE DEF row
  <2>3. ASSUME NEW r \in rows, r.table = row.table, r.id = row.id PROVE FALSE
    <3>1. r.table = "space_members" /\ r.id = 2
      BY <2>1, <2>3
    <3>2. r.space # OtherSpace
      BY <2>2, <3>1 DEF In, Accessible
    <3>3. r.id = IF r.space = HomeSpace THEN 1 ELSE 2
      BY <3>1 DEF RowsSound, Sound
    <3>4. r.space \in Spaces
      BY <1>4, <3>1
    <3>. QED
      BY <3>1, <3>2, <3>3, <3>4 DEF Spaces
  <2>4. Sound(rows \cup {row})
    BY <1>3, <2>1, <2>3, SoundWith DEF RowsSound
  <2>. QED
    BY <1>1, <2>2, <2>4
<1>11. ASSUME NEW r \in rows, EndWork(r)
       PROVE  RowsSound' /\ Noticed
  <2>1. Edit((rows \ {r}) \cup {[r EXCEPT !.status = "over"]})
    BY <1>11 DEF EndWork
  <2>2. /\ [r EXCEPT !.status = "over"] \in RowRecords
        /\ [r EXCEPT !.status = "over"].table = r.table
        /\ [r EXCEPT !.status = "over"].id = r.id
        /\ [r EXCEPT !.status = "over"].space = r.space
    BY <1>4 DEF RowRecords
  <2>3. Sound((rows \ {r}) \cup {[r EXCEPT !.status = "over"]})
    BY <2>2, SoundChanged DEF RowsSound
  <2>. QED
    BY <1>1, <2>1, <2>3
<1>12. ASSUME NEW r \in rows, DeleteRow(r)
       PROVE  RowsSound' /\ Noticed
  <2>1. Sound(rows \ {r})
    BY SoundWithout DEF RowsSound
  <2>. QED
    BY <1>1, <1>12, <2>1 DEF DeleteRow
<1>13. ASSUME DeleteSpace
       PROVE  RowsSound' /\ Noticed
  <2>1. Sound({r \in rows : r.space # OtherSpace})
    BY SoundWithout DEF RowsSound
  <2>. QED
    BY <1>1, <1>13, <2>1 DEF DeleteSpace
<1>14. ASSUME RemoveMember
       PROVE  RowsSound' /\ Noticed
  <2>1. Sound(rows \ {r \in In("space_members") : r.space = OtherSpace})
    BY SoundWithout DEF RowsSound
  <2>. QED
    BY <1>1, <1>14, <2>1 DEF RemoveMember
<1>. QED
  BY <1>5, <1>6, <1>7, <1>8, <1>9, <1>10, <1>11, <1>12, <1>13, <1>14 DEF Edits

-----------------------------------------------------------------------------
(* Pages put behind one another.                                            *)

SortedSeq(s) == \A i, j \in DOMAIN s : i < j => Before(s[j], s[i])

LEMMA RangeConcat ==
  ASSUME NEW S, NEW s \in Seq(S), NEW t \in Seq(S)
  PROVE  /\ Range(s \o t) = Range(s) \cup Range(t)
         /\ t # << >> => (s \o t)[Len(s \o t)] = t[Len(t)] /\ s \o t # << >>
<1>1. /\ Len(s) \in Nat /\ Len(t) \in Nat /\ DOMAIN s = 1 .. Len(s) /\ DOMAIN t = 1 .. Len(t)
      /\ Len(s \o t) = Len(s) + Len(t) /\ DOMAIN (s \o t) = 1 .. Len(s) + Len(t)
      /\ \A i \in 1 .. Len(s) + Len(t) :
           (s \o t)[i] = IF i <= Len(s) THEN s[i] ELSE t[i - Len(s)]
  OBVIOUS
<1>2. Range(s \o t) \subseteq Range(s) \cup Range(t)
  <2>. SUFFICES ASSUME NEW i \in 1 .. Len(s) + Len(t) PROVE (s \o t)[i] \in Range(s) \cup Range(t)
    BY <1>1 DEF Range
  <2>1. CASE i <= Len(s)
    BY <1>1, <2>1 DEF Range
  <2>2. CASE i > Len(s)
    <3>1. i - Len(s) \in 1 .. Len(t)
      BY <1>1, <2>2
    <3>. QED
      BY <1>1, <2>2, <3>1 DEF Range
  <2>. QED
    BY <1>1, <2>1, <2>2
<1>3. Range(s) \subseteq Range(s \o t)
  <2>. SUFFICES ASSUME NEW i \in 1 .. Len(s) PROVE s[i] \in Range(s \o t)
    BY <1>1 DEF Range
  <2>1. i \in 1 .. Len(s) + Len(t) /\ (s \o t)[i] = s[i]
    BY <1>1
  <2>. QED
    BY <1>1, <2>1 DEF Range
<1>4. Range(t) \subseteq Range(s \o t)
  <2>. SUFFICES ASSUME NEW i \in 1 .. Len(t) PROVE t[i] \in Range(s \o t)
    BY <1>1 DEF Range
  <2>1. Len(s) + i \in 1 .. Len(s) + Len(t) /\ (s \o t)[Len(s) + i] = t[i]
    BY <1>1
  <2>. QED
    BY <1>1, <2>1 DEF Range
<1>5. ASSUME t # << >> PROVE (s \o t)[Len(s \o t)] = t[Len(t)] /\ s \o t # << >>
  <2>1. Len(t) >= 1
    BY <1>1, <1>5
  <2>. QED
    BY <1>1, <2>1
<1>. QED
  BY <1>2, <1>3, <1>4, <1>5

LEMMA SortedConcat ==
  ASSUME NEW s \in Seq(ListItems), NEW t \in Seq(ListItems), SortedSeq(s), SortedSeq(t),
         s # << >> => \A j \in DOMAIN t : Before(t[j], s[Len(s)])
  PROVE  SortedSeq(s \o t)
<1>1. /\ Len(s) \in Nat /\ Len(t) \in Nat /\ DOMAIN s = 1 .. Len(s) /\ DOMAIN t = 1 .. Len(t)
      /\ DOMAIN (s \o t) = 1 .. Len(s) + Len(t)
      /\ \A i \in 1 .. Len(s) + Len(t) :
           (s \o t)[i] = IF i <= Len(s) THEN s[i] ELSE t[i - Len(s)]
  OBVIOUS
<1>. SUFFICES ASSUME NEW i \in 1 .. Len(s) + Len(t), NEW j \in 1 .. Len(s) + Len(t), i < j
              PROVE  Before((s \o t)[j], (s \o t)[i])
  BY <1>1 DEF SortedSeq
<1>2. CASE j <= Len(s)
  <2>1. /\ i \in DOMAIN s /\ j \in DOMAIN s /\ (s \o t)[i] = s[i] /\ (s \o t)[j] = s[j]
    BY <1>1, <1>2
  <2>. QED
    BY <2>1 DEF SortedSeq
<1>3. CASE i > Len(s)
  <2>1. /\ i - Len(s) \in DOMAIN t /\ j - Len(s) \in DOMAIN t /\ i - Len(s) < j - Len(s)
        /\ (s \o t)[i] = t[i - Len(s)] /\ (s \o t)[j] = t[j - Len(s)]
    BY <1>1, <1>3
  <2>. QED
    BY <2>1 DEF SortedSeq
<1>4. CASE i <= Len(s) /\ j > Len(s)
  <2>1. /\ i \in DOMAIN s /\ Len(s) \in DOMAIN s /\ j - Len(s) \in DOMAIN t /\ s # << >>
        /\ (s \o t)[i] = s[i] /\ (s \o t)[j] = t[j - Len(s)]
    BY <1>1, <1>4
  <2>2. Before(t[j - Len(s)], s[Len(s)])
    BY <2>1
  <2>3. s[i] \in ListItems /\ s[Len(s)] \in ListItems /\ t[j - Len(s)] \in ListItems
    BY <1>1, <2>1
  <2>4. i = Len(s) \/ Before(s[Len(s)], s[i])
    BY <1>1, <1>4, <2>1 DEF SortedSeq
  <2>. QED
    BY <2>1, <2>2, <2>3, <2>4, BeforeTransitive
<1>. QED
  BY <1>1, <1>2, <1>3, <1>4

-----------------------------------------------------------------------------
(* Membership.                                                              *)

LEMMA AccessibleSpaces ==
  RowsSound => Accessible \subseteq Spaces
<1>. SUFFICES ASSUME RowsSound, NEW r \in rows, r.table = "space_members" PROVE r.space \in Spaces
  BY DEF Accessible, In
<1>1. r.space \in Spaces \cup {NoItem} /\ r.space # NoItem
  BY DEF RowsSound, Sound, RowRecords
<1>. QED
  BY <1>1

LEMMA EventSpaces ==
  ASSUME RowsSound, NEW e \in ActivityEvents
  PROVE  e.space \in Accessible \cup {NoItem}
<1>1. \A r \in In("connections") : r.space = NoItem
  BY DEF In, RowsSound, Sound
<1>2. CASE e \in ConnectionRequested \cup ConnectionAccepted
  BY <1>1, <1>2 DEF ConnectionRequested, ConnectionAccepted, Event
<1>3. ASSUME NEW kind, NEW table, e \in EventsOf(kind, table)
      PROVE  e.space \in Accessible
  BY <1>3 DEF EventsOf, Event
<1>. QED
  BY <1>2, <1>3 DEF ActivityEvents, SpaceCreated, MemberJoined, ChatMessageCreated, PaperSaved,
                    DocumentUploaded, AgentTaskCreated, AgentRunCreated

\* Only the Activity feed has rows of more than the Space it was asked for.
LEMMA ListedSpaces ==
  ASSUME RowsSound, NEW query \in PageQueries, NEW e \in Listed(query)
  PROVE  IF query.list = "activity" THEN e.space \in Accessible \cup {NoItem}
                                    ELSE e.space = query.space
<1>1. CASE query.list = "activity"
  BY <1>1, EventSpaces DEF Listed, FeedRows
<1>2. CASE query.list = "chat"
  BY <1>2 DEF Listed, MessageRows, Item
<1>3. CASE query.list = "documents"
  BY <1>3 DEF Listed, DocumentRows, Item
<1>4. CASE query.list = "tasks"
  BY <1>4 DEF Listed, TaskRows, Item
<1>5. query.list \in {"activity", "chat", "documents", "tasks"}
  BY DEF PageQueries
<1>. QED
  BY <1>1, <1>2, <1>3, <1>4, <1>5

\* Where no row changes, no list and no membership does.
LEMMA ListedSame ==
  ASSUME rows' = rows
  PROVE  /\ RowsSound => RowsSound'
         /\ Accessible' = Accessible
         /\ \A query \in PageQueries : Listed(query)' = Listed(query)
<1>1. (RowsSound => RowsSound') /\ Accessible' = Accessible
  BY DEF RowsSound, Accessible, In
<1>2. ActivityEvents' = ActivityEvents
  BY DEF ActivityEvents, ConnectionRequested, ConnectionAccepted, SpaceCreated, MemberJoined,
         ChatMessageCreated, PaperSaved, DocumentUploaded, AgentTaskCreated, AgentRunCreated,
         EventsOf, Accessible, In
<1>3. ASSUME NEW query \in PageQueries PROVE Listed(query)' = Listed(query)
  <2>1. /\ FeedRows(query)' = FeedRows(query)
    BY <1>2 DEF FeedRows
  <2>2. MessageRows(query)' = MessageRows(query) /\ DocumentRows(query)' = DocumentRows(query)
    BY DEF MessageRows, DocumentRows, In
  <2>3. TaskRows(query)' = TaskRows(query)
    BY DEF TaskRows, LatestRunOf, RunsOf, In
  <2>. QED
    BY <2>1, <2>2, <2>3 DEF Listed
<1>. QED
  BY <1>1, <1>3

-----------------------------------------------------------------------------
(* The reader.                                                              *)

LEMMA ReaderFields ==
  ASSUME reader # Idle, PlaceKept
  PROVE  /\ reader \in ReaderStates /\ reader.query \in PageQueries /\ reader.query # NoItem
         /\ reader.phase \in {"more", "asked", "checked", "end", "refused"}
         /\ reader.cursor \in ListItems \cup {NoItem} /\ reader.seen \in Seq(ListItems)
         /\ reader.there \subseteq ListItems /\ reader.was \subseteq Spaces
         /\ reader.gained \subseteq Spaces \cup {NoItem}
  BY NoItemApart DEF PlaceKept, ReaderStates

LEMMA EditsKeepPlace ==
  ASSUME PlaceKept, RowsSound', Noticed
  PROVE  PlaceKept'
<1>1. Accessible' \subseteq Spaces
  BY DEF RowsSound, Sound, Accessible, In, RowRecords
<1>2. CASE reader = Idle
  <2>1. reader' = reader
    BY <1>2 DEF Noticed, Idle
  <2>. QED
    BY <1>2, <2>1 DEF PlaceKept
<1>3. CASE reader # Idle
  <2>1. PICK query \in PageQueries : query = reader.query
    BY <1>3, ReaderFields
  <2>2. reader' = [reader EXCEPT !.there = @ \cap Listed(query)', !.was = @ \cup Accessible']
    BY <1>3, <2>1, ReaderFields DEF Noticed
  <2>3. /\ reader' \in ReaderStates
        /\ reader'.query = reader.query /\ reader'.phase = reader.phase
        /\ reader'.seen = reader.seen /\ reader'.cursor = reader.cursor
        /\ reader'.there = reader.there \cap Listed(query)'
    BY <1>1, <1>3, <2>2, ReaderFields DEF ReaderStates
  <2>4. \A i, j \in DOMAIN reader'.seen : i < j => Before(reader'.seen[j], reader'.seen[i])
    BY <1>3, <2>3 DEF PlaceKept
  <2>5. \A q \in PageQueries : q = reader'.query => reader'.there \subseteq Listed(q)'
    BY <2>1, <2>3
  <2>6. Reading' =>
          /\ IF reader'.cursor = NoItem THEN reader'.seen = << >>
             ELSE reader'.seen # << >> /\ reader'.cursor = reader'.seen[Len(reader'.seen)]
          /\ \A e \in reader'.there : e \in Range(reader'.seen) \/ Behind(reader'.cursor, e)
    BY <1>3, <2>3 DEF PlaceKept, Reading
  <2>7. reader'.phase = "end" => reader'.there \subseteq Range(reader'.seen)
    BY <1>3, <2>3 DEF PlaceKept
  <2>. QED
    BY <2>3, <2>4, <2>5, <2>6, <2>7 DEF PlaceKept
<1>. QED
  BY <1>2, <1>3

LEMMA EditsKeepAccess ==
  ASSUME PlaceKept, AccessKept, RowsSound', Noticed
  PROVE  AccessKept'
<1>1. Accessible' \subseteq Spaces
  BY DEF RowsSound, Sound, Accessible, In, RowRecords
<1>2. reader' # Idle =>
        /\ reader'.phase \in {"asked", "checked"} => Accessible' \subseteq reader'.was
        /\ reader'.phase = "checked" => reader'.query.space \in reader'.was \cup {NoItem}
        /\ reader'.gained \subseteq reader'.was \cup {NoItem}
  <2>1. CASE reader = Idle
    <3>1. reader' = reader
      BY <2>1 DEF Noticed, Idle
    <3>. QED
      BY <2>1, <3>1
  <2>2. CASE reader # Idle
    <3>1. PICK query \in PageQueries : query = reader.query
      BY <2>2, ReaderFields
    <3>2. reader' = [reader EXCEPT !.there = @ \cap Listed(query)', !.was = @ \cup Accessible']
      BY <2>2, <3>1, ReaderFields DEF Noticed
    <3>3. /\ reader'.query = reader.query /\ reader'.phase = reader.phase
          /\ reader'.was = reader.was \cup Accessible' /\ reader'.gained = reader.gained
      BY <2>2, <3>2, ReaderFields DEF ReaderStates
    <3>. QED
      BY <2>2, <3>3 DEF AccessKept
  <2>. QED
    BY <2>1, <2>2
<1>3. /\ overview' \in [left : SUBSET {"activity", "spaces", "work"}, spaces : SUBSET Spaces,
                        was : SUBSET Spaces]
      /\ overview'.left # {} => Accessible' \subseteq overview'.was
      /\ overview'.spaces \subseteq overview'.was
  <2>1. CASE overview = NoOverview
    BY <2>1 DEF Noticed, NoOverview
  <2>2. CASE overview # NoOverview
    <3>1. overview' = [overview EXCEPT !.was = @ \cup Accessible']
      BY <2>2 DEF Noticed
    <3>2. /\ overview \in [left : SUBSET {"activity", "spaces", "work"}, spaces : SUBSET Spaces,
                           was : SUBSET Spaces]
          /\ overview.spaces \subseteq overview.was
      BY DEF AccessKept
    <3>3. /\ overview'.left = overview.left /\ overview'.spaces = overview.spaces
          /\ overview'.was = overview.was \cup Accessible'
          /\ overview' \in [left : SUBSET {"activity", "spaces", "work"}, spaces : SUBSET Spaces,
                            was : SUBSET Spaces]
      BY <1>1, <3>1, <3>2
    <3>. QED
      BY <3>2, <3>3
  <2>. QED
    BY <2>1, <2>2
<1>. QED
  BY <1>2, <1>3 DEF AccessKept

\* A page of the list that is read, as it is now.
LEMMA NextPage ==
  ASSUME ListsAssumption, RowsSound, PlaceKept, reader # Idle,
         NEW slice, slice = PageOf(reader.query, reader.cursor)
  PROVE  /\ slice.items \in Seq(ListItems) /\ slice.more \in BOOLEAN
         /\ SortedSeq(slice.items)
         /\ \A e \in Range(slice.items) : e \in Listed(reader.query) /\ Behind(reader.cursor, e)
         /\ slice.more => slice.items # << >>
         /\ \A e \in Listed(reader.query) : Behind(reader.cursor, e) =>
              \/ e \in Range(slice.items)
              \/ slice.more /\ Before(e, slice.items[Len(slice.items)])
<1>. DEFINE found == {e \in Listed(reader.query) : Behind(reader.cursor, e)}
<1>1. reader.query \in PageQueries
  BY ReaderFields
<1>2. /\ Listed(reader.query) \subseteq ListItems /\ IsFiniteSet(Listed(reader.query))
      /\ Sorted(Listed(reader.query))
  BY <1>1, ListedSound
<1>3. found \subseteq Listed(reader.query)
  OBVIOUS
<1>4. IsFiniteSet(found) /\ found \subseteq ListItems /\ Sorted(found)
  BY <1>2, <1>3, FS_Subset DEF Sorted
<1>5. slice = Newest(found)
  BY DEF PageOf, Newest
<1>6. \A e \in found : e \in Listed(reader.query) /\ Behind(reader.cursor, e)
  OBVIOUS
<1>7. \A e \in Listed(reader.query) : Behind(reader.cursor, e) => e \in found
  OBVIOUS
<1>. HIDE DEF found
<1>8. /\ slice.items \in Seq(found) /\ slice.more \in BOOLEAN
      /\ \A i, j \in DOMAIN slice.items : i < j => Before(slice.items[j], slice.items[i])
      /\ slice.more =>
           /\ slice.items # << >>
           /\ \A e \in found :
                e \in Range(slice.items) \/ Before(e, slice.items[Len(slice.items)])
      /\ ~slice.more => found \subseteq Range(slice.items)
  BY <1>4, <1>5, PageRows
<1>9. Range(slice.items) \subseteq found /\ slice.items \in Seq(ListItems)
  BY <1>4, <1>8 DEF Range
<1>. QED
  BY <1>6, <1>7, <1>8, <1>9 DEF SortedSeq

LEMMA AnswerKeepsPlace ==
  ASSUME ListsAssumption, RowsSound, PlaceKept, rows' = rows,
         reader.phase \in {"asked", "checked"}, Answer
  PROVE  PlaceKept' /\ reader' # Idle
<1>. DEFINE slice == PageOf(reader.query, reader.cursor)
            gained == {e.space : e \in Range(slice.items)}
            cursor == IF slice.more THEN slice.items[Len(slice.items)] ELSE NoItem
<1>1. reader # Idle
  BY DEF Idle
<1>2. /\ slice.items \in Seq(ListItems) /\ slice.more \in BOOLEAN
      /\ SortedSeq(slice.items)
      /\ \A e \in Range(slice.items) : e \in Listed(reader.query) /\ Behind(reader.cursor, e)
      /\ slice.more => slice.items # << >>
      /\ \A e \in Listed(reader.query) : Behind(reader.cursor, e) =>
           \/ e \in Range(slice.items)
           \/ slice.more /\ Before(e, slice.items[Len(slice.items)])
  <2>. HIDE DEF slice
  <2>. QED
    BY <1>1, NextPage DEF slice
<1>3. reader' = [reader EXCEPT !.seen = @ \o slice.items, !.gained = gained,
                   !.phase = IF slice.more THEN "more" ELSE "end", !.cursor = cursor]
  BY DEF Answer
<1>. HIDE DEF slice
<1>4. \A e \in Range(slice.items) : e \in ListItems
  BY <1>2 DEF Range
<1>5. gained \subseteq Spaces \cup {NoItem}
  BY <1>4 DEF ListItems
<1>6. /\ cursor \in ListItems \cup {NoItem}
      /\ slice.more => cursor \in ListItems /\ cursor = slice.items[Len(slice.items)]
  BY <1>2
<1>7. NoItem \notin ListItems
  BY NoItemApart DEF ListItems
<1>. HIDE DEF gained, cursor
<1>8. /\ reader' \in ReaderStates /\ reader'.query = reader.query /\ reader'.there = reader.there
      /\ reader'.seen = reader.seen \o slice.items
      /\ reader'.phase = IF slice.more THEN "more" ELSE "end"
      /\ reader'.cursor = cursor
  <2>1. reader.seen \o slice.items \in Seq(ListItems)
    BY <1>1, <1>2, ReaderFields
  <2>. QED
    BY <1>1, <1>3, <1>5, <1>6, <2>1, ReaderFields DEF ReaderStates
<1>9. reader' # Idle
  BY <1>8 DEF Idle
<1>10. /\ reader.seen \in Seq(ListItems) /\ SortedSeq(reader.seen)
       /\ reader.there \subseteq Listed(reader.query)
       /\ IF reader.cursor = NoItem THEN reader.seen = << >>
          ELSE reader.seen # << >> /\ reader.cursor = reader.seen[Len(reader.seen)]
       /\ \A e \in reader.there : e \in Range(reader.seen) \/ Behind(reader.cursor, e)
  BY <1>1, ReaderFields DEF PlaceKept, Reading, SortedSeq
<1>11. SortedSeq(reader'.seen)
  <2>1. ASSUME reader.seen # << >>, NEW j \in DOMAIN slice.items
        PROVE  Before(slice.items[j], reader.seen[Len(reader.seen)])
    <3>1. slice.items[j] \in Range(slice.items) /\ reader.cursor # NoItem
      BY <1>10, <2>1 DEF Range
    <3>. QED
      BY <1>2, <1>10, <3>1 DEF Behind
  <2>. QED
    BY <1>2, <1>8, <1>10, <2>1, SortedConcat
<1>12. Range(reader'.seen) = Range(reader.seen) \cup Range(slice.items)
  BY <1>2, <1>8, <1>10, RangeConcat
<1>13. \A e \in reader.there : \/ e \in Range(reader'.seen)
                               \/ slice.more /\ Before(e, cursor)
  BY <1>2, <1>6, <1>10, <1>12
<1>14. CASE slice.more
  <2>1. /\ reader'.phase = "more" /\ cursor # NoItem /\ reader'.seen # << >>
        /\ cursor = reader'.seen[Len(reader'.seen)]
    <3>1. /\ slice.items # << >> /\ slice.items \in Seq(ListItems) /\ reader.seen \in Seq(ListItems)
      BY <1>2, <1>10, <1>14
    <3>2. /\ (reader.seen \o slice.items)[Len(reader.seen \o slice.items)] = slice.items[Len(slice.items)]
          /\ reader.seen \o slice.items # << >>
      BY <3>1, RangeConcat, ZenonT(60)
    <3>3. cursor \in ListItems /\ cursor = slice.items[Len(slice.items)]
      BY <1>6, <1>14
    <3>. QED
      BY <1>7, <1>8, <1>14, <3>1, <3>2, <3>3
  <2>2. \A q \in PageQueries : q = reader'.query => reader'.there \subseteq Listed(q)'
    BY <1>8, <1>10, ListedSame
  <2>3. \A e \in reader'.there : e \in Range(reader'.seen) \/ Behind(reader'.cursor, e)
    BY <1>8, <1>13 DEF Behind
  <2>. QED
    BY <1>8, <1>9, <1>11, <2>1, <2>2, <2>3 DEF PlaceKept, SortedSeq
<1>15. CASE ~slice.more
  <2>1. reader'.phase = "end" /\ reader'.there \subseteq Range(reader'.seen)
    BY <1>8, <1>13, <1>15
  <2>. QED
    BY <1>8, <1>9, <1>11, <2>1 DEF PlaceKept, Reading, SortedSeq
<1>. QED
  BY <1>2, <1>9, <1>14, <1>15

LEMMA AnswerKeepsAccess ==
  ASSUME ListsAssumption, RowsSound, PlaceKept, AccessKept,
         reader.phase \in {"asked", "checked"}, Answer,
         reader.phase = "asked" => reader.query.space \in Accessible \cup {NoItem},
         UNCHANGED <<rows, overview>>
  PROVE  AccessKept'
<1>. DEFINE slice == PageOf(reader.query, reader.cursor)
            gained == {e.space : e \in Range(slice.items)}
            cursor == IF slice.more THEN slice.items[Len(slice.items)] ELSE NoItem
<1>1. reader # Idle
  BY DEF Idle
<1>2. /\ \A e \in Range(slice.items) : e \in Listed(reader.query)
      /\ slice.more \in BOOLEAN
  <2>. HIDE DEF slice
  <2>. QED
    BY <1>1, NextPage DEF slice
<1>3. reader' = [reader EXCEPT !.seen = @ \o slice.items, !.gained = gained,
                   !.phase = IF slice.more THEN "more" ELSE "end", !.cursor = cursor]
  BY DEF Answer
<1>. HIDE DEF slice
<1>4. gained \subseteq reader.was \cup {NoItem}
  <2>1. Accessible \subseteq reader.was /\ reader.query.space \in reader.was \cup {NoItem}
    BY <1>1 DEF AccessKept
  <2>2. ASSUME NEW e \in Range(slice.items) PROVE e.space \in reader.was \cup {NoItem}
    <3>1. PICK query \in PageQueries : query = reader.query
      BY <1>1, ReaderFields
    <3>2. e \in Listed(query)
      BY <1>2, <3>1
    <3>3. e.space \in Accessible \cup {NoItem} \/ e.space = query.space
      BY <3>2, ListedSpaces
    <3>. QED
      BY <2>1, <3>1, <3>3
  <2>. QED
    BY <2>2
<1>. HIDE DEF gained, cursor
<1>5. /\ reader'.gained = gained /\ reader'.was = reader.was
      /\ reader'.phase \in {"more", "end"}
  BY <1>1, <1>2, <1>3, ReaderFields DEF ReaderStates
<1>6. Accessible' = Accessible
  BY ListedSame
<1>. QED
  BY <1>4, <1>5, <1>6 DEF AccessKept

-----------------------------------------------------------------------------
(* Every step.                                                              *)

LEMMA InitLists ==
  ListsAssumption /\ ListsInit => ListsInv
<1>. SUFFICES ASSUME ListsAssumption, ListsInit PROVE ListsInv
  OBVIOUS
<1>1. RowsSound
  <2>1. PICK msg \in {0, 1}, run \in {0, 1}, members \in {{HomeSpace}, Spaces} :
       rows = {Row("connections", 1, NoItem, 1)}
         \cup {Row("research_spaces", 1, HomeSpace, 0), Row("research_spaces", 2, OtherSpace, 0)}
         \cup {Row("space_members", IF s = HomeSpace THEN 1 ELSE 2, s, 0) : s \in members}
         \cup {Row("chat_messages", 1, OtherSpace, msg), Row("chat_messages", 2, OtherSpace, 1)}
         \cup {Row("saved_papers", 1, HomeSpace, 1)}
         \cup {[Row("documents", 1, OtherSpace, 1) EXCEPT !.status = "queued"]}
         \cup {Row("agent_tasks", 1, OtherSpace, 0)}
         \cup {[Row("agent_runs", RunId(1, 1), OtherSpace, run) EXCEPT !.status = "queued"]}
    BY DEF ListsInit
  <2>. DEFINE
         made(table, id, space, at, status) ==
           [table |-> table, id |-> id, space |-> space, at |-> at, then |-> -1, status |-> status]
         base == {made("connections", 1, NoItem, 1, "none")}
                 \cup {made("research_spaces", 1, HomeSpace, 0, "none")}
                 \cup {made("research_spaces", 2, OtherSpace, 0, "none")}
                 \cup {made("space_members", 1, HomeSpace, 0, "none")}
                 \cup {made("space_members", 2, OtherSpace, 0, "none")}
                 \cup {made("chat_messages", 1, OtherSpace, msg, "none")}
                 \cup {made("chat_messages", 2, OtherSpace, 1, "none")}
                 \cup {made("saved_papers", 1, HomeSpace, 1, "none")}
                 \cup {made("documents", 1, OtherSpace, 1, "queued")}
                 \cup {made("agent_tasks", 1, OtherSpace, 0, "none")}
                 \cup {made("agent_runs", 11, OtherSpace, run, "queued")}
  <2>2. rows \subseteq base
    <3>1. members \subseteq Spaces
      BY DEF Spaces
    <3>2. \A s \in Spaces :
            Row("space_members", IF s = HomeSpace THEN 1 ELSE 2, s, 0) \in base
      BY DEF Row, NoTime, Spaces, ListsAssumption
    <3>. QED
      BY <2>1, <3>1, <3>2 DEF Row, NoTime, RunId
  <2>3. Sound(base)
    <3>1. IsFiniteSet(base)
      <4>1. \A e : IsFiniteSet({e})
        BY FS_Singleton
      <4>2. \A S, e : IsFiniteSet(S) => IsFiniteSet(S \cup {e})
        BY FS_AddElement
      <4>. HIDE DEF made
      <4>. QED
        BY <4>1, <4>2
    <3>2. base \subseteq RowRecords
      BY DEF RowRecords, Tables, Spaces
    <3>3. \A r, s \in base : r.table = s.table /\ r.id = s.id => r = s
      OBVIOUS
    <3>4. \A r \in base : (r.table = "connections") = (r.space = NoItem)
      BY DEF ListsAssumption
    <3>5. \A r \in base : r.table \in {"space_members", "saved_papers"} =>
            r.id = IF r.space = HomeSpace THEN 1 ELSE 2
      BY DEF ListsAssumption
    <3>. QED
      BY <3>1, <3>2, <3>3, <3>4, <3>5 DEF Sound
  <2>. QED
    BY <2>2, <2>3, SoundWithout DEF RowsSound
<1>2. PlaceKept /\ AccessKept
  BY DEF ListsInit, PlaceKept, AccessKept, NoOverview
<1>. QED
  BY <1>1, <1>2 DEF ListsInv

LEMMA ReadingSteps ==
  ASSUME ListsAssumption, ListsInv,
         (\E query \in PageQueries : OpenList(query)) \/ RequestPage \/ CheckMembership \/ ReadPage
  PROVE  ListsInv'
<1>. USE DEF ListsInv
<1>1. rows' = rows /\ overview' = overview
  BY DEF OpenList, RequestPage, CheckMembership, ReadPage
<1>2. RowsSound' /\ Accessible' = Accessible /\ Accessible \subseteq Spaces
  BY <1>1, ListedSame, AccessibleSpaces
<1>3. \A q \in PageQueries : Listed(q)' = Listed(q)
  BY <1>1, ListedSame
<1>4. ASSUME NEW query \in PageQueries, OpenList(query)
      PROVE  PlaceKept' /\ AccessKept'
  <2>1. /\ Listed(query) \subseteq ListItems
        /\ reader' = [query |-> query, phase |-> "more", cursor |-> NoItem, seen |-> << >>,
                      there |-> Listed(query), was |-> {}, gained |-> {}]
    BY <1>4, ListedSound DEF OpenList, Idle
  <2>2. << >> \in Seq(ListItems)
    OBVIOUS
  <2>3. /\ reader'.query = query /\ reader'.phase = "more" /\ reader'.there = Listed(query)
        /\ reader'.cursor = NoItem /\ reader'.seen = << >> /\ reader'.was = {}
        /\ reader'.gained = {} /\ reader' \in ReaderStates
    BY <2>1, <2>2 DEF ReaderStates
  <2>4. PlaceKept'
    BY <1>3, <2>3 DEF PlaceKept, Reading, Behind
  <2>5. AccessKept'
    BY <1>1, <1>2, <2>3 DEF AccessKept
  <2>. QED
    BY <2>4, <2>5
<1>5. CASE RequestPage
  <2>1. reader # Idle
    BY <1>5 DEF RequestPage, Idle
  <2>2. reader' = [reader EXCEPT !.phase = "asked", !.was = Accessible, !.gained = {}]
    BY <1>5 DEF RequestPage
  <2>3. /\ reader'.query = reader.query /\ reader'.phase = "asked"
        /\ reader'.there = reader.there /\ reader'.cursor = reader.cursor
        /\ reader'.seen = reader.seen /\ reader'.was = Accessible
        /\ reader'.gained = {} /\ reader' \in ReaderStates
    BY <1>2, <2>1, <2>2, ReaderFields DEF ReaderStates
  <2>4. PlaceKept'
    BY <1>3, <1>5, <2>1, <2>3 DEF PlaceKept, Reading, RequestPage
  <2>5. AccessKept'
    BY <1>1, <1>2, <2>3 DEF AccessKept
  <2>. QED
    BY <1>2, <2>4, <2>5
<1>6. CASE CheckMembership
  <2>1. reader # Idle
    BY <1>6 DEF CheckMembership, Idle
  <2>2. reader' = [reader EXCEPT !.phase = IF Admitted THEN "checked" ELSE "refused"]
    BY <1>6 DEF CheckMembership
  <2>3. /\ reader'.query = reader.query
        /\ reader'.phase = IF Admitted THEN "checked" ELSE "refused"
        /\ reader'.there = reader.there /\ reader'.cursor = reader.cursor
        /\ reader'.seen = reader.seen /\ reader'.was = reader.was
        /\ reader'.gained = reader.gained /\ reader' \in ReaderStates
    BY <2>1, <2>2, ReaderFields DEF ReaderStates
  <2>4. PlaceKept'
    BY <1>3, <1>6, <2>1, <2>3 DEF PlaceKept, Reading, CheckMembership
  <2>5. AccessKept'
    BY <1>1, <1>2, <1>6, <2>1, <2>3 DEF AccessKept, CheckMembership, Admitted
  <2>. QED
    BY <1>2, <2>4, <2>5
<1>7. CASE ReadPage
  <2>1. CASE reader.phase = "checked" /\ Answer
    BY <1>1, <1>2, <2>1, AnswerKeepsPlace, AnswerKeepsAccess
  <2>2. CASE reader.phase = "asked" /\ Admitted /\ Answer
    BY <1>1, <1>2, <2>2, AnswerKeepsPlace, AnswerKeepsAccess DEF Admitted
  <2>3. CASE reader.phase = "asked" /\ reader' = [reader EXCEPT !.phase = "refused"]
    <3>1. reader # Idle
      BY <2>3 DEF Idle
    <3>2. /\ reader'.query = reader.query /\ reader'.phase = "refused"
          /\ reader'.there = reader.there /\ reader'.cursor = reader.cursor
          /\ reader'.seen = reader.seen /\ reader'.was = reader.was
          /\ reader'.gained = reader.gained /\ reader' \in ReaderStates
      BY <2>3, <3>1, ReaderFields DEF ReaderStates
    <3>3. PlaceKept'
      BY <3>1, <3>2 DEF PlaceKept, Reading
    <3>4. AccessKept'
      BY <1>1, <1>2, <3>1, <3>2 DEF AccessKept
    <3>. QED
      BY <1>2, <3>3, <3>4
  <2>. QED
    BY <1>7, <2>1, <2>2, <2>3 DEF ReadPage
<1>. QED
  BY <1>2, <1>4, <1>5, <1>6, <1>7

LEMMA OverviewSteps ==
  ASSUME ListsAssumption, ListsInv,
         AskOverview \/ \E part \in {"activity", "spaces", "work"} : RunQuery(part)
  PROVE  ListsInv'
<1>. USE DEF ListsInv
<1>1. rows' = rows /\ reader' = reader
  BY DEF AskOverview, RunQuery
<1>2. RowsSound' /\ Accessible' = Accessible /\ Accessible \subseteq Spaces
  BY <1>1, ListedSame, AccessibleSpaces
<1>3. PlaceKept'
  <2>1. \A q \in PageQueries : Listed(q)' = Listed(q)
    BY <1>1, ListedSame
  <2>. QED
    BY <1>1, <2>1 DEF PlaceKept, Reading
<1>4. CASE AskOverview
  <2>1. overview' = [left |-> {"activity", "spaces", "work"}, spaces |-> {}, was |-> Accessible]
    BY <1>4 DEF AskOverview
  <2>2. AccessKept'
    BY <1>1, <1>2, <2>1 DEF AccessKept
  <2>. QED
    BY <1>2, <1>3, <2>2
<1>5. ASSUME NEW part \in {"activity", "spaces", "work"}, RunQuery(part)
      PROVE  AccessKept'
  <2>. DEFINE found == CASE part = "activity" -> RecentActivity
                         [] part = "spaces" -> RecentSpaces
                         [] part = "work" -> ActiveWork
  <2>1. RecentActivity \subseteq Accessible /\ RecentSpaces \subseteq Accessible
    BY EventSpaces DEF RecentActivity, RecentSpaces
  <2>2. ActiveWork \subseteq Accessible
    BY DEF ActiveWork
  <2>3. found \subseteq Accessible
    BY <2>1, <2>2
  <2>4. overview' = [overview EXCEPT !.left = @ \ {part}, !.spaces = @ \cup found]
    BY <1>5 DEF RunQuery
  <2>. HIDE DEF found
  <2>5. /\ overview \in [left : SUBSET {"activity", "spaces", "work"}, spaces : SUBSET Spaces,
                         was : SUBSET Spaces]
        /\ Accessible \subseteq overview.was /\ overview.spaces \subseteq overview.was
    BY <1>5 DEF RunQuery, AccessKept
  <2>6. /\ overview'.spaces = overview.spaces \cup found /\ overview'.was = overview.was
        /\ overview' \in [left : SUBSET {"activity", "spaces", "work"}, spaces : SUBSET Spaces,
                          was : SUBSET Spaces]
    BY <1>2, <2>3, <2>4, <2>5
  <2>. QED
    BY <1>1, <1>2, <2>3, <2>5, <2>6 DEF AccessKept
<1>. QED
  BY <1>2, <1>3, <1>4, <1>5

LEMMA NextLists ==
  ASSUME ListsAssumption, ListsInv, [ListsNext]_listsVars
  PROVE  ListsInv'
<1>1. CASE UNCHANGED listsVars
  <2>1. rows' = rows /\ reader' = reader /\ overview' = overview
    BY <1>1 DEF listsVars
  <2>2. /\ RowsSound' /\ Accessible' = Accessible
        /\ \A q \in PageQueries : Listed(q)' = Listed(q)
    BY <2>1, ListedSame DEF ListsInv
  <2>. QED
    BY <2>1, <2>2 DEF ListsInv, PlaceKept, AccessKept, Reading
<1>2. CASE Edits
  BY <1>2, EditsSound, EditsKeepPlace, EditsKeepAccess DEF ListsInv
<1>3. CASE (\E query \in PageQueries : OpenList(query)) \/ RequestPage \/ CheckMembership \/ ReadPage
  BY <1>3, ReadingSteps
<1>4. CASE AskOverview \/ \E part \in {"activity", "spaces", "work"} : RunQuery(part)
  BY <1>4, OverviewSteps
<1>. QED
  BY <1>1, <1>2, <1>3, <1>4 DEF ListsNext, Edits

(* The rows keep their keys, the reader its place in the list and every     *)
(* reply within the membership, whatever is edited between the statements   *)
(* (activity/service.ts, chat, documents and agents repositories).          *)
THEOREM ListsInvariant == ListsSpec => []ListsInv
<1>1. ListsInit => ListsInv
  BY InitLists, ListsAssumption
<1>2. ListsInv /\ [ListsNext]_listsVars => ListsInv'
  BY NextLists, ListsAssumption
<1>. QED
  BY <1>1, <1>2, PTL DEF ListsSpec

(* However many rows there are, share a millisecond or are added, removed   *)
(* and added again between pages: each row shown is older than the one      *)
(* before, and who reached the end has seen every row that was there all    *)
(* the time.                                                                *)
THEOREM PagesAreComplete == ListsSpec => []PagesComplete
<1>1. ListsInv => PagesComplete
  <2>. SUFFICES ASSUME ListsInv PROVE PagesComplete
    OBVIOUS
  <2>1. CASE reader = Idle
    BY <2>1 DEF Idle, PagesComplete
  <2>2. CASE reader # Idle
    <3>1. /\ reader.seen \in Seq(ListItems)
          /\ \A i, j \in DOMAIN reader.seen : i < j => Before(reader.seen[j], reader.seen[i])
          /\ reader.phase = "end" => reader.there \subseteq Range(reader.seen)
      BY <2>2, ReaderFields DEF ListsInv, PlaceKept
    <3>2. \A i \in 2 .. Len(reader.seen) :
            i \in DOMAIN reader.seen /\ i - 1 \in DOMAIN reader.seen /\ i - 1 < i
      BY <3>1
    <3>. QED
      BY <3>1, <3>2 DEF PagesComplete
  <2>. QED
    BY <2>1, <2>2
<1>. QED
  BY <1>1, ListsInvariant, PTL

(* Every reply, of one statement or of three, names only Spaces the reader  *)
(* was a member of at some moment while it was computed.                    *)
THEOREM RepliesWithinMembership == ListsSpec => []WithinMembership
<1>1. ListsInv => WithinMembership
  BY DEF ListsInv, AccessKept, WithinMembership, Idle
<1>. QED
  BY <1>1, ListsInvariant, PTL

-----------------------------------------------------------------------------
(* The pages that follow a run.                                             *)

Statuses == {"queued", "running", "completed", "failed", "cancelled"}
FollowedRuns == [status : Statuses, asked : BOOLEAN]
RunReplies == [attempt : Nat, status : Statuses, asked : BOOLEAN]

RunsTyped == runs \in Seq(FollowedRuns) /\ runs # << >>

(* What a reply says was true once: it has not started what is still        *)
(* queued, nor ended what is still active, nor ended it otherwise.          *)
WasTrue(reply, stored) ==
  /\ reply \in RunReplies /\ reply.attempt \in 1 .. Len(stored)
  /\ reply.status # "queued" => stored[reply.attempt].status # "queued"
  /\ ~IsActive(reply.status) => stored[reply.attempt].status = reply.status
  /\ reply.asked = TRUE => stored[reply.attempt].asked = TRUE

(* The run page is about one run; its replies are that run's.               *)
PageTyped ==
  page # NoReply => page.kind \in {"run", "task"} /\ page.attempt \in 1 .. Len(runs)

ShownTrue ==
  /\ DOMAIN shown = RunQueries
  /\ \A q \in RunQueries : shown[q] # NoReply => WasTrue(shown[q], runs)
  /\ page # NoReply /\ page.kind = "run" /\ shown["run"] # NoReply => shown["run"].attempt = page.attempt

FlightTrue ==
  /\ DOMAIN flight = RunQueries
  /\ \A q \in RunQueries : flight[q] \notin {NoReply, NotFound} => WasTrue(flight[q], runs)
  /\ page # NoReply /\ page.kind = "run" /\ flight["run"] \notin {NoReply, NotFound} =>
       flight["run"].attempt = page.attempt

FollowingInv == RunsTyped /\ PageTyped /\ ShownTrue /\ FlightTrue

(* No run is forgotten, goes back to the queue, comes back from its end or  *)
(* loses the request for its cancellation.                                  *)
RunsAdvance ==
  /\ Len(runs) <= Len(runs')
  /\ \A k \in 1 .. Len(runs) :
       /\ runs[k].status # "queued" => runs'[k].status # "queued"
       /\ ~IsActive(runs[k].status) => runs'[k].status = runs[k].status
       /\ runs[k].asked = TRUE => runs'[k].asked = TRUE

LEMMA FollowingInitially == FollowingInit => FollowingInv
<1>1. ASSUME FollowingInit PROVE RunsTyped
  BY <1>1 DEF FollowingInit, RunsTyped, FollowedRuns, Queued, Statuses
<1>2. ASSUME FollowingInit PROVE PageTyped
  BY <1>2 DEF FollowingInit, PageTyped, Queued
<1>3. ASSUME FollowingInit PROVE ShownTrue /\ FlightTrue
  BY <1>3 DEF FollowingInit, ShownTrue, FlightTrue, NoReplies, RunQueries
<1>. QED  BY <1>1, <1>2, <1>3 DEF FollowingInv

(* What was true stays so.                                                  *)
LEMMA StaysTrue ==
  ASSUME RunsTyped, RunsTyped', RunsAdvance, NEW reply, WasTrue(reply, runs)
  PROVE  WasTrue(reply, runs')
<1>. DEFINE k == reply.attempt
<1>1. k \in 1 .. Len(runs) /\ k \in 1 .. Len(runs')
  BY DEF WasTrue, RunsTyped, RunsAdvance
<1>. QED  BY <1>1 DEF WasTrue, RunsAdvance

(* A step that only moves runs on.                                          *)
LEMMA RunsMove ==
  ASSUME FollowingInv, RunsTyped', RunsAdvance, UNCHANGED <<page, shown, flight>>
  PROVE  FollowingInv'
<1>1. PageTyped'
  BY DEF FollowingInv, PageTyped, RunsTyped, RunsAdvance
<1>2. ShownTrue'
  BY StaysTrue DEF FollowingInv, ShownTrue
<1>3. FlightTrue'
  BY StaysTrue DEF FollowingInv, FlightTrue
<1>. QED  BY <1>1, <1>2, <1>3 DEF FollowingInv

(* The reply to a query, as the server makes it.                            *)
LEMMA ServerReply ==
  ASSUME FollowingInv, page # NoReply, NEW q \in RunQueries, Reply(q) # NotFound
  PROVE  /\ WasTrue(Reply(q), runs)
         /\ q = "run" => Reply(q).attempt = page.attempt
<1>1. /\ Reply(q) = RunReply(IF q = "run" THEN page.attempt ELSE Len(runs))
  BY DEF Reply, RunQueries, Latest
<1>2. ASSUME NEW k \in 1 .. Len(runs) PROVE WasTrue(RunReply(k), runs) /\ RunReply(k).attempt = k
  <2>1. runs[k] \in FollowedRuns /\ k \in Nat
    BY DEF FollowingInv, RunsTyped
  <2>2. RunReply(k) \in RunReplies
    BY <2>1 DEF RunReply, RunReplies, FollowedRuns
  <2>. QED  BY <2>2 DEF RunReply, WasTrue
<1>3. page.attempt \in 1 .. Len(runs) /\ Len(runs) \in 1 .. Len(runs)
  BY DEF FollowingInv, PageTyped, RunsTyped
<1>. QED  BY <1>1, <1>2, <1>3

LEMMA PollTrue ==
  ASSUME FollowingInv, NEW q \in RunQueries, Poll(q)
  PROVE  FollowingInv'
<1>1. /\ page # NoReply /\ flight' = [flight EXCEPT ![q] = Reply(q)]
      /\ UNCHANGED <<runs, page, shown>>
  BY DEF Poll
<1>2. FlightTrue'
  BY <1>1, ServerReply DEF FollowingInv, FlightTrue
<1>. QED  BY <1>1, <1>2 DEF FollowingInv, RunsTyped, PageTyped, ShownTrue

(* A page is opened or left with nothing to show.                           *)
LEMMA EmptyPage ==
  ASSUME shown' = NoReplies, flight' = NoReplies
  PROVE  ShownTrue' /\ FlightTrue'
  BY DEF ShownTrue, FlightTrue, NoReplies, RunQueries

LEMMA DeliverTrue ==
  ASSUME FollowingInv, NEW q \in RunQueries, Deliver(q) \/ LoseFetch(q)
  PROVE  FollowingInv'
<1>1. UNCHANGED runs
  BY DEF Deliver, LoseFetch
<1>2. CASE LoseFetch(q)
  <2>1. flight' = [flight EXCEPT ![q] = NoReply] /\ UNCHANGED <<page, shown>>
    BY <1>2 DEF LoseFetch
  <2>. QED  BY <1>1, <2>1 DEF FollowingInv, RunsTyped, PageTyped, ShownTrue, FlightTrue
<1>3. CASE Deliver(q) /\ Leave
  BY <1>1, <1>3, EmptyPage DEF Leave, FollowingInv, RunsTyped, PageTyped
<1>4. CASE Deliver(q) /\ ~Leave
  <2>1. /\ page # NoReply /\ flight[q] # NoReply /\ UNCHANGED page
        /\ flight' = [flight EXCEPT ![q] = NoReply]
        /\ shown' = IF flight[q] = NotFound THEN shown ELSE [shown EXCEPT ![q] = flight[q]]
    BY <1>4 DEF Deliver
  <2>2. FlightTrue'
    BY <1>1, <2>1 DEF FollowingInv, FlightTrue
  <2>3. ShownTrue'
    BY <1>1, <2>1 DEF FollowingInv, ShownTrue, FlightTrue
  <2>. QED  BY <1>1, <2>1, <2>2, <2>3 DEF FollowingInv, RunsTyped, PageTyped
<1>. QED  BY <1>2, <1>3, <1>4

(* A run that is not over is cancelled, or asked to be.                     *)
LEMMA CancellingRun ==
  ASSUME RunsTyped, NEW k \in 1 .. Len(runs), IsActive(runs[k].status),
         runs' = [runs EXCEPT ![k] = Cancelled(@)]
  PROVE  /\ RunsTyped' /\ RunsAdvance /\ Len(runs') = Len(runs)
         /\ runs'[k].asked = TRUE
<1>1. runs[k] \in FollowedRuns
  BY DEF RunsTyped
<1>2. Cancelled(runs[k]) \in FollowedRuns
  BY <1>1 DEF Cancelled, FollowedRuns, Statuses
<1>3. /\ Cancelled(runs[k]).asked = TRUE
      /\ Cancelled(runs[k]).status \in {runs[k].status, "cancelled"}
  BY DEF Cancelled
<1>4. runs' = [runs EXCEPT ![k] = Cancelled(runs[k])]
  OBVIOUS
<1>5. runs' \in Seq(FollowedRuns) /\ Len(runs') = Len(runs) /\ runs' # << >>
  BY <1>2, <1>4 DEF RunsTyped
<1>6. \A j \in 1 .. Len(runs) : runs'[j] = IF j = k THEN Cancelled(runs[k]) ELSE runs[j]
  BY <1>4 DEF RunsTyped
<1>7. RunsAdvance
  BY <1>3, <1>5, <1>6 DEF RunsAdvance, RunsTyped, IsActive
<1>. QED  BY <1>3, <1>5, <1>6, <1>7 DEF RunsTyped

(* The latest run is over and another is appended.                          *)
LEMMA RetriedRun ==
  ASSUME RunsTyped, runs' = Append(runs, Queued)
  PROVE  RunsTyped' /\ RunsAdvance /\ Len(runs') = Len(runs) + 1
<1>1. Queued \in FollowedRuns
  BY DEF Queued, FollowedRuns, Statuses
<1>2. /\ runs' \in Seq(FollowedRuns) /\ Len(runs') = Len(runs) + 1 /\ runs' # << >>
      /\ \A k \in 1 .. Len(runs) : runs'[k] = runs[k]
  BY <1>1 DEF RunsTyped
<1>. QED  BY <1>2 DEF RunsTyped, RunsAdvance

(* A page offers commands for a run that exists.                            *)
LEMMA OfferedRuns ==
  ASSUME FollowingInv, NEW k \in Offered
  PROVE  /\ k \in 1 .. Len(runs) /\ shown["task"] # NoReply
         /\ shown[Leading] # NoReply /\ k = shown[Leading].attempt
         /\ page.kind = "run" /\ page # NoReply => k = page.attempt
<1>1. Leading \in RunQueries
  BY DEF Leading, RunQueries
<1>. QED  BY <1>1 DEF FollowingInv, Offered, ShownTrue, WasTrue, Leading

LEMMA CancelTrue ==
  ASSUME FollowingInv, NEW replied \in BOOLEAN, PressCancel(replied)
  PROVE  FollowingInv' /\ RunsAdvance
<1>1. PICK k \in Offered :
        /\ IsActive(runs[k].status)
        /\ runs' = [runs EXCEPT ![k] = Cancelled(@)]
        /\ IF replied
           THEN /\ flight' = [flight EXCEPT !["task"] =
                     [attempt |-> Latest, status |-> runs'[Latest].status, asked |-> runs'[Latest].asked]]
                /\ shown' = IF page.kind = "task" THEN shown
                            ELSE [shown EXCEPT !["run"] =
                                   [attempt |-> k, status |-> runs'[k].status, asked |-> TRUE]]
           ELSE UNCHANGED <<shown, flight>>
  BY DEF PressCancel
<1>2. page # NoReply /\ page' = page
  BY DEF PressCancel
<1>3. k \in 1 .. Len(runs) /\ (page.kind = "run" => k = page.attempt)
  BY <1>2, OfferedRuns
<1>4. RunsTyped' /\ RunsAdvance /\ Len(runs') = Len(runs) /\ runs'[k].asked = TRUE
  BY <1>1, <1>3, CancellingRun DEF FollowingInv
<1>5. ASSUME NEW j \in 1 .. Len(runs), NEW reply,
             reply = [attempt |-> j, status |-> runs'[j].status, asked |-> runs'[j].asked]
      PROVE  WasTrue(reply, runs')
  <2>1. runs'[j] \in FollowedRuns /\ j \in Nat /\ j \in 1 .. Len(runs')
    BY <1>4 DEF RunsTyped
  <2>2. reply \in RunReplies
    BY <1>5, <2>1 DEF RunReplies, FollowedRuns
  <2>. QED  BY <1>5, <2>1, <2>2 DEF WasTrue
<1>6. CASE ~replied
  <2>1. UNCHANGED <<page, shown, flight>>
    BY <1>1, <1>2, <1>6
  <2>. QED  BY <1>4, <2>1, RunsMove
<1>7. CASE replied
  <2>1. PICK rt : rt = [attempt |-> Latest, status |-> runs'[Latest].status, asked |-> runs'[Latest].asked]
    OBVIOUS
  <2>2. PICK rr : rr = [attempt |-> k, status |-> runs'[k].status, asked |-> runs'[k].asked]
    OBVIOUS
  <2>3. /\ flight' = [flight EXCEPT !["task"] = rt]
        /\ shown' = IF page.kind = "task" THEN shown ELSE [shown EXCEPT !["run"] = rr]
    BY <1>1, <1>4, <1>7, <2>1, <2>2
  <2>4. WasTrue(rt, runs') /\ WasTrue(rr, runs') /\ rr.attempt = k
    BY <1>3, <1>5, <2>1, <2>2 DEF Latest, FollowingInv, RunsTyped
  <2>5. /\ \A q \in RunQueries : shown[q] # NoReply => WasTrue(shown[q], runs')
        /\ \A q \in RunQueries : flight[q] \notin {NoReply, NotFound} => WasTrue(flight[q], runs')
    BY <1>4, StaysTrue DEF FollowingInv, ShownTrue, FlightTrue
  <2>6. ShownTrue'
    <3>1. page.kind \in {"run", "task"}
      BY <1>2 DEF FollowingInv, PageTyped
    <3>. QED  BY <1>2, <1>3, <2>3, <2>4, <2>5, <3>1 DEF FollowingInv, ShownTrue
  <2>7. FlightTrue'
    BY <1>2, <2>3, <2>4, <2>5 DEF FollowingInv, FlightTrue
  <2>8. PageTyped'
    BY <1>2, <1>4 DEF FollowingInv, PageTyped
  <2>. QED  BY <1>4, <2>6, <2>7, <2>8 DEF FollowingInv
<1>. QED  BY <1>4, <1>6, <1>7

LEMMA LinkTrue ==
  ASSUME FollowingInv, PressRunRetry \/ FollowLink
  PROVE  FollowingInv' /\ RunsAdvance
<1>1. CASE PressRunRetry
  <2>1. runs' = Append(runs, Queued) /\ Open("run", Len(runs) + 1)
    BY <1>1 DEF PressRunRetry, Latest
  <2>2. RunsTyped' /\ RunsAdvance /\ Len(runs') = Len(runs) + 1 /\ Len(runs) \in Nat
    BY <2>1, RetriedRun DEF FollowingInv, RunsTyped
  <2>3. PageTyped'
    BY <2>1, <2>2 DEF Open, PageTyped
  <2>. QED  BY <2>1, <2>2, <2>3, EmptyPage DEF Open, FollowingInv
<1>2. CASE FollowLink
  <2>1. UNCHANGED runs /\ shown' = NoReplies /\ flight' = NoReplies
    BY <1>2 DEF FollowLink, Open, Leave
  <2>2. PageTyped'
    <3>1. CASE page' = NoReply
      BY <3>1 DEF PageTyped
    <3>2. CASE page.kind = "task" /\ shown["task"] # NoReply /\ page' = [kind |-> "run", attempt |-> shown["task"].attempt]
      <4>1. shown["task"].attempt \in 1 .. Len(runs)
        BY <3>2 DEF FollowingInv, ShownTrue, WasTrue, RunQueries
      <4>. QED  BY <2>1, <3>2, <4>1 DEF PageTyped
    <3>3. CASE page' = [kind |-> "task", attempt |-> page.attempt]
      BY <1>2, <2>1, <3>3 DEF FollowLink, FollowingInv, PageTyped
    <3>. QED  BY <1>2, <3>1, <3>2, <3>3 DEF FollowLink, Open, Leave
  <2>3. RunsAdvance
    BY <2>1 DEF RunsAdvance, FollowingInv, RunsTyped
  <2>. QED  BY <2>1, <2>2, <2>3, EmptyPage DEF FollowingInv, RunsTyped
<1>. QED  BY <1>1, <1>2

LEMMA OthersTrue ==
  ASSUME FollowingInv, RunMoves \/ OtherMember \/ ChangeMembership
  PROVE  FollowingInv' /\ RunsAdvance
<1>1. UNCHANGED <<page, shown, flight>>
  BY DEF RunMoves, OtherMember, ChangeMembership
<1>2. CASE ChangeMembership
  <2>1. UNCHANGED runs
    BY <1>2 DEF ChangeMembership
  <2>2. RunsTyped' /\ RunsAdvance
    BY <2>1 DEF FollowingInv, RunsTyped, RunsAdvance
  <2>. QED  BY <1>1, <2>2, RunsMove
<1>3. CASE OtherMember
  <2>1. \/ runs' = Append(runs, Queued)
        \/ \E k \in 1 .. Len(runs) : IsActive(runs[k].status) /\ runs' = [runs EXCEPT ![k] = Cancelled(@)]
    BY <1>3 DEF OtherMember, FollowingInv, RunsTyped
  <2>2. RunsTyped' /\ RunsAdvance
    BY <2>1, RetriedRun, CancellingRun DEF FollowingInv
  <2>. QED  BY <1>1, <2>2, RunsMove
<1>4. CASE RunMoves
  <2>1. PICK k \in DOMAIN runs : \E s \in NextStatuses(runs[k]) : runs' = [runs EXCEPT ![k].status = s]
    BY <1>4 DEF RunMoves
  <2>2. PICK s \in NextStatuses(runs[k]) : runs' = [runs EXCEPT ![k].status = s]
    BY <2>1
  <2>3. k \in 1 .. Len(runs) /\ runs[k] \in FollowedRuns
    BY DEF FollowingInv, RunsTyped
  <2>4. s \in Statuses /\ s # "queued" /\ IsActive(runs[k].status)
    BY <2>3 DEF NextStatuses, Statuses, IsActive
  <2>5. PICK r : r = [runs[k] EXCEPT !.status = s]
    OBVIOUS
  <2>6. r \in FollowedRuns /\ r.status = s /\ r.asked = runs[k].asked
    BY <2>3, <2>4, <2>5 DEF FollowedRuns
  <2>7. runs' = [runs EXCEPT ![k] = r]
    BY <2>2, <2>5
  <2>8. /\ runs' \in Seq(FollowedRuns) /\ Len(runs') = Len(runs) /\ runs' # << >>
        /\ \A j \in 1 .. Len(runs) : runs'[j] = IF j = k THEN r ELSE runs[j]
    BY <2>6, <2>7 DEF FollowingInv, RunsTyped
  <2>9. RunsTyped' /\ RunsAdvance
    BY <2>4, <2>6, <2>8 DEF FollowingInv, RunsTyped, RunsAdvance
  <2>. QED  BY <1>1, <2>9, RunsMove
<1>. QED  BY <1>2, <1>3, <1>4

LEMMA FollowingKept ==
  ASSUME FollowingInv, [FollowingNext]_followingVars
  PROVE  FollowingInv' /\ RunsAdvance
<1>1. ASSUME UNCHANGED runs PROVE RunsAdvance
  BY <1>1 DEF RunsAdvance, FollowingInv, RunsTyped
<1>2. CASE UNCHANGED followingVars
  BY <1>1, <1>2 DEF followingVars, FollowingInv, RunsTyped, PageTyped, ShownTrue, FlightTrue
<1>3. ASSUME NEW q \in RunQueries, Poll(q) \/ Deliver(q) \/ LoseFetch(q) PROVE FollowingInv' /\ RunsAdvance
  <2>1. UNCHANGED runs
    BY <1>3 DEF Poll, Deliver, LoseFetch
  <2>. QED  BY <1>1, <1>3, <2>1, PollTrue, DeliverTrue
<1>. QED  BY <1>2, <1>3, CancelTrue, LinkTrue, OthersTrue DEF FollowingNext

(* Whatever a page shows of a run, or is about to, was true once.           *)
THEOREM FollowingInvariant == FollowingSpec => []FollowingInv
  BY FollowingInitially, FollowingKept, PTL DEF FollowingSpec

(* A run that is over stays as it ended, and no run is forgotten.           *)
THEOREM RunsNeverRevive == FollowingSpec => [][RunsAdvance]_followingVars
  BY FollowingInvariant, FollowingKept, PTL DEF FollowingSpec

(* A page that stops polling shows the end of its run as it is stored: an   *)
(* older reply that arrives late, or the reply of a cancellation that       *)
(* crosses it, never makes it stop at an end that is not the run's.         *)
THEOREM PollingStopsAtTheEnd ==
  FollowingSpec =>
    [](page # NoReply /\ shown[Leading] # NoReply /\ ~KeepsPolling =>
         /\ shown[Leading].attempt \in 1 .. Len(runs)
         /\ runs[shown[Leading].attempt].status = shown[Leading].status)
<1>1. FollowingInv =>
        (page # NoReply /\ shown[Leading] # NoReply /\ ~KeepsPolling =>
           /\ shown[Leading].attempt \in 1 .. Len(runs)
           /\ runs[shown[Leading].attempt].status = shown[Leading].status)
  <2>1. Leading \in RunQueries
    BY DEF Leading, RunQueries
  <2>. QED  BY <2>1 DEF FollowingInv, ShownTrue, WasTrue, KeepsPolling
<1>. QED  BY <1>1, FollowingInvariant, PTL

(* The buttons of a page are for a run that exists, those of a run page for *)
(* the run of that page.                                                    *)
THEOREM CommandsHitTheirRun ==
  FollowingSpec =>
    [](page # NoReply =>
         \A k \in Offered : k \in 1 .. Len(runs) /\ (page.kind = "run" => k = page.attempt))
<1>1. FollowingInv =>
        (page # NoReply =>
           \A k \in Offered : k \in 1 .. Len(runs) /\ (page.kind = "run" => k = page.attempt))
  BY OfferedRuns
<1>. QED  BY <1>1, FollowingInvariant, PTL
=============================================================================
