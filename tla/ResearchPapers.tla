--------------------------- MODULE ResearchPapers ---------------------------
(***************************************************************************)
(* Searches and paper summaries (server/modules/research): the answers of  *)
(* ArxivSearch are stored row by row in one transaction per search, and a  *)
(* summary is generated from a stored paper that may change meanwhile.     *)
(*                                                                         *)
(* A paper is its rank by version and updatedAt, which is also what its    *)
(* fingerprint tells apart; a summary is the rank it was generated from.   *)
(* Rows are locked until the transaction ends: exclusively by an upsert,   *)
(* FOR SHARE by the transaction that stores a summary.  Abstracted: the    *)
(* contents of papers and summaries.                                       *)
(***************************************************************************)
EXTENDS ArxivSearch

CONSTANTS Searches,  \* places for a search: one at a time uses a place
          Readers,   \* places for a request for a summary
          PaperOf,   \* the paper it asks about
          Order      \* the papers a query finds, in order

ASSUME ResearchConstants ==
  /\ PaperOf \in [Readers -> Papers]
  /\ Order \in [Queries -> Seq(Papers)]

VARIABLES
  paper,      \* papers: the rank stored, 0 for no row
  summary,    \* paper_summaries: the rank summarised, 0 for no row
  search,     \* searchPapers, by place
  request,    \* getPaperSummary or ensurePaperSummary, by place
  generation  \* generationInFlight, by paper and rank

researchVars == <<paper, summary, search, request, generation>>
vars == <<searchVars, researchVars>>

MaxVersion == CHOOSE n \in {Versions[p] : p \in Papers} : \A p \in Papers : Versions[p] <= n
Ranks == 1 .. MaxVersion

Free == [at |-> "free"]
Waiting(q) == [at |-> "waiting", query |-> q]
Upserting(q, answer) == [at |-> "upserting", query |-> q, rows |-> answer, locked |-> 0]
Absent == [at |-> "absent", source |-> 0]
Generation(stage, v) == [at |-> stage, source |-> v]

TypeOK ==
  /\ SearchTypeOK
  /\ paper \in [Papers -> 0 .. MaxVersion]
  /\ summary \in [Papers -> 0 .. MaxVersion]
  /\ \A r \in Searches :
       \/ search[r] = Free
       \/ search[r].at = "waiting" /\ search[r].query \in Queries
       \/ /\ search[r].at = "upserting"
          /\ search[r].locked \in 0 .. Len(Order[search[r].query])
          /\ \A p \in Papers : search[r].rows[p] \in 1 .. upstream[p]
  /\ \A a \in Readers :
       \/ request[a] = Free
       \/ /\ request[a].at \in {"source", "generation", "answer"}
          /\ request[a].asked \in 1 .. request[a].source
          /\ request[a].tries \in 0 .. 2
  /\ generation \in [Papers -> [Ranks ->
       {Absent} \cup [at : {"generating", "checked", "locked", "changed"}, source : Ranks]]]

Init ==
  /\ SearchInit
  /\ paper = [p \in Papers |-> 0]
  /\ summary = [p \in Papers |-> 0]
  /\ search = [r \in Searches |-> Free]
  /\ request = [a \in Readers |-> Free]
  /\ generation = [p \in Papers |-> [v \in Ranks |-> Absent]]

-----------------------------------------------------------------------------
(* searchPapers.                                                           *)

\* Everyone who waits for the request of q gets its answer, or its failure.
Answered(q, reply) ==
  [r \in Searches |-> IF search[r] = Waiting(q) THEN reply ELSE search[r]]

BeginSearch(r, q) ==
  /\ search[r] = Free
  /\ \/ /\ Cached(q)
        /\ search' = [search EXCEPT ![r] = Upserting(q, cache[q])]
        /\ UNCHANGED searchVars
     \/ /\ Join(q) \/ StartRequest(q)
        /\ search' = [search EXCEPT ![r] = Waiting(q)]
  /\ UNCHANGED <<paper, summary, request, generation>>

FetchEnds(q) ==
  /\ \/ FetchAnswered(q) /\ search' = Answered(q, Upserting(q, upstream))
     \/ FetchFailed(q) /\ search' = Answered(q, Free)
     \/ FetchRetried(q) /\ UNCHANGED search
  /\ UNCHANGED <<paper, summary, request, generation>>

\* The rows a search has locked, and the one it asks for next.
Locked(r) ==
  IF search[r].at # "upserting" THEN {}
  ELSE {Order[search[r].query][i] : i \in 1 .. search[r].locked}

Wanted(r) ==
  IF search[r].at # "upserting" \/ search[r].locked = Len(Order[search[r].query]) THEN None
  ELSE Order[search[r].query][search[r].locked + 1]

\* A summary of the paper is being stored: its row is locked FOR SHARE.
Shared(p) == \E v \in Ranks : generation[p][v].at = "locked"

LockRow(r) ==
  /\ Wanted(r) # None
  /\ \A s \in Searches \ {r} : Wanted(r) \notin Locked(s)
  /\ ~Shared(Wanted(r))
  /\ search' = [search EXCEPT ![r].locked = @ + 1]
  /\ UNCHANGED <<searchVars, paper, summary, request, generation>>

\* Mutant of Refreshed: the last answer wins.
RefreshedAlways(stored, incoming) == incoming

\* shouldRefreshPaper: what is stored stays when it is newer.
Refreshed(stored, incoming) == IF incoming >= stored THEN incoming ELSE stored

\* upsertMany commits.
CommitPapers(r) ==
  /\ search[r].at = "upserting"
  /\ Wanted(r) = None
  /\ paper' = [p \in Papers |->
                 IF p \in Locked(r) THEN Refreshed(paper[p], search[r].rows[p]) ELSE paper[p]]
  /\ search' = [search EXCEPT ![r] = Free]
  /\ UNCHANGED <<searchVars, summary, request, generation>>

\* Two searches that want each other's row: PostgreSQL aborts one, whose
\* search fails and leaves nothing behind.
BreakDeadlock(r, s) ==
  /\ r # s
  /\ Wanted(r) # None /\ Wanted(r) \in Locked(s)
  /\ Wanted(s) # None /\ Wanted(s) \in Locked(r)
  /\ search' = [search EXCEPT ![r] = Free]
  /\ UNCHANGED <<searchVars, paper, summary, request, generation>>

\* A statement fails: the transaction rolls back.
UpsertFails(r) ==
  /\ search[r].at = "upserting"
  /\ search' = [search EXCEPT ![r] = Free]
  /\ UNCHANGED <<searchVars, paper, summary, request, generation>>

-----------------------------------------------------------------------------
(* getPaperSummary and ensurePaperSummary.                                 *)

\* getCurrentSource
ReadSource(a) ==
  LET stored == paper[PaperOf[a]] IN
  /\ request[a] = Free
  /\ stored # 0
  /\ request' = [request EXCEPT ![a] =
                   [at |-> "source", source |-> stored, asked |-> stored, tries |-> 0]]
  /\ UNCHANGED <<searchVars, paper, summary, search, generation>>

\* isFreshSummary
Fresh(a) == summary[PaperOf[a]] = request[a].source

\* The summary is read after its paper: one that is fresh is the answer.
ReadSummary(a) ==
  /\ request[a].at = "source"
  /\ Fresh(a)
  /\ request' = [request EXCEPT ![a].at = "answer", ![a].source = summary[PaperOf[a]]]
  /\ UNCHANGED <<searchVars, paper, summary, search, generation>>

\* getPaperSummary answers that there is none.
ReadNoSummary(a) ==
  /\ request[a].at = "source"
  /\ ~Fresh(a)
  /\ request' = [request EXCEPT ![a] = Free]
  /\ UNCHANGED <<searchVars, paper, summary, search, generation>>

\* generationKey
Key(p, v) == v

\* coalesceGenerationAttempt: joins the generation of the same source.
Coalesced(generations, p, v) ==
  IF generations[p][Key(p, v)] = Absent
    THEN [generations EXCEPT ![p][Key(p, v)] = Generation("generating", v)]
    ELSE generations

Awaits(a, p, k) ==
  request[a].at = "generation" /\ PaperOf[a] = p /\ Key(p, request[a].source) = k

BeginGeneration(a) ==
  /\ request[a].at = "source"
  /\ ~Fresh(a)
  /\ generation' = Coalesced(generation, PaperOf[a], request[a].source)
  /\ request' = [request EXCEPT ![a].at = "generation", ![a].tries = 1]
  /\ UNCHANGED <<searchVars, paper, summary, search>>

\* The response has been sent.
Respond(a) ==
  /\ request[a].at = "answer"
  /\ request' = [request EXCEPT ![a] = Free]
  /\ UNCHANGED <<searchVars, paper, summary, search, generation>>

-----------------------------------------------------------------------------
(* One attempt to generate, for all that wait for it.                      *)

Stage(p, k, from, next) ==
  /\ generation[p][k].at = from
  /\ generation' = [generation EXCEPT ![p][k].at = next]
  /\ UNCHANGED request

\* The attempt is over: every request that waits for it goes on.
Over(p, k, next) ==
  request' = [a \in Readers |-> IF Awaits(a, p, k) THEN next[a] ELSE request[a]]

\* They are answered with an error, or not at all.
Lost == [a \in Readers |-> Free]

\* generateStableSummary: the source has changed, and whoever waited tries
\* once more with the source read now.
RetryWith(p, k, source) ==
  LET again == {a \in Readers : Awaits(a, p, k) /\ request[a].tries < 2}
      cleared == [generation EXCEPT ![p][k] = Absent]
      retried == [a \in Readers |->
                    IF a \in again THEN [request[a] EXCEPT !.source = source, !.tries = 2] ELSE Free]
  IN /\ generation' = IF again = {} THEN cleared ELSE Coalesced(cleared, p, source)
     /\ Over(p, k, retried)

\* The provider answers with a valid summary, and the source is read again
\* before anything is stored.
RecheckSource(p, k) ==
  /\ \/ generation[p][k].source = paper[p] /\ Stage(p, k, "generating", "checked")
     \/ /\ generation[p][k].at = "generating" /\ generation[p][k].source # paper[p]
        /\ RetryWith(p, k, paper[p])
  /\ UNCHANGED <<searchVars, paper, summary, search>>

\* persistIfSourceCurrent: the row of the paper is locked and compared.
LockSource(p, k) ==
  /\ \A r \in Searches : p \notin Locked(r)
  /\ \/ generation[p][k].source = paper[p] /\ Stage(p, k, "checked", "locked")
     \/ generation[p][k].source # paper[p] /\ Stage(p, k, "checked", "changed")
  /\ UNCHANGED <<searchVars, paper, summary, search>>

\* A source found changed under the lock is read once more.
ReadChangedSource(p, k) ==
  /\ generation[p][k].at = "changed"
  /\ RetryWith(p, k, paper[p])
  /\ UNCHANGED <<searchVars, paper, summary, search>>

\* The summary is committed; its record is the answer, unless the reply is lost.
CommitSummary(p, k) ==
  LET source == generation[p][k].source
      delivered == [a \in Readers |-> [request[a] EXCEPT !.at = "answer", !.source = source, !.tries = 0]]
  IN
  /\ generation[p][k].at = "locked"
  /\ summary' = [summary EXCEPT ![p] = source]
  /\ generation' = [generation EXCEPT ![p][k] = Absent]
  /\ Over(p, k, delivered) \/ Over(p, k, Lost)
  /\ UNCHANGED <<searchVars, paper, search>>

\* The provider or a statement fails: so does everyone who waits.
GenerationFails(p, k) ==
  /\ generation[p][k] # Absent
  /\ generation' = [generation EXCEPT ![p][k] = Absent]
  /\ Over(p, k, Lost)
  /\ UNCHANGED <<searchVars, paper, summary, search>>

-----------------------------------------------------------------------------
ArxivStep ==
  /\ (\E q \in Queries : Forget(q)) \/ (\E p \in Papers : Publish(p))
  /\ UNCHANGED researchVars

SearchStep(r) == LockRow(r) \/ CommitPapers(r) \/ (\E s \in Searches : BreakDeadlock(r, s))

ReaderStep(a) == ReadSummary(a) \/ ReadNoSummary(a) \/ BeginGeneration(a) \/ Respond(a)

GenerationStep(p, k) ==
  \/ RecheckSource(p, k) \/ LockSource(p, k) \/ ReadChangedSource(p, k)
  \/ CommitSummary(p, k) \/ GenerationFails(p, k)

Next ==
  \/ ArxivStep
  \/ \E r \in Searches, q \in Queries : BeginSearch(r, q)
  \/ \E q \in Queries : FetchEnds(q)
  \/ \E r \in Searches : SearchStep(r) \/ UpsertFails(r)
  \/ \E a \in Readers : ReadSource(a) \/ ReaderStep(a)
  \/ \E p \in Papers, k \in Ranks : GenerationStep(p, k)

\* Pauses end, a fetch is cut off by its timeout, a row is given to those who
\* wait for it in turn, and a deadlock is broken.
Fairness ==
  /\ WF_vars(\E q \in Queries : FetchEnds(q))
  /\ \A r \in Searches : SF_vars(SearchStep(r))
  /\ WF_vars(\E p \in Papers, k \in Ranks : CommitSummary(p, k))

Spec == Init /\ [][Next]_vars /\ Fairness

-----------------------------------------------------------------------------
(* Properties.                                                             *)

\* Whoever asks for a summary never gets one of a paper older than the one that
\* was stored when they asked.
AnswerNotOlder ==
  \A a \in Readers : request[a].at = "answer" => request[a].source >= request[a].asked

\* Every search ends: its request is not stuck behind the others, and its
\* transaction not in a deadlock.
SearchesEnd == \A r \in Searches : search[r] # Free ~> search[r] = Free

=============================================================================
