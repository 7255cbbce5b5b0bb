---------------------------- MODULE ArxivSearch ----------------------------
(***************************************************************************)
(* The arXiv client (server/integrations/arxiv): a cache of answers, one   *)
(* request in flight per query that equal searches share, at most two      *)
(* attempts of it, and the scheduler that runs one job at a time in the    *)
(* order of arrival.                                                       *)
(*                                                                         *)
(* Abstracted: URLs, Atom and the reading of the body (an answer is the    *)
(* version of every paper when it was fetched, or a failure that may be    *)
(* retried or not), and time: a job ends some time after it was taken,     *)
(* with the pause before its fetch, an entry of the cache expires some     *)
(* time, and which entry makes room is any.  A search that is refused, as  *)
(* maxPending jobs wait, changes nothing and is left out.                  *)
(***************************************************************************)
EXTENDS Naturals, Sequences, FiniteSets

CONSTANTS Queries,      \* cache keys
          Papers,
          Versions,     \* bound: the versions arXiv publishes of each paper
          MaxAttempts,  \* maxAttempts
          MaxEntries,   \* maxEntries of the cache
          None

ASSUME SearchBounds ==
  /\ Versions \in [Papers -> Nat \ {0}]
  /\ MaxAttempts \in {1, 2}
  /\ MaxEntries \in Nat \ {0}
  /\ None \notin Queries

VARIABLES
  upstream,  \* the newest version of each paper on arXiv
  cache,     \* the answer kept for a query
  attempt,   \* inFlight: the attempt of a query, 0 when there is none
  queue,     \* the queries whose jobs wait
  active     \* the query of the job the scheduler runs

searchVars == <<upstream, cache, attempt, queue, active>>

\* The keys of the cache.
Kept == {q \in Queries : cache[q] # None}

SearchTypeOK ==
  /\ upstream \in [Papers -> Nat] /\ \A p \in Papers : upstream[p] \in 1 .. Versions[p]
  /\ \A q \in Queries : cache[q] = None \/ cache[q] \in [Papers -> Nat]
  /\ Cardinality(Kept) <= MaxEntries
  /\ attempt \in [Queries -> 0 .. MaxAttempts]
  /\ queue \in Seq(Queries)
  /\ active \in Queries \cup {None}
  /\ active = None => queue = <<>>

SearchInit ==
  /\ upstream = [p \in Papers |-> 1]
  /\ cache = [q \in Queries |-> None]
  /\ attempt = [q \in Queries |-> 0]
  /\ queue = <<>>
  /\ active = None

\* drain, when no job is active.
Drained(jobs) ==
  IF jobs = <<>>
    THEN queue' = jobs /\ active' = None
    ELSE queue' = Tail(jobs) /\ active' = Head(jobs)

\* schedule
Scheduled(q) ==
  IF active = None THEN Drained(<<q>>) ELSE queue' = Append(queue, q) /\ UNCHANGED active

-----------------------------------------------------------------------------
\* search: an answer from the cache, a share in the request in flight, or a new
\* request.
Cached(q) == q \in Kept

\* set of the cache: other entries make room, at most one at a time.
Keep(q, answer) ==
  \E evicted \in SUBSET (Kept \ {q}) :
    /\ Cardinality(evicted) = IF Cardinality(Kept \cup {q}) > MaxEntries THEN 1 ELSE 0
    /\ cache' = [c \in Queries |-> IF c = q THEN answer
                                   ELSE IF c \in evicted THEN None ELSE cache[c]]

Join(q) ==
  /\ ~Cached(q)
  /\ attempt[q] > 0
  /\ UNCHANGED searchVars

StartRequest(q) ==
  /\ ~Cached(q)
  /\ attempt[q] = 0
  /\ attempt' = [attempt EXCEPT ![q] = 1]
  /\ Scheduled(q)
  /\ UNCHANGED <<upstream, cache>>

\* The fetch succeeds: the job ends, the next one starts, the answer is kept.
FetchAnswered(q) ==
  /\ active = q
  /\ Keep(q, upstream)
  /\ attempt' = [attempt EXCEPT ![q] = 0]
  /\ Drained(queue)
  /\ UNCHANGED upstream

\* A failure that may be retried: the scheduler has gone on to the next job
\* when the request is scheduled again, behind all that wait.
FetchRetried(q) ==
  /\ active = q
  /\ attempt[q] < MaxAttempts
  /\ attempt' = [attempt EXCEPT ![q] = @ + 1]
  /\ Drained(Append(queue, q))
  /\ UNCHANGED <<upstream, cache>>

\* Mutant of FetchFailed: the failed request stays in flight.
FetchFailedInFlight(q) ==
  /\ active = q
  /\ Drained(queue)
  /\ UNCHANGED <<upstream, cache, attempt>>

\* A failure that may not be, or that of the last attempt.
FetchFailed(q) ==
  /\ active = q
  /\ attempt' = [attempt EXCEPT ![q] = 0]
  /\ Drained(queue)
  /\ UNCHANGED <<upstream, cache>>

\* The entry expires.
Forget(q) ==
  /\ Cached(q)
  /\ cache' = [cache EXCEPT ![q] = None]
  /\ UNCHANGED <<upstream, attempt, queue, active>>

\* arXiv publishes a new version.
Publish(p) ==
  /\ upstream[p] < Versions[p]
  /\ upstream' = [upstream EXCEPT ![p] = @ + 1]
  /\ UNCHANGED <<cache, attempt, queue, active>>

=============================================================================
