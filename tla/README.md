# A formal model of ResearchWeave

ResearchWeave is a TypeScript modular monolith: an Express and WebSocket server
(`src/server`), a PostgreSQL schema (`src/drizzle`, `src/server/db`), contracts
shared with the browser (`src/shared`) and a React client (`src/src`).  This
directory holds TLA+ models of the parts where order matters: who may write,
when, what is left behind when a process dies, a reply is lost or two requests
cross, and what a page shows when answers arrive late.

Run a check with `tlc -config <cfg> <module>`, a proof with `tlapm <module>.tla`.

## 1. The system and its parts

| Part | State | Hard because | Correct when | Modelled in |
| --- | --- | --- | --- | --- |
| Agent run store (`modules/agents/repository.ts`, `state.ts`) | rows of `agent_runs`, `agent_run_steps`, `agent_run_evidence` | writes of workers that lost their lease, time stamps older than the locks, one claim transaction that settles several runs | fences exclude, finished runs are frozen, the trace can be rebuilt and shown, a cancellation excludes any other end | `AgentRunStore`, `AgentRunLifecycle`, `AgentRunViews` |
| Agent run executor and worker (`run-executor.ts`, `worker.ts`) | processes, executions, confirmed leases, what one `execute()` awaits | late replies, crashes, grace periods; what was read is old when the answer arrives | one executor per run; acts on the stored trace; runs end; cancellations take effect | `AgentWorker` |
| Agent decisions and tools (`execution-context.ts`, `decision-*.ts`, `tools/*`) | the context built from the trace, the actions offered | the size of a context is stored by one worker and believed by the next; evidence appears while an answer is decided | stored contexts are accepted; answers cite what their author was shown | `AgentDecisions`, `KnowledgeAnswers` |
| Agent runtime and service (`agents/service.ts`, `runtime.ts`) | none but the idempotency keys | commands repeated because a reply was lost; replies that break their own contract | one task or run per intent; every stored run can be shown | `AgentCommands`, `AgentRunViews`, `RunFollowing`, `PagedLists`, `ServerLifecycle` |
| Documents and their indexing (`modules/documents/*`) | rows, stored files, upload requests, worker claims | recovery beside a live worker, compensation of failed uploads | one whole index per document, last good one kept, every document settles | `DocumentIndexing` |
| Text extraction and chunking (`document-extraction`, `document-chunker.ts`) | pages, text, chunks | preferred ends, overlap and surrogate pairs meet | every unit in a chunk, no half characters | `DocumentText` |
| Retrieval, grounded answers, paper comparison | one request | index, papers and membership change while a provider is asked | cites what was read, returned to members only | `KnowledgeAnswers` |
| Provider adapters (`integrations/*`) | attempts, timers, abort signals | timer, abort and body race | every call ends and says why | `ProviderCalls` |
| Spaces, members, connections, chat sends | rows | check and write in separate statements; events lost with a reply | see the hub | `SpaceAccess` |
| Realtime hub and gateway (`realtime/*`) | sockets, subscriptions, access revisions, command queues | membership checks before an await | nobody without access stays subscribed; presence is right | `SpaceAccess`, `RealtimeSessions` |
| Sessions and authentication (`modules/auth`) | sessions | a session ends while a socket is upgraded | no socket outlives its session | `RealtimeSessions`, `ServerLifecycle` |
| Start-up and shutdown (`startup-lifecycle.ts`, `index.ts`) | components started and stopped | shutdown at any point of the start | nothing is revived, a shutdown ends | `ServerLifecycle` |
| Papers and summaries (`modules/research`) | rows, locks, generations in flight | a newer paper during generation; lock order | no summary older than the paper asked about; no lasting deadlock | `ResearchPapers` |
| arXiv client (`integrations/arxiv`) | jobs, cache, requests in flight | a retry ahead in the queue | every search answered | `ArxivSearch` |
| Activity, overview, chat history, lists | cursors | rows appear, vanish and share a millisecond | each lasting row exactly once; members only | `PagedLists` |
| Browser: session ownership (`features/auth`, `app/query-client.ts`, `services`) | actor, cookie, cache, requests, socket | late answers of a former actor | shows the actor's data only | `BrowserSession` |
| Browser: realtime and chat page | socket, listeners, history query | disconnections, the gap before a subscription | nothing lost but in the gap | `ChatFeed` |
| Browser: Agent pages | queries, polling, cancellation | replies overlap, the member is removed | shows the end; leaves | `AgentCommands`, `RunFollowing` |
| Browser: pages of a Space | list query, selection, result | list and selection change under a request | the result fits the page | `SpacePages` |
| Document storage and upload, database schema, other pages | | | | in part, see section 6 |
| HTTP middleware | none | | | no |

How they interact.  Services call repositories; a repository function is one
PostgreSQL transaction or one statement.  The Agent worker and the indexing
worker poll the database and share nothing else with the request handlers.
Removing a member is seen by the Agent store (its guards read
`space_members`), by every request that checks the membership again after an
await and, through an event raised after the delete, by the realtime hub.
Deleting a session closes its sockets through such an event as well.  The
browser learns of changes by polling, by the events of its socket and by
refusals.

PROJECT.json lists every component, and under "hazards" each place in the code
that is hard to test, with the properties that cover it or the reason none does.

## 2. The modules

Composition: `AgentRunViews` and `AgentWorker` extend `AgentRunStore`, which
implements `AgentRunLifecycle`; the runs that `RunFollowing` watches move along
the same lifecycle.  `ServerLifecycle` extends `RealtimeSessions`,
`ResearchPapers` extends `ArxivSearch`.  The other modules stand alone, each
with a small environment for what its neighbours may do, and name in their
header the module that has the rest.

### AgentRunStore: the durable state

`run[<<t, k>>]` is the row of attempt k of task t, `steps[r]` and `evidence[r]`
its steps and evidence in order, `member` the members of the Space, `now` the
clock.  Every handler of `repository.ts` that writes is one action, because each
is one transaction that locks the run row first (`for update`): the whole
handler, guards, early returns and settlements included, happens at once.

* The caller's time stamp is read before the transaction has its locks.  So
  every handler takes a stamp `n` from `Stamps`, up to `Lag` ticks old.
* A worker is the set of fences (run, worker, generation) it was ever given:
  `claims`.  A fence can be used at any later time.  This covers stalled, lost
  and restarted processes, and heartbeats that overtake or lag behind the
  executor, without modelling processes at all.
* `ClaimRun` is the loop of `claimRun`: it settles the doomed runs it meets and
  leases the first healthy one; `SKIP LOCKED` lets it miss any row, so the rows
  it sees are any subset of the eligible ones.
* A refused write (stale fence, guard not met, conflict) changes nothing in the
  code and is no step of the model.
* Data are abstract.  A step is its kind, status and number of executions; a
  piece of evidence is the step that found it and its place in the final
  answer.  Arguments, fingerprints and texts are left out; `ExecutorError`
  stands for every error code the executor itself can choose.

`AgentRunLifecycle` is what the store promises, without leases, claims, clocks
or workers: attempts of a task one after the other, one end per attempt, a trace
that only grows, no other end after a cancellation request.  The refinement maps
status and request flag to themselves and the trace to its finished steps
(`ClosedPrefix`): a step that is still running may be resumed or end in three
ways, so it is not yet part of what is promised.

### AgentWorker: the processes

Extends the store with `process[w]` and `job[w]`.  An executor is a chain of
awaited calls: `job[w].doing` is the call it is waiting for, and the action that
ends the wait makes the transaction and runs the code up to the next await. `Beat`
is a heartbeat's transaction and `BeatReply` the arrival of its answer; both run
beside the executor.  `Watchdog` is the timer `resetWatchdog` sets:
`leaseSafetyMarginMs` before the confirmed lease ends, or at the end when the
lease ends at the deadline.  A stalled event loop may let the timer be late;
`late` remembers it.  A claim's stamp may be so old that its lease is over, or its
watchdog due, when the answer arrives; a process has one heartbeat in flight, so
the stamps of its heartbeats do not go back (`StampsAdvance`).  `CallThrows` is a
repository call that throws, whether or not PostgreSQL committed.  `Stop`,
`GraceOver` and `Exit` are an orderly shutdown, `Crash` is the other kind.  A
restarted process has a new random lease owner id and is another member of
`Workers`, so a process that is down stays down; `Replaced` keeps one up.

Decision provider and tools are an environment that answers anything the
executor accepts, fails, or is cut off.

### DocumentIndexing: documents and their index

`row[d]` is the documents row with its chunks abstracted to the attempt that
wrote them, `file` the stored source files, `upload[d]` how far the request that
owns the file has come, `worker[p]` the stage and claim of a process.  Every
repository call is an action; between two calls of a worker anything may happen
to the row.  `Start` requeues every processing document, including those another
live process is working on, as `recoverProcessingDocuments` does.  A reply may
be lost after the commit, and the write that records a failure may fail; `lost`
remembers for which documents, and at most `MaxLost` of them.

### AgentRunViews: what members and workers read

The read handlers, the replies made of them and the response contract of
`shared/contracts/agents.ts` as operators on the rows of the store; a read holds
a share lock, so it sees one state.  `Viewable` says that no reachable state is
refused by its own contract, which would be an internal error for every reader.

### AgentCommands, RunFollowing: the Agent pages

`AgentCommands` has the creation dialog and the Retry button as intents with an
identity that lives as long as the dialog or page, requests that may be executed
though their reply is lost, and the two transactions with their idempotency
checks.  `RunFollowing` has the queries of the task page and the run page:
polling while what is shown is active, the reply of a cancellation written into
the cache beside a poll that may be older, and the not-found reply that puts a
removed member out.

### AgentDecisions, KnowledgeAnswers, ProviderCalls: models and tools

Three layers of a question to a model.  `ProviderCalls` is one call: attempts,
timers, abort, the reading and throwing away of a body; the adapters differ in
`FailureOf`.  `KnowledgeAnswers` is one request around such calls (search,
grounded answer, comparison, over HTTP or as an Agent tool), one action per
await, with documents, papers and the membership changing in between.
`AgentDecisions` is a run decision by decision: the context a worker builds from
the stored trace, the actions the remaining budget leaves, the reply accepted or
refused, the size stored with a step and believed by the next worker.

### DocumentText: from a file to chunks

Pages are read, joined and normalized, then cut into chunks of `MaxPrimary`
units with an overlap.  A text is any sequence of the six kinds of UTF-16 units
the code tells apart whose pairs are whole, so `ChunksCoverText` is checked for
every text up to the bounds, and proved for every text.

### SpaceAccess, RealtimeSessions, ServerLifecycle: the server in real time

`SpaceAccess` splits what the code splits: a request changes the database in one
step and tells the hub in a later one, or never, when its reply is lost.  The
hub's access revision, read before the membership check of `space.subscribe` and
compared after it, is what `NoStaleAccess` depends on.  `RealtimeSessions` has
the upgrade with its awaited session check, the heartbeat that checks again, and
closing.  `ServerLifecycle` composes it with the start and the stop of the
process: components started in order, stopped in reverse, with a signal, a
failing component or a server error at any point.

### ArxivSearch, ResearchPapers: papers

A search is a cached answer or one shared request through the scheduler, then
one transaction that upserts its papers row by row under locks that are held to
the end; two searches that find the same papers in different orders can
deadlock, and PostgreSQL breaks it by failing one.  A summary is generated from
a source that is compared twice before it is stored, once without and once with
the row lock; whoever waits for a generation shares its outcome.

### PagedLists: lists read page by page

Four lists whose rows are added, removed and added again between pages; a row of
a Space goes with the Space (`Standing`).  The
cursor is the time and key of the last row shown; the page query, its `limit + 1`
rows and the next cursor are translated per list, since the code has them four
times.  The overview is three statements without a common snapshot.

### BrowserSession, ChatFeed, SpacePages: the browser

`BrowserSession` separates the cookie, which the network's replies change, from
the actor, which later code changes; every request and socket carries whether its
owner is still current.  `ChatFeed` has both ends of a socket, as the gap between
the history a page reads and the subscription the server takes is between them.
`SpacePages` has the two pages that select or ask and later show a result, over
one list query of TanStack Query with its refetches, cancellations and cached
data.  In both modules the list or history has a second fetch, of the next page
(`LoadMore`, `LoadEarlier`): `fetchNextPage` replaces a refetch that is under way
without a word, and adds its page to what was shown before.

## 3. What is checked

An MC module gives the constants of a run their values and symmetry sets; each
run has the `.cfg` of its name in camel case (`agent_run_deep` is
`AgentRunDeep.cfg`).  Three runs hold several models side by side: `view`, `route`
or `seen` chooses one in the initial state, they share no variable, and each has
its own bounds.

Every property of a passing run has a mutant: a changed definition, defined
before the original in its module, under which TLC finds the property violated.

| Run | Question | Properties | Bounds |
| --- | --- | --- | --- |
| `agent_run_deep` | one run, two workers, stale stamps, takeovers, cancellations, removed members | `Viewable`, `ContextRebuildable`, `CancelFreezesTrace`, `PublicationAuthorised` | 3 steps, 2 tool calls, 2 pieces of evidence, 2 executions of a step, lease 2, wall time 4, lag 1, clock 4 |
| `agent_run_attempts` | retries, also delivered twice; the store implements the lifecycle | `RetryOnce`, `ImplementsLifecycle` | 3 attempts, 2 request ids, 1 step, clock 2 |
| `agent_worker_safety` | two processes, crashes, shutdowns, late heartbeats and stale stamps | `OneExecutor`, `PictureCurrent` | lease 2, margin 1, wall time 3, lag 1, clock 3, 2 steps |
| `agent_worker_liveness` | runs are taken up and end by their deadline | `EveryRunEnds` | every lease lasts to the deadline, 1 call that throws, 2 executions of a step, clock 2 |
| `agent_worker_cancel` | cancellations take effect before the deadline | `CancelTakesEffect` | lease 2, wall time 3, clock 2, so that a lease may end and a deadline never comes; 1 call that throws, 1 execution of a step |
| `agent_worker_limits` | violation, see section 5 | `LimitFailsRun` | 1 process, no crash |
| `documents` | duplicates, recovery beside a live worker, deletions, a lost reply | `RowConsistent`, `AttemptsExclusive`, `SourceKept`, `LastGoodIndexKept`, `EveryDocumentSettles` | 2 uploads, 2 contents, 2 processes, 1 crash, 1 reindex, 1 lost reply |
| `space_realtime` | a Space, its sockets and hub (`space`); accounts one after the other in a tab (`tab`); a chat page over disconnections (`chat`) | `NoStaleAccess`, `ToldTheTruth`; `SignedInAsCookie`, `NoForeignData`, `NoFalseExpiry`; `MissedOnlyBeforeListening` | owner with 1 socket and user with 2, 1 removal, 1 message; 2 accounts, 2 sessions, 1 protected request; 2 messages, 2 connections, 2 waiting deliveries |
| `chat_reconnect` | violation, see section 5 | `HistoryRecovered` | 2 messages, 2 connections |
| `research_papers` | searches and summaries of the same papers | `AnswerNotOlder`, `SearchesEnd` | 2 papers (one with a second version), 2 queries in opposite orders, 2 searches, 2 readers, 2 attempts, 1 cache entry |
| `endpoints` | Agent commands (`commands`), a followed run (`following`), lists (`lists`); start and stop of the process with sessions and a socket (`server`) | `OnePerIntent`; `EndIsShown`, `RevokedPageLeft`; `PagesComplete`, `WithinMembership`; `NoRevival`, `ShutdownEnds`, `DeadSocketDropped` | 2 forms, 1 intent, 3 calls, 3 runs; 2 runs followed, 2 removals; pages of 3, 2 edits; 2 sessions, 1 socket |
| `questions` | text (`text`), provider call (`call`), request (`request`), run (`run`), page (`page`) | `ChunksCoverText`; `CallEnds`; `ReplyAuthorised`, `WholeIndex`, `EvidenceMatches`; `StoredContextAccepted`, `CitesWhatWasShown`; `ResultFitsPage`, `RemovedStaysGone` | texts of 6 units before and 5 after normalization, 2 pages, chunks of 2 with overlap 1, at most 3 of them; 2 attempts, 2 batches; 2 documents, 2 papers, 2 changes; 2 workers, 3 steps, 2 tools, 2 pieces of evidence, 4 units of context; 2 Spaces, 2 items, 1 update |

Why the bounds are enough.  Three steps are a finished, a running and a next one.
A wall time of two leases lets a lease expire with time left, so that a run is
claimed three times and old fences of two claims are in play; a lag of one tick
makes a stamp older than the lease that was renewed meanwhile.  Two executions
make a resumed step differ from a new one.  Two workers are needed for exclusion,
and every property about exclusion is about pairs.  One attempt suffices where the
property concerns one run.  Documents only meet through equal contents, hence two
of each.  A removed member who is added again, with a subscription awaiting its
check, needs one removal and two sockets: one that is subscribed and one that is
about to be.  Two accounts are a former actor and a present one.  Two connections
are a reconnection, two messages one that is missed and one after it.  Two papers
in opposite orders are the smallest deadlock.  Pages of three rows with two edits
leave an unchanged row on either side of a cursor whose row is gone.  In
`agent_worker_cancel` the clock never reaches a deadline, so a cancelled run that
ends was ended by its request: by its executor, or by the claim after its lease;
in `agent_worker_liveness` it is the deadline that must be enough.  A list of two
documents is the smallest with a second page.  Chunks of
two units are the smallest that hold a pair, so that an end, an overlap and a
preferred place can each fall inside one, in texts that need three chunks.  Two
Spaces are needed for a result that comes from the other.

Symmetry is used for users, workers, tasks, requests and the two sockets of one
user, which no definition orders, and never in a run that checks liveness.

`CHECK_DEADLOCK FALSE` is set for `documents`, `endpoints`, `questions` and
`chat_reconnect`, whose systems may stop: when uploads, edits, calls or
messages are used up and every request is answered, nothing is left to do.

### Fairness

* `AgentWorker`: weak fairness of time, and for every process of "some step of
  its own".  The event loop of a process that is up runs whatever is due;
  repository calls return or throw, timers end every provider and tool call
  (`runExternal`), the poll loop polls again after every wait.  Nothing is
  assumed about which of its steps a process takes first, about users, crashes
  or shutdowns.  That some process is up is not fairness but `Replaced`:
  liveness is stated for a deployment that is not switched off.  The guard of
  `Polls` ignores that row locks may hide a run for some polls; the locks are
  those of short transactions.
* `DocumentIndexing`: weak fairness of starting a process that is down and of
  the loop of a process that is up; nothing about users.
* `ResearchPapers`: a fetch ends (its timeout cuts it off); strong fairness of
  each search's steps, as PostgreSQL grants a row lock to those who wait in turn
  and breaks deadlocks, though every grant of a row disables the others; a
  transaction that holds its lock commits.  Readers and providers need not act.
* `ServerLifecycle`: the operating system answers a bind, a starting component
  succeeds or fails, the stop sequence goes on when what it waits for is over,
  the heartbeat interval fires, a session check is answered, a socket that is
  closing closes.  The claim that the Agent runtime waits for while it starts
  may never be answered.
* `RunFollowing`: the interval of a mounted query fires (weak), and a request
  is answered in the end (strong, since a newer request or a change of page
  replaces it).
* `ProviderCalls`: the adapter's own timer fires and a cancelled body is
  drained.  Nothing is assumed of providers and the network.

`EveryRunEnds` speaks of deadlines the bounded clock reaches, and
`CancelTakesEffect` of leases that end within it while their deadlines do not.

## 4. What is proved

Eight modules hold theorems, for all values of the constants that satisfy the
assumptions of the modules they extend; TLC evaluates these assumptions in every
run.  The bounds that keep the runs finite (clocks, crashes, edits, messages, ...)
are arbitrary naturals here, and sets of users, documents, rows or sockets
have any size.

| module | about | theorems |
|---|---|---|
| `AgentRunStore_proofs` | the run's row | `TypeCorrect`, `SchemaChecksHold`, `LeaseWithinDeadlineHolds`, `FencingTokensHold`, `HealthyLeaseKeptHolds`, `FinishedFrozenHolds`, `DeadlineFixedHolds`, `OneLiveAttemptHolds`, `RetryOnceHolds` |
| `AgentRunTrace_proofs` | its steps and evidence; the refinement; what members are shown | `TraceAppendOnlyHolds`, `CancelFreezesTraceHolds`, `PublicationAuthorisedHolds`, `ContextRebuildableHolds`, `TerminalShapeHolds`, `StoreImplementsLifecycle`, `ViewableHolds` |
| `AgentWorker_proofs` | the processes | `WorkersImplementStore`, `WorkerTypeCorrect`, `PicturesCurrent`, `OneExecutorAlone` |
| `DocumentIndexing_proofs` | documents and their texts | `TypeCorrect`, `RowsConsistent`, `AttemptsAreExclusive`, `SourcesKept`, `GoodIndexKept`; `NoTextIsLost` |
| `SpaceRealtime_proofs` | hub, tab and chat page | `AccessTypeCorrect`, `AccessNeverStale`, `SocketsToldTheTruth`; `SessionTypeCorrect`, `ActorIsCookies`, `OnlyOwnDataShown`, `ExpiryIsTrue`; `NothingElseMissed` |
| `Questions_proofs` | requests, decisions, pages, provider calls | `RepliesAuthorised`, `SourcesOfOneIndex`, `EvidenceIsExact`; `RowsAreAccepted`, `CitationsWereShown`; `RemovalIsFinal`, `ResultsFit`; `EndsToldRight`, `RequestsBounded`, `NothingSentAfterAbort` |
| `ServerLifecycle_proofs` | start and stop | `LifecycleTypeCorrect`, `StoppedStaysStopped`, `ShutdownInOrder` |
| `MemberRequests_proofs` | papers and searches, commands, followed runs, lists | `PapersNeverOlder`, `AnswersNeverOlder`, `SummariesCurrent`, `NobodyWaitsForNothing`, `SearchTypeCorrect`, `NothingInvented`; `OneCommandPerIntent`; `RunsNeverRevive`, `PollingStopsAtTheEnd`, `CommandsHitTheirRun`; `PagesAreComplete`, `RepliesWithinMembership` |

Every safety property that a passing run checks is stated by one of them.
`TypeOK`, `SchemaChecks`, `LeaseWithinDeadline`, `FencingTokens`,
`HealthyLeaseKept`, `FinishedFrozen`, `DeadlineFixed`, `OneLiveAttempt`,
`TraceAppendOnly`, `TerminalShape` and `PapersGrow` are proved and no run repeats
them; the same holds of the theorems whose statements name no property of a run
(`ShutdownInOrder`, `SummariesCurrent`, `PollingStopsAtTheEnd`, ...), which were
model-checked on the instances of the runs before they were proved.

### Assumptions worth knowing

* `StoreAssumption`: bounds are naturals, `None` is no user, worker, request or
  code, and (`ViewsAssumption`) no final result.  Other modules have the same about their null (`NoComponent`,
  `NoItemApart`, `TabConstants`, `CommandsAssumption`, ...): a null is no value
  of the kind it is missing from.
* `WorkerAssumption`: the safety margin is positive and shorter than the lease,
  as the configuration's own check has it.
* Processes share one clock, which does not run backwards.  How old a time stamp
  is when its transaction gets its locks is not bounded: `Lag` is any natural
  number in the theorems, `OneExecutorAlone` included.
* `SearchBounds`: arXiv answers a query in one or two attempts and its cache holds
  at least one entry.  `NoVerdict`: no verdict or result of a provider call is the
  null that stands for "none yet".
* `AnswersAssumption`: the documents of a Space are finitely many, without which
  "the nearest chunks" do not exist.

### The run store

Two case analyses carry all of it.  `RowSteps` lists the ten ways one step of
the store may change a run's row (`RowStep`); `TraceSteps` lists the eight ways
it may change a run's steps and evidence together with the counters and the
status (`TraceChange`).  Both have one case per handler, and everything after
them talks about one row or one trace and no longer about handlers.

None of the properties is inductive alone.

* `RowInv` says which columns go with which status and cuts the lease at the
  deadline; it needs that a deadline, once set, stays.  `FencingTokens` is
  inductive together with it: a claim hands out generation + 1, which no earlier
  claim can carry because all of them are at most the row's generation.
* The attempts invariant adds that the attempts of a task are 1..k and all but
  the last are terminal; `RetryOnce` follows because a retry is only created
  when no attempt carries its request.
* `TraceInv` is `ContextRebuildable` plus the fact that evidence points *into*
  the trace.  Without it a stored key could point past the end of the trace and
  the next step would change what it means.  With it a key points to a step that
  is over, and `KeptEntries` says such a step never changes.
* `EndInv` rests on `RowInv` (status against columns) and on the fact that only
  a completed run gains a final answer; that the references of an answer are
  numbered without gaps is the bijection between the positions of the citation
  list and the cited keys (`CitationNumbers`).
* The refinement uses all of them: `TraceInv` for the shape of the closed prefix
  of a trace, `OneLiveAttempt` for `Submit`, `RowInv` for what a status says
  about cancellation, `EndInv` for the absence of final answers in a run that
  fails.
* `Viewable` needs one thing more, `EntryInv`: tool calls stay within their limit,
  every stored step was executed, and the steps that end a run are over when
  they are stored.  With `RowInv`, `TraceInv` and `EndInv` every field of a reply
  is then within its contract.  The order of references and attempts is a
  ranking (`InOrder`): an element has as many below it as its rank says
  (`InOrderByRank`), because references are numbered 1, 2, ... by `EndInv` and
  attempts by `OneLiveAttempt`.

### The workers

`WorkersImplementStore` says that every behaviour of the processes is a
behaviour of the store, so all of the above holds of them: each step of a process
is a handler with a fence the process was given, or changes no row.

* `PicturesCurrent`: an executor's picture of the trace was the stored trace when
  it was read, and while its fence is the valid one nobody else could have
  changed it; the one step that runs is the one it started.
* `OneExecutorAlone` needs three facts, `GuardInv`: a run in progress has a
  deadline; what a process has confirmed of its lease is no later than what is
  stored, which holds because the stamps of its heartbeats do not go back; and an
  engaged process with a punctual watchdog has confirmed a lease that is not over
  yet, or it is past the moment its timer cuts it off.  So another process can
  only claim the run when that moment has come, and nothing has to be assumed of
  the age of stamps.

### Documents

`IndexInv`: the row agrees with its status, the requests of an upload follow one
another (`UploadsOrdered`), a worker's claim is never ahead of the attempts its
row has counted (`ClaimsCounted`), and two workers with a claim of the same
document have different attempts.  A worker beside which the document was
recovered then has an older attempt than the row, and its writes are refused.

`TextInv`: the cursor is within the text, each chunk lies in its unit of text
within the limits and with no end inside a pair (`ChunksSound`), and whatever is
before the cursor is in a chunk (`CoveredSoFar`).  A chunk begins at or before
the cursor and ends behind it: the ends the chunker picks (`SafeEnd`, `SafeStart`,
the preferred places) step off a pair by one unit, and a chunk is longer than its
overlap.  The chunker is a step per chunk and not a recursive function, which is
why this can be proved for texts of any length.

### The hub, the tab and the chat page

* `AccessInv`: a subscription in flight whose captured revision is still the
  hub's belongs to a member or to somebody whose event is due or lost
  (`AdmissionsBacked`), because every event advances the revisions it concerns
  (`RevisionsCount`).  `HubInv` adds that only open sockets have been told
  anything.
* `SessionInv`: every request, cached page and socket of the tab carries an actor
  that owned the cookie when it was sent (`PagesOwned`, `MutationOwned`), tokens
  belong to one user (`TokensIssued`), and unless an answer was lost the tab
  knows what the cookie is (`Answered`).
* `FeedInv`: of every message stored after the history a page holds was due,
  something is still on its way, a broadcast, an entry in the socket's queue
  or a fetch, or the message came before the server took the subscription
  (`NothingLost`).  A fetch of earlier messages promises nothing new: it carries
  the history that is shown and the moment it was due.

### Requests, decisions and pages

* `AnswersInv` says at which point of a request what it has read is known to
  be whole and when the membership was last seen.  That a reply's sources are the
  nearest chunks is a fact about the finite set of documents.
* `DecisionsInv`: a worker whose generation is still the run's has the rows it
  was shown (`WorkersAtWork`), and the stored rows are a context within every
  limit (`RowsWhole`).
* `PagesInv`: a removal that was confirmed replaces the fetches that began
  before it, so no reply and no list that is shown without a fetch of it under
  way has the record (`GoneUnlisted`), save the list marked as having lost that
  fetch to a next page.  The papers of a selection are listed
  (`SelectionListed`), and an instance of Ask Knowledge has the Space of its key
  (`AskingOwn`).
* `CallInv` goes through the phases of a provider call: which timer is on, how
  many requests the batches so far have cost, and which verdict a body that is
  thrown away already has.  A status that refuses for good is not tried again
  (`FailureKinds`), so the verdict of a call that ends is the last one, and an
  abort ends whatever waits before anything else is sent.

### Start and stop

`LifecycleInv`: no component is asked to stop before the process listens; the
indexer is asked only when its start has settled; the Agent worker is told at
once, so the answer its start waits for finds it stopping.

`ShutdownInv` follows the shutdown from resource to resource: a gateway that
closes lets no upgrade finish, so its last socket is the last (`GatewayQuiet`);
a component that has stopped cannot be started by an answer that comes late.  The
Agent worker's executions are the exception, as its stop does not wait for them
for ever.

### Papers, commands and lists

* `ResearchInv`: a generation is kept under the key of its own source, and no
  request holds a source older than the paper it began with, which is enough as a
  stored paper never gets older.
* `RowsInv`: while a summary is being stored its paper is what it was made from
  and no search has locked the row, because each side waits for the other's lock.
* `JobsInv`: a query has a job, running or in line, exactly while its request is
  in flight, and never two; whoever waits shares such a request.  A failed attempt
  goes to the end of the line before anyone can see the query without a job.
* `CacheInv`: nothing that is cached, on its way to the database or stored is newer
  than what arXiv has, and the cache makes room before it is full.
* `FollowingInv`: a reply was true once (`WasTrue`), and since the runs only move
  on (`RunsAdvance`) an end it tells of is still the end, however late it arrives.
* `CommandsInv`: every creation or retry of one intent, whether on its way or
  stored, has one key, and the form or page that could still repeat the intent
  holds the identity with that key.  A key is stored once.
* `ListsInv`: rows keep a key of their own; of the rows that were there all the
  time each has been shown or is still behind the cursor; every Space the reader
  had access to since the request is remembered.  A page of the newest rows
  exists because in a finite, strictly ordered set every number below its size
  is the number of rows newer than one of them (`RanksCount`).

### What is only model-checked

* Liveness: `EveryDocumentSettles`, `EveryRunEnds`, `CancelTakesEffect`,
  `SearchesEnd`, `ShutdownEnds`, `DeadSocketDropped`, `EndIsShown`,
  `RevokedPageLeft`, `CallEnds`.  The prover has no rule for fairness and ENABLED.
* That each view of `MCEndpoints`, `MCQuestions` and `MCSpaceRealtime` runs
  alone: these modules only put models side by side for TLC, and the theorems are
  about the models themselves.

## 5. Findings

Both are disagreements between a document of the repository and the code;
PROJECT.json has the lines.

1. `agent_worker_limits`: when a tool's result is within the tool's limits but
   overflows the run's context or evidence limit, `appendCompletedToolCall`
   throws outside any inner try.  The executor gives up without failing the run;
   the run is claimed again when its lease ends, executes the same tool call
   again, and at last fails with the wall time code.  The failure model asks for
   the precise code of the limit.
2. `chat_reconnect`: when a socket opens again, the client sends
   `space.subscribe` and at once refetches the history, but the server takes the
   subscription only after the await of its membership check.  A message stored
   and broadcast after the history was read and before the subscription was
   taken reaches the page by neither way.  The roadmap says that a reconnection
   restores missed history.  `MissedOnlyBeforeListening` shows that nothing else
   is lost.

Three smaller observations that no run states.  The transition table of `state.ts`
has no step from queued to failed, which a claim takes when the run's actor is
no longer a member; only tests consult the table, and the phase 9 specification
asks for that failure.  A subscription whose check fails leaves the chat page
connected and deaf until the socket reconnects.  "Load more documents"
(`knowledge-page.tsx:213`), pressed while the list is fetched again after a
deletion, replaces that fetch, since `fetchNextPage` cancels by default what is
under way: the page says that the document was removed and goes on listing it
until the pages are next read again.  `RemovedStaysGone` exempts exactly this
case.  "Load earlier messages" of the chat page does the same to the fetch after
a reconnection; the messages concerned are those of finding 2's gap, which then
begins with the disconnection.

## 6. Not modelled

* HTTP middleware, request validation, migrations and scripts: no state
  that an order of events could spoil.  That Agent replies pass their contract
  is `Viewable`.
* The staged file of a multipart upload and the resolution of storage paths; a
  file exists in `DocumentIndexing` from its promotion on.
* The spacing of arXiv starts in time and the refusal when `maxPending` jobs
  wait: the first is about real time, the second leaves no trace but an error,
  and what the searches end with depends on neither.
* Creating and renaming a Space, roles other than owner and member, rate limits.
* In the browser: other tabs, presence and the delays between connections in
  `ChatFeed`, the detail dialog of a document, pages without state of their own
  (Activity, overview, sign-in forms), wording and layout.  What those pages
  read is in `PagedLists`, `SpaceAccess` and `ResearchPapers`.
* Row locks except where they matter (`SKIP LOCKED` in `AgentRunStore`, the rows
  of papers in `ResearchPapers`); elsewhere a transaction is atomic.
* Contents: texts, prompts, distances and answers are values that the
  properties only tell apart.

## 7. What could come next

1. Liveness proofs, once the prover handles fairness: the arguments would be those
   of `EveryRunEnds` (time passes a deadline, some process is up and polls) and
   `SearchesEnd` (a rank over the line of jobs, `JobsInv`).
2. The staged file of an upload as a state of its own, with the files that a lost
   best-effort deletion leaves behind (the hazard of PROJECT.json that no property
   covers).
