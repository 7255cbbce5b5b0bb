-------------------------- MODULE DocumentIndexing --------------------------
(***************************************************************************)
(* The documents of one Research Space: upload and deletion                *)
(* (server/modules/documents/service.ts), the rows of documents and        *)
(* document_chunks (repository.ts) and the indexing worker of each server  *)
(* process (document-indexing-worker.ts).                                  *)
(*                                                                         *)
(* Every repository call is one transaction or one statement, hence one    *)
(* action.  A worker's claim is remembered outside the database, so        *)
(* anything may happen to the row between two of its calls.  A reply may   *)
(* be lost after PostgreSQL committed, and the write that records a        *)
(* failure may itself fail; lost remembers the documents this happened to. *)
(***************************************************************************)
EXTENDS Integers, FiniteSets

CONSTANTS
  Docs,          \* uploads; each makes a fresh document id
  Sources,       \* contents (SHA-256 of the bytes)
  Procs,         \* server processes, one indexing worker each
  None,          \* the null reference
  MaxCrashes,    \* bound: process crashes or shutdowns
  MaxReindexes,  \* bound: reindex commands that take effect
  MaxLost        \* bound: lost replies and lost failure records

Stages == {"extracting", "chunking", "embedding"}

ASSUME DocumentAssumption ==
  /\ MaxCrashes \in Nat /\ MaxReindexes \in Nat /\ MaxLost \in Nat
  /\ None \notin Docs \cup Sources \cup Stages

VARIABLES
  row,      \* row[d]: the documents row of d
  file,     \* the documents whose source file is in storage
  upload,   \* upload[d]: how far the request that handles d's file has come
  worker,   \* worker[p]: phase and claim of p's indexing worker
  lost,     \* documents for which a reply or a failure record was lost
  crashes, reindexes  \* counters for the bounds

vars == <<row, file, upload, worker, lost, crashes, reindexes>>

AbsentRow ==
  [status |-> "absent", stage |-> None, attempts |-> 0, source |-> None,
   failed |-> FALSE, indexedBy |-> 0, chunksBy |-> 0]

(* failed: errorCode and failedAt are set.  indexedBy: the attempt whose    *)
(* fingerprint and indexedAt the row shows, 0 if indexedAt is null.         *)
(* chunksBy: the attempt that wrote the stored chunks, 0 if there are none. *)
QueuedRow(s) == [AbsentRow EXCEPT !.status = "queued", !.source = s]

Stored == {d \in Docs : row[d].status # "absent"}

NoClaim == [doc |-> None, attempt |-> 0]
Idle == [phase |-> "idle", claim |-> NoClaim]
Down == [phase |-> "down", claim |-> NoClaim]

Working(p) == worker[p].phase \in Stages

(* Mutant of Current: the attempt number is not compared.                   *)
CurrentByStatus(c) == row[c.doc].status = "processing"

(* The where clause of every write of a worker.                             *)
Current(c) ==
  /\ row[c.doc].status = "processing"
  /\ row[c.doc].attempts = c.attempt

(* Losses and the other rare events do not come together: a bound.          *)
NothingLost == lost = {}
MayLose(d) == Cardinality(lost) < MaxLost /\ d \notin lost /\ crashes + reindexes = 0

-----------------------------------------------------------------------------
(* Upload, deletion and reindex requests.                                   *)

(* uploadDocument moves the staged file to the key of the new id.           *)
Promote(d, s) ==
  /\ upload[d] = [step |-> "staged", source |-> None]
  /\ upload' = [upload EXCEPT ![d] = [step |-> "promoted", source |-> s]]
  /\ file' = file \cup {d}
  /\ UNCHANGED <<row, worker, lost, crashes, reindexes>>

(* createForMember commits; a lost reply makes the caller remove the file.  *)
CreateDocument(d) ==
  /\ upload[d].step = "promoted"
  /\ \A e \in Stored : row[e].source # upload[d].source
  /\ row' = [row EXCEPT ![d] = QueuedRow(upload[d].source)]
  /\ \/ upload' = [upload EXCEPT ![d].step = "done"] /\ UNCHANGED lost
     \/ /\ MayLose(d)
        /\ lost' = lost \cup {d}
        /\ upload' = [upload EXCEPT ![d].step = "discard"]
  /\ UNCHANGED <<file, worker, crashes, reindexes>>

(* The same bytes are stored already, the membership is gone or the         *)
(* transaction failed: the new file is of no use.                           *)
RejectUpload(d) ==
  /\ upload[d].step = "promoted"
  /\ upload' = [upload EXCEPT ![d].step = "discard"]
  /\ UNCHANGED <<row, file, worker, lost, crashes, reindexes>>

(* Mutant of DiscardSource: the file is looked up by its content.           *)
DiscardSourceByContent(d) ==
  /\ upload[d].step = "discard"
  /\ upload' = [upload EXCEPT ![d].step = "done"]
  /\ file' = file \ {e \in Docs : upload[e].source = upload[d].source}
  /\ UNCHANGED <<row, worker, lost, crashes, reindexes>>

(* bestEffortDelete: the file goes, or stays behind as an orphan.           *)
DiscardSource(d) ==
  /\ upload[d].step = "discard"
  /\ upload' = [upload EXCEPT ![d].step = "done"]
  /\ file' \in {file \ {d}, file}
  /\ UNCHANGED <<row, worker, lost, crashes, reindexes>>

(* The process dies between two steps of the request.                       *)
RequestLost(d) ==
  /\ upload[d].step \in {"promoted", "discard"}
  /\ upload' = [upload EXCEPT ![d].step = "done"]
  /\ UNCHANGED <<row, file, worker, lost, crashes, reindexes>>

(* The row and, by cascade, its chunks go first, then the file.             *)
DeleteDocument(d) ==
  /\ d \in Stored
  /\ upload[d].step = "done"
  /\ row' = [row EXCEPT ![d] = AbsentRow]
  /\ upload' = [upload EXCEPT ![d].step = "discard"]
  /\ UNCHANGED <<file, worker, lost, crashes, reindexes>>

(* Mutant of QueueReindex: the index is dropped before the new one is built. *)
QueueReindexDropping(d) ==
  /\ row[d].status \in {"ready", "failed"}
  /\ reindexes < MaxReindexes /\ NothingLost
  /\ reindexes' = reindexes + 1
  /\ row' = [row EXCEPT ![d].status = "queued", ![d].stage = None, ![d].failed = FALSE,
                        ![d].indexedBy = 0]
  /\ UNCHANGED <<file, upload, worker, lost, crashes>>

(* A queued or processing document accepts the command without a change.    *)
QueueReindex(d) ==
  /\ row[d].status \in {"ready", "failed"}
  /\ reindexes < MaxReindexes /\ NothingLost
  /\ reindexes' = reindexes + 1
  /\ row' = [row EXCEPT ![d].status = "queued", ![d].stage = None, ![d].failed = FALSE]
  /\ UNCHANGED <<file, upload, worker, lost, crashes>>

-----------------------------------------------------------------------------
(* The indexing worker.                                                     *)

(* Mutant of Start: nothing is recovered.                                   *)
StartWithoutRecovery(p) ==
  /\ worker[p] = Down
  /\ worker' = [worker EXCEPT ![p] = Idle]
  /\ UNCHANGED <<row, file, upload, lost, crashes, reindexes>>

(* recoverProcessingDocuments requeues every processing document, those     *)
(* another live process works on included.                                  *)
Start(p) ==
  /\ worker[p] = Down
  /\ worker' = [worker EXCEPT ![p] = Idle]
  /\ row' = [d \in Docs |->
               IF row[d].status = "processing"
               THEN [row[d] EXCEPT !.status = "queued", !.stage = None] ELSE row[d]]
  /\ UNCHANGED <<file, upload, lost, crashes, reindexes>>

(* Mutant of Claimed: a later attempt is not counted.                       *)
ClaimedUncounted(d) ==
  [row[d] EXCEPT !.status = "processing", !.stage = "extracting",
                 !.attempts = IF @ = 0 THEN 1 ELSE @, !.failed = FALSE]

Claimed(d) ==
  [row[d] EXCEPT !.status = "processing", !.stage = "extracting",
                 !.attempts = @ + 1, !.failed = FALSE]

(* claimNextQueuedDocument takes the oldest queued row that no transaction  *)
(* has locked.  Rows recovered together have one age and a lock may hide    *)
(* any row, so the choice is left open.  When the reply is lost the worker  *)
(* stays idle and nobody knows of the claim.                                *)
Claim(p, d) ==
  /\ worker[p] = Idle
  /\ row[d].status = "queued"
  /\ row' = [row EXCEPT ![d] = Claimed(d)]
  /\ \/ /\ worker' = [worker EXCEPT ![p] =
              [phase |-> "extracting", claim |-> [doc |-> d, attempt |-> row'[d].attempts]]]
        /\ UNCHANGED lost
     \/ /\ MayLose(d)
        /\ lost' = lost \cup {d}
        /\ UNCHANGED worker
  /\ UNCHANGED <<file, upload, crashes, reindexes>>

(* requireStageOwnership: the next stage begins if the attempt is still     *)
(* current, otherwise the worker drops it.                                  *)
Advance(p, from, to) ==
  LET c == worker[p].claim IN
  /\ worker[p].phase = from
  /\ \/ /\ Current(c)
        /\ row' = [row EXCEPT ![c.doc].stage = to]
        /\ worker' = [worker EXCEPT ![p].phase = to]
     \/ /\ ~Current(c)
        /\ worker' = [worker EXCEPT ![p] = Idle]
        /\ UNCHANGED row
  /\ UNCHANGED <<file, upload, lost, crashes, reindexes>>

(* The source must still be in storage for the extraction to succeed.       *)
Extracted(p) == worker[p].claim.doc \in file /\ Advance(p, "extracting", "chunking")
Chunked(p) == Advance(p, "chunking", "embedding")

Activated(c) ==
  [row[c.doc] EXCEPT !.status = "ready", !.stage = None, !.failed = FALSE,
                     !.indexedBy = c.attempt, !.chunksBy = c.attempt]

(* activateDocumentIndex replaces chunks and index metadata in one          *)
(* transaction, or finds the attempt stale and changes nothing.             *)
Activate(p) ==
  LET c == worker[p].claim IN
  /\ worker[p].phase = "embedding"
  /\ row' = IF Current(c) THEN [row EXCEPT ![c.doc] = Activated(c)] ELSE row
  /\ worker' = [worker EXCEPT ![p] = Idle]
  /\ UNCHANGED <<file, upload, lost, crashes, reindexes>>

(* Any stage may fail.  The failure is recorded while the attempt is        *)
(* current; when the record itself fails the error is only logged.          *)
FailClaim(p) ==
  LET c == worker[p].claim IN
  /\ Working(p)
  /\ \/ /\ row' = IF Current(c)
                  THEN [row EXCEPT ![c.doc].status = "failed", ![c.doc].failed = TRUE,
                                   ![c.doc].stage = worker[p].phase]
                  ELSE row
        /\ UNCHANGED lost
     \/ /\ MayLose(c.doc)
        /\ lost' = lost \cup {c.doc}
        /\ UNCHANGED row
  /\ worker' = [worker EXCEPT ![p] = Idle]
  /\ UNCHANGED <<file, upload, crashes, reindexes>>

(* The process ends at any point.                                           *)
Crash(p) ==
  /\ worker[p] # Down
  /\ crashes < MaxCrashes /\ NothingLost
  /\ crashes' = crashes + 1
  /\ worker' = [worker EXCEPT ![p] = Down]
  /\ UNCHANGED <<row, file, upload, lost, reindexes>>

-----------------------------------------------------------------------------

Init ==
  /\ row = [d \in Docs |-> AbsentRow]
  /\ file = {}
  /\ upload = [d \in Docs |-> [step |-> "staged", source |-> None]]
  /\ worker = [p \in Procs |-> Down]
  /\ lost = {}
  /\ crashes = 0 /\ reindexes = 0

Request(d) ==
  \/ \E s \in Sources : Promote(d, s)
  \/ CreateDocument(d)
  \/ RejectUpload(d)
  \/ DiscardSource(d)
  \/ RequestLost(d)
  \/ DeleteDocument(d)
  \/ QueueReindex(d)

(* What the loop of a worker that is up does next.                          *)
Iterate(p) ==
  \/ \E d \in Docs : Claim(p, d)
  \/ Extracted(p) \/ Chunked(p) \/ Activate(p) \/ FailClaim(p)

Next ==
  \/ \E d \in Docs : Request(d)
  \/ \E p \in Procs : Start(p) \/ Iterate(p) \/ Crash(p)

(* A process that ended is started again; a worker that is up keeps         *)
(* polling, and the storage, extraction and embedding calls it awaits       *)
(* return.                                                                  *)
Fairness == \A p \in Procs : WF_vars(Start(p)) /\ WF_vars(Iterate(p))

Spec == Init /\ [][Next]_vars /\ Fairness
-----------------------------------------------------------------------------
(* Properties.                                                              *)

Row ==
  [status : {"absent", "queued", "processing", "ready", "failed"},
   stage : Stages \cup {None}, attempts : Nat, source : Sources \cup {None},
   failed : BOOLEAN, indexedBy : Nat, chunksBy : Nat]

UploadState ==
  [step : {"staged", "promoted", "discard", "done"}, source : Sources \cup {None}]

WorkerState ==
  [phase : Stages \cup {"idle", "down"},
   claim : [doc : Docs \cup {None}, attempt : Nat]]

(* Type invariant: the shape of rows, requests and workers.                 *)
TypeOK ==
  /\ row \in [Docs -> Row]
  /\ file \in SUBSET Docs
  /\ upload \in [Docs -> UploadState]
  /\ worker \in [Procs -> WorkerState]
  /\ lost \in SUBSET Docs
  /\ crashes \in Nat /\ reindexes \in Nat
  /\ \A p \in Procs : Working(p) => worker[p].claim.doc \in Docs

(* What retrieval reads is one whole index: the chunks belong to the        *)
(* attempt the metadata names, it is no attempt of the future, and a ready  *)
(* document shows the result of its latest attempt, not of an earlier one   *)
(* that finished late.  A failure shows on failed documents only.           *)
RowConsistent ==
  \A d \in Docs :
    /\ row[d].chunksBy = row[d].indexedBy
    /\ row[d].indexedBy <= row[d].attempts
    /\ row[d].status = "ready" => row[d].indexedBy = row[d].attempts
    /\ row[d].failed <=> row[d].status = "failed"

(* No two workers ever hold the same attempt of a document, so at most one  *)
(* of them can write to it (Current), even after a restart requeued the     *)
(* documents of a process that is still alive.                              *)
AttemptsExclusive ==
  \A p, q \in Procs :
    p # q /\ Working(p) /\ Working(q) => worker[p].claim # worker[q].claim

(* A stored document has its source file, so every attempt can read it:     *)
(* the clean-up of duplicate, refused and deleted uploads removes no file   *)
(* of another document.                                                     *)
SourceKept == Stored \ lost \subseteq file

(* A failed or stale attempt, a reindex and a recovery leave the last good  *)
(* index alone, and an index only gives way to that of a later attempt.     *)
LastGoodIndexKept ==
  [][\A d \in Stored : row'[d].status # "absent" =>
       row'[d].indexedBy >= row[d].indexedBy]_vars

(* Every accepted document ends ready, failed or deleted, through crashes   *)
(* and restarts, unless a reply or a failure record of it was lost.         *)
EveryDocumentSettles ==
  \A d \in Docs :
    row[d].status \in {"queued", "processing"} ~>
      d \in lost \/ row[d].status \notin {"queued", "processing"}
=============================================================================
