----------------------- MODULE DocumentIndexing_proofs -----------------------
(***************************************************************************)
(* Proofs about the documents of a Space, for every number of documents,   *)
(* processes, crashes, reindex commands and lost replies, and about what an*)
(* indexing attempt makes of a file, for every text and every limit.       *)
(*                                                                         *)
(* Nothing locks a document while a worker indexes it: a claim is a pair   *)
(* <<document, attempt>> remembered by the worker.  The proofs rest on two *)
(* facts about what is remembered outside the database: a claim is never   *)
(* ahead of the attempts its row has counted (ClaimsCounted), and a        *)
(* document id is fresh until its row is created (UploadsOrdered). The text*)
(* shares no state with them: its proof follows the chunker's cursor, and  *)
(* shows that every place it picks can be picked (Extremes, EndPlaced).    *)
(***************************************************************************)
EXTENDS DocumentIndexing, DocumentText, FiniteSetTheorems, SequenceTheorems, TLAPS

-----------------------------------------------------------------------------
(* The inductive invariant.                                                 *)

Holds(p, d) == Working(p) /\ worker[p].claim.doc = d

Untouched(d) ==
  /\ row[d] = AbsentRow
  /\ \A p \in Procs : ~Holds(p, d)

(* Until its row is created nobody has claimed a document, its file lies in *)
(* storage once promoted, and a document whose replies all arrived keeps    *)
(* that file as long as it is stored.                                       *)
UploadsOrdered ==
  \A d \in Docs :
    /\ upload[d].step \in {"staged", "promoted"} => Untouched(d)
    /\ upload[d].step = "promoted" => d \in file
    /\ d \in Stored \ lost => upload[d].step = "done" /\ d \in file

(* A worker holds an attempt its document's row has counted, unless the row *)
(* is gone.                                                                 *)
ClaimsCounted ==
  \A p \in Procs :
    Working(p) /\ worker[p].claim.doc \in Stored =>
      worker[p].claim.attempt <= row[worker[p].claim.doc].attempts

IndexInv ==
  /\ TypeOK
  /\ RowConsistent
  /\ UploadsOrdered
  /\ ClaimsCounted
  /\ AttemptsExclusive

-----------------------------------------------------------------------------
(* Types.                                                                   *)

(* What the actions make of a row is a row.                                 *)
LEMMA RowUpdates ==
  ASSUME NEW x \in Row, NEW n \in Nat, NEW g \in Stages
  PROVE  /\ [x EXCEPT !.status = "queued", !.stage = None] \in Row
         /\ [x EXCEPT !.status = "queued", !.stage = None, !.failed = FALSE] \in Row
         /\ [x EXCEPT !.status = "processing", !.stage = "extracting",
                      !.attempts = n, !.failed = FALSE] \in Row
         /\ [x EXCEPT !.stage = g] \in Row
         /\ [x EXCEPT !.status = "failed", !.failed = TRUE, !.stage = g] \in Row
         /\ [x EXCEPT !.status = "ready", !.stage = None, !.failed = FALSE,
                      !.indexedBy = n, !.chunksBy = n] \in Row
<1>. USE DEF Row, Stages
<1>1. [x EXCEPT !.status = "queued", !.stage = None] \in Row
  OBVIOUS
<1>2. [x EXCEPT !.status = "queued", !.stage = None, !.failed = FALSE] \in Row
  OBVIOUS
<1>3. [x EXCEPT !.status = "processing", !.stage = "extracting",
                !.attempts = n, !.failed = FALSE] \in Row
  OBVIOUS
<1>4. [x EXCEPT !.stage = g] \in Row
  OBVIOUS
<1>5. [x EXCEPT !.status = "failed", !.failed = TRUE, !.stage = g] \in Row
  OBVIOUS
<1>6. [x EXCEPT !.status = "ready", !.stage = None, !.failed = FALSE,
                !.indexedBy = n, !.chunksBy = n] \in Row
  OBVIOUS
<1>. QED
  BY <1>1, <1>2, <1>3, <1>4, <1>5, <1>6

(* A row nobody has claimed yet is a row.                                   *)
LEMMA NewRows ==
  /\ AbsentRow \in Row
  /\ \A s \in Sources : QueuedRow(s) \in Row
  BY DEF AbsentRow, QueuedRow, Row, Stages

(* The initial state has the shape TypeOK describes.                        *)
LEMMA TypeInit == Init => TypeOK
  BY DocumentAssumption, NewRows
  DEF Init, TypeOK, UploadState, WorkerState, Down, NoClaim, Working, Stages

(* A request to upload, delete or reindex a document keeps the shape.       *)
LEMMA TypeRequest ==
  ASSUME TypeOK, NEW d \in Docs, Request(d)
  PROVE  TypeOK'
<1>. USE DocumentAssumption DEF TypeOK, UploadState
<1>1. ASSUME NEW s \in Sources, Promote(d, s)
      PROVE  TypeOK'
  BY <1>1 DEF Promote, Working
<1>2. CASE CreateDocument(d)
  <2>1. upload[d].source \in Sources \cup {None}
    OBVIOUS
  <2>2. QueuedRow(upload[d].source) \in Row
    BY <2>1 DEF QueuedRow, AbsentRow, Row, Stages
  <2>. QED
    BY <1>2, <2>2 DEF CreateDocument, Working
<1>3. CASE RejectUpload(d)
  BY <1>3 DEF RejectUpload, Working
<1>4. CASE DiscardSource(d)
  BY <1>4 DEF DiscardSource, Working
<1>5. CASE RequestLost(d)
  BY <1>5 DEF RequestLost, Working
<1>6. CASE DeleteDocument(d)
  BY <1>6, NewRows DEF DeleteDocument, Working
<1>7. CASE QueueReindex(d)
  <2>1. row' = [row EXCEPT ![d] =
                  [row[d] EXCEPT !.status = "queued", !.stage = None, !.failed = FALSE]]
    BY <1>7 DEF QueueReindex
  <2>2. [row[d] EXCEPT !.status = "queued", !.stage = None, !.failed = FALSE] \in Row
    BY RowUpdates DEF Stages
  <2>3. row' \in [Docs -> Row]
    BY <2>1, <2>2
  <2>. QED
    BY <1>7, <2>3 DEF QueueReindex, Working
<1>. QED
  BY <1>1, <1>2, <1>3, <1>4, <1>5, <1>6, <1>7 DEF Request

(* The steps of a worker keep the shape.                                    *)
LEMMA TypeWorker ==
  ASSUME TypeOK, NEW p \in Procs, Start(p) \/ Iterate(p) \/ Crash(p)
  PROVE  TypeOK'
<1>. USE DocumentAssumption DEF TypeOK
<1>. DEFINE c == worker[p].claim
<1>0. /\ Idle \in WorkerState /\ Down \in WorkerState
      /\ Idle.phase \notin Stages /\ Down.phase \notin Stages
  BY DEF Idle, Down, NoClaim, WorkerState, Stages
<1>1. CASE Start(p)
  <2>1. row' \in [Docs -> Row]
    BY <1>1, RowUpdates DEF Start, Stages
  <2>. QED
    BY <1>1, <2>1, <1>0 DEF Start, Working
<1>2. ASSUME NEW d \in Docs, Claim(p, d)
      PROVE  TypeOK'
  <2>0. row[d].attempts + 1 \in Nat
    BY DEF Row
  <2>1. row' \in [Docs -> Row]
    BY <1>2, <2>0, RowUpdates DEF Claim, Claimed, Stages
  <2>2. /\ worker' \in [Procs -> WorkerState]
        /\ \A q \in Procs : Working(q)' => worker'[q].claim.doc \in Docs
    <3>1. row'[d].attempts \in Nat
      BY <2>1 DEF Row
    <3>2. [phase |-> "extracting", claim |-> [doc |-> d, attempt |-> row'[d].attempts]]
            \in WorkerState
      BY <3>1 DEF WorkerState, Stages
    <3>. QED
      BY <1>2, <3>2 DEF Claim, Working
  <2>. QED
    BY <1>2, <2>1, <2>2 DEF Claim
<1>3. ASSUME NEW from \in Stages, NEW to \in Stages, Advance(p, from, to)
      PROVE  TypeOK'
  <2>1. c.doc \in Docs
    BY <1>3 DEF Advance, Working
  <2>2. row' \in [Docs -> Row]
    BY <1>3, <2>1 DEF Advance, Row
  <2>3. /\ worker' \in [Procs -> WorkerState]
        /\ \A q \in Procs : Working(q)' => worker'[q].claim.doc \in Docs
    BY <1>3, <2>1, <1>0, SMTT(30) DEF Advance, Working, WorkerState
  <2>. QED
    BY <1>3, <2>2, <2>3 DEF Advance
<1>4. CASE Activate(p)
  <2>1. c.doc \in Docs /\ c.attempt \in Nat
    BY <1>4 DEF Activate, Working, WorkerState, Stages
  <2>2. row' \in [Docs -> Row]
    BY <1>4, <2>1, RowUpdates DEF Activate, Activated, Stages
  <2>. QED
    BY <1>4, <2>2, <1>0 DEF Activate, Working
<1>5. CASE FailClaim(p)
  <2>1. c.doc \in Docs /\ worker[p].phase \in Stages
    BY <1>5 DEF FailClaim, Working
  <2>2. row' \in [Docs -> Row] /\ lost' \in SUBSET Docs
    <3>1. \/ UNCHANGED row
          \/ row' = [row EXCEPT ![c.doc] = [row[c.doc] EXCEPT
                       !.status = "failed", !.failed = TRUE, !.stage = worker[p].phase]]
      BY <1>5 DEF FailClaim
    <3>2. [row[c.doc] EXCEPT !.status = "failed", !.failed = TRUE, !.stage = worker[p].phase]
            \in Row
      <4>. DEFINE x == row[c.doc]
                  g == worker[p].phase
      <4>1. x \in Row /\ g \in Stages
        BY <2>1
      <4>. HIDE DEF x, g
      <4>2. [x EXCEPT !.status = "failed", !.failed = TRUE, !.stage = g] \in Row
        BY <4>1 DEF Row
      <4>. QED
        BY <4>2 DEF x, g
    <3>3. lost' \in SUBSET Docs
      BY <1>5, <2>1 DEF FailClaim
    <3>. QED
      BY <2>1, <3>1, <3>2, <3>3
  <2>3. /\ worker' = [worker EXCEPT ![p] = Idle]
        /\ UNCHANGED <<file, upload, crashes, reindexes>>
    BY <1>5 DEF FailClaim
  <2>4. /\ worker' \in [Procs -> WorkerState]
        /\ \A q \in Procs : Working(q)' => worker'[q].claim.doc \in Docs
    BY <2>3, <1>0 DEF Working
  <2>. QED
    BY <2>2, <2>3, <2>4
<1>6. CASE Crash(p)
  BY <1>6, <1>0 DEF Crash, Working
<1>. QED
  BY <1>1, <1>2, <1>3, <1>4, <1>5, <1>6 DEF Iterate, Extracted, Chunked, Stages

LEMMA TypeKept == TypeOK /\ [Next]_vars => TypeOK'
<1>1. CASE UNCHANGED vars
  BY <1>1 DEF vars, TypeOK, Working
<1>. QED
  BY <1>1, TypeRequest, TypeWorker DEF Next

(* The type invariant, for every value of the constants.                    *)
THEOREM TypeCorrect == Spec => []TypeOK
  BY TypeInit, TypeKept, PTL DEF Spec

-----------------------------------------------------------------------------
(* What the actions do to a row, to a request and to a claim.               *)

(* One row: how it may change in a step.  A worker writes only to the row   *)
(* of its claim and only while its attempt is the row's latest.             *)
RowKept(d) == row'[d] = row[d]

RowCreated(d) ==
  /\ upload[d].step = "promoted"
  /\ \E s \in Sources \cup {None} : row'[d] = QueuedRow(s)
  /\ upload'[d].step \in {"done", "discard"}

RowDeleted(d) ==
  /\ d \in Stored
  /\ upload[d].step = "done"
  /\ row'[d] = AbsentRow
  /\ upload'[d].step = "discard"

RowRequeued(d) ==
  /\ row[d].status \in {"ready", "failed", "processing"}
  /\ row'[d] \in {[row[d] EXCEPT !.status = "queued", !.stage = None],
                  [row[d] EXCEPT !.status = "queued", !.stage = None, !.failed = FALSE]}
  /\ row[d].status = "processing" \/ row'[d].failed = FALSE

RowClaimed(d) ==
  /\ row[d].status = "queued"
  /\ row'[d] = Claimed(d)

RowWritten(d) ==
  \E p \in Procs :
    /\ Holds(p, d)
    /\ Current(worker[p].claim)
    /\ row'[d] \in {[row[d] EXCEPT !.stage = "chunking"],
                    [row[d] EXCEPT !.stage = "embedding"],
                    [row[d] EXCEPT !.status = "failed", !.failed = TRUE,
                                   !.stage = worker[p].phase],
                    Activated(worker[p].claim)}

RowStep(d) ==
  \/ RowKept(d) \/ RowCreated(d) \/ RowDeleted(d)
  \/ RowRequeued(d) \/ RowClaimed(d) \/ RowWritten(d)

(* Every step of the system does one of these to every row.                 *)
LEMMA RowSteps ==
  ASSUME TypeOK, [Next]_vars, NEW d \in Docs
  PROVE  RowStep(d)
<1>. USE DEF TypeOK, RowStep
<1>1. CASE UNCHANGED vars
  BY <1>1 DEF vars, RowKept
<1>2. ASSUME NEW e \in Docs, Request(e)
      PROVE  RowStep(d)
  <2>1. CASE CreateDocument(e)
    BY <2>1 DEF CreateDocument, RowKept, RowCreated, UploadState
  <2>2. CASE DeleteDocument(e)
    BY <2>2 DEF DeleteDocument, RowKept, RowDeleted, UploadState
  <2>3. CASE QueueReindex(e)
    <3>1. CASE d # e
      BY <2>3, <3>1 DEF QueueReindex, RowKept
    <3>2. CASE d = e
      <4>1. row'[d] = [row[d] EXCEPT !.status = "queued", !.stage = None, !.failed = FALSE]
        BY <2>3, <3>2 DEF QueueReindex
      <4>2. row'[d].failed = FALSE
        BY <4>1 DEF Row
      <4>. QED
        BY <2>3, <3>2, <4>1, <4>2 DEF QueueReindex, RowRequeued
    <3>. QED
      BY <3>1, <3>2
  <2>4. CASE RejectUpload(e) \/ DiscardSource(e) \/ RequestLost(e)
              \/ \E s \in Sources : Promote(e, s)
    BY <2>4 DEF RejectUpload, DiscardSource, RequestLost, Promote, RowKept
  <2>. QED
    BY <1>2, <2>1, <2>2, <2>3, <2>4 DEF Request
<1>3. ASSUME NEW p \in Procs, Start(p)
      PROVE  RowStep(d)
  BY <1>3 DEF Start, RowKept, RowRequeued
<1>4. ASSUME NEW p \in Procs, NEW e \in Docs, Claim(p, e)
      PROVE  RowStep(d)
  BY <1>4 DEF Claim, RowKept, RowClaimed
<1>5. ASSUME NEW p \in Procs, Extracted(p) \/ Chunked(p)
      PROVE  RowStep(d)
  <2>1. PICK from \in Stages, to \in {"chunking", "embedding"} : Advance(p, from, to)
    BY <1>5 DEF Extracted, Chunked, Stages
  <2>2. Working(p) /\ worker[p].claim.doc \in Docs
    BY <2>1 DEF Advance, Working
  <2>3. CASE row' = row
    BY <2>3 DEF RowKept
  <2>4. CASE Current(worker[p].claim) /\ row' = [row EXCEPT ![worker[p].claim.doc].stage = to]
    BY <2>1, <2>2, <2>4 DEF RowKept, RowWritten, Holds
  <2>. QED
    BY <2>1, <2>3, <2>4 DEF Advance
<1>6. ASSUME NEW p \in Procs, Activate(p)
      PROVE  RowStep(d)
  <2>1. Working(p) /\ worker[p].claim.doc \in Docs
    BY <1>6 DEF Activate, Working, Stages
  <2>. QED
    BY <1>6, <2>1 DEF Activate, RowKept, RowWritten, Holds
<1>7. ASSUME NEW p \in Procs, FailClaim(p)
      PROVE  RowStep(d)
  <2>1. Working(p) /\ worker[p].claim.doc \in Docs
    BY <1>7 DEF FailClaim
  <2>2. CASE row' = row
    BY <2>2 DEF RowKept
  <2>3. CASE /\ Current(worker[p].claim)
             /\ row' = [row EXCEPT ![worker[p].claim.doc].status = "failed",
                                   ![worker[p].claim.doc].failed = TRUE,
                                   ![worker[p].claim.doc].stage = worker[p].phase]
    BY <2>1, <2>3 DEF RowKept, RowWritten, Holds
  <2>. QED
    BY <1>7, <2>2, <2>3 DEF FailClaim
<1>8. ASSUME NEW p \in Procs, Crash(p)
      PROVE  RowStep(d)
  BY <1>8 DEF Crash, RowKept
<1>. QED
  BY <1>1, <1>2, <1>3, <1>4, <1>5, <1>6, <1>7, <1>8 DEF Next, Iterate

(* What a row step does to the fields the invariant speaks of.              *)
LEMMA RowFields ==
  ASSUME TypeOK, NEW d \in Docs
  PROVE  /\ RowCreated(d) \/ RowDeleted(d) =>
              /\ row'[d].status \in {"absent", "queued"} /\ row'[d].failed = FALSE
              /\ row'[d].indexedBy = 0 /\ row'[d].chunksBy = 0 /\ row'[d].attempts = 0
         /\ RowRequeued(d) =>
              /\ row'[d].status = "queued" /\ row'[d].attempts = row[d].attempts
              /\ row'[d].failed \in {row[d].failed, FALSE}
              /\ row[d].status = "processing" \/ row'[d].failed = FALSE
              /\ row'[d].indexedBy = row[d].indexedBy /\ row'[d].chunksBy = row[d].chunksBy
         /\ RowClaimed(d) =>
              /\ row'[d].status = "processing" /\ row'[d].attempts = row[d].attempts + 1
              /\ row'[d].failed = FALSE
              /\ row'[d].indexedBy = row[d].indexedBy /\ row'[d].chunksBy = row[d].chunksBy
         /\ RowWritten(d) =>
              /\ row[d].status = "processing" /\ row'[d].status # "absent"
              /\ row'[d].attempts = row[d].attempts
<1>0. row[d] \in Row
  BY DEF TypeOK
<1>1. ASSUME RowCreated(d) \/ RowDeleted(d)
      PROVE  /\ row'[d].status \in {"absent", "queued"} /\ row'[d].failed = FALSE
             /\ row'[d].indexedBy = 0 /\ row'[d].chunksBy = 0 /\ row'[d].attempts = 0
  <2>1. CASE RowDeleted(d)
    BY <2>1 DEF RowDeleted, AbsentRow
  <2>2. CASE RowCreated(d)
    <3>1. PICK s \in Sources \cup {None} : row'[d] = QueuedRow(s)
      BY <2>2 DEF RowCreated
    <3>2. row'[d] = [status |-> "queued", stage |-> None, attempts |-> 0, source |-> s,
                     failed |-> FALSE, indexedBy |-> 0, chunksBy |-> 0]
      BY <3>1 DEF QueuedRow, AbsentRow
    <3>. QED
      BY <3>2
  <2>. QED
    BY <1>1, <2>1, <2>2
<1>2. ASSUME RowRequeued(d)
      PROVE  /\ row'[d].status = "queued" /\ row'[d].attempts = row[d].attempts
             /\ row'[d].failed \in {row[d].failed, FALSE}
             /\ row[d].status = "processing" \/ row'[d].failed = FALSE
             /\ row'[d].indexedBy = row[d].indexedBy /\ row'[d].chunksBy = row[d].chunksBy
  <2>1. CASE row'[d] = [row[d] EXCEPT !.status = "queued", !.stage = None]
    BY <1>0, <1>2, <2>1 DEF RowRequeued, Row
  <2>2. CASE row'[d] = [row[d] EXCEPT !.status = "queued", !.stage = None, !.failed = FALSE]
    BY <1>0, <1>2, <2>2 DEF RowRequeued, Row
  <2>. QED
    BY <1>2, <2>1, <2>2 DEF RowRequeued
<1>3. ASSUME RowClaimed(d)
      PROVE  /\ row'[d].status = "processing" /\ row'[d].attempts = row[d].attempts + 1
             /\ row'[d].failed = FALSE
             /\ row'[d].indexedBy = row[d].indexedBy /\ row'[d].chunksBy = row[d].chunksBy
  BY <1>0, <1>3 DEF RowClaimed, Claimed, Row
<1>4. ASSUME RowWritten(d)
      PROVE  /\ row[d].status = "processing" /\ row'[d].status # "absent"
             /\ row'[d].attempts = row[d].attempts
  <2>1. PICK p \in Procs :
          /\ Holds(p, d)
          /\ Current(worker[p].claim)
          /\ row'[d] \in {[row[d] EXCEPT !.stage = "chunking"],
                          [row[d] EXCEPT !.stage = "embedding"],
                          [row[d] EXCEPT !.status = "failed", !.failed = TRUE,
                                         !.stage = worker[p].phase],
                          Activated(worker[p].claim)}
    BY <1>4 DEF RowWritten
  <2>2. worker[p].claim.doc = d /\ row[d].status = "processing"
    BY <2>1 DEF Holds, Current
  <2>3. CASE row'[d] = Activated(worker[p].claim)
    BY <1>0, <2>2, <2>3 DEF Activated, Row
  <2>4. CASE row'[d] = [row[d] EXCEPT !.status = "failed", !.failed = TRUE,
                                      !.stage = worker[p].phase]
    BY <1>0, <2>2, <2>4 DEF Row
  <2>5. CASE row'[d] = [row[d] EXCEPT !.stage = "chunking"]
    BY <1>0, <2>2, <2>5 DEF Row
  <2>6. CASE row'[d] = [row[d] EXCEPT !.stage = "embedding"]
    BY <1>0, <2>2, <2>6 DEF Row
  <2>. QED
    BY <2>1, <2>2, <2>3, <2>4, <2>5, <2>6
<1>. QED
  BY <1>1, <1>2, <1>3, <1>4

(* A claim is remembered until its worker is done with it, or is taken      *)
(* while no other worker moves.                                             *)
ClaimKept(p) == Working(p) /\ worker'[p].claim = worker[p].claim

ClaimTaken(p) ==
  /\ \E d \in Docs :
       /\ row[d].status = "queued"
       /\ row'[d] = Claimed(d)
       /\ worker'[p].claim = [doc |-> d, attempt |-> row[d].attempts + 1]
  /\ \A q \in Procs \ {p} : worker'[q] = worker[q]

(* Whoever works after a step holds the claim it had before, or a new one.  *)
LEMMA ClaimSteps ==
  ASSUME TypeOK, [Next]_vars, NEW p \in Procs, Working(p)'
  PROVE  ClaimKept(p) \/ ClaimTaken(p)
<1>. USE DEF TypeOK
<1>0. Idle.phase \notin Stages /\ Down.phase \notin Stages
  BY DEF Idle, Down, Stages
<1>1. CASE worker' = worker
  BY <1>1 DEF Working, ClaimKept
<1>2. ASSUME NEW q \in Procs, worker' = [worker EXCEPT ![q] = Idle]
      PROVE  ClaimKept(p)
  BY <1>0, <1>2 DEF Working, ClaimKept
<1>3. ASSUME NEW q \in Procs, worker' = [worker EXCEPT ![q] = Down]
      PROVE  ClaimKept(p)
  BY <1>0, <1>3 DEF Working, ClaimKept
<1>4. ASSUME NEW e \in Docs, Request(e)
      PROVE  worker' = worker
  BY <1>4 DEF Request, Promote, CreateDocument, RejectUpload, DiscardSource, RequestLost,
              DeleteDocument, QueueReindex
<1>5. ASSUME NEW q \in Procs, NEW d \in Docs, Claim(q, d), worker' # worker
      PROVE  ClaimKept(p) \/ ClaimTaken(p)
  <2>1. row'[d] = Claimed(d) /\ row[d].status = "queued"
    BY <1>5 DEF Claim
  <2>2. row'[d].attempts = row[d].attempts + 1
    BY <2>1 DEF Claimed, Row
  <2>3. worker' = [worker EXCEPT ![q] =
             [phase |-> "extracting", claim |-> [doc |-> d, attempt |-> row[d].attempts + 1]]]
    BY <1>5, <2>2 DEF Claim
  <2>4. CASE p = q
    BY <2>1, <2>3, <2>4 DEF ClaimTaken
  <2>5. CASE p # q
    BY <2>3, <2>5 DEF ClaimKept, Working
  <2>. QED
    BY <2>4, <2>5
<1>6. ASSUME NEW q \in Procs, Extracted(q) \/ Chunked(q)
      PROVE  ClaimKept(p)
  <2>1. PICK from \in Stages, to \in Stages : Advance(q, from, to)
    BY <1>6 DEF Extracted, Chunked, Stages
  <2>2. CASE worker' = [worker EXCEPT ![q].phase = to]
    BY <2>1, <2>2 DEF Advance, ClaimKept, Working, WorkerState
  <2>. QED
    BY <1>2, <2>1, <2>2 DEF Advance
<1>. QED
  BY <1>1, <1>2, <1>3, <1>4, <1>5, <1>6
  DEF Next, vars, Iterate, Start, Activate, FailClaim, Crash

-----------------------------------------------------------------------------
(* Each part of the invariant is kept.                                      *)

(* What a row says is consistent: a worker that activates its index holds   *)
(* the row's latest attempt.                                                *)
LEMMA RowConsistentKept ==
  ASSUME TypeOK, RowConsistent, [Next]_vars
  PROVE  RowConsistent'
<1>. SUFFICES ASSUME NEW d \in Docs
              PROVE  /\ row'[d].chunksBy = row'[d].indexedBy
                     /\ row'[d].indexedBy <= row'[d].attempts
                     /\ row'[d].status = "ready" => row'[d].indexedBy = row'[d].attempts
                     /\ row'[d].failed <=> row'[d].status = "failed"
  BY DEF RowConsistent
<1>. USE DEF RowConsistent
<1>0. row[d] \in Row
  BY DEF TypeOK
<1>1. CASE RowKept(d)
  BY <1>1 DEF RowKept
<1>2. CASE RowCreated(d) \/ RowDeleted(d)
  <2>1. /\ row'[d].status \in {"absent", "queued"} /\ row'[d].failed = FALSE
        /\ row'[d].indexedBy = 0 /\ row'[d].chunksBy = 0 /\ row'[d].attempts = 0
    BY <1>2, RowFields
  <2>. QED
    BY <2>1
<1>3. CASE RowRequeued(d)
  BY <1>0, <1>3, RowFields
<1>4. CASE RowClaimed(d)
  <2>1. /\ row'[d].status = "processing" /\ row'[d].attempts = row[d].attempts + 1
        /\ row'[d].failed = FALSE
        /\ row'[d].indexedBy = row[d].indexedBy /\ row'[d].chunksBy = row[d].chunksBy
    BY <1>4, RowFields
  <2>. QED
    BY <1>0, <2>1 DEF Row
<1>5. CASE RowWritten(d)
  <2>1. PICK p \in Procs :
          /\ Holds(p, d)
          /\ Current(worker[p].claim)
          /\ row'[d] \in {[row[d] EXCEPT !.stage = "chunking"],
                          [row[d] EXCEPT !.stage = "embedding"],
                          [row[d] EXCEPT !.status = "failed", !.failed = TRUE,
                                         !.stage = worker[p].phase],
                          Activated(worker[p].claim)}
    BY <1>5 DEF RowWritten
  <2>2. /\ worker[p].claim.doc = d
        /\ row[d].status = "processing"
        /\ row[d].attempts = worker[p].claim.attempt
    BY <2>1 DEF Holds, Current
  <2>3. CASE row'[d] = Activated(worker[p].claim)
    BY <1>0, <2>2, <2>3 DEF Activated, Row
  <2>. QED
    BY <1>0, <2>1, <2>2, <2>3 DEF Row
<1>. QED
  BY RowSteps, <1>1, <1>2, <1>3, <1>4, <1>5 DEF RowStep

(* A new claim counts the attempt it makes, and no row that a claim names   *)
(* is created again.                                                        *)
LEMMA ClaimsCountedKept ==
  ASSUME TypeOK, UploadsOrdered, ClaimsCounted, [Next]_vars
  PROVE  ClaimsCounted'
<1>. SUFFICES ASSUME NEW p \in Procs, Working(p)',
                     NEW d \in Docs, d = worker'[p].claim.doc, d \in Stored'
              PROVE  worker'[p].claim.attempt <= row'[d].attempts
  BY DEF ClaimsCounted, Stored
<1>1. CASE ClaimKept(p)
  <2>1. Holds(p, d) /\ worker'[p].claim = worker[p].claim
    BY <1>1 DEF ClaimKept, Holds
  <2>2. row[d] \in Row /\ worker[p].claim.attempt \in Nat
    BY <2>1 DEF TypeOK, WorkerState
  <2>3. ~RowCreated(d) /\ ~RowDeleted(d)
    BY <2>1 DEF RowCreated, RowDeleted, UploadsOrdered, Untouched, Stored, AbsentRow
  <2>4. d \in Stored /\ row'[d].attempts >= row[d].attempts
    <3>0. d \in Stored <=> row[d].status # "absent"
      BY DEF Stored
    <3>1. CASE RowKept(d)
      BY <2>2, <3>0, <3>1 DEF RowKept, Stored, Row
    <3>2. CASE RowRequeued(d)
      <4>1. row[d].status # "absent"
        BY <3>2 DEF RowRequeued
      <4>2. row'[d].attempts = row[d].attempts
        BY <3>2, RowFields
      <4>. QED
        BY <2>2, <3>0, <4>1, <4>2 DEF Row
    <3>3. CASE RowClaimed(d)
      <4>1. row[d].status # "absent"
        BY <3>3 DEF RowClaimed
      <4>2. row'[d].attempts = row[d].attempts + 1
        BY <3>3, RowFields
      <4>. QED
        BY <2>2, <3>0, <4>1, <4>2 DEF Row
    <3>4. CASE RowWritten(d)
      <4>1. row[d].status = "processing" /\ row'[d].attempts = row[d].attempts
        BY <3>4, RowFields
      <4>. QED
        BY <2>2, <3>0, <4>1 DEF Row
    <3>. QED
      BY RowSteps, <2>3, <3>1, <3>2, <3>3, <3>4 DEF RowStep
  <2>5. row'[d] \in Row
    BY TypeKept, <2>1 DEF TypeOK
  <2>6. worker[p].claim.attempt <= row[d].attempts
    BY <2>1, <2>4 DEF ClaimsCounted, Holds
  <2>. QED
    BY <2>1, <2>2, <2>4, <2>5, <2>6 DEF Row
<1>2. CASE ClaimTaken(p)
  <2>1. PICK e \in Docs :
          /\ RowClaimed(e)
          /\ worker'[p].claim = [doc |-> e, attempt |-> row[e].attempts + 1]
    BY <1>2 DEF ClaimTaken, RowClaimed
  <2>2. row'[e].attempts = row[e].attempts + 1 /\ row[e].attempts \in Nat
    BY <2>1, RowFields DEF TypeOK, Row
  <2>. QED
    BY <2>1, <2>2
<1>. QED
  BY ClaimSteps, <1>1, <1>2

(* A new claim makes an attempt that no other worker can know of.           *)
LEMMA AttemptsExclusiveKept ==
  ASSUME TypeOK, ClaimsCounted, AttemptsExclusive, [Next]_vars
  PROVE  AttemptsExclusive'
<1>1. ASSUME NEW p \in Procs, NEW q \in Procs, p # q, Working(p)', Working(q)',
             ClaimTaken(p)
      PROVE  worker'[p].claim # worker'[q].claim
  <2>1. PICK d \in Docs :
          /\ row[d].status = "queued"
          /\ worker'[p].claim = [doc |-> d, attempt |-> row[d].attempts + 1]
    BY <1>1 DEF ClaimTaken
  <2>2. Working(q) /\ worker'[q] = worker[q]
    BY <1>1 DEF ClaimTaken, Working
  <2>3. d \in Stored /\ row[d].attempts \in Nat /\ worker[q].claim.attempt \in Nat
    BY <2>1 DEF Stored, TypeOK, Row, WorkerState
  <2>. QED
    BY <2>1, <2>2, <2>3 DEF ClaimsCounted
<1>2. ASSUME NEW p \in Procs, NEW q \in Procs, p # q, ClaimKept(p), ClaimKept(q)
      PROVE  worker'[p].claim # worker'[q].claim
  BY <1>2 DEF ClaimKept, AttemptsExclusive
<1>. QED
  BY ClaimSteps, <1>1, <1>2 DEF AttemptsExclusive

(* A document id stays fresh until its row is created.                      *)
LEMMA FreshKept ==
  ASSUME TypeOK, UploadsOrdered, [Next]_vars, NEW d \in Docs,
         upload[d].step \in {"staged", "promoted"},
         upload'[d].step \in {"staged", "promoted"}
  PROVE  Untouched(d)'
<1>1. row[d] = AbsentRow /\ row[d].status = "absent" /\ \A p \in Procs : ~Holds(p, d)
  <2>1. Untouched(d)
    BY DEF UploadsOrdered
  <2>2. AbsentRow.status = "absent"
    BY DEF AbsentRow
  <2>. QED
    BY <2>1, <2>2 DEF Untouched
<1>2. row'[d] = AbsentRow
  <2>1. ~RowCreated(d) /\ ~RowWritten(d)
    BY <1>1 DEF RowCreated, RowWritten
  <2>2. ~RowDeleted(d) /\ ~RowRequeued(d) /\ ~RowClaimed(d)
    BY <1>1 DEF RowDeleted, RowRequeued, RowClaimed, Stored
  <2>. QED
    BY <1>1, <2>1, <2>2, RowSteps DEF RowStep, RowKept
<1>3. ASSUME NEW p \in Procs, Holds(p, d)'
      PROVE  FALSE
  <2>1. Working(p)' /\ worker'[p].claim.doc = d
    BY <1>3 DEF Holds
  <2>2. CASE ClaimKept(p)
    BY <1>1, <2>1, <2>2 DEF ClaimKept, Holds
  <2>3. CASE ClaimTaken(p)
    BY <1>1, <2>1, <2>3 DEF ClaimTaken
  <2>. QED
    BY ClaimSteps, <2>1, <2>2, <2>3
<1>. QED
  BY <1>2, <1>3 DEF Untouched

(* A request moves forward only, and a worker moves none.                   *)
LEMMA RequestsForward ==
  ASSUME TypeOK, [Next]_vars, NEW d \in Docs,
         upload'[d].step \in {"staged", "promoted"}
  PROVE  upload[d].step \in {"staged", "promoted"}
<1>1. ASSUME NEW e \in Docs, Request(e)
      PROVE  upload[d].step \in {"staged", "promoted"}
  BY <1>1
  DEF TypeOK, UploadState, Request, Promote, CreateDocument, RejectUpload, DiscardSource,
      RequestLost, DeleteDocument, QueueReindex
<1>2. ASSUME NEW p \in Procs, Start(p) \/ Iterate(p) \/ Crash(p)
      PROVE  upload' = upload
  BY <1>2 DEF Start, Crash, Iterate, Claim, Extracted, Chunked, Advance, Activate, FailClaim
<1>. QED
  BY <1>1, <1>2 DEF Next, vars

(* A file is only removed for a document without a row.                     *)
LEMMA UploadsOrderedKept ==
  ASSUME TypeOK, UploadsOrdered, [Next]_vars
  PROVE  UploadsOrdered'
<1>. SUFFICES ASSUME NEW d \in Docs
              PROVE  /\ upload'[d].step = "promoted" => d \in file'
                     /\ d \in Stored' \ lost' => upload'[d].step = "done" /\ d \in file'
  BY FreshKept, RequestsForward DEF UploadsOrdered
<1>. DEFINE FilePart == /\ upload[d].step = "promoted" => d \in file
                        /\ d \in Stored \ lost => upload[d].step = "done" /\ d \in file
<1>0. /\ upload \in [Docs -> UploadState]
      /\ row \in [Docs -> Row]
      /\ d \in Stored <=> row[d].status # "absent"
      /\ d \in Stored' <=> row'[d].status # "absent"
      /\ upload[d].step \in {"staged", "promoted"} => d \notin Stored
      /\ FilePart
  BY DEF TypeOK, Stored, UploadsOrdered, Untouched, AbsentRow
<1>2. CASE UNCHANGED vars
  BY <1>0, <1>2 DEF vars, Stored
<1>3. ASSUME NEW e \in Docs, Request(e)
      PROVE  FilePart'
  <2>1. ASSUME NEW s \in Sources, Promote(e, s)
        PROVE  FilePart'
    BY <1>0, <2>1 DEF Promote, UploadState
  <2>2. CASE CreateDocument(e)
    <3>1. CASE e = d
      BY <1>0, <2>2, <3>1 DEF CreateDocument, UploadState
    <3>2. CASE e # d
      BY <1>0, <2>2, <3>2 DEF CreateDocument, UploadState
    <3>. QED
      BY <3>1, <3>2
  <2>3. CASE RejectUpload(e)
    BY <1>0, <2>3 DEF RejectUpload, UploadState
  <2>4. CASE DiscardSource(e)
    BY <1>0, <2>4 DEF DiscardSource, UploadState
  <2>5. CASE RequestLost(e)
    BY <1>0, <2>5 DEF RequestLost, UploadState
  <2>6. CASE DeleteDocument(e)
    <3>1. CASE e = d
      BY <1>0, <2>6, <3>1 DEF DeleteDocument, UploadState, AbsentRow
    <3>2. CASE e # d
      BY <1>0, <2>6, <3>2 DEF DeleteDocument, UploadState
    <3>. QED
      BY <3>1, <3>2
  <2>7. CASE QueueReindex(e)
    <3>1. CASE e = d
      BY <1>0, <2>7, <3>1 DEF QueueReindex, Row
    <3>2. CASE e # d
      BY <1>0, <2>7, <3>2 DEF QueueReindex
    <3>. QED
      BY <3>1, <3>2
  <2>. QED
    BY <1>3, <2>1, <2>2, <2>3, <2>4, <2>5, <2>6, <2>7 DEF Request
<1>4. ASSUME NEW p \in Procs, Start(p) \/ Iterate(p) \/ Crash(p)
      PROVE  FilePart'
  <2>1. upload' = upload /\ file' = file /\ lost \subseteq lost'
    BY <1>4 DEF Start, Crash, Iterate, Claim, Extracted, Chunked, Advance, Activate, FailClaim
  <2>2. ASSUME row[d].status = "absent"
        PROVE  row'[d].status = "absent"
    <3>1. ~RowCreated(d)
      BY <2>1 DEF RowCreated
    <3>. QED
      BY <1>0, <2>2, <3>1, RowSteps, RowFields
      DEF RowStep, RowKept, RowDeleted, RowRequeued, RowClaimed, Stored, AbsentRow
  <2>. QED
    BY <1>0, <2>1, <2>2
<1>. QED
  BY <1>2, <1>3, <1>4 DEF Next

-----------------------------------------------------------------------------
(* The theorems.                                                            *)

LEMMA IndexInvInit == Init => IndexInv
<1>. SUFFICES ASSUME Init
              PROVE  IndexInv
  OBVIOUS
<1>1. TypeOK
  BY TypeInit
<1>2. \A d \in Docs : row[d] = AbsentRow /\ d \notin Stored
  BY DEF Init, Stored, AbsentRow
<1>3. \A p \in Procs : ~Working(p)
  BY DEF Init, Working, Down, Stages
<1>4. RowConsistent
  BY <1>2 DEF RowConsistent, AbsentRow
<1>5. UploadsOrdered
  BY <1>2, <1>3 DEF Init, UploadsOrdered, Untouched, Holds
<1>. QED
  BY <1>1, <1>3, <1>4, <1>5 DEF IndexInv, ClaimsCounted, AttemptsExclusive

LEMMA IndexInvKept == IndexInv /\ [Next]_vars => IndexInv'
  BY TypeKept, RowConsistentKept, UploadsOrderedKept, ClaimsCountedKept, AttemptsExclusiveKept
  DEF IndexInv

(* The inductive invariant that every theorem about the index rests on.      *)
THEOREM IndexInvariant == Spec => []IndexInv
  BY IndexInvInit, IndexInvKept, PTL DEF Spec

(* What retrieval reads of a document is one whole index, and a ready       *)
(* document shows the result of its latest attempt: for any number of       *)
(* workers, restarts and reindex commands.                                  *)
THEOREM RowsConsistent == Spec => []RowConsistent
  BY IndexInvariant, PTL DEF IndexInv

(* No two workers hold the same attempt of a document, however often its    *)
(* processing was recovered while the old worker was still alive.           *)
THEOREM AttemptsAreExclusive == Spec => []AttemptsExclusive
  BY IndexInvariant, PTL DEF IndexInv

(* A stored document keeps its source file, whatever uploads of the same    *)
(* content are rejected and cleaned up.                                     *)
THEOREM SourcesKept == Spec => []SourceKept
<1>1. IndexInv => SourceKept
  BY DEF IndexInv, UploadsOrdered, SourceKept, Stored
<1>. QED
  BY <1>1, IndexInvariant, PTL

(* The index of a document gives way only to that of a later attempt.       *)
THEOREM GoodIndexKept == Spec => LastGoodIndexKept
<1>1. ASSUME IndexInv, [Next]_vars
      PROVE  [\A d \in Stored : row'[d].status # "absent" =>
                row'[d].indexedBy >= row[d].indexedBy]_vars
  <2>. SUFFICES ASSUME NEW d \in Docs, d \in Stored, row'[d].status # "absent"
                PROVE  row'[d].indexedBy >= row[d].indexedBy
    BY DEF Stored
  <2>0. row[d] \in Row /\ TypeOK /\ row[d].indexedBy <= row[d].attempts
    BY <1>1 DEF IndexInv, TypeOK, RowConsistent
  <2>1. ~RowCreated(d) /\ ~RowDeleted(d)
    BY <1>1 DEF IndexInv, UploadsOrdered, Untouched, RowCreated, RowDeleted, Stored, AbsentRow
  <2>2. CASE row'[d].indexedBy = row[d].indexedBy
    BY <2>0, <2>2 DEF Row
  <2>3. CASE RowWritten(d)
    <3>1. PICK p \in Procs :
            /\ Holds(p, d)
            /\ Current(worker[p].claim)
            /\ row'[d] \in {[row[d] EXCEPT !.stage = "chunking"],
                            [row[d] EXCEPT !.stage = "embedding"],
                            [row[d] EXCEPT !.status = "failed", !.failed = TRUE,
                                           !.stage = worker[p].phase],
                            Activated(worker[p].claim)}
      BY <2>3 DEF RowWritten
    <3>2. worker[p].claim.doc = d /\ worker[p].claim.attempt = row[d].attempts
      BY <3>1 DEF Holds, Current
    <3>3. CASE row'[d] = Activated(worker[p].claim)
      BY <2>0, <3>2, <3>3 DEF Activated, Row
    <3>4. CASE row'[d] # Activated(worker[p].claim)
      BY <2>0, <2>2, <3>1, <3>4 DEF Row
    <3>. QED
      BY <3>3, <3>4
  <2>4. CASE RowKept(d)
    BY <2>2, <2>4 DEF RowKept
  <2>5. CASE RowRequeued(d) \/ RowClaimed(d)
    BY <2>0, <2>2, <2>5, RowFields
  <2>. QED
    BY <1>1, <2>0, <2>1, <2>3, <2>4, <2>5, RowSteps DEF RowStep
<1>. QED
  BY <1>1, IndexInvariant, PTL DEF Spec, LastGoodIndexKept

-----------------------------------------------------------------------------
(* The text of a document and its chunks (DocumentText). Every place the    *)
(* chunker picks is one of finitely many: it has a least and a greatest.    *)

(* In a set of places, for each number below its size some place has that   *)
(* many before it.                                                          *)
LEMMA PlacesNumbered ==
  ASSUME NEW b \in Nat, NEW S \in SUBSET (1 .. b)
  PROVE  /\ IsFiniteSet(S) /\ Cardinality(S) \in Nat
         /\ \A k \in 0 .. Cardinality(S) - 1 :
              \E i \in S : Cardinality({j \in S : j < i}) = k
<1>. DEFINE Ahead(i) == {j \in S : j < i}
            N == Cardinality(S)
            rank == [i \in S |-> Cardinality(Ahead(i))]
<1>1. IsFiniteSet(S) /\ N \in Nat
  <2>1. 1 \in Int /\ b \in Int
    OBVIOUS
  <2>2. IsFiniteSet(1 .. b)
    BY <2>1, FS_Interval
  <2>3. IsFiniteSet(S)
    BY <2>2, FS_Subset
  <2>. QED  BY <2>3, FS_CardinalityType
<1>2. ASSUME NEW i \in S
      PROVE  /\ IsFiniteSet(Ahead(i)) /\ Cardinality(Ahead(i)) \in 0 .. N - 1
             /\ Cardinality(Ahead(i)) \in Nat
  <2>1. Ahead(i) \subseteq S /\ i \notin Ahead(i)
    OBVIOUS
  <2>2. IsFiniteSet(Ahead(i)) /\ Cardinality(Ahead(i)) <= N /\ Cardinality(Ahead(i)) # N
    BY <1>1, <2>1, FS_Subset
  <2>3. Cardinality(Ahead(i)) \in Nat
    BY <2>2, FS_CardinalityType
  <2>. HIDE DEF Ahead, N
  <2>. QED  BY <1>1, <2>2, <2>3
<1>3. rank \in [S -> 0 .. N - 1]
  BY <1>2
<1>4. ASSUME NEW i \in S, NEW j \in S, i < j PROVE rank[i] # rank[j]
  <2>1. Ahead(i) \subseteq Ahead(j) /\ i \in Ahead(j) /\ i \notin Ahead(i)
    <3>1. i \in Int /\ j \in Int /\ \A k \in S : k \in Int
      OBVIOUS
    <3>2. \A l \in S : l < i => l < j
      <4>. HIDE DEF rank
      <4>. QED  BY <1>4, <3>1
    <3>3. i < j /\ ~(i < i)
      BY <1>4, <3>1
    <3>. QED  BY <3>2, <3>3, Zenon
  <2>2. Cardinality(Ahead(i)) # Cardinality(Ahead(j))
    <3>1. IsFiniteSet(Ahead(j))
      BY <1>2
    <3>. HIDE DEF Ahead
    <3>. QED  BY <2>1, <3>1, FS_Subset
  <2>. HIDE DEF Ahead
  <2>. QED  BY <2>2
<1>5. \A i, j \in S : rank[i] = rank[j] => i = j
  <2>1. \A i, j \in S : i \in Int /\ j \in Int
    OBVIOUS
  <2>. HIDE DEF rank
  <2>. QED  BY <1>4, <2>1
<1>6. \A k \in 0 .. N - 1 : \E i \in S : rank[i] = k
  <2>. HIDE DEF rank
  <2>1. rank \in Injection(S, 0 .. N - 1)
    BY <1>3, <1>5 DEF Injection, IsInjective
  <2>2. IsFiniteSet(0 .. N - 1) /\ Cardinality(0 .. N - 1) = N
    <3>1. N - 1 \in Int /\ 0 \in Int
      BY <1>1
    <3>2. /\ IsFiniteSet(0 .. N - 1)
          /\ Cardinality(0 .. N - 1) = IF 0 > N - 1 THEN 0 ELSE (N - 1) - 0 + 1
      BY <3>1, FS_Interval
    <3>. HIDE DEF N
    <3>. QED  BY <1>1, <3>2
  <2>3. rank \in Surjection(S, 0 .. N - 1)
    BY <2>1, <2>2, FS_Injection
  <2>. QED  BY <2>3 DEF Surjection
<1>. QED  BY <1>1, <1>6

LEMMA Extremes ==
  ASSUME NEW b \in Nat, NEW S \in SUBSET (1 .. b), S # {}
  PROVE  Min(S) \in S /\ Max(S) \in S
<1>. DEFINE Ahead(i) == {j \in S : j < i}
            N == Cardinality(S)
<1>1. IsFiniteSet(S) /\ N \in Nat /\ N # 0
  BY PlacesNumbered, FS_EmptySet
<1>2. \A k \in 0 .. N - 1 : \E i \in S : Cardinality(Ahead(i)) = k
  BY PlacesNumbered
<1>3. \A i \in S : i \in Int /\ IsFiniteSet(Ahead(i)) /\ i \notin Ahead(i) /\ Ahead(i) \subseteq S
  <2>. SUFFICES ASSUME NEW i \in S
                PROVE  i \in Int /\ IsFiniteSet(Ahead(i)) /\ i \notin Ahead(i) /\ Ahead(i) \subseteq S
    OBVIOUS
  <2>1. Ahead(i) \subseteq S /\ i \in Int /\ i \notin Ahead(i)
    OBVIOUS
  <2>2. IsFiniteSet(Ahead(i))
    BY <1>1, <2>1, FS_Subset
  <2>. QED  BY <2>1, <2>2
<1>4. PICK i \in S : Cardinality(Ahead(i)) = 0
  <2>1. 0 \in 0 .. N - 1
    <3>. HIDE DEF N
    <3>. QED  BY <1>1
  <2>. QED  BY <1>2, <2>1
<1>5. \A j \in S : i <= j
  <2>1. Ahead(i) = {}
    BY <1>3, <1>4, FS_EmptySet
  <2>. QED  BY <1>3, <2>1
<1>6. PICK k \in S : Cardinality(Ahead(k)) = N - 1
  <2>1. N - 1 \in 0 .. N - 1
    <3>. HIDE DEF N
    <3>. QED  BY <1>1
  <2>. QED  BY <1>2, <2>1
<1>7. \A j \in S : k >= j
  <2>1. IsFiniteSet(Ahead(k)) /\ k \notin Ahead(k)
    BY <1>3
  <2>2. Cardinality(Ahead(k) \cup {k}) = N
    <3>1. Cardinality(Ahead(k) \cup {k}) = Cardinality(Ahead(k)) + 1
      BY <2>1, FS_AddElement
    <3>. HIDE DEF N, Ahead
    <3>. QED  BY <1>1, <1>6, <3>1
  <2>3. Ahead(k) \cup {k} \subseteq S
    OBVIOUS
  <2>4. Ahead(k) \cup {k} = S
    <3>. HIDE DEF Ahead
    <3>. QED  BY <1>1, <2>2, <2>3, FS_Subset
  <2>. QED  BY <1>3, <2>4
<1>8. Min(S) \in S
  BY <1>5, Zenon DEF Min
<1>9. Max(S) \in S
  BY <1>7, Zenon DEF Max
<1>. QED  BY <1>8, <1>9

Texts == Seq(Kinds)

LEMMA TrimmedTyped == ASSUME NEW raw \in Texts PROVE Trimmed(raw) \in Texts
<1>. DEFINE inked == {i \in DOMAIN raw : ~White(raw[i])}
<1>1. CASE inked = {}
  BY <1>1 DEF Trimmed, Texts
<1>2. CASE inked # {}
  <2>1. Len(raw) \in Nat /\ inked \in SUBSET (1 .. Len(raw))
    BY DEF Texts
  <2>2. Min(inked) \in inked /\ Max(inked) \in inked
    <3>. HIDE DEF inked
    <3>. QED  BY <1>2, <2>1, Extremes
  <2>3. Trimmed(raw) = SubSeq(raw, Min(inked), Max(inked))
    BY <1>2 DEF Trimmed
  <2>4. Min(inked) \in 1 .. Len(raw) /\ Max(inked) \in 1 .. Len(raw)
    <3>. HIDE DEF inked
    <3>. QED  BY <2>1, <2>2
  <2>5. ASSUME NEW m \in 1 .. Len(raw), NEW n \in 1 .. Len(raw)
        PROVE  SubSeq(raw, m, n) \in Seq(Kinds)
    <3>1. \A i \in m .. n : raw[i] \in Kinds
      BY <2>1 DEF Texts
    <3>. QED  BY <2>1, <3>1, SubSeqProperties
  <2>. HIDE DEF inked
  <2>. QED  BY <2>3, <2>4, <2>5 DEF Texts
<1>. QED  BY <1>1, <1>2

LEMMA CollapsedTyped == ASSUME NEW raw \in Texts PROVE Collapsed(raw) \in Texts
<1>. DEFINE kept == {i \in DOMAIN raw : Stays(raw, i)}
            N == Cardinality(kept)
            At(n) == CHOOSE i \in kept : Cardinality({j \in kept : j < i}) = n - 1
<1>1. Len(raw) \in Nat /\ kept \in SUBSET (1 .. Len(raw)) /\ kept \subseteq DOMAIN raw
  BY DEF Texts
<1>2. N \in Nat /\ \A k \in 0 .. N - 1 : \E i \in kept : Cardinality({j \in kept : j < i}) = k
  <2>. HIDE DEF kept
  <2>. QED  BY <1>1, PlacesNumbered
<1>3. ASSUME NEW n \in 1 .. N PROVE At(n) \in kept
  <2>1. n - 1 \in 0 .. N - 1
    <3>. HIDE DEF N
    <3>. QED  BY <1>2
  <2>2. \E i \in kept : Cardinality({j \in kept : j < i}) = n - 1
    BY <1>2, <2>1
  <2>. HIDE DEF kept
  <2>. QED  BY <2>2, Zenon
<1>4. \A i \in DOMAIN raw : Mark(raw, i) \in Kinds
  BY DEF Mark, Texts, Kinds
<1>5. Collapsed(raw) = [n \in 1 .. N |-> Mark(raw, At(n))]
  BY DEF Collapsed
<1>6. \A n \in 1 .. N : Mark(raw, At(n)) \in Kinds
  <2>. HIDE DEF kept, N, At
  <2>. QED  BY <1>1, <1>3, <1>4
<1>. HIDE DEF kept, N, At
<1>. QED  BY <1>2, <1>5, <1>6 DEF Texts

(* What is extracted is a text.                                             *)
LEMMA ExtractedTyped == SourceTexts \subseteq Texts /\ PageTexts \subseteq Texts
<1>1. ASSUME NEW raw \in RawTexts PROVE raw \in Texts
  <2>1. PICK n \in 0 .. MaxRaw : raw \in [1 .. n -> Kinds]
    BY DEF RawTexts
  <2>2. n \in Nat
    BY TextAssumption
  <2>. QED  BY <2>1, <2>2 DEF Texts
<1>2. \A raw \in RawTexts : Trimmed(raw) \in Texts
  BY <1>1, TrimmedTyped
<1>3. \A raw \in RawTexts : Trimmed(Collapsed(raw)) \in Texts
  BY <1>1, CollapsedTyped, TrimmedTyped
<1>. QED  BY <1>2, <1>3 DEF SourceTexts, PageTexts

-----------------------------------------------------------------------------
(* A place picked by the chunker.                                           *)

(* A step back from the middle of a pair is no middle of a pair, and a step *)
(* forward is not either.                                                   *)
LEMMA BesidePair ==
  ASSUME NEW text \in Texts, NEW o \in Nat, Splits(text, o)
  PROVE  ~Splits(text, o - 1) /\ ~Splits(text, o + 1)
         /\ o - 1 \in 0 .. Len(text) /\ o + 1 \in 0 .. Len(text)
<1>1. Len(text) \in Nat /\ 0 < o /\ o < Len(text) /\ text[o] = "high" /\ text[o + 1] = "low"
  BY DEF Splits, Texts
<1>2. ~Splits(text, o - 1)
  <2>1. (o - 1) + 1 = o
    OBVIOUS
  <2>. QED  BY <1>1, <2>1 DEF Splits
<1>3. ~Splits(text, o + 1)
  BY <1>1 DEF Splits
<1>. QED  BY <1>1, <1>2, <1>3

LEMMA WhiteIsWhole ==
  ASSUME NEW text, NEW o, White(text[o])
  PROVE  ~Splits(text, o)
BY DEF White, Splits

(* The place where a chunk ends is further on, within its size, in no pair. *)
LEMMA EndPlaced ==
  ASSUME NEW text \in Texts, NEW start \in Nat, start < Len(text)
  PROVE  /\ PrimaryEnd(text, start) \in start + 1 .. Len(text)
         /\ PrimaryEnd(text, start) - start <= MaxPrimary
         /\ ~Splits(text, PrimaryEnd(text, start))
<1>. DEFINE end == SafeEnd(text, start + MaxPrimary, start)
            result == PrimaryEnd(text, start)
<1>1. Len(text) \in Nat /\ MaxPrimary \in Nat /\ MaxPrimary >= 2
  BY TextAssumption DEF Texts
<1>2. CASE Len(text) - start <= MaxPrimary
  <2>1. result = Len(text)
    BY <1>2 DEF PrimaryEnd
  <2>2. ~Splits(text, Len(text))
    BY <1>1 DEF Splits
  <2>. HIDE DEF result
  <2>3. result \in start + 1 .. Len(text) /\ result - start <= MaxPrimary /\ ~Splits(text, result)
    BY <1>1, <1>2, <2>1, <2>2
  <2>. QED  BY <2>3 DEF result
<1>3. CASE ~(Len(text) - start <= MaxPrimary)
  <2>1. /\ end \in start + 1 .. Len(text) /\ end <= start + MaxPrimary
        /\ ~Splits(text, end)
    <3>1. start + MaxPrimary \in Nat /\ start + MaxPrimary < Len(text) /\ start + MaxPrimary > start
      BY <1>1, <1>3
    <3>2. CASE Splits(text, start + MaxPrimary)
      <4>1. end = (start + MaxPrimary) - 1
        BY <3>1, <3>2 DEF SafeEnd
      <4>2. ~Splits(text, (start + MaxPrimary) - 1)
        BY <3>1, <3>2, BesidePair
      <4>. HIDE DEF end
      <4>. QED  BY <1>1, <3>1, <4>1, <4>2
    <3>3. CASE ~Splits(text, start + MaxPrimary)
      <4>1. end = start + MaxPrimary
        BY <3>3 DEF SafeEnd
      <4>. HIDE DEF end
      <4>. QED  BY <1>1, <3>1, <3>3, <4>1
    <3>. QED  BY <3>2, <3>3
  <2>. HIDE DEF end
  <2>2. ASSUME NEW S \in SUBSET (start + 1 .. end), S # {}, \A e \in S : White(text[e])
        PROVE  /\ Max(S) \in start + 1 .. Len(text) /\ Max(S) - start <= MaxPrimary
               /\ ~Splits(text, Max(S))
    <3>1. end \in Nat /\ S \in SUBSET (1 .. end)
      BY <2>1, <1>1
    <3>2. Max(S) \in S
      BY <2>2, <3>1, Extremes
    <3>3. ~Splits(text, Max(S))
      BY <2>2, <3>2, WhiteIsWhole
    <3>4. Max(S) \in start + 1 .. end
      BY <3>2
    <3>. QED  BY <1>1, <2>1, <3>3, <3>4
  <2>3. /\ ParagraphEnds(text, start, end) \in SUBSET (start + 1 .. end)
        /\ \A e \in ParagraphEnds(text, start, end) : White(text[e])
    BY DEF ParagraphEnds, White
  <2>4. /\ SentenceEnds(text, start, end) \in SUBSET (start + 1 .. end)
        /\ \A e \in SentenceEnds(text, start, end) : White(text[e])
    BY DEF SentenceEnds
  <2>5. /\ WhiteEnds(text, start, end) \in SUBSET (start + 1 .. end)
        /\ \A e \in WhiteEnds(text, start, end) : White(text[e])
    BY DEF WhiteEnds
  <2>6. result = IF ParagraphEnds(text, start, end) # {} THEN Max(ParagraphEnds(text, start, end))
                 ELSE IF SentenceEnds(text, start, end) # {} THEN Max(SentenceEnds(text, start, end))
                 ELSE IF WhiteEnds(text, start, end) # {} THEN Max(WhiteEnds(text, start, end))
                 ELSE end
    BY <1>3 DEF PrimaryEnd, end
  <2>. HIDE DEF result
  <2>7. result \in start + 1 .. Len(text) /\ result - start <= MaxPrimary /\ ~Splits(text, result)
    <3>1. CASE ParagraphEnds(text, start, end) # {}
      BY <2>2, <2>3, <2>6, <3>1
    <3>2. CASE ParagraphEnds(text, start, end) = {} /\ SentenceEnds(text, start, end) # {}
      BY <2>2, <2>4, <2>6, <3>2
    <3>3. CASE /\ ParagraphEnds(text, start, end) = {} /\ SentenceEnds(text, start, end) = {}
               /\ WhiteEnds(text, start, end) # {}
      BY <2>2, <2>5, <2>6, <3>3
    <3>4. CASE /\ ParagraphEnds(text, start, end) = {} /\ SentenceEnds(text, start, end) = {}
               /\ WhiteEnds(text, start, end) = {}
      <4>1. result = end
        BY <2>6, <3>4
      <4>. QED  BY <1>1, <2>1, <4>1
    <3>. QED  BY <3>1, <3>2, <3>3, <3>4
  <2>. QED  BY <2>7 DEF result
<1>. QED  BY <1>2, <1>3

(* The place where it begins is at or before the last end, by the overlap   *)
(* at most, and in no pair either.                                          *)
LEMMA StartPlaced ==
  ASSUME NEW text \in Texts, NEW start \in Nat, start < Len(text)
  PROVE  /\ ChunkStart(text, start) \in 0 .. start
         /\ start - ChunkStart(text, start) <= Overlap
         /\ ~Splits(text, ChunkStart(text, start))
<1>. DEFINE proposed == IF start > Overlap THEN start - Overlap ELSE 0
<1>1. Len(text) \in Nat /\ Overlap \in Nat /\ Overlap # 0
  BY TextAssumption DEF Texts
<1>2. proposed \in Nat /\ proposed <= start /\ start - proposed <= Overlap /\ (proposed = start => start = 0)
  BY <1>1
<1>3. ChunkStart(text, start) = IF Splits(text, proposed) THEN proposed + 1 ELSE proposed
  BY DEF ChunkStart, SafeStart
<1>. HIDE DEF proposed
<1>4. CASE Splits(text, proposed)
  <2>1. proposed > 0 /\ proposed < start
    BY <1>2, <1>4 DEF Splits
  <2>2. ~Splits(text, proposed + 1)
    BY <1>2, <1>4, BesidePair
  <2>3. ChunkStart(text, start) = proposed + 1
    BY <1>3, <1>4
  <2>4. ~Splits(text, ChunkStart(text, start))
    BY <2>2, <2>3
  <2>. QED  BY <1>1, <1>2, <2>1, <2>3, <2>4
<1>5. CASE ~Splits(text, proposed)
  BY <1>2, <1>3, <1>5
<1>. QED  BY <1>4, <1>5

-----------------------------------------------------------------------------
(* The inductive invariant of an attempt.                                   *)

TextStages == {"reading", "paging", "closing", "chunking", "embedding", "indexed", "failed"}

Failures ==
  PdfErrors \cup EmbeddingErrors \cup
  {"none", "document_source_unavailable", "document_invalid_utf8", "document_text_limit_exceeded",
   "document_pdf_page_limit_exceeded", "document_no_extractable_text",
   "document_chunk_limit_exceeded", "document_no_indexable_text"}

UnitRow == [page : Nat, text : Texts]
ChunkRow == [unit : Nat, from : Nat, to : Nat]

TextTyped ==
  /\ attempt \in [stage : TextStages, failure : Failures]
  /\ pdf \in [handle : {"none", "open", "closed"}, pages : Nat]
  /\ units \in Seq(UnitRow)
  /\ chunks \in Seq(ChunkRow)
  /\ cursor \in [unit : Nat, start : Nat]

(* Nothing is cut before everything is read, and the handle of a PDF is     *)
(* given back by then; an attempt that failed has a code, an index that is  *)
(* complete is within its limit.                                            *)
InOrder ==
  /\ attempt.stage \in {"reading", "paging", "closing"} => chunks = << >> /\ cursor = Beginning
  /\ attempt.stage = "reading" => units = << >> /\ pdf.handle = "none"
  /\ pdf.handle = "open" <=> attempt.stage \in {"paging", "closing"}
  /\ attempt.failure = "none" => attempt.stage # "failed"
  /\ attempt.stage \in {"chunking", "embedding", "indexed"} => Len(chunks) <= MaxChunks

(* Every chunk lies in a unit.                                              *)
Sound(c) ==
  /\ c.unit \in DOMAIN units
  /\ c.from < c.to /\ c.to <= Len(units[c.unit].text) /\ c.to - c.from <= MaxPrimary + Overlap
  /\ ~Splits(units[c.unit].text, c.from) /\ ~Splits(units[c.unit].text, c.to)

ChunksSound == \A n \in DOMAIN chunks : Sound(chunks[n])

(* The cursor is at a place where a text may be cut, and what is before it  *)
(* is in a chunk.                                                           *)
CursorPlaced ==
  attempt.stage = "chunking" =>
    /\ cursor.unit \in 1 .. Len(units) + 1
    /\ cursor.unit <= Len(units) => cursor.start <= Len(units[cursor.unit].text)

Behind(n, offset) == n < cursor.unit \/ (n = cursor.unit /\ offset <= cursor.start)

CoveredSoFar ==
  /\ attempt.stage \in {"chunking", "embedding", "indexed"} =>
       \A n \in DOMAIN units : \A offset \in DOMAIN units[n].text :
         Behind(n, offset) => \E m \in DOMAIN chunks : Inside(chunks[m], n, offset)
  /\ attempt.stage \in {"embedding", "indexed"} => cursor.unit > Len(units)

TextInv == TextTyped /\ InOrder /\ ChunksSound /\ CursorPlaced /\ CoveredSoFar

(* What the chunker starts from.                                            *)
LEMMA NothingCut ==
  ASSUME TextTyped', chunks' = << >>, cursor' = Beginning,
         attempt'.stage \notin {"embedding", "indexed"}
  PROVE  ChunksSound' /\ CursorPlaced' /\ CoveredSoFar'
<1>1. ChunksSound'
  BY DEF ChunksSound
<1>2. units' \in Seq(UnitRow) /\ Len(units') \in Nat
  BY DEF TextTyped
<1>3. CursorPlaced'
  <2>1. cursor'.unit = 1 /\ cursor'.start = 0
    BY DEF Beginning
  <2>2. Len(units') >= 1 => Len(units'[1].text) \in Nat
    BY <1>2 DEF Texts
  <2>. QED  BY <1>2, <2>1, <2>2 DEF CursorPlaced
<1>4. \A n \in DOMAIN units' : \A offset \in DOMAIN units'[n].text : ~Behind(n, offset)'
  <2>. SUFFICES ASSUME NEW n \in DOMAIN units', NEW offset \in DOMAIN units'[n].text
                PROVE  ~Behind(n, offset)'
    OBVIOUS
  <2>1. n >= 1 /\ n \in Nat /\ units'[n].text \in Texts
    <3>1. n \in 1 .. Len(units')
      BY <1>2
    <3>2. units'[n] \in UnitRow
      BY <1>2, <3>1
    <3>. QED  BY <1>2, <3>1, <3>2 DEF UnitRow
  <2>2. offset >= 1 /\ offset \in Nat
    BY <2>1 DEF Texts
  <2>. QED  BY <2>1, <2>2 DEF Behind, Beginning
<1>5. CoveredSoFar'
  BY <1>4 DEF CoveredSoFar
<1>. QED  BY <1>1, <1>3, <1>5

LEMMA CodesTyped ==
  /\ PdfErrors \subseteq Failures /\ EmbeddingErrors \subseteq Failures
  /\ {"none", "document_source_unavailable", "document_invalid_utf8", "document_text_limit_exceeded",
      "document_pdf_page_limit_exceeded", "document_no_extractable_text",
      "document_chunk_limit_exceeded", "document_no_indexable_text"} \subseteq Failures
  /\ "none" \notin PdfErrors \cup EmbeddingErrors
BY DEF Failures, PdfErrors, EmbeddingErrors

(* What reading adds to an attempt of which nothing is cut.                 *)
LEMMA ReadOn ==
  ASSUME TextInv, UNCHANGED <<chunks, cursor>>,
         attempt.stage \in {"reading", "paging", "closing"},
         attempt' \in [stage : {"reading", "paging", "closing", "chunking", "failed"}, failure : Failures],
         pdf' \in [handle : {"none", "open", "closed"}, pages : Nat],
         units' \in Seq(UnitRow),
         attempt'.stage = "reading" => units' = << >> /\ pdf'.handle = "none",
         pdf'.handle = "open" <=> attempt'.stage \in {"paging", "closing"},
         attempt'.failure = "none" => attempt'.stage # "failed"
  PROVE  TextInv'
<1>1. chunks = << >> /\ cursor = Beginning
  BY DEF TextInv, InOrder
<1>2. TextTyped'
  BY DEF TextInv, TextTyped, TextStages
<1>3. InOrder'
  <2>1. Len(chunks') <= MaxChunks
    BY <1>1, TextAssumption
  <2>. QED  BY <1>1, <2>1 DEF InOrder
<1>4. attempt'.stage \notin {"embedding", "indexed"}
  OBVIOUS
<1>. QED  BY <1>1, <1>2, <1>3, <1>4, NothingCut DEF TextInv

LEMMA SourceUnavailableStep == TextInv /\ SourceUnavailable => TextInv'
<1>. SUFFICES ASSUME TextInv, SourceUnavailable PROVE TextInv'
  OBVIOUS
<1>1. /\ attempt' = [stage |-> "failed", failure |-> "document_source_unavailable"]
      /\ attempt.stage = "reading" /\ UNCHANGED <<pdf, units, chunks, cursor>>
  BY DEF SourceUnavailable, FailWith
<1>2. pdf.handle # "open"
  BY <1>1 DEF TextInv, InOrder
<1>3. /\ pdf' \in [handle : {"none", "open", "closed"}, pages : Nat]
      /\ units' \in Seq(UnitRow)
  BY <1>1 DEF TextInv, TextTyped
<1>4. attempt' \in [stage : {"reading", "paging", "closing", "chunking", "failed"}, failure : Failures]
  BY <1>1, CodesTyped
<1>. QED  BY <1>1, <1>2, <1>3, <1>4, ReadOn

LEMMA ExtractSourceStep == TextInv /\ ExtractSource => TextInv'
<1>. SUFFICES ASSUME TextInv, ExtractSource PROVE TextInv'
  OBVIOUS
<1>1. attempt.stage = "reading" /\ UNCHANGED <<pdf, chunks, cursor>> /\ pdf.handle # "open"
  BY DEF ExtractSource, TextInv, InOrder
<1>2. /\ attempt \in [stage : TextStages, failure : Failures]
      /\ pdf' \in [handle : {"none", "open", "closed"}, pages : Nat]
      /\ units \in Seq(UnitRow)
  BY <1>1 DEF TextInv, TextTyped
<1>3. ASSUME NEW code \in {"document_invalid_utf8", "document_text_limit_exceeded"},
             FailWith(code), UNCHANGED units
      PROVE  TextInv'
  <2>1. attempt' = [stage |-> "failed", failure |-> code] /\ code # "none"
    BY <1>3 DEF FailWith
  <2>2. attempt' \in [stage : {"reading", "paging", "closing", "chunking", "failed"}, failure : Failures]
    BY <2>1, CodesTyped
  <2>. QED  BY <1>1, <1>2, <1>3, <2>1, <2>2, ReadOn
<1>4. ASSUME NEW text \in SourceTexts, Stage("chunking"), units' = <<[page |-> 0, text |-> text]>>
      PROVE  TextInv'
  <2>1. attempt' \in [stage : {"reading", "paging", "closing", "chunking", "failed"}, failure : Failures]
        /\ attempt'.stage = "chunking"
    BY <1>2, <1>4 DEF Stage
  <2>2. units' \in Seq(UnitRow)
    <3>1. [page |-> 0, text |-> text] \in UnitRow
      BY ExtractedTyped DEF UnitRow
    <3>. QED  BY <1>4, <3>1
  <2>. QED  BY <1>1, <1>2, <2>1, <2>2, ReadOn
<1>. QED  BY <1>3, <1>4 DEF ExtractSource

LEMMA OpenPdfStep == TextInv /\ OpenPdf => TextInv'
<1>. SUFFICES ASSUME TextInv, OpenPdf PROVE TextInv'
  OBVIOUS
<1>1. /\ attempt.stage = "reading" /\ UNCHANGED <<units, chunks, cursor>>
      /\ pdf.handle # "open" /\ units = << >>
  BY DEF OpenPdf, TextInv, InOrder
<1>2. /\ attempt \in [stage : TextStages, failure : Failures]
      /\ pdf \in [handle : {"none", "open", "closed"}, pages : Nat]
      /\ units' \in Seq(UnitRow)
  BY <1>1 DEF TextInv, TextTyped
<1>3. ASSUME NEW code \in PdfErrors, FailWith(code), UNCHANGED pdf
      PROVE  TextInv'
  <2>1. attempt' = [stage |-> "failed", failure |-> code] /\ code # "none"
    BY <1>3, CodesTyped DEF FailWith
  <2>2. attempt' \in [stage : {"reading", "paging", "closing", "chunking", "failed"}, failure : Failures]
    BY <2>1, CodesTyped
  <2>. QED  BY <1>1, <1>2, <1>3, <2>1, <2>2, ReadOn
<1>4. ASSUME NEW code \in PdfErrors \cup {"document_pdf_page_limit_exceeded"}, Closing(code),
             pdf' \in [handle : {"open"}, pages : Nat]
      PROVE  TextInv'
  <2>1. attempt' = [stage |-> "closing", failure |-> code]
    BY <1>4 DEF Closing
  <2>2. attempt' \in [stage : {"reading", "paging", "closing", "chunking", "failed"}, failure : Failures]
    BY <2>1, CodesTyped
  <2>3. pdf' \in [handle : {"none", "open", "closed"}, pages : Nat] /\ pdf'.handle = "open"
    BY <1>4
  <2>. QED  BY <1>1, <1>2, <2>1, <2>2, <2>3, ReadOn
<1>5. ASSUME NEW pages \in Nat, Stage("paging"), pdf' = [handle |-> "open", pages |-> pages]
      PROVE  TextInv'
  <2>1. attempt' \in [stage : {"reading", "paging", "closing", "chunking", "failed"}, failure : Failures]
        /\ attempt'.stage = "paging"
    BY <1>2, <1>5 DEF Stage
  <2>2. pdf' \in [handle : {"none", "open", "closed"}, pages : Nat] /\ pdf'.handle = "open"
    BY <1>5
  <2>. QED  BY <1>1, <1>2, <2>1, <2>2, ReadOn
<1>6. CASE \E code \in PdfErrors : FailWith(code) /\ UNCHANGED pdf
  BY <1>3, <1>6
<1>7. CASE \E code \in PdfErrors : Closing(code) /\ pdf' = [NoPdf EXCEPT !.handle = "open"]
  <2>1. [NoPdf EXCEPT !.handle = "open"] \in [handle : {"open"}, pages : Nat]
    BY DEF NoPdf
  <2>. QED  BY <1>4, <1>7, <2>1
<1>8. CASE \E pages \in 0 .. MaxPages + 1 :
             /\ pdf' = [handle |-> "open", pages |-> pages]
             /\ IF pages > MaxPages THEN Closing("document_pdf_page_limit_exceeded") ELSE Stage("paging")
  <2>1. PICK pages \in 0 .. MaxPages + 1 :
               /\ pdf' = [handle |-> "open", pages |-> pages]
               /\ IF pages > MaxPages THEN Closing("document_pdf_page_limit_exceeded") ELSE Stage("paging")
    BY <1>8
  <2>2. pages \in Nat
    BY TextAssumption
  <2>3. pdf' \in [handle : {"open"}, pages : Nat]
    BY <2>1, <2>2
  <2>. QED  BY <1>4, <1>5, <2>1, <2>2, <2>3
<1>. QED  BY <1>6, <1>7, <1>8 DEF OpenPdf

LEMMA ReadPageStep == TextInv /\ ReadPage => TextInv'
<1>. SUFFICES ASSUME TextInv, ReadPage PROVE TextInv'
  OBVIOUS
<1>1. attempt.stage = "paging" /\ UNCHANGED <<pdf, chunks, cursor>> /\ pdf.handle = "open"
  BY DEF ReadPage, TextInv, InOrder
<1>2. /\ attempt \in [stage : TextStages, failure : Failures]
      /\ pdf' \in [handle : {"none", "open", "closed"}, pages : Nat]
      /\ units \in Seq(UnitRow)
  BY <1>1 DEF TextInv, TextTyped
<1>3. ASSUME NEW code \in PdfErrors \cup {"document_text_limit_exceeded"}, Closing(code), UNCHANGED units
      PROVE  TextInv'
  <2>1. attempt' = [stage |-> "closing", failure |-> code]
    BY <1>3 DEF Closing
  <2>2. attempt' \in [stage : {"reading", "paging", "closing", "chunking", "failed"}, failure : Failures]
    BY <2>1, CodesTyped
  <2>. QED  BY <1>1, <1>2, <1>3, <2>1, <2>2, ReadOn
<1>4. ASSUME NEW text \in PageTexts, UNCHANGED attempt,
             units' = Append(units, [page |-> Len(units) + 1, text |-> text])
      PROVE  TextInv'
  <2>1. attempt' \in [stage : {"reading", "paging", "closing", "chunking", "failed"}, failure : Failures]
        /\ attempt'.stage = "paging"
    BY <1>1, <1>2, <1>4
  <2>2. units' \in Seq(UnitRow)
    <3>1. [page |-> Len(units) + 1, text |-> text] \in UnitRow
      BY <1>2, ExtractedTyped DEF UnitRow
    <3>. QED  BY <1>2, <1>4, <3>1
  <2>. QED  BY <1>1, <1>2, <2>1, <2>2, ReadOn
<1>. QED  BY <1>3, <1>4 DEF ReadPage

LEMMA PagesReadStep == TextInv /\ PagesRead => TextInv'
<1>. SUFFICES ASSUME TextInv, PagesRead PROVE TextInv'
  OBVIOUS
<1>1. PICK code \in {"document_no_extractable_text", "none"} : Closing(code)
  BY DEF PagesRead
<1>2. attempt.stage = "paging" /\ UNCHANGED <<pdf, units, chunks, cursor>> /\ pdf.handle = "open"
  BY DEF PagesRead, TextInv, InOrder
<1>3. /\ pdf' \in [handle : {"none", "open", "closed"}, pages : Nat]
      /\ units' \in Seq(UnitRow)
  BY <1>2 DEF TextInv, TextTyped
<1>4. attempt' = [stage |-> "closing", failure |-> code]
  BY <1>1 DEF Closing
<1>5. attempt' \in [stage : {"reading", "paging", "closing", "chunking", "failed"}, failure : Failures]
  BY <1>4, CodesTyped
<1>. QED  BY <1>2, <1>3, <1>4, <1>5, ReadOn

LEMMA ClosePdfStep == TextInv /\ ClosePdf => TextInv'
<1>. SUFFICES ASSUME TextInv, ClosePdf PROVE TextInv'
  OBVIOUS
<1>1. /\ attempt.stage = "closing" /\ UNCHANGED <<units, chunks, cursor>>
      /\ pdf' = [pdf EXCEPT !.handle = "closed"]
  BY DEF ClosePdf
<1>2. /\ attempt \in [stage : TextStages, failure : Failures]
      /\ pdf \in [handle : {"none", "open", "closed"}, pages : Nat]
      /\ units' \in Seq(UnitRow)
  BY <1>1 DEF TextInv, TextTyped
<1>3. pdf' \in [handle : {"none", "open", "closed"}, pages : Nat] /\ pdf'.handle = "closed"
  BY <1>1, <1>2
<1>4. PICK failure \in Failures :
        attempt' = [stage |-> IF failure = "none" THEN "chunking" ELSE "failed", failure |-> failure]
  <2>1. PICK destroyed \in BOOLEAN :
          LET failure == IF attempt.failure = "none" /\ ~destroyed
                         THEN "document_pdf_extraction_failed" ELSE attempt.failure
          IN  attempt' = [stage |-> IF failure = "none" THEN "chunking" ELSE "failed", failure |-> failure]
    BY DEF ClosePdf
  <2>2. "document_pdf_extraction_failed" \in Failures /\ attempt.failure \in Failures
    BY <1>2 DEF Failures, PdfErrors
  <2>. QED  BY <2>1, <2>2
<1>5. attempt' \in [stage : {"reading", "paging", "closing", "chunking", "failed"}, failure : Failures]
  BY <1>4
<1>. QED  BY <1>1, <1>2, <1>3, <1>4, <1>5, ReadOn

(* One more chunk: it reaches from before the cursor to the cursor's new    *)
(* place.                                                                   *)
LEMMA NextChunkStep == TextInv /\ NextChunk => TextInv'
<1>. SUFFICES ASSUME TextInv, NextChunk PROVE TextInv'
  OBVIOUS
<1>. DEFINE u == cursor.unit
            text == units[u].text
            start == cursor.start
            end == PrimaryEnd(text, start)
            from == ChunkStart(text, start)
            c == [unit |-> u, from |-> from, to |-> end]
<1>1. /\ attempt.stage = "chunking" /\ u <= Len(units) /\ start < Len(text)
      /\ chunks' = Append(chunks, c) /\ cursor' = [cursor EXCEPT !.start = end]
      /\ UNCHANGED <<pdf, units>>
      /\ IF Len(chunks) + 1 > MaxChunks
         THEN FailWith("document_chunk_limit_exceeded") ELSE UNCHANGED attempt
  BY DEF NextChunk
<1>2. /\ attempt \in [stage : TextStages, failure : Failures]
      /\ pdf \in [handle : {"none", "open", "closed"}, pages : Nat]
      /\ units \in Seq(UnitRow)
      /\ chunks \in Seq(ChunkRow)
      /\ cursor \in [unit : Nat, start : Nat] /\ u \in Nat /\ start \in Nat
  BY DEF TextInv, TextTyped
<1>3. u \in 1 .. Len(units) /\ u \in DOMAIN units /\ text \in Texts /\ Len(text) \in Nat
  <2>1. u \in 1 .. Len(units) + 1
    BY <1>1 DEF TextInv, CursorPlaced
  <2>2. u \in 1 .. Len(units) /\ u \in DOMAIN units
    BY <1>1, <1>2, <2>1
  <2>3. units[u] \in UnitRow
    BY <1>2, <2>2
  <2>. QED  BY <2>2, <2>3 DEF Texts, UnitRow, text
<1>. HIDE DEF u, text, start, end, from, c
<1>4. end \in start + 1 .. Len(text) /\ end - start <= MaxPrimary /\ ~Splits(text, end)
  BY <1>1, <1>2, <1>3, EndPlaced DEF end
<1>5. from \in 0 .. start /\ start - from <= Overlap /\ ~Splits(text, from)
  BY <1>1, <1>2, <1>3, StartPlaced DEF from
<1>6. /\ from \in Nat /\ end \in Nat /\ from < end /\ end <= Len(text)
      /\ end - from <= MaxPrimary + Overlap
  BY <1>2, <1>3, <1>4, <1>5, TextAssumption
<1>7. c \in ChunkRow /\ c.unit = u /\ c.from = from /\ c.to = end
  BY <1>2, <1>6 DEF c, ChunkRow
<1>8. chunks' \in Seq(ChunkRow) /\ Len(chunks') = Len(chunks) + 1
      /\ chunks'[Len(chunks) + 1] = c /\ \A n \in DOMAIN chunks : chunks'[n] = chunks[n]
      /\ DOMAIN chunks' = DOMAIN chunks \cup {Len(chunks) + 1} /\ Len(chunks) \in Nat
  BY <1>1, <1>2, <1>7
<1>9. cursor' \in [unit : Nat, start : Nat] /\ cursor'.unit = u /\ cursor'.start = end
  BY <1>1, <1>2, <1>6 DEF u
<1>10. \/ UNCHANGED attempt /\ Len(chunks) + 1 <= MaxChunks
       \/ attempt' = [stage |-> "failed", failure |-> "document_chunk_limit_exceeded"]
  <2>1. Len(chunks) + 1 \in Nat /\ MaxChunks \in Nat
    BY <1>8, TextAssumption
  <2>. QED  BY <1>1, <2>1 DEF FailWith
<1>11. TextTyped'
  <2>1. attempt' \in [stage : TextStages, failure : Failures]
    BY <1>2, <1>10, CodesTyped DEF TextStages
  <2>. QED  BY <1>1, <1>2, <1>8, <1>9, <2>1 DEF TextTyped
<1>12. InOrder'
  <2>1. attempt'.stage \in {"chunking", "failed"} /\ (attempt'.failure = "none" => attempt'.stage # "failed")
    BY <1>1, <1>10 DEF TextInv, InOrder
  <2>2. pdf'.handle # "open"
    BY <1>1 DEF TextInv, InOrder
  <2>3. attempt'.stage = "chunking" => Len(chunks') <= MaxChunks
    BY <1>8, <1>10
  <2>. QED  BY <2>1, <2>2, <2>3 DEF InOrder
<1>13. ChunksSound'
  <2>1. Sound(c)
    BY <1>3, <1>4, <1>5, <1>6, <1>7 DEF Sound, text
  <2>2. \A n \in DOMAIN chunks : Sound(chunks[n])
    BY DEF TextInv, ChunksSound
  <2>3. ASSUME NEW n \in DOMAIN chunks' PROVE Sound(chunks'[n])
    <3>1. n \in DOMAIN chunks \/ n = Len(chunks) + 1
      BY <1>8
    <3>2. CASE n \in DOMAIN chunks
      <4>1. chunks'[n] = chunks[n]
        BY <1>8, <3>2
      <4>. QED  BY <2>2, <3>2, <4>1
    <3>3. CASE n = Len(chunks) + 1
      <4>1. chunks'[n] = c
        BY <1>8, <3>3
      <4>. QED  BY <2>1, <4>1
    <3>. QED  BY <3>1, <3>2, <3>3
  <2>4. units' = units
    BY <1>1
  <2>. QED  BY <2>3, <2>4 DEF ChunksSound, Sound
<1>14. CursorPlaced'
  <2>1. units'[u].text = text
    BY <1>1 DEF text
  <2>. QED  BY <1>1, <1>3, <1>4, <1>6, <1>9, <2>1 DEF CursorPlaced
<1>15. CoveredSoFar'
  <2>1. attempt'.stage \notin {"embedding", "indexed"}
    BY <1>1, <1>10
  <2>2. ASSUME NEW n \in DOMAIN units', NEW offset \in DOMAIN units'[n].text, Behind(n, offset)'
        PROVE  \E m \in DOMAIN chunks' : Inside(chunks'[m], n, offset)
    <3>1. n \in DOMAIN units /\ offset \in DOMAIN units[n].text
      BY <1>1
    <3>2. CASE Behind(n, offset)
      <4>1. PICK m \in DOMAIN chunks : Inside(chunks[m], n, offset)
        BY <1>1, <3>1, <3>2 DEF TextInv, CoveredSoFar
      <4>2. m \in DOMAIN chunks' /\ chunks'[m] = chunks[m]
        BY <1>8
      <4>. QED  BY <4>1, <4>2
    <3>3. CASE ~Behind(n, offset)
      <4>1. n = u /\ offset <= end /\ ~(offset <= start)
        BY <1>9, <2>2, <3>3 DEF Behind, u, start
      <4>2. offset \in Nat
        BY <1>3, <3>1, <4>1 DEF text, Texts
      <4>3. Inside(c, n, offset)
        BY <1>2, <1>5, <1>6, <1>7, <4>1, <4>2 DEF Inside
      <4>. QED  BY <1>8, <4>3
    <3>. QED  BY <3>2, <3>3
  <2>. QED  BY <2>1, <2>2 DEF CoveredSoFar
<1>. QED  BY <1>11, <1>12, <1>13, <1>14, <1>15 DEF TextInv

(* A unit is left when all of it is behind the cursor.                      *)
LEMMA NextUnitStep == TextInv /\ NextUnit => TextInv'
<1>. SUFFICES ASSUME TextInv, NextUnit PROVE TextInv'
  OBVIOUS
<1>. DEFINE u == cursor.unit
            start == cursor.start
<1>1. /\ attempt.stage = "chunking" /\ u <= Len(units) /\ start >= Len(units[u].text)
      /\ cursor' = [unit |-> u + 1, start |-> 0]
      /\ UNCHANGED <<attempt, pdf, units, chunks>>
  BY DEF NextUnit
<1>2. /\ units \in Seq(UnitRow) /\ Len(units) \in Nat
      /\ cursor \in [unit : Nat, start : Nat] /\ u \in Nat /\ start \in Nat
  BY DEF TextInv, TextTyped
<1>3. u \in 1 .. Len(units)
  BY <1>1, <1>2 DEF TextInv, CursorPlaced
<1>4. \A n \in DOMAIN units : n \in Nat /\ units[n].text \in Texts /\ Len(units[n].text) \in Nat
  <2>. SUFFICES ASSUME NEW n \in DOMAIN units
                PROVE  n \in Nat /\ units[n].text \in Texts /\ Len(units[n].text) \in Nat
    OBVIOUS
  <2>1. n \in Nat /\ units[n] \in UnitRow
    BY <1>2
  <2>. QED  BY <2>1 DEF Texts, UnitRow
<1>. HIDE DEF u, start
<1>5. cursor'.unit = u + 1 /\ cursor'.start = 0 /\ cursor' \in [unit : Nat, start : Nat]
  BY <1>1, <1>2
<1>6. TextTyped'
  BY <1>1, <1>5 DEF TextInv, TextTyped
<1>7. InOrder'
  BY <1>1 DEF TextInv, InOrder
<1>8. ChunksSound'
  <2>1. \A d : Sound(d)' <=> Sound(d)
    BY <1>1 DEF Sound
  <2>. QED  BY <1>1, <2>1 DEF TextInv, ChunksSound
<1>9. CursorPlaced'
  <2>1. u + 1 <= Len(units) => 0 <= Len(units[u + 1].text)
    <3>1. u + 1 <= Len(units) => u + 1 \in DOMAIN units
      BY <1>2, <1>3
    <3>. QED  BY <1>4, <3>1
  <2>2. u + 1 \in 1 .. Len(units) + 1
    BY <1>2, <1>3
  <2>. QED  BY <1>1, <1>5, <2>1, <2>2 DEF CursorPlaced
<1>10. CoveredSoFar'
  <2>1. ASSUME NEW n \in DOMAIN units, NEW offset \in DOMAIN units[n].text, Behind(n, offset)'
        PROVE  \E m \in DOMAIN chunks : Inside(chunks[m], n, offset)
    <3>1. n \in Nat /\ offset \in 1 .. Len(units[n].text) /\ Len(units[n].text) \in Nat
      BY <1>4 DEF Texts
    <3>2. n < u + 1
      BY <1>2, <1>5, <2>1, <3>1 DEF Behind
    <3>3. n < u \/ (n = u /\ offset <= start)
      BY <1>1, <1>2, <3>1, <3>2
    <3>4. Behind(n, offset)
      BY <3>3 DEF Behind, u, start
    <3>. QED  BY <1>1, <3>4 DEF TextInv, CoveredSoFar
  <2>. QED  BY <1>1, <2>1 DEF CoveredSoFar
<1>. QED  BY <1>6, <1>7, <1>8, <1>9, <1>10 DEF TextInv

(* The last two steps, which leave the chunks alone.                        *)
LEMMA AfterCutting ==
  ASSUME TextInv, UNCHANGED <<pdf, units, chunks, cursor>>,
         attempt.stage \in {"chunking", "embedding"}, cursor.unit > Len(units),
         attempt' \in [stage : {"embedding", "indexed", "failed"}, failure : Failures],
         attempt'.failure = "none" => attempt'.stage # "failed"
  PROVE  TextInv'
<1>1. TextTyped'
  BY DEF TextInv, TextTyped, TextStages
<1>2. InOrder'
  BY DEF TextInv, InOrder
<1>3. ChunksSound'
  <2>1. \A d : Sound(d)' <=> Sound(d)
    BY DEF Sound
  <2>. QED  BY <2>1 DEF TextInv, ChunksSound
<1>4. CursorPlaced'
  BY DEF CursorPlaced
<1>5. CoveredSoFar'
  <2>1. \A n, offset : Behind(n, offset)' <=> Behind(n, offset)
    BY DEF Behind
  <2>. QED  BY <2>1 DEF TextInv, CoveredSoFar
<1>. QED  BY <1>1, <1>2, <1>3, <1>4, <1>5 DEF TextInv

LEMMA ChunksMadeStep == TextInv /\ ChunksMade => TextInv'
<1>. SUFFICES ASSUME TextInv, ChunksMade PROVE TextInv'
  OBVIOUS
<1>1. /\ attempt.stage = "chunking" /\ cursor.unit > Len(units)
      /\ UNCHANGED <<pdf, units, chunks, cursor>>
      /\ FailWith("document_no_indexable_text") \/ Stage("embedding")
  BY DEF ChunksMade
<1>2. attempt \in [stage : TextStages, failure : Failures]
  BY DEF TextInv, TextTyped
<1>3. /\ attempt' \in [stage : {"embedding", "indexed", "failed"}, failure : Failures]
      /\ attempt'.failure = "none" => attempt'.stage # "failed"
  BY <1>1, <1>2, CodesTyped DEF FailWith, Stage
<1>. QED  BY <1>1, <1>3, AfterCutting

LEMMA EmbedChunksStep == TextInv /\ EmbedChunks => TextInv'
<1>. SUFFICES ASSUME TextInv, EmbedChunks PROVE TextInv'
  OBVIOUS
<1>1. /\ attempt.stage = "embedding" /\ UNCHANGED <<pdf, units, chunks, cursor>>
      /\ cursor.unit > Len(units)
  BY DEF EmbedChunks, TextInv, CoveredSoFar
<1>2. attempt \in [stage : TextStages, failure : Failures]
  BY DEF TextInv, TextTyped
<1>3. /\ attempt' \in [stage : {"embedding", "indexed", "failed"}, failure : Failures]
      /\ attempt'.failure = "none" => attempt'.stage # "failed"
  <2>1. CASE Stage("indexed")
    BY <1>2, <2>1 DEF Stage
  <2>2. CASE \E code \in EmbeddingErrors : FailWith(code)
    BY <2>2, CodesTyped DEF FailWith
  <2>. QED  BY <2>1, <2>2 DEF EmbedChunks
<1>. QED  BY <1>1, <1>3, AfterCutting

LEMMA TextInitially == TextInit => TextInv
<1>. SUFFICES ASSUME TextInit PROVE TextInv
  OBVIOUS
<1>1. /\ attempt = [stage |-> "reading", failure |-> "none"]
      /\ pdf = [handle |-> "none", pages |-> 0] /\ units = << >> /\ chunks = << >>
      /\ cursor = [unit |-> 1, start |-> 0] /\ cursor = Beginning
  BY DEF TextInit, NoPdf, Beginning
<1>2. TextTyped
  BY <1>1, CodesTyped DEF TextTyped, TextStages
<1>3. InOrder /\ ChunksSound /\ CursorPlaced /\ CoveredSoFar
  BY <1>1 DEF InOrder, ChunksSound, CursorPlaced, CoveredSoFar
<1>. QED  BY <1>2, <1>3 DEF TextInv

LEMMA TextStep == TextInv /\ [TextNext]_textVars => TextInv'
<1>. SUFFICES ASSUME TextInv, [TextNext]_textVars PROVE TextInv'
  OBVIOUS
<1>1. CASE UNCHANGED textVars
  BY <1>1 DEF textVars, TextInv, TextTyped, InOrder, ChunksSound, Sound, CursorPlaced,
              CoveredSoFar, Behind
<1>2. CASE TextNext
  BY <1>2, SourceUnavailableStep, ExtractSourceStep, OpenPdfStep, ReadPageStep, PagesReadStep,
     ClosePdfStep, NextChunkStep, NextUnitStep, ChunksMadeStep, EmbedChunksStep DEF TextNext
<1>. QED  BY <1>1, <1>2

(* What an attempt has read and cut at each stage: a PDF's handle is given  *)
(* back before anything is cut (extractPdfText, finally), and an index has  *)
(* no more chunks than a document may have (createDocumentChunker).         *)
THEOREM TextInvariant == TextSpec => []TextInv
BY TextInitially, TextStep, PTL DEF TextSpec

(* However sizes, overlap, preferred places and pairs of units meet, no     *)
(* chunk is empty, too large or cuts a pair, and all chunks together miss   *)
(* no unit of the text (document-chunker.ts).                               *)
THEOREM NoTextIsLost == TextSpec => []ChunksCoverText
<1>1. TextInv => ChunksCoverText
  <2>. SUFFICES ASSUME TextInv PROVE ChunksCoverText
    OBVIOUS
  <2>1. \A n \in DOMAIN chunks : Sound(chunks[n])
    BY DEF TextInv, ChunksSound
  <2>2. ASSUME attempt.stage \in {"embedding", "indexed"},
               NEW n \in DOMAIN units, NEW offset \in DOMAIN units[n].text
        PROVE  \E m \in DOMAIN chunks : Inside(chunks[m], n, offset)
    <3>1. units \in Seq(UnitRow) /\ cursor.unit \in Nat
      BY DEF TextInv, TextTyped
    <3>2. n <= Len(units) /\ n \in Nat /\ Len(units) \in Nat /\ cursor.unit > Len(units)
      BY <2>2, <3>1 DEF TextInv, CoveredSoFar
    <3>3. Behind(n, offset)
      BY <3>1, <3>2 DEF Behind
    <3>. QED  BY <2>2, <3>3 DEF TextInv, CoveredSoFar
  <2>. QED  BY <2>1, <2>2 DEF ChunksCoverText, Sound
<1>. QED  BY <1>1, TextInvariant, PTL
=============================================================================
