------------------------ MODULE AgentRunStore_proofs ------------------------
(***************************************************************************)
(* Machine-checked proofs about AgentRunStore, for every value of its      *)
(* constants that satisfies StoreAssumption: types, and the safety of the  *)
(* rows of the runs.  The proofs of safety rest on one case analysis,      *)
(* RowSteps: the ways one step of the store may change the row of a run.   *)
(***************************************************************************)
EXTENDS AgentRunStore, SequenceTheorems, TLAPS

-----------------------------------------------------------------------------
(* Lemmas about the operators the handlers are built from.                  *)

(* Settling a row keeps its shape.                                          *)
LEMMA FinishedType ==
  ASSUME NEW row \in RunRow, NEW status \in Terminal,
         NEW code \in ErrorCode \cup {None}
  PROVE  Finished(row, status, code) \in RunRow
BY ZenonT(60) DEF Finished, RunRow, Terminal, Status

(* So do the single column updates of the handlers.                         *)
LEMMA RowUpdates ==
  ASSUME NEW row \in RunRow, NEW time \in Nat
  PROVE  /\ [row EXCEPT !.leaseExpiresAt = time] \in RunRow
         /\ [row EXCEPT !.stepCount = row.stepCount + 1] \in RunRow
         /\ [row EXCEPT !.toolCallCount = row.toolCallCount + 1] \in RunRow
<1>1. [row EXCEPT !.leaseExpiresAt = time] \in RunRow
  BY DEF RunRow
<1>2. [row EXCEPT !.stepCount = row.stepCount + 1] \in RunRow
  BY DEF RunRow
<1>3. [row EXCEPT !.toolCallCount = row.toolCallCount + 1] \in RunRow
  BY DEF RunRow
<1>. QED
  BY <1>1, <1>2, <1>3

(* A function on 1 .. n is a sequence.                                      *)
LEMMA FunctionIsSeq ==
  ASSUME NEW S, NEW n \in Nat, NEW s \in [1 .. n -> S]
  PROVE  s \in Seq(S) /\ Len(s) = n
BY SeqDef, LenProperties

(* Closing the running steps keeps the length of the trace and its shape.   *)
LEMMA ClosedType ==
  ASSUME NEW trace \in Seq(StepRow), NEW status \in {"failed", "cancelled"}
  PROVE  /\ Closed(trace, status) \in Seq(StepRow)
         /\ Len(Closed(trace, status)) = Len(trace)
<1>1. trace \in [1 .. Len(trace) -> StepRow] /\ Len(trace) \in Nat
  BY LenProperties
<1>2. Closed(trace, status) \in [1 .. Len(trace) -> StepRow]
  BY <1>1 DEF Closed, StepRow
<1>. QED
  BY <1>1, <1>2, FunctionIsSeq

(* Changing one entry of a trace keeps its length and its shape.            *)
LEMMA ExceptType ==
  ASSUME NEW S, NEW s \in Seq(S), NEW i \in DOMAIN s, NEW e \in S
  PROVE  [s EXCEPT ![i] = e] \in Seq(S) /\ Len([s EXCEPT ![i] = e]) = Len(s)
BY ExceptSeq

(* The lease expiry of a claim or heartbeat is a time and respects the      *)
(* deadline.                                                                *)
LEMMA LeaseExpiryType ==
  ASSUME NEW n \in Nat, NEW deadline \in Nat
  PROVE  LeaseExpiry(n, deadline) \in Nat /\ LeaseExpiry(n, deadline) <= deadline
BY StoreAssumption DEF LeaseExpiry

LEMMA DeadlineAtClaimType ==
  ASSUME TypeOK, NEW r \in RunId, NEW n \in Nat
  PROVE  DeadlineAtClaim(r, n) \in Nat
BY StoreAssumption DEF TypeOK, RunRow, DeadlineAtClaim

(* Settling a run keeps all types.                                          *)
LEMMA SettleType ==
  ASSUME TypeOK, NEW r \in RunId,
         NEW status \in {"failed", "cancelled"}, NEW code \in ErrorCode \cup {None},
         Settle(r, status, code)
  PROVE  /\ run' \in [RunId -> RunRow]
         /\ steps' \in [RunId -> Seq(StepRow)]
         /\ evidence' = evidence
<1>1. Finished(run[r], status, code) \in RunRow
  BY FinishedType DEF TypeOK, Terminal
<1>2. Closed(steps[r], status) \in Seq(StepRow)
  BY ClosedType DEF TypeOK
<1>. QED
  BY <1>1, <1>2 DEF TypeOK, Settle

LEMMA SettledType ==
  ASSUME TypeOK, NEW r \in RunId, NEW n, SettleCancelled(r, n) \/ SettleFailed(r, n)
  PROVE  /\ run' \in [RunId -> RunRow]
         /\ steps' \in [RunId -> Seq(StepRow)]
         /\ evidence' = evidence
BY SettleType DEF SettleCancelled, SettleFailed, ErrorCode

-----------------------------------------------------------------------------
(* Type correctness: one lemma per handler.                                 *)

LEMMA TypeInit == Init => TypeOK
<1> SUFFICES ASSUME Init PROVE TypeOK
  OBVIOUS
<1>1. AbsentRun \in RunRow
  BY DEF AbsentRun, RunRow, Status, Terminal
<1>. QED
  BY <1>1 DEF Init, TypeOK

LEMMA QueuedRunType ==
  ASSUME NEW user \in Users, NEW q \in Requests \cup {None}, NEW n \in Nat
  PROVE  QueuedRun(user, q, n) \in RunRow
BY DEF QueuedRun, AbsentRun, RunRow, Status, Terminal

LEMMA TypeCreate ==
  ASSUME TypeOK, NEW n \in Nat, NEW t \in Tasks, NEW user \in Users,
         CreateTaskWithInitialRun(t, user, n)
  PROVE  TypeOK'
<1>1. <<t, 1>> \in RunId
  BY StoreAssumption DEF RunId
<1>2. QueuedRun(user, None, n) \in RunRow
  BY QueuedRunType
<1>. QED
  BY <1>1, <1>2 DEF TypeOK, CreateTaskWithInitialRun

LEMMA TypeRetry ==
  ASSUME TypeOK, NEW n \in Nat, NEW t \in Tasks, NEW user \in Users, NEW q \in Requests,
         CreateRetryRun(t, user, q, n)
  PROVE  TypeOK'
<1>1. PICK latest \in Attempts(t) :
        /\ latest < MaxAttempts
        /\ run' = [run EXCEPT ![<<t, latest + 1>>] = QueuedRun(user, q, n)]
  BY DEF CreateRetryRun
<1>2. <<t, latest + 1>> \in RunId
  BY <1>1, StoreAssumption DEF RunId, Attempts
<1>3. QueuedRun(user, q, n) \in RunRow
  BY QueuedRunType
<1>. QED
  BY <1>1, <1>2, <1>3 DEF TypeOK, CreateRetryRun

LEMMA TypeCancel ==
  ASSUME TypeOK, NEW r \in RunId, NEW user \in Users, CancelRun(r, user)
  PROVE  TypeOK'
<1>1. run[r] \in RunRow
  BY DEF TypeOK
<1>2. ASSUME NEW row \in RunRow PROVE [row EXCEPT !.status = "cancelled"] \in RunRow
  BY DEF RunRow, Status, Terminal
<1>3. ASSUME NEW row \in RunRow PROVE [row EXCEPT !.cancelRequested = TRUE] \in RunRow
  BY DEF RunRow
<1>4. run' \in [RunId -> RunRow]
  BY <1>1, <1>2, <1>3, ZenonT(60) DEF TypeOK, CancelRun
<1>. QED
  BY <1>4 DEF TypeOK, CancelRun

LEMMA LeasedType ==
  ASSUME TypeOK, NEW r \in RunId, NEW w \in Workers, NEW n \in Nat
  PROVE  Leased(r, w, n) \in RunRow
<1>1. run[r] \in RunRow
  BY DEF TypeOK
<1>2. DeadlineAtClaim(r, n) \in Nat
  BY DeadlineAtClaimType
<1>3. LeaseExpiry(n, DeadlineAtClaim(r, n)) \in Nat
  BY <1>2, LeaseExpiryType
<1>4. ASSUME NEW row \in RunRow, NEW d \in Nat, NEW e \in Nat
      PROVE  [row EXCEPT !.status = "running", !.owner = w,
                         !.generation = row.generation + 1,
                         !.deadlineAt = d, !.leaseExpiresAt = e] \in RunRow
  <2>1. [row EXCEPT !.status = "running", !.owner = w] \in RunRow
    BY DEF RunRow, Status, Terminal
  <2>2. ASSUME NEW rr \in RunRow PROVE [rr EXCEPT !.generation = rr.generation + 1] \in RunRow
    BY DEF RunRow
  <2>3. ASSUME NEW rr \in RunRow
        PROVE  [rr EXCEPT !.deadlineAt = d, !.leaseExpiresAt = e] \in RunRow
    BY ZenonT(60) DEF RunRow
  <2>4. [row EXCEPT !.status = "running", !.owner = w].generation = row.generation
    BY DEF RunRow
  <2>. QED
    BY <2>1, <2>2, <2>3, <2>4
<1>. QED
  BY <1>1, <1>2, <1>3, <1>4 DEF Leased

LEMMA BuriedType ==
  ASSUME TypeOK, NEW r \in RunId, NEW n \in Nat
  PROVE  Buried(r, n) \in RunRow
<1> DEFINE code == IF run[r].cancelRequested THEN None
                   ELSE IF DeadlineAtClaim(r, n) <= n THEN WallTimeExceeded
                   ELSE AccessRevoked
<1>1. Finished(run[r], DoomedStatus(r), code) \in RunRow
  <2>1. run[r] \in RunRow /\ DoomedStatus(r) \in Terminal /\ code \in ErrorCode \cup {None}
    BY DEF TypeOK, DoomedStatus, Terminal, ErrorCode
  <2>. QED
    BY <2>1, FinishedType
<1>2. DeadlineAtClaim(r, n) \in Nat
  BY DeadlineAtClaimType
<1>. QED
  BY <1>1, <1>2 DEF Buried, RunRow

LEMMA TypeHandOut ==
  ASSUME TypeOK, NEW w \in Workers, NEW n \in Nat,
         NEW taken \in SUBSET RunId, NEW buried \in SUBSET RunId,
         HandOut(w, n, taken, buried)
  PROVE  TypeOK'
<1>1. run' \in [RunId -> RunRow]
  BY LeasedType, BuriedType DEF TypeOK, HandOut
<1>2. ASSUME NEW r \in RunId PROVE Closed(steps[r], DoomedStatus(r)) \in Seq(StepRow)
  BY ClosedType DEF TypeOK, DoomedStatus
<1>3. steps' \in [RunId -> Seq(StepRow)]
  BY <1>2 DEF TypeOK, HandOut
<1>4. claims' \in SUBSET Fence
  BY DEF TypeOK, HandOut, Fence, RunRow
<1>. QED
  BY <1>1, <1>3, <1>4 DEF TypeOK, HandOut

(* A claim hands out at most one eligible, not doomed run and settles only  *)
(* eligible, doomed ones.                                                   *)
LEMMA ClaimCases ==
  ASSUME NEW w, NEW n, ClaimRun(w, n)
  PROVE  \E taken, buried \in SUBSET Eligible(n) :
           /\ \A r \in taken : ~Doomed(r, n)
           /\ \A r \in buried : Doomed(r, n)
           /\ \A r, s \in taken : r = s
           /\ HandOut(w, n, taken, buried)
<1>1. PICK seen \in SUBSET Eligible(n) :
        LET alive == {r \in seen : ~Doomed(r, n)} IN
        \/ /\ alive = {}
           /\ HandOut(w, n, {}, seen)
        \/ \E c \in alive :
             /\ \A o \in alive : run[c].createdAt <= run[o].createdAt
             /\ HandOut(w, n, {c}, seen \ alive)
  BY DEF ClaimRun
<1>. DEFINE alive == {r \in seen : ~Doomed(r, n)}
<1>2. CASE alive = {} /\ HandOut(w, n, {}, seen)
  <2>1. {} \in SUBSET Eligible(n) /\ \A r \in seen : Doomed(r, n)
    BY <1>2
  <2>. QED
    BY <1>2, <2>1
<1>3. CASE \E c \in alive : HandOut(w, n, {c}, seen \ alive)
  <2>1. PICK c \in alive : HandOut(w, n, {c}, seen \ alive)
    BY <1>3
  <2>2. /\ {c} \in SUBSET Eligible(n) /\ seen \ alive \in SUBSET Eligible(n)
        /\ ~Doomed(c, n) /\ \A r \in seen \ alive : Doomed(r, n)
    OBVIOUS
  <2>. QED
    BY <2>1, <2>2
<1>. QED
  BY <1>1, <1>2, <1>3

LEMMA TypeClaim ==
  ASSUME TypeOK, NEW w \in Workers, NEW n \in Nat, ClaimRun(w, n)
  PROVE  TypeOK'
<1>1. PICK taken, buried \in SUBSET Eligible(n) : HandOut(w, n, taken, buried)
  BY ClaimCases
<1>2. taken \in SUBSET RunId /\ buried \in SUBSET RunId
  BY DEF Eligible
<1>. QED
  BY <1>1, <1>2, TypeHandOut

LEMMA TypeHeartbeat ==
  ASSUME TypeOK, NEW n \in Nat, NEW f \in Fence, HeartbeatLease(f, n)
  PROVE  TypeOK'
<1>. f.run \in RunId
  BY DEF Fence
<1>1. CASE SettleCancelled(f.run, n) \/ SettleFailed(f.run, n)
  BY <1>1, SettledType DEF TypeOK, HeartbeatLease
<1>2. CASE /\ Writable(f.run, n)
           /\ run' = [run EXCEPT ![f.run].leaseExpiresAt = LeaseExpiry(n, run[f.run].deadlineAt)]
           /\ UNCHANGED <<steps, evidence>>
  <2>1. run[f.run].deadlineAt \in Nat
    BY <1>2 DEF TypeOK, RunRow, Writable, WriteGuard
  <2>2. LeaseExpiry(n, run[f.run].deadlineAt) \in Nat
    BY <2>1, LeaseExpiryType
  <2>3. [run[f.run] EXCEPT !.leaseExpiresAt = LeaseExpiry(n, run[f.run].deadlineAt)] \in RunRow
    BY <2>2, RowUpdates DEF TypeOK
  <2>4. run' \in [RunId -> RunRow]
    BY <1>2, <2>3 DEF TypeOK
  <2>. QED
    BY <1>2, <2>4 DEF TypeOK, HeartbeatLease
<1>. QED
  BY <1>1, <1>2 DEF HeartbeatLease

LEMMA TypeResume ==
  ASSUME TypeOK, NEW r \in RunId, ResumeStep(r)
  PROVE  steps' \in [RunId -> Seq(StepRow)] /\ UNCHANGED <<run, evidence>>
<1>1. PICK i \in Running(r) : /\ steps' = [steps EXCEPT ![r][i].executions = @ + 1]
                              /\ UNCHANGED <<run, evidence>>
  BY DEF ResumeStep
<1>2. i \in DOMAIN steps[r] /\ steps[r] \in Seq(StepRow)
  BY DEF Running, TypeOK
<1>3. steps[r][i] \in StepRow
  BY <1>2, ElementOfSeq, LenProperties
<1>4. [steps[r][i] EXCEPT !.executions = steps[r][i].executions + 1] \in StepRow
  BY <1>3 DEF StepRow
<1>5. [steps[r] EXCEPT ![i] = [steps[r][i] EXCEPT !.executions = steps[r][i].executions + 1]]
        \in Seq(StepRow)
  BY <1>2, <1>4, ExceptType
<1>. QED
  BY <1>1, <1>5 DEF TypeOK

LEMMA TypeStart ==
  ASSUME TypeOK, NEW r \in RunId, StartStep(r)
  PROVE  /\ run' \in [RunId -> RunRow]
         /\ steps' \in [RunId -> Seq(StepRow)]
         /\ UNCHANGED evidence
<1>1. Step("tool_call", "running") \in StepRow
  BY DEF Step, StepRow
<1>2. Append(steps[r], Step("tool_call", "running")) \in Seq(StepRow)
  BY <1>1, AppendProperties DEF TypeOK
<1>3. ASSUME NEW row \in RunRow
      PROVE  [row EXCEPT !.stepCount = row.stepCount + 1,
                         !.toolCallCount = row.toolCallCount + 1] \in RunRow
  <2>1. [row EXCEPT !.stepCount = row.stepCount + 1].toolCallCount = row.toolCallCount
    BY DEF RunRow
  <2>. QED
    BY <2>1, RowUpdates
<1>. QED
  BY <1>2, <1>3 DEF TypeOK, StartStep

LEMMA TypeReserve ==
  ASSUME TypeOK, NEW n \in Nat, NEW f \in Fence, ReserveStep(f, n)
  PROVE  TypeOK'
<1>. f.run \in RunId
  BY DEF Fence
<1>1. CASE SettleFailed(f.run, n)
  BY <1>1, SettledType DEF TypeOK, ReserveStep
<1>2. CASE ResumeStep(f.run)
  BY <1>2, TypeResume DEF TypeOK, ReserveStep
<1>3. CASE StartStep(f.run)
  BY <1>3, TypeStart DEF TypeOK, ReserveStep
<1>. QED
  BY <1>1, <1>2, <1>3 DEF ReserveStep

(* A step that leaves the status running stays a step.                      *)
LEMMA StepDoneType ==
  ASSUME TypeOK, NEW r \in RunId, NEW i \in Running(r),
         NEW status \in {"completed", "failed", "cancelled"}
  PROVE  /\ i \in DOMAIN steps[r]
         /\ [steps[r] EXCEPT ![i].status = status] \in Seq(StepRow)
         /\ Len([steps[r] EXCEPT ![i].status = status]) = Len(steps[r])
<1>1. i \in DOMAIN steps[r] /\ steps[r] \in Seq(StepRow)
  BY DEF Running, TypeOK
<1>2. steps[r][i] \in StepRow
  BY <1>1, ElementOfSeq, LenProperties
<1>3. [steps[r][i] EXCEPT !.status = status] \in StepRow
  BY <1>2 DEF StepRow
<1>. QED
  BY <1>1, <1>3, ExceptType

LEMMA TypeComplete ==
  ASSUME TypeOK, NEW n \in Nat, NEW f \in Fence, NEW i \in Nat, NEW count \in Nat,
         CompleteToolStepWithEvidence(f, i, count, n)
  PROVE  TypeOK'
<1>. f.run \in RunId
  BY DEF Fence
<1>1. steps' \in [RunId -> Seq(StepRow)]
  BY StepDoneType DEF TypeOK, CompleteToolStepWithEvidence
<1>2. [j \in 1 .. count |-> [step |-> i, finalOrdinal |-> 0]] \in Seq(EvidenceRow)
  BY FunctionIsSeq DEF EvidenceRow
<1>3. evidence[f.run] \o [j \in 1 .. count |-> [step |-> i, finalOrdinal |-> 0]]
        \in Seq(EvidenceRow)
  BY <1>2, ConcatProperties DEF TypeOK
<1>4. evidence' \in [RunId -> Seq(EvidenceRow)]
  BY <1>3 DEF TypeOK, CompleteToolStepWithEvidence
<1>. QED
  BY <1>1, <1>4 DEF TypeOK, CompleteToolStepWithEvidence

LEMMA TypeFailStep ==
  ASSUME TypeOK, NEW n \in Nat, NEW f \in Fence, NEW i \in Nat, FailStep(f, i, n)
  PROVE  TypeOK'
<1>. f.run \in RunId
  BY DEF Fence
<1>1. CASE SettleCancelled(f.run, n) \/ SettleFailed(f.run, n)
  BY <1>1, SettledType DEF TypeOK, FailStep
<1>2. CASE /\ i \in Running(f.run)
           /\ steps' = [steps EXCEPT ![f.run][i].status = "failed"]
           /\ UNCHANGED <<run, evidence>>
  BY <1>2, StepDoneType DEF TypeOK, FailStep
<1>. QED
  BY <1>1, <1>2 DEF FailStep

LEMMA OrdinalType ==
  ASSUME NEW cited \in Citations, NEW key
  PROVE  Ordinal(cited, key) \in Nat
<1>1. DOMAIN cited \subseteq Nat
  BY StoreAssumption DEF Citations
<1>. QED
  BY <1>1 DEF Ordinal

LEMMA TypePublish ==
  ASSUME TypeOK, NEW r \in RunId, NEW cited \in Citations, PublishFinal(r, cited)
  PROVE  /\ run' \in [RunId -> RunRow]
         /\ steps' \in [RunId -> Seq(StepRow)]
         /\ evidence' \in [RunId -> Seq(EvidenceRow)]
<1>1. Step("final_answer", "completed") \in StepRow
  BY DEF Step, StepRow
<1>2. steps' \in [RunId -> Seq(StepRow)]
  BY <1>1, AppendProperties DEF TypeOK, PublishFinal
<1>3. Finished(run[r], "completed", None) \in RunRow
  BY FinishedType DEF TypeOK, Terminal
<1>4. ASSUME NEW row \in RunRow, NEW fs \in FinalStatus
      PROVE  [row EXCEPT !.stepCount = row.stepCount + 1, !.finalStatus = fs] \in RunRow
  <2>1. ASSUME NEW rr \in RunRow PROVE [rr EXCEPT !.finalStatus = fs] \in RunRow
    BY DEF RunRow
  <2>. QED
    BY <2>1, RowUpdates
<1>5. run' \in [RunId -> RunRow]
  <2>. DEFINE fin == Finished(run[r], "completed", None)
              fs == IF cited = << >> THEN "insufficient_context" ELSE "answered"
              new == [fin EXCEPT !.stepCount = fin.stepCount + 1, !.finalStatus = fs]
  <2>1. new \in RunRow
    BY <1>3, <1>4 DEF FinalStatus
  <2>2. run' = [run EXCEPT ![r] = new]
    BY DEF TypeOK, PublishFinal
  <2>. QED
    BY <2>1, <2>2 DEF TypeOK
<1>. DEFINE cite == [key \in DOMAIN evidence[r] |->
                       [evidence[r][key] EXCEPT !.finalOrdinal = Ordinal(cited, key)]]
<1>6. evidence[r] \in [1 .. Len(evidence[r]) -> EvidenceRow] /\ Len(evidence[r]) \in Nat
  BY LenProperties DEF TypeOK
<1>7. cite \in [1 .. Len(evidence[r]) -> EvidenceRow]
  BY <1>6, OrdinalType DEF EvidenceRow
<1>8. cite \in Seq(EvidenceRow)
  BY <1>6, <1>7, FunctionIsSeq
<1>9. evidence' \in [RunId -> Seq(EvidenceRow)]
  BY <1>8 DEF TypeOK, PublishFinal
<1>. QED
  BY <1>2, <1>5, <1>9

LEMMA TypeCompleteRun ==
  ASSUME TypeOK, NEW n \in Nat, NEW f \in Fence, NEW cited \in Citations,
         CompleteRun(f, cited, n)
  PROVE  TypeOK'
<1>. f.run \in RunId
  BY DEF Fence
<1>1. CASE SettleCancelled(f.run, n) \/ SettleFailed(f.run, n)
  BY <1>1, SettledType DEF TypeOK, CompleteRun
<1>2. CASE PublishFinal(f.run, cited)
  BY <1>2, TypePublish DEF TypeOK, CompleteRun
<1>. QED
  BY <1>1, <1>2 DEF CompleteRun

LEMMA TypeFailWith ==
  ASSUME TypeOK, NEW r \in RunId, NEW code \in ErrorCode, NEW decisionError \in BOOLEAN,
         FailWith(r, code, decisionError)
  PROVE  /\ run' \in [RunId -> RunRow]
         /\ steps' \in [RunId -> Seq(StepRow)]
         /\ UNCHANGED evidence
<1>1. Finished(run[r], "failed", code) \in RunRow
  BY FinishedType DEF TypeOK, Terminal
<1>2. ASSUME NEW row \in RunRow
      PROVE  [row EXCEPT !.stepCount = IF decisionError THEN row.stepCount + 1
                                       ELSE row.stepCount] \in RunRow
  <2>1. [row EXCEPT !.stepCount = row.stepCount] = row
    BY DEF RunRow
  <2>. QED
    BY <2>1, RowUpdates
<1>3. run' \in [RunId -> RunRow]
  <2>. DEFINE fin == Finished(run[r], "failed", code)
              new == [fin EXCEPT !.stepCount = IF decisionError THEN fin.stepCount + 1
                                               ELSE fin.stepCount]
  <2>1. new \in RunRow
    BY <1>1, <1>2
  <2>2. run' = [run EXCEPT ![r] = new]
    BY DEF TypeOK, FailWith
  <2>. QED
    BY <2>1, <2>2 DEF TypeOK
<1>4. Closed(steps[r], "failed") \in Seq(StepRow)
  BY ClosedType DEF TypeOK
<1>5. Step("decision_error", "failed") \in StepRow
  BY DEF Step, StepRow
<1>6. <<Step("decision_error", "failed")>> \in Seq(StepRow) /\ << >> \in Seq(StepRow)
  BY <1>5
<1>7. Closed(steps[r], "failed")
        \o (IF decisionError THEN <<Step("decision_error", "failed")>> ELSE << >>)
          \in Seq(StepRow)
  BY <1>4, <1>6, ConcatProperties
<1>. QED
  BY <1>3, <1>7 DEF TypeOK, FailWith

LEMMA TypeFailRun ==
  ASSUME TypeOK, NEW n \in Nat, NEW f \in Fence, NEW code \in ErrorCode,
         NEW decisionError \in BOOLEAN, FailRun(f, code, decisionError, n)
  PROVE  TypeOK'
<1>. f.run \in RunId
  BY DEF Fence
<1>1. CASE SettleCancelled(f.run, n) \/ SettleFailed(f.run, n)
  BY <1>1, SettledType DEF TypeOK, FailRun
<1>2. CASE FailWith(f.run, code, decisionError)
  BY <1>2, TypeFailWith DEF TypeOK, FailRun
<1>. QED
  BY <1>1, <1>2 DEF FailRun

LEMMA TypeMarkCancelled ==
  ASSUME TypeOK, NEW f \in Fence, MarkCancelled(f)
  PROVE  TypeOK'
<1>. f.run \in RunId
  BY DEF Fence
<1>. QED
  BY SettleType DEF TypeOK, MarkCancelled

LEMMA StampsType == TypeOK => Stamps \subseteq Nat
BY DEF Stamps

LEMMA TypeStep == TypeOK /\ [Next]_vars => TypeOK'
<1> SUFFICES ASSUME TypeOK, [Next]_vars PROVE TypeOK'
  OBVIOUS
<1>1. ASSUME NEW n \in Nat, Commands(n) PROVE TypeOK'
  BY <1>1, TypeCreate, TypeRetry, TypeCancel DEF Commands
<1>2. ASSUME NEW n \in Nat, NEW f \in Fence, WorkerWrite(f, n) PROVE TypeOK'
  <2>1. CASE HeartbeatLease(f, n)
    BY <2>1, TypeHeartbeat
  <2>2. CASE ReserveStep(f, n)
    BY <2>2, TypeReserve
  <2>3. CASE \E i \in 1 .. MaxSteps, count \in 0 .. MaxEvidence :
               CompleteToolStepWithEvidence(f, i, count, n)
    BY <2>3, TypeComplete, StoreAssumption
  <2>4. CASE \E i \in 1 .. MaxSteps : FailStep(f, i, n)
    BY <2>4, TypeFailStep, StoreAssumption
  <2>5. CASE \E cited \in Citations : CompleteRun(f, cited, n)
    BY <2>5, TypeCompleteRun
  <2>6. CASE \E code \in ErrorCode, decisionError \in BOOLEAN :
               FailRun(f, code, decisionError, n)
    BY <2>6, TypeFailRun DEF ErrorCode
  <2>7. CASE MarkCancelled(f)
    BY <2>7, TypeMarkCancelled
  <2>. QED
    BY <1>2, <2>1, <2>2, <2>3, <2>4, <2>5, <2>6, <2>7 DEF WorkerWrite
<1>3. ASSUME NEW n \in Nat, NEW w \in Workers, ClaimRun(w, n) PROVE TypeOK'
  BY <1>3, TypeClaim
<1>4. CASE Membership \/ Tick \/ UNCHANGED vars
  BY <1>4 DEF TypeOK, Membership, AddMember, RemoveMember, Tick, vars
<1>5. claims \subseteq Fence
  BY DEF TypeOK
<1>. QED
  BY <1>1, <1>2, <1>3, <1>4, <1>5, StampsType DEF Next

(* The rows and fences keep their shape in every reachable state.           *)
THEOREM TypeCorrect == Spec => []TypeOK
<1>1. Init => TypeOK
  BY TypeInit
<1>2. TypeOK /\ [Next]_vars => TypeOK'
  BY TypeStep
<1>. QED
  BY <1>1, <1>2, PTL DEF Spec

-----------------------------------------------------------------------------
(* How a row changes.                                                       *)

Created(r) ==
  /\ run[r].status = "absent"
  /\ \E user \in Users, q \in Requests \cup {None}, n \in Nat :
       /\ q = None <=> r[2] = 1
       /\ run'[r] = QueuedRun(user, q, n)

CancelAsked(r) ==
  \/ /\ run[r].status = "queued"
     /\ run'[r] = [run[r] EXCEPT !.status = "cancelled", !.cancelRequested = TRUE]
  \/ /\ run[r].status = "running"
     /\ run'[r] = [run[r] EXCEPT !.cancelRequested = TRUE]

Granted(r) ==
  \E w \in Workers, n \in Stamps :
    /\ r \in Eligible(n)
    /\ ~Doomed(r, n)
    /\ run'[r] = Leased(r, w, n)
    /\ claims' = claims \cup
         {[run |-> r, worker |-> w, generation |-> run[r].generation + 1]}

Discarded(r) ==
  \E n \in Stamps :
    /\ r \in Eligible(n)
    /\ Doomed(r, n)
    /\ run'[r] = Buried(r, n)

(* The worker's transactions: the row is running under its fence.           *)
Settled(r) ==
  /\ run[r].status = "running"
  /\ \/ run[r].cancelRequested /\ run'[r] = Finished(run[r], "cancelled", None)
     \/ /\ ~run[r].cancelRequested
        /\ \E code \in ErrorCode : run'[r] = Finished(run[r], "failed", code)

Open(r) == run[r].status = "running" /\ ~run[r].cancelRequested

Renewed(r) ==
  /\ Open(r)
  /\ \E n \in Stamps :
       run'[r] = [run[r] EXCEPT !.leaseExpiresAt = LeaseExpiry(n, run[r].deadlineAt)]

Started(r) ==
  /\ Open(r)
  /\ run[r].stepCount < MaxSteps
  /\ run'[r] = [run[r] EXCEPT !.stepCount = run[r].stepCount + 1,
                              !.toolCallCount = run[r].toolCallCount + 1]

Answered(r) ==
  /\ Open(r)
  /\ run[r].stepCount < MaxSteps
  /\ \E fs \in FinalStatus :
       run'[r] = [Finished(run[r], "completed", None) EXCEPT
                    !.stepCount = Finished(run[r], "completed", None).stepCount + 1,
                    !.finalStatus = fs]

GaveUp(r) ==
  /\ Open(r)
  /\ run[r].stepCount < MaxSteps
  /\ \E code \in ErrorCode :
       run'[r] = [Finished(run[r], "failed", code) EXCEPT
                    !.stepCount = Finished(run[r], "failed", code).stepCount + 1]

CommandStep(r) == run'[r] = run[r] \/ Created(r) \/ CancelAsked(r)

RowStep(r) ==
  \/ CommandStep(r) \/ Granted(r) \/ Discarded(r)
  \/ Settled(r) \/ Renewed(r) \/ Started(r) \/ Answered(r) \/ GaveUp(r)

-----------------------------------------------------------------------------
(* Every step of the store changes every row by a RowStep.                  *)

(* A transaction on run q leaves the rows of the other runs alone.          *)
LEMMA CommandRows ==
  ASSUME TypeOK, NEW n \in Nat, Commands(n), NEW r \in RunId
  PROVE  CommandStep(r)
<1>1. ASSUME NEW t \in Tasks, NEW user \in Users, CreateTaskWithInitialRun(t, user, n)
      PROVE  CommandStep(r)
  <2>1. run' = [run EXCEPT ![<<t, 1>>] = QueuedRun(user, None, n)]
    BY <1>1 DEF CreateTaskWithInitialRun
  <2>2. CASE r = <<t, 1>>
    <3>1. run[r].status = "absent"
      BY <1>1, <2>2, StoreAssumption DEF CreateTaskWithInitialRun, Attempts
    <3>2. run'[r] = QueuedRun(user, None, n)
      BY <2>1, <2>2 DEF TypeOK
    <3>3. r[2] = 1
      BY <2>2
    <3>. QED
      BY <3>1, <3>2, <3>3 DEF CommandStep, Created
  <2>3. CASE r # <<t, 1>>
    BY <2>1, <2>3 DEF TypeOK, CommandStep
  <2>. QED
    BY <2>2, <2>3
<1>2. ASSUME NEW t \in Tasks, NEW user \in Users, NEW q \in Requests,
             CreateRetryRun(t, user, q, n)
      PROVE  CommandStep(r)
  <2>1. PICK latest \in Attempts(t) :
          /\ \A k \in Attempts(t) : k <= latest
          /\ latest < MaxAttempts
          /\ run' = [run EXCEPT ![<<t, latest + 1>>] = QueuedRun(user, q, n)]
    BY <1>2 DEF CreateRetryRun
  <2>2. CASE r = <<t, latest + 1>>
    <3>1. latest \in Nat \ {0} /\ latest + 1 \in 1 .. MaxAttempts
      BY <2>1, StoreAssumption DEF Attempts
    <3>2. latest + 1 \notin Attempts(t)
      BY <2>1, <3>1
    <3>3. run[r].status = "absent"
      BY <2>2, <3>1, <3>2 DEF Attempts
    <3>4. run'[r] = QueuedRun(user, q, n)
      BY <2>1, <2>2 DEF TypeOK
    <3>5. r[2] # 1 /\ q # None
      BY <2>2, <3>1, StoreAssumption
    <3>. QED
      BY <3>3, <3>4, <3>5 DEF CommandStep, Created
  <2>3. CASE r # <<t, latest + 1>>
    BY <2>1, <2>3 DEF TypeOK, CommandStep
  <2>. QED
    BY <2>2, <2>3
<1>3. ASSUME NEW q \in RunId, NEW user \in Users, CancelRun(q, user)
      PROVE  CommandStep(r)
  <2>1. CASE run[q].status = "queued"
    BY <1>3, <2>1 DEF TypeOK, CancelRun, CommandStep, CancelAsked
  <2>2. CASE run[q].status = "running"
    BY <1>3, <2>2 DEF TypeOK, CancelRun, CommandStep, CancelAsked
  <2>. QED
    BY <1>3, <2>1, <2>2 DEF CancelRun
<1>. QED
  BY <1>1, <1>2, <1>3 DEF Commands

LEMMA ClaimRows ==
  ASSUME TypeOK, NEW n \in Stamps, NEW w \in Workers, ClaimRun(w, n), NEW r \in RunId
  PROVE  RowStep(r)
<1>1. PICK taken, buried \in SUBSET Eligible(n) :
        /\ \A s \in taken : ~Doomed(s, n)
        /\ \A s \in buried : Doomed(s, n)
        /\ \A s, t \in taken : s = t
        /\ HandOut(w, n, taken, buried)
  BY ClaimCases
<1>2. CASE r \in taken
  <2>1. taken = {r}
    BY <1>1, <1>2
  <2>2. claims' = claims \cup
          {[run |-> r, worker |-> w, generation |-> run[r].generation + 1]}
    BY <1>1, <2>1 DEF HandOut
  <2>3. run'[r] = Leased(r, w, n)
    BY <1>1, <1>2 DEF HandOut
  <2>. QED
    BY <1>1, <1>2, <2>2, <2>3 DEF RowStep, CommandStep, Granted
<1>3. CASE r \notin taken /\ r \in buried
  <2>1. run'[r] = Buried(r, n)
    BY <1>1, <1>3 DEF HandOut
  <2>. QED
    BY <1>1, <1>3, <2>1 DEF RowStep, CommandStep, Discarded
<1>4. CASE r \notin taken /\ r \notin buried
  BY <1>1, <1>4 DEF HandOut, RowStep, CommandStep
<1>. QED
  BY <1>2, <1>3, <1>4

(* Settling by the write guard is a step of the row.                        *)
LEMMA GuardRows ==
  ASSUME TypeOK, NEW f \in Fence, Holds(f), NEW n,
         SettleCancelled(f.run, n) \/ SettleFailed(f.run, n), NEW r \in RunId
  PROVE  RowStep(r)
<1>. f.run \in RunId
  BY DEF Fence
<1>1. CASE SettleCancelled(f.run, n)
  BY <1>1 DEF TypeOK, SettleCancelled, WriteGuard, Settle, Holds, HasMembership, RowStep, CommandStep, Settled
<1>2. CASE SettleFailed(f.run, n)
  <2>1. ~run[f.run].cancelRequested
    BY <1>2 DEF SettleFailed, WriteGuard
  <2>2. PICK code \in ErrorCode : Settle(f.run, "failed", code)
    BY <1>2 DEF SettleFailed, ErrorCode
  <2>3. run' = [run EXCEPT ![f.run] = Finished(run[f.run], "failed", code)]
    BY <2>2 DEF Settle
  <2>. QED
    BY <2>1, <2>3 DEF TypeOK, Holds, RowStep, CommandStep, Settled
<1>. QED
  BY <1>1, <1>2

LEMMA WorkerRows ==
  ASSUME TypeOK, NEW f \in Fence, NEW n \in Stamps, WorkerWrite(f, n), NEW r \in RunId
  PROVE  RowStep(r)
<1>. f.run \in RunId
  BY DEF Fence
<1>. DEFINE q == f.run
<1>1. CASE HeartbeatLease(f, n)
  <2>1. CASE Writable(q, n) /\ run' = [run EXCEPT ![q].leaseExpiresAt =
                                                 LeaseExpiry(n, run[q].deadlineAt)]
    <3>1. Open(q)
      BY <1>1, <2>1 DEF HeartbeatLease, Holds, Writable, WriteGuard, Open
    <3>. QED
      BY <2>1, <3>1 DEF TypeOK, RowStep, CommandStep, Renewed
  <2>. QED
    BY <1>1, <2>1, GuardRows DEF HeartbeatLease
<1>2. CASE ReserveStep(f, n)
  <2>1. CASE SettleFailed(q, n)
    BY <1>2, <2>1, GuardRows DEF ReserveStep
  <2>2. CASE ResumeStep(q)
    BY <2>2 DEF ResumeStep, RowStep, CommandStep
  <2>3. CASE Writable(q, n) /\ StartStep(q)
    <3>1. Open(q)
      BY <1>2, <2>3 DEF ReserveStep, Holds, Writable, WriteGuard, Open
    <3>2. /\ run[q].stepCount < MaxSteps
          /\ run' = [run EXCEPT ![q] = [run[q] EXCEPT !.stepCount = run[q].stepCount + 1,
                       !.toolCallCount = run[q].toolCallCount + 1]]
      BY <2>3 DEF StartStep, TypeOK
    <3>. QED
      BY <3>1, <3>2 DEF TypeOK, RowStep, CommandStep, Started
  <2>. QED
    BY <1>2, <2>1, <2>2, <2>3 DEF ReserveStep
<1>3. CASE \E i \in 1 .. MaxSteps, count \in 0 .. MaxEvidence :
             CompleteToolStepWithEvidence(f, i, count, n)
  BY <1>3 DEF CompleteToolStepWithEvidence, RowStep, CommandStep
<1>4. CASE \E i \in 1 .. MaxSteps : FailStep(f, i, n)
  <2>1. PICK i \in 1 .. MaxSteps : FailStep(f, i, n)
    BY <1>4
  <2>2. Holds(f) /\ (SettleCancelled(q, n) \/ SettleFailed(q, n) \/ UNCHANGED run)
    BY <2>1 DEF FailStep
  <2>. QED
    BY <2>2, GuardRows DEF RowStep, CommandStep
<1>5. CASE \E cited \in Citations : CompleteRun(f, cited, n)
  <2>1. PICK cited \in Citations : CompleteRun(f, cited, n)
    BY <1>5
  <2>2. CASE Writable(q, n) /\ PublishFinal(q, cited)
    <3>1. Open(q)
      BY <2>1, <2>2 DEF CompleteRun, Holds, Writable, WriteGuard, Open
    <3>. DEFINE fin == Finished(run[q], "completed", None)
                fs == IF cited = << >> THEN "insufficient_context" ELSE "answered"
    <3>2. /\ run[q].stepCount < MaxSteps
          /\ run' = [run EXCEPT ![q] = [fin EXCEPT !.stepCount = fin.stepCount + 1,
                                                   !.finalStatus = fs]]
      BY <2>2 DEF PublishFinal
    <3>3. Answered(q) \/ r # q
      BY <3>1, <3>2 DEF TypeOK, Answered, FinalStatus
    <3>. QED
      BY <3>2, <3>3 DEF TypeOK, RowStep, CommandStep
  <2>. QED
    BY <2>1, <2>2, GuardRows DEF CompleteRun
<1>6. CASE \E code \in ErrorCode, decisionError \in BOOLEAN :
             FailRun(f, code, decisionError, n)
  <2>1. PICK code \in ErrorCode, decisionError \in BOOLEAN :
          FailRun(f, code, decisionError, n)
    BY <1>6
  <2>2. CASE Writable(q, n) /\ FailWith(q, code, decisionError)
    <3>1. Open(q) /\ code \in ErrorCode
      BY <2>1, <2>2 DEF FailRun, Holds, Writable, WriteGuard, Open, ErrorCode
    <3>. DEFINE fin == Finished(run[q], "failed", code)
    <3>2. CASE decisionError
      <4>1. /\ run[q].stepCount < MaxSteps
            /\ run' = [run EXCEPT ![q] = [fin EXCEPT !.stepCount = fin.stepCount + 1]]
        BY <2>2, <3>2 DEF FailWith
      <4>2. GaveUp(q) \/ r # q
        BY <3>1, <4>1 DEF TypeOK, GaveUp
      <4>. QED
        BY <4>1, <4>2 DEF TypeOK, RowStep, CommandStep
    <3>3. CASE ~decisionError
      <4>1. run' = [run EXCEPT ![q] = [fin EXCEPT !.stepCount = fin.stepCount]]
        BY <2>2, <3>3 DEF FailWith
      <4>2. fin \in RunRow
        BY FinishedType, <3>1 DEF TypeOK, Terminal
      <4>3. run' = [run EXCEPT ![q] = fin]
        BY <4>1, <4>2 DEF RunRow
      <4>4. Settled(q) \/ r # q
        BY <3>1, <4>3 DEF TypeOK, Settled, Open
      <4>. QED
        BY <4>3, <4>4 DEF TypeOK, RowStep, CommandStep
    <3>. QED
      BY <3>2, <3>3
  <2>. QED
    BY <2>1, <2>2, GuardRows DEF FailRun
<1>7. CASE MarkCancelled(f)
  BY <1>7 DEF TypeOK, MarkCancelled, Holds, Settle, RowStep, CommandStep, Settled
<1>. QED
  BY <1>1, <1>2, <1>3, <1>4, <1>5, <1>6, <1>7 DEF WorkerWrite

LEMMA RowSteps == TypeOK /\ [Next]_vars => \A r \in RunId : RowStep(r)
<1> SUFFICES ASSUME TypeOK, [Next]_vars, NEW r \in RunId PROVE RowStep(r)
  OBVIOUS
<1>1. CASE Membership \/ Tick \/ UNCHANGED vars
  BY <1>1 DEF Membership, AddMember, RemoveMember, Tick, vars, RowStep, CommandStep
<1>2. CASE \E n \in Stamps :
             \/ Commands(n)
             \/ \E w \in Workers : ClaimRun(w, n)
             \/ \E f \in claims : WorkerWrite(f, n)
  <2>1. claims \subseteq Fence
    BY DEF TypeOK
  <2>. QED
    BY <1>2, <2>1, StampsType, CommandRows, ClaimRows, WorkerRows DEF RowStep
<1>. QED
  BY <1>1, <1>2 DEF Next
-----------------------------------------------------------------------------
(* What the row constructors do to the columns.                             *)

LEMMA FinishedColumns ==
  ASSUME NEW row \in RunRow, NEW status, NEW code
  PROVE  LET fin == Finished(row, status, code) IN
         /\ fin.status = status /\ fin.errorCode = code
         /\ fin.owner = None /\ fin.leaseExpiresAt = NoTime
         /\ fin.deadlineAt = row.deadlineAt /\ fin.finalStatus = row.finalStatus
         /\ fin.cancelRequested = row.cancelRequested
         /\ fin.stepCount = row.stepCount /\ fin.toolCallCount = row.toolCallCount
         /\ fin.retryId = row.retryId /\ fin.generation = row.generation
BY DEF Finished, RunRow

LEMMA QueuedColumns ==
  ASSUME NEW user, NEW q, NEW n
  PROVE  LET row == QueuedRun(user, q, n) IN
         /\ row.status = "queued" /\ row.errorCode = None
         /\ row.owner = None /\ row.leaseExpiresAt = NoTime
         /\ row.deadlineAt = NoTime /\ row.finalStatus = None
         /\ ~row.cancelRequested
         /\ row.stepCount = 0 /\ row.toolCallCount = 0
         /\ row.retryId = q /\ row.generation = 0
BY DEF QueuedRun, AbsentRun

LEMMA LeasedColumns ==
  ASSUME TypeOK, NEW r \in RunId, NEW w, NEW n
  PROVE  LET row == Leased(r, w, n) IN
         /\ row.status = "running" /\ row.errorCode = run[r].errorCode
         /\ row.owner = w /\ row.leaseExpiresAt = LeaseExpiry(n, DeadlineAtClaim(r, n))
         /\ row.deadlineAt = DeadlineAtClaim(r, n) /\ row.finalStatus = run[r].finalStatus
         /\ row.cancelRequested = run[r].cancelRequested
         /\ row.stepCount = run[r].stepCount /\ row.toolCallCount = run[r].toolCallCount
         /\ row.retryId = run[r].retryId /\ row.generation = run[r].generation + 1
<1>. run[r] \in RunRow
  BY DEF TypeOK
<1>. QED
  BY DEF Leased, RunRow

LEMMA BuriedColumns ==
  ASSUME TypeOK, NEW r \in RunId, NEW n \in Nat
  PROVE  LET row == Buried(r, n) IN
         /\ row.status = DoomedStatus(r)
         /\ row.errorCode = None <=> run[r].cancelRequested
         /\ row.owner = None /\ row.leaseExpiresAt = NoTime
         /\ row.deadlineAt = DeadlineAtClaim(r, n) /\ row.finalStatus = run[r].finalStatus
         /\ row.cancelRequested = run[r].cancelRequested
         /\ row.stepCount = run[r].stepCount /\ row.toolCallCount = run[r].toolCallCount
         /\ row.retryId = run[r].retryId /\ row.generation = run[r].generation
<1>. DEFINE code == IF run[r].cancelRequested THEN None
                    ELSE IF DeadlineAtClaim(r, n) <= n THEN WallTimeExceeded
                    ELSE AccessRevoked
            fin == Finished(run[r], DoomedStatus(r), code)
<1>1. run[r] \in RunRow
  BY DEF TypeOK
<1>2. code = None <=> run[r].cancelRequested
  BY StoreAssumption DEF ErrorCode
<1>3. /\ fin.status = DoomedStatus(r) /\ fin.errorCode = code
      /\ fin.owner = None /\ fin.leaseExpiresAt = NoTime
      /\ fin.finalStatus = run[r].finalStatus
      /\ fin.cancelRequested = run[r].cancelRequested
      /\ fin.stepCount = run[r].stepCount /\ fin.toolCallCount = run[r].toolCallCount
      /\ fin.retryId = run[r].retryId /\ fin.generation = run[r].generation
  BY <1>1, FinishedColumns
<1>4. Buried(r, n) = [fin EXCEPT !.deadlineAt = DeadlineAtClaim(r, n)]
  BY DEF Buried
<1>5. fin \in RunRow
  <2>1. DoomedStatus(r) \in Terminal /\ code \in ErrorCode \cup {None}
    BY DEF DoomedStatus, Terminal, ErrorCode
  <2>. QED
    BY <1>1, <2>1, FinishedType
<1>. HIDE DEF fin, code
<1>6. LET row == [fin EXCEPT !.deadlineAt = DeadlineAtClaim(r, n)] IN
      /\ row.status = fin.status /\ row.errorCode = fin.errorCode
      /\ row.owner = fin.owner /\ row.leaseExpiresAt = fin.leaseExpiresAt
      /\ row.deadlineAt = DeadlineAtClaim(r, n) /\ row.finalStatus = fin.finalStatus
      /\ row.cancelRequested = fin.cancelRequested
      /\ row.stepCount = fin.stepCount /\ row.toolCallCount = fin.toolCallCount
      /\ row.retryId = fin.retryId /\ row.generation = fin.generation
  BY <1>5 DEF RunRow
<1>. QED
  BY <1>2, <1>3, <1>4, <1>6

-----------------------------------------------------------------------------
(* The columns of a row fit its status, and no lease outlives its deadline. *)

LeaseInTime(r) == run[r].status = "running" => run[r].leaseExpiresAt <= run[r].deadlineAt

RowInv == \A r \in RunId : RowChecks(r) /\ LeaseInTime(r)

LEMMA RowInvInit == Init => RowInv
<1> SUFFICES ASSUME Init, NEW r \in RunId PROVE RowChecks(r) /\ LeaseInTime(r)
  BY DEF RowInv
<1>1. run[r] = AbsentRun
  BY DEF Init
<1>2. /\ LeaseColumns(AbsentRun) /\ StatusColumns(AbsentRun)
      /\ AbsentRun.status = "absent" /\ AbsentRun.stepCount = 0 /\ AbsentRun.toolCallCount = 0
  BY DEF AbsentRun, LeaseColumns, StatusColumns
<1>. QED
  BY <1>1, <1>2, StoreAssumption DEF RowChecks, LeaseInTime

LEMMA RowInvRow ==
  ASSUME TypeOK, TypeOK', NEW r \in RunId, RowChecks(r), LeaseInTime(r), RowStep(r)
  PROVE  RowChecks(r)' /\ LeaseInTime(r)'
<1>. run[r] \in RunRow /\ run'[r] \in RunRow
  BY DEF TypeOK
<1>. USE DEF RowChecks, LeaseInTime, LeaseColumns, StatusColumns
<1>1. CASE run'[r] = run[r]
  BY <1>1
<1>2. CASE Created(r)
  <2>1. PICK user \in Users, q \in Requests \cup {None}, n \in Nat :
          (q = None <=> r[2] = 1) /\ run'[r] = QueuedRun(user, q, n)
    BY <1>2 DEF Created
  <2>. DEFINE row == QueuedRun(user, q, n)
  <2>2. /\ row.status = "queued" /\ row.errorCode = None
        /\ row.owner = None /\ row.leaseExpiresAt = NoTime
        /\ row.deadlineAt = NoTime /\ row.finalStatus = None
        /\ ~row.cancelRequested
        /\ row.stepCount = 0 /\ row.toolCallCount = 0
        /\ row.retryId = q
    BY QueuedColumns
  <2>. HIDE DEF row
  <2>3. LeaseColumns(row) /\ StatusColumns(row)
    BY <2>2
  <2>4. /\ row.toolCallCount <= row.stepCount /\ row.stepCount <= MaxSteps
    BY <2>2, StoreAssumption
  <2>5. run'[r] = row
    BY <2>1 DEF row
  <2>. HIDE DEF LeaseColumns, StatusColumns
  <2>. QED
    BY <2>1, <2>2, <2>3, <2>4, <2>5
<1>3. CASE CancelAsked(r)
  BY <1>3, ZenonT(60) DEF CancelAsked, RunRow
<1>4. CASE Granted(r)
  <2>1. PICK w \in Workers, n \in Nat :
          r \in Eligible(n) /\ ~Doomed(r, n) /\ run'[r] = Leased(r, w, n)
    BY <1>4, StampsType DEF Granted
  <2>2. /\ DeadlineAtClaim(r, n) \in Nat
        /\ LeaseExpiry(n, DeadlineAtClaim(r, n)) \in Nat
        /\ LeaseExpiry(n, DeadlineAtClaim(r, n)) <= DeadlineAtClaim(r, n)
    BY DeadlineAtClaimType, LeaseExpiryType
  <2>3. run[r].status \in {"queued", "running"} /\ w # None
    BY <2>1, StoreAssumption DEF Eligible
  <2>. QED
    BY <2>1, <2>2, <2>3, LeasedColumns DEF NoTime
<1>5. CASE Discarded(r)
  <2>1. PICK n \in Nat : r \in Eligible(n) /\ Doomed(r, n) /\ run'[r] = Buried(r, n)
    BY <1>5, StampsType DEF Discarded
  <2>2. DeadlineAtClaim(r, n) # NoTime
    BY DeadlineAtClaimType DEF NoTime
  <2>3. run[r].status \in {"queued", "running"}
    BY <2>1 DEF Eligible
  <2>. QED
    BY <2>1, <2>2, <2>3, BuriedColumns DEF DoomedStatus
<1>6. CASE Settled(r)
  <2>1. CASE run[r].cancelRequested /\ run'[r] = Finished(run[r], "cancelled", None)
    BY <1>6, <2>1, FinishedColumns DEF Settled
  <2>2. CASE /\ ~run[r].cancelRequested
             /\ \E code \in ErrorCode : run'[r] = Finished(run[r], "failed", code)
    BY <1>6, <2>2, FinishedColumns, StoreAssumption DEF Settled
  <2>. QED
    BY <1>6, <2>1, <2>2 DEF Settled
<1>7. CASE Renewed(r)
  <2>1. PICK n \in Nat :
          run'[r] = [run[r] EXCEPT !.leaseExpiresAt = LeaseExpiry(n, run[r].deadlineAt)]
    BY <1>7, StampsType DEF Renewed
  <2>2. run[r].status = "running" /\ run[r].deadlineAt \in Nat
    BY <1>7 DEF Renewed, Open, RunRow
  <2>3. /\ LeaseExpiry(n, run[r].deadlineAt) \in Nat
        /\ LeaseExpiry(n, run[r].deadlineAt) <= run[r].deadlineAt
    BY <2>2, LeaseExpiryType
  <2>. QED
    BY <2>1, <2>2, <2>3 DEF RunRow, NoTime
<1>8. CASE Started(r)
  BY <1>8, StoreAssumption DEF Started, Open, RunRow
<1>9. CASE Answered(r)
  <2>. DEFINE fin == Finished(run[r], "completed", None)
  <2>1. PICK fs \in FinalStatus :
          run'[r] = [fin EXCEPT !.stepCount = fin.stepCount + 1, !.finalStatus = fs]
    BY <1>9 DEF Answered
  <2>2. fin \in RunRow
    BY FinishedType DEF Terminal
  <2>. QED
    BY <1>9, <2>1, <2>2, FinishedColumns, StoreAssumption DEF Answered, Open, RunRow
<1>10. CASE GaveUp(r)
  <2>1. PICK code \in ErrorCode :
          run'[r] = [Finished(run[r], "failed", code) EXCEPT
                       !.stepCount = Finished(run[r], "failed", code).stepCount + 1]
    BY <1>10 DEF GaveUp
  <2>2. Finished(run[r], "failed", code) \in RunRow
    BY FinishedType DEF Terminal
  <2>. QED
    BY <1>10, <2>1, <2>2, FinishedColumns, StoreAssumption DEF GaveUp, Open, RunRow
<1>. QED
  BY <1>1, <1>2, <1>3, <1>4, <1>5, <1>6, <1>7, <1>8, <1>9, <1>10 DEF RowStep, CommandStep

LEMMA RowInvStep ==
  ASSUME TypeOK, TypeOK', RowInv, [Next]_vars
  PROVE  RowInv'
<1> SUFFICES ASSUME NEW r \in RunId PROVE RowChecks(r)' /\ LeaseInTime(r)'
  BY DEF RowInv
<1>1. RowStep(r)
  BY RowSteps
<1>2. RowChecks(r) /\ LeaseInTime(r)
  BY DEF RowInv
<1>. QED
  BY <1>1, <1>2, RowInvRow

(* In every reachable state each run row satisfies what all later results   *)
(* rest on: its columns agree with its status and its lease ends in time.   *)
THEOREM RowInvCorrect == Spec => []RowInv
<1>1. Init => RowInv
  BY RowInvInit
<1>2. TypeOK /\ TypeOK' /\ RowInv /\ [Next]_vars => RowInv'
  BY RowInvStep
<1>. QED
  BY <1>1, <1>2, TypeCorrect, PTL DEF Spec

(* No interleaving of the handlers makes a row that the CHECK constraints   *)
(* of agent_runs refuse.                                                    *)
THEOREM SchemaChecksHold == Spec => []SchemaChecks
<1>1. RowInv => SchemaChecks
  BY DEF RowInv, SchemaChecks
<1>. QED
  BY <1>1, RowInvCorrect, PTL

(* No lease outlives the deadline of its run.                               *)
THEOREM LeaseWithinDeadlineHolds == Spec => []LeaseWithinDeadline
<1>1. RowInv => LeaseWithinDeadline
  BY DEF RowInv, LeaseInTime, LeaseWithinDeadline
<1>. QED
  BY <1>1, RowInvCorrect, PTL

-----------------------------------------------------------------------------
(* Lease generations are fencing tokens.                                    *)

LEMMA GenerationStep ==
  ASSUME TypeOK, TypeOK', RowInv, NEW r \in RunId, RowStep(r)
  PROVE  /\ run[r].generation <= run'[r].generation
         /\ run'[r].generation = run[r].generation \/ Granted(r)
         /\ \/ run'[r].status # "running"
            \/ /\ run[r].status = "running"
               /\ run'[r].owner = run[r].owner
               /\ run'[r].generation = run[r].generation
            \/ Granted(r)
<1>. run[r] \in RunRow /\ run'[r] \in RunRow
  BY DEF TypeOK
<1>1. CASE run'[r] = run[r]
  BY <1>1 DEF RunRow
<1>2. CASE Created(r)
  <2>1. run[r] = AbsentRun
    BY <1>2 DEF Created, RowInv, RowChecks, StatusColumns
  <2>2. run[r].generation = 0
    BY <2>1 DEF AbsentRun
  <2>3. run'[r].status = "queued" /\ run'[r].generation = 0
    BY <1>2, QueuedColumns DEF Created
  <2>. QED
    BY <2>2, <2>3
<1>3. CASE CancelAsked(r)
  <2>1. run'[r].generation = run[r].generation /\ run'[r].owner = run[r].owner
    BY <1>3 DEF CancelAsked, RunRow
  <2>2. run'[r].status = "cancelled" \/ run'[r].status = run[r].status
    BY <1>3 DEF CancelAsked, RunRow
  <2>. QED
    BY <2>1, <2>2 DEF RunRow
<1>4. CASE Granted(r)
  <2>1. run'[r].generation = run[r].generation + 1
    BY <1>4, LeasedColumns DEF Granted
  <2>. QED
    BY <1>4, <2>1 DEF RunRow
<1>5. CASE Discarded(r)
  <2>1. run'[r].status \in {"cancelled", "failed"} /\ run'[r].generation = run[r].generation
    BY <1>5, BuriedColumns, StampsType DEF Discarded, DoomedStatus
  <2>. QED
    BY <2>1 DEF RunRow
<1>6. CASE Settled(r)
  <2>1. run'[r].status \in {"cancelled", "failed"} /\ run'[r].generation = run[r].generation
    BY <1>6, FinishedColumns DEF Settled
  <2>. QED
    BY <2>1 DEF RunRow
<1>7. CASE Renewed(r)
  BY <1>7 DEF Renewed, Open, RunRow
<1>8. CASE Started(r)
  BY <1>8 DEF Started, Open, RunRow
<1>9. CASE Answered(r)
  <2>. DEFINE fin == Finished(run[r], "completed", None)
  <2>1. PICK fs \in FinalStatus :
          run'[r] = [fin EXCEPT !.stepCount = fin.stepCount + 1, !.finalStatus = fs]
    BY <1>9 DEF Answered
  <2>2. fin \in RunRow
    BY FinishedType DEF Terminal
  <2>. QED
    BY <2>1, <2>2, FinishedColumns DEF RunRow
<1>10. CASE GaveUp(r)
  <2>1. PICK code \in ErrorCode :
          run'[r] = [Finished(run[r], "failed", code) EXCEPT
                       !.stepCount = Finished(run[r], "failed", code).stepCount + 1]
    BY <1>10 DEF GaveUp
  <2>2. Finished(run[r], "failed", code) \in RunRow
    BY FinishedType DEF Terminal
  <2>. QED
    BY <2>1, <2>2, FinishedColumns DEF RunRow
<1>. QED
  BY <1>1, <1>2, <1>3, <1>4, <1>5, <1>6, <1>7, <1>8, <1>9, <1>10 DEF RowStep, CommandStep

(* Only claimRun hands out fences, each with the generation it just made.   *)
LEMMA ClaimsStep ==
  ASSUME TypeOK, [Next]_vars
  PROVE  /\ claims \subseteq claims'
         /\ \A c \in claims' \ claims :
              c.run \in RunId /\ c.generation = run[c.run].generation + 1
                /\ run'[c.run].generation = c.generation
         /\ \A c, d \in claims' \ claims : c = d
<1>1. CASE UNCHANGED claims
  BY <1>1
<1>2. ASSUME NEW n \in Nat, NEW w \in Workers, ClaimRun(w, n)
      PROVE  /\ claims \subseteq claims'
             /\ \A c \in claims' \ claims :
                  c.run \in RunId /\ c.generation = run[c.run].generation + 1
                    /\ run'[c.run].generation = c.generation
             /\ \A c, d \in claims' \ claims : c = d
  <2>1. PICK taken, buried \in SUBSET Eligible(n) :
          (\A s, t \in taken : s = t) /\ HandOut(w, n, taken, buried)
    BY <1>2, ClaimCases
  <2>2. taken \subseteq RunId
    BY DEF Eligible
  <2>3. claims' = claims \cup
          {[run |-> r, worker |-> w, generation |-> run[r].generation + 1] : r \in taken}
    BY <2>1 DEF HandOut
  <2>4. ASSUME NEW r \in taken PROVE run'[r].generation = run[r].generation + 1
    <3>1. run'[r] = Leased(r, w, n)
      BY <2>1, <2>2 DEF HandOut
    <3>. QED
      BY <2>2, <3>1, LeasedColumns
  <2>. QED
    BY <2>1, <2>2, <2>3, <2>4
<1>3. ASSUME NEW n \in Nat, Commands(n) PROVE UNCHANGED claims
  BY <1>3 DEF Commands, CreateTaskWithInitialRun, CreateRetryRun, CancelRun
<1>4. ASSUME NEW n \in Nat, NEW f \in claims, WorkerWrite(f, n) PROVE UNCHANGED claims
  <2>1. HeartbeatLease(f, n) \/ ReserveStep(f, n) \/ MarkCancelled(f) => UNCHANGED claims
    BY DEF HeartbeatLease, ReserveStep, MarkCancelled
  <2>2. \A i, count : CompleteToolStepWithEvidence(f, i, count, n) => UNCHANGED claims
    BY DEF CompleteToolStepWithEvidence
  <2>3. \A i : FailStep(f, i, n) => UNCHANGED claims
    BY DEF FailStep
  <2>4. \A cited : CompleteRun(f, cited, n) => UNCHANGED claims
    BY DEF CompleteRun
  <2>5. \A code, decisionError : FailRun(f, code, decisionError, n) => UNCHANGED claims
    BY DEF FailRun
  <2>. QED
    BY <1>4, <2>1, <2>2, <2>3, <2>4, <2>5 DEF WorkerWrite
<1>5. CASE Membership \/ Tick \/ UNCHANGED vars
  BY <1>5, <1>1 DEF Membership, AddMember, RemoveMember, Tick, vars
<1>. QED
  BY <1>1, <1>2, <1>3, <1>4, <1>5, StampsType DEF Next

LEMMA FencingStep ==
  ASSUME TypeOK, TypeOK', RowInv, FencingTokens, [Next]_vars
  PROVE  FencingTokens'
<1>. claims \subseteq Fence /\ claims' \subseteq Fence
  BY DEF TypeOK
<1>1. ASSUME NEW r \in RunId PROVE run[r].generation \in Nat /\ run'[r].generation \in Nat
  BY DEF TypeOK, RunRow
<1>2. ASSUME NEW r \in RunId
      PROVE  /\ run[r].generation <= run'[r].generation
             /\ \/ run'[r].status # "running"
                \/ /\ run[r].status = "running"
                   /\ run'[r].owner = run[r].owner
                   /\ run'[r].generation = run[r].generation
                \/ Granted(r)
  BY RowSteps, GenerationStep
<1>3. \A c \in claims' : c.generation \in 1 .. run'[c.run].generation
  <2>1. ASSUME NEW c \in claims PROVE c.generation \in 1 .. run'[c.run].generation
    BY <1>1, <1>2 DEF FencingTokens, Fence
  <2>2. ASSUME NEW c \in claims' \ claims PROVE c.generation \in 1 .. run'[c.run].generation
    BY <1>1, ClaimsStep
  <2>. QED
    BY <2>1, <2>2
<1>4. \A c, d \in claims' : c.run = d.run /\ c.generation = d.generation => c = d
  <2>1. ASSUME NEW c \in claims, NEW d \in claims' \ claims
        PROVE  ~(c.run = d.run /\ c.generation = d.generation)
    BY <1>1, ClaimsStep DEF FencingTokens
  <2>. QED
    BY <2>1, ClaimsStep DEF FencingTokens
<1>5. ASSUME NEW r \in RunId, run'[r].status = "running"
      PROVE  [run |-> r, worker |-> run'[r].owner, generation |-> run'[r].generation] \in claims'
  <2>1. CASE /\ run[r].status = "running"
             /\ run'[r].owner = run[r].owner
             /\ run'[r].generation = run[r].generation
    BY <2>1, ClaimsStep DEF FencingTokens
  <2>2. CASE Granted(r)
    BY <2>2, LeasedColumns DEF Granted
  <2>. QED
    BY <1>2, <1>5, <2>1, <2>2
<1>. QED
  BY <1>3, <1>4, <1>5 DEF FencingTokens

(* No two claims of a run share a generation, and a running row belongs to  *)
(* the claim that carries its current one: a fence from an earlier claim    *)
(* fails Holds for ever.                                                    *)
THEOREM FencingTokensHold == Spec => []FencingTokens
<1>1. Init => FencingTokens
  BY DEF Init, FencingTokens, AbsentRun
<1>2. TypeOK /\ TypeOK' /\ RowInv /\ FencingTokens /\ [Next]_vars => FencingTokens'
  BY FencingStep
<1>. QED
  BY <1>1, <1>2, TypeCorrect, RowInvCorrect, PTL DEF Spec

(* While a lease is alive on the clock no claim takes the run, however old  *)
(* the claimer's time stamp is.                                             *)
THEOREM HealthyLeaseKeptHolds == Spec => HealthyLeaseKept
<1>1. ASSUME TypeOK, TypeOK', RowInv, [Next]_vars, NEW r \in RunId,
             run[r].status = "running", run[r].leaseExpiresAt > now
      PROVE  run'[r].generation = run[r].generation
  <2>1. now \in Nat /\ run[r].leaseExpiresAt \in Int
    BY <1>1 DEF TypeOK, RunRow, NoTime
  <2>2. ASSUME NEW n \in Stamps, r \in Eligible(n) PROVE FALSE
    BY <1>1, <2>1, <2>2 DEF Eligible, Stamps
  <2>3. ~Granted(r)
    BY <2>2 DEF Granted
  <2>. QED
    BY <1>1, <2>3, RowSteps, GenerationStep
<1>2. TypeOK /\ TypeOK' /\ RowInv /\ [Next]_vars =>
        [\A r \in RunId :
           run[r].status = "running" /\ run[r].leaseExpiresAt > now
             => run'[r].generation = run[r].generation]_vars
  BY <1>1
<1>. QED
  BY <1>2, TypeCorrect, RowInvCorrect, PTL DEF Spec, HealthyLeaseKept

-----------------------------------------------------------------------------
(* Finished runs and deadlines never change.                                *)

LEMMA TerminalRow ==
  ASSUME TypeOK, NEW r \in RunId, run[r].status \in Terminal, RowStep(r)
  PROVE  run'[r] = run[r]
BY DEF RowStep, CommandStep, Created, CancelAsked, Granted, Discarded, Settled, Renewed, Started,
       Answered, GaveUp, Open, Eligible, Terminal

(* A worker writes only under the fence of a running run, and only to it.   *)
LEMMA WriterHolds ==
  ASSUME NEW f, NEW n, WorkerWrite(f, n)
  PROVE  Holds(f)
<1>1. \A i, count : CompleteToolStepWithEvidence(f, i, count, n) => Holds(f)
  BY DEF CompleteToolStepWithEvidence
<1>2. \A i : FailStep(f, i, n) => Holds(f)
  BY DEF FailStep
<1>3. \A cited : CompleteRun(f, cited, n) => Holds(f)
  BY DEF CompleteRun
<1>4. \A code, decisionError : FailRun(f, code, decisionError, n) => Holds(f)
  BY DEF FailRun
<1>. QED
  BY <1>1, <1>2, <1>3, <1>4 DEF WorkerWrite, HeartbeatLease, ReserveStep, MarkCancelled

LEMMA WorkerWriteLocal ==
  ASSUME TypeOK, NEW n, NEW f \in Fence, WorkerWrite(f, n),
         NEW r \in RunId, r # f.run
  PROVE  run'[r] = run[r] /\ steps'[r] = steps[r] /\ evidence'[r] = evidence[r]
<1>. DEFINE q == f.run
            Same == run'[r] = run[r] /\ steps'[r] = steps[r] /\ evidence'[r] = evidence[r]
<1>. q \in RunId
  BY DEF Fence
<1>2. r # q
  OBVIOUS
<1>3. ASSUME NEW status, NEW code, Settle(q, status, code) PROVE Same
  BY <1>2, <1>3 DEF TypeOK, Settle
<1>4. SettleCancelled(q, n) \/ SettleFailed(q, n) => Same
  BY <1>3 DEF SettleCancelled, SettleFailed
<1>5. CASE HeartbeatLease(f, n)
  BY <1>2, <1>4, <1>5 DEF TypeOK, HeartbeatLease
<1>6. CASE ReserveStep(f, n)
  <2>1. ResumeStep(q) => Same
    BY <1>2 DEF TypeOK, ResumeStep
  <2>2. StartStep(q) => Same
    BY <1>2 DEF TypeOK, StartStep
  <2>. QED
    BY <1>4, <1>6, <2>1, <2>2 DEF ReserveStep
<1>7. CASE \E i \in 1 .. MaxSteps, count \in 0 .. MaxEvidence :
             CompleteToolStepWithEvidence(f, i, count, n)
  BY <1>2, <1>7 DEF TypeOK, CompleteToolStepWithEvidence
<1>8. CASE \E i \in 1 .. MaxSteps : FailStep(f, i, n)
  BY <1>2, <1>4, <1>8 DEF TypeOK, FailStep
<1>9. CASE \E cited \in Citations : CompleteRun(f, cited, n)
  <2>1. \A cited : PublishFinal(q, cited) => Same
    BY <1>2 DEF TypeOK, PublishFinal
  <2>. QED
    BY <1>4, <1>9, <2>1 DEF CompleteRun
<1>10. CASE \E code \in ErrorCode, decisionError \in BOOLEAN :
              FailRun(f, code, decisionError, n)
  <2>1. \A code, decisionError : FailWith(q, code, decisionError) => Same
    BY <1>2 DEF TypeOK, FailWith
  <2>. QED
    BY <1>4, <1>10, <2>1 DEF FailRun
<1>11. CASE MarkCancelled(f)
  BY <1>3, <1>11 DEF MarkCancelled
<1>. QED
  BY <1>5, <1>6, <1>7, <1>8, <1>9, <1>10, <1>11 DEF WorkerWrite

(* A claim, a worker write, a membership change and the clock leave a run   *)
(* that is neither queued nor running alone.                                *)
LEMMA QuietRuns ==
  ASSUME TypeOK, [Next]_vars, \A n \in Nat : ~Commands(n),
         NEW r \in RunId, run[r].status \notin {"queued", "running"}
  PROVE  run'[r] = run[r] /\ steps'[r] = steps[r] /\ evidence'[r] = evidence[r]
<1>1. ASSUME NEW n \in Nat, NEW w \in Workers, ClaimRun(w, n)
      PROVE  run'[r] = run[r] /\ steps'[r] = steps[r] /\ evidence'[r] = evidence[r]
  <2>1. PICK taken, buried \in SUBSET Eligible(n) : HandOut(w, n, taken, buried)
    BY <1>1, ClaimCases
  <2>2. r \notin taken /\ r \notin buried
    BY <2>1 DEF Eligible
  <2>. QED
    BY <2>1, <2>2 DEF HandOut
<1>2. CASE Membership \/ Tick \/ UNCHANGED vars
  BY <1>2 DEF Membership, AddMember, RemoveMember, Tick, vars
<1>3. ASSUME NEW n, NEW f \in claims, WorkerWrite(f, n)
      PROVE  run'[r] = run[r] /\ steps'[r] = steps[r] /\ evidence'[r] = evidence[r]
  <2>1. f \in Fence
    BY DEF TypeOK
  <2>2. r # f.run
    BY <1>3, WriterHolds DEF Holds
  <2>. QED
    BY <1>3, <2>1, <2>2, WorkerWriteLocal
<1>. QED
  BY <1>1, <1>2, <1>3, StampsType DEF Next

(* The trace of a run changes only while the run is queued or running.      *)
LEMMA TraceStep ==
  ASSUME TypeOK, [Next]_vars, NEW r \in RunId, run[r].status \notin {"queued", "running"}
  PROVE  steps'[r] = steps[r] /\ evidence'[r] = evidence[r]
<1>1. ASSUME NEW n \in Nat, Commands(n) PROVE UNCHANGED <<steps, evidence>>
  BY <1>1 DEF Commands, CreateTaskWithInitialRun, CreateRetryRun, CancelRun
<1>. QED
  BY <1>1, QuietRuns

(* No late write, from any fence, touches a finished run.                   *)
THEOREM FinishedFrozenHolds == Spec => FinishedFrozen
<1>1. TypeOK /\ [Next]_vars =>
        [\A r \in RunId : run[r].status \in Terminal =>
           run'[r] = run[r] /\ steps'[r] = steps[r] /\ evidence'[r] = evidence[r]]_vars
  BY RowSteps, TerminalRow, TraceStep DEF Terminal
<1>. QED
  BY <1>1, TypeCorrect, PTL DEF Spec, FinishedFrozen

LEMMA DeadlineRow ==
  ASSUME TypeOK, RowInv, NEW r \in RunId, run[r].deadlineAt # NoTime, RowStep(r)
  PROVE  run'[r].deadlineAt = run[r].deadlineAt
<1>. run[r] \in RunRow
  BY DEF TypeOK
<1>1. ~Created(r)
  BY DEF Created, RowInv, RowChecks, StatusColumns, AbsentRun
<1>2. CASE CancelAsked(r)
  BY <1>2 DEF CancelAsked, RunRow
<1>3. CASE Granted(r)
  BY <1>3, LeasedColumns DEF Granted, DeadlineAtClaim
<1>4. CASE Discarded(r)
  BY <1>4, BuriedColumns, StampsType DEF Discarded, DeadlineAtClaim
<1>5. CASE Settled(r)
  BY <1>5, FinishedColumns DEF Settled
<1>6. CASE Renewed(r) \/ Started(r)
  BY <1>6 DEF Renewed, Started, RunRow
<1>7. CASE Answered(r)
  <2>. DEFINE fin == Finished(run[r], "completed", None)
  <2>1. PICK fs \in FinalStatus :
          run'[r] = [fin EXCEPT !.stepCount = fin.stepCount + 1, !.finalStatus = fs]
    BY <1>7 DEF Answered
  <2>2. fin \in RunRow
    BY FinishedType DEF Terminal
  <2>. QED
    BY <2>1, <2>2, FinishedColumns DEF RunRow
<1>8. CASE GaveUp(r)
  <2>1. PICK code \in ErrorCode :
          run'[r] = [Finished(run[r], "failed", code) EXCEPT
                       !.stepCount = Finished(run[r], "failed", code).stepCount + 1]
    BY <1>8 DEF GaveUp
  <2>2. Finished(run[r], "failed", code) \in RunRow
    BY FinishedType DEF Terminal
  <2>. QED
    BY <2>1, <2>2, FinishedColumns DEF RunRow
<1>. QED
  BY <1>1, <1>2, <1>3, <1>4, <1>5, <1>6, <1>7, <1>8 DEF RowStep, CommandStep

(* Reclaims, heartbeats and cancellations never move the deadline.          *)
THEOREM DeadlineFixedHolds == Spec => DeadlineFixed
<1>1. TypeOK /\ RowInv /\ [Next]_vars =>
        [\A r \in RunId : run[r].deadlineAt # NoTime =>
           run'[r].deadlineAt = run[r].deadlineAt]_vars
  BY RowSteps, DeadlineRow
<1>. QED
  BY <1>1, TypeCorrect, RowInvCorrect, PTL DEF Spec, DeadlineFixed

-----------------------------------------------------------------------------
(* Attempts.                                                                *)

(* A row never becomes absent again and keeps the request that created it.  *)
LEMMA KeptRow ==
  ASSUME TypeOK, NEW r \in RunId, run[r].status # "absent", RowStep(r)
  PROVE  run'[r].status # "absent" /\ run'[r].retryId = run[r].retryId
<1>. run[r] \in RunRow
  BY DEF TypeOK
<1>1. CASE run'[r] = run[r]
  BY <1>1
<1>2. ~Created(r)
  BY DEF Created
<1>3. CASE CancelAsked(r)
  BY <1>3 DEF CancelAsked, RunRow
<1>4. CASE Granted(r)
  BY <1>4, LeasedColumns DEF Granted
<1>5. CASE Discarded(r)
  BY <1>5, BuriedColumns, StampsType DEF Discarded, DoomedStatus
<1>6. CASE Settled(r)
  BY <1>6, FinishedColumns DEF Settled
<1>7. CASE Renewed(r) \/ Started(r)
  BY <1>7 DEF Renewed, Started, RunRow
<1>8. CASE Answered(r)
  <2>. DEFINE fin == Finished(run[r], "completed", None)
  <2>1. PICK fs \in FinalStatus :
          run'[r] = [fin EXCEPT !.stepCount = fin.stepCount + 1, !.finalStatus = fs]
    BY <1>8 DEF Answered
  <2>2. fin \in RunRow
    BY FinishedType DEF Terminal
  <2>. QED
    BY <2>1, <2>2, FinishedColumns DEF RunRow
<1>9. CASE GaveUp(r)
  <2>1. PICK code \in ErrorCode :
          run'[r] = [Finished(run[r], "failed", code) EXCEPT
                       !.stepCount = Finished(run[r], "failed", code).stepCount + 1]
    BY <1>9 DEF GaveUp
  <2>2. Finished(run[r], "failed", code) \in RunRow
    BY FinishedType DEF Terminal
  <2>. QED
    BY <2>1, <2>2, FinishedColumns DEF RunRow
<1>. QED
  BY <1>1, <1>2, <1>3, <1>4, <1>5, <1>6, <1>7, <1>8, <1>9 DEF RowStep, CommandStep

(* A new attempt follows the latest one, which is over, and belongs to a    *)
(* request no attempt of the task has seen.                                 *)
LEMMA NewAttempt ==
  ASSUME TypeOK, [Next]_vars, NEW t \in Tasks, NEW k \in 1 .. MaxAttempts,
         run[<<t, k>>].status = "absent", run'[<<t, k>>].status # "absent"
  PROVE  /\ \A j \in Attempts(t) : j < k /\ run[<<t, j>>].retryId # run'[<<t, k>>].retryId
         /\ k = 1 \/ (k - 1 \in Attempts(t) /\ run[<<t, k - 1>>].status \in Terminal)
         /\ \A j \in 1 .. MaxAttempts : j # k => run'[<<t, j>>] = run[<<t, j>>]
<1>. <<t, k>> \in RunId
  BY DEF RunId
<1>1. PICK n \in Nat : Commands(n)
  BY QuietRuns
<1>2. ASSUME NEW t0 \in Tasks, NEW user \in Users, CreateTaskWithInitialRun(t0, user, n)
      PROVE  /\ \A j \in Attempts(t) : j < k /\ run[<<t, j>>].retryId # run'[<<t, k>>].retryId
             /\ k = 1 \/ (k - 1 \in Attempts(t) /\ run[<<t, k - 1>>].status \in Terminal)
             /\ \A j \in 1 .. MaxAttempts : j # k => run'[<<t, j>>] = run[<<t, j>>]
  <2>1. Attempts(t0) = {} /\ run' = [run EXCEPT ![<<t0, 1>>] = QueuedRun(user, None, n)]
    BY <1>2 DEF CreateTaskWithInitialRun
  <2>2. t0 = t /\ k = 1
    BY <2>1 DEF TypeOK
  <2>3. \A j \in 1 .. MaxAttempts : <<t, j>> \in RunId
    BY DEF RunId
  <2>. QED
    BY <2>1, <2>2, <2>3 DEF TypeOK
<1>3. ASSUME NEW t0 \in Tasks, NEW user \in Users, NEW q \in Requests,
             CreateRetryRun(t0, user, q, n)
      PROVE  /\ \A j \in Attempts(t) : j < k /\ run[<<t, j>>].retryId # run'[<<t, k>>].retryId
             /\ k = 1 \/ (k - 1 \in Attempts(t) /\ run[<<t, k - 1>>].status \in Terminal)
             /\ \A j \in 1 .. MaxAttempts : j # k => run'[<<t, j>>] = run[<<t, j>>]
  <2>1. PICK latest \in Attempts(t0) :
          /\ \A j \in Attempts(t0) : j <= latest
          /\ run[<<t0, latest>>].status \in Terminal
          /\ latest < MaxAttempts
          /\ run' = [run EXCEPT ![<<t0, latest + 1>>] = QueuedRun(user, q, n)]
    BY <1>3 DEF CreateRetryRun
  <2>2. t0 = t /\ k = latest + 1
    BY <2>1 DEF TypeOK
  <2>3. \A j \in 1 .. MaxAttempts : <<t, j>> \in RunId
    BY DEF RunId
  <2>4. run'[<<t, k>>].retryId = q
    BY <2>1, <2>2, QueuedColumns DEF TypeOK
  <2>5. \A j \in Attempts(t) : run[<<t, j>>].retryId # q
    BY <1>3, <2>2 DEF CreateRetryRun
  <2>6. latest \in Nat /\ latest = k - 1 /\ Attempts(t) \subseteq Nat
    BY <2>1, <2>2, StoreAssumption DEF Attempts
  <2>7. \A j \in Attempts(t) : j < k
    BY <2>1, <2>2, <2>6
  <2>. QED
    BY <2>1, <2>2, <2>3, <2>4, <2>5, <2>6, <2>7 DEF TypeOK
<1>4. ASSUME NEW r \in RunId, NEW user \in Users, CancelRun(r, user) PROVE FALSE
  <2>1. r # <<t, k>>
    BY <1>4 DEF CancelRun
  <2>. QED
    BY <1>4, <2>1 DEF TypeOK, CancelRun
<1>. QED
  BY <1>1, <1>2, <1>3, <1>4 DEF Commands

LEMMA AttemptsStep ==
  ASSUME TypeOK, [Next]_vars, NEW t \in Tasks
  PROVE  \/ Attempts(t)' = Attempts(t)
         \/ \E k \in 1 .. MaxAttempts :
              /\ Attempts(t)' = Attempts(t) \cup {k}
              /\ run[<<t, k>>].status = "absent" /\ run'[<<t, k>>].status # "absent"
<1>. \A k \in 1 .. MaxAttempts : <<t, k>> \in RunId
  BY DEF RunId
<1>1. Attempts(t) \subseteq Attempts(t)'
  BY RowSteps, KeptRow DEF Attempts
<1>2. CASE Attempts(t)' \subseteq Attempts(t)
  BY <1>1, <1>2
<1>3. ASSUME NEW k \in Attempts(t)', k \notin Attempts(t)
      PROVE  /\ Attempts(t)' = Attempts(t) \cup {k}
             /\ run[<<t, k>>].status = "absent" /\ run'[<<t, k>>].status # "absent"
  <2>1. k \in 1 .. MaxAttempts
        /\ run[<<t, k>>].status = "absent" /\ run'[<<t, k>>].status # "absent"
    BY <1>3 DEF Attempts
  <2>2. \A j \in 1 .. MaxAttempts : j # k => run'[<<t, j>>] = run[<<t, j>>]
    BY <2>1, NewAttempt
  <2>. QED
    BY <1>1, <2>1, <2>2 DEF Attempts
<1>. QED
  BY <1>2, <1>3 DEF Attempts

LEMMA OneLiveStep ==
  ASSUME TypeOK, OneLiveAttempt, [Next]_vars
  PROVE  OneLiveAttempt'
<1> SUFFICES ASSUME NEW t \in Tasks, NEW k \in Attempts(t)'
             PROVE  /\ \A j \in 1 .. k : j \in Attempts(t)'
                    /\ run'[<<t, k>>].status \notin Terminal => \A j \in Attempts(t)' : j <= k
  BY DEF OneLiveAttempt
<1>. \A j \in 1 .. MaxAttempts : <<t, j>> \in RunId
  BY DEF RunId
<1>0. /\ Attempts(t) \subseteq 1 .. MaxAttempts /\ k \in 1 .. MaxAttempts
      /\ MaxAttempts \in Nat
  BY StoreAssumption DEF Attempts
<1>1. ASSUME NEW j \in Attempts(t), run'[<<t, j>>].status \notin Terminal
      PROVE  run[<<t, j>>].status \notin Terminal
  BY <1>0, <1>1, RowSteps, TerminalRow
<1>2. CASE Attempts(t)' = Attempts(t)
  BY <1>0, <1>1, <1>2 DEF OneLiveAttempt
<1>3. ASSUME NEW new \in 1 .. MaxAttempts, Attempts(t)' = Attempts(t) \cup {new},
             run[<<t, new>>].status = "absent", run'[<<t, new>>].status # "absent"
      PROVE  /\ \A j \in 1 .. k : j \in Attempts(t)'
             /\ run'[<<t, k>>].status \notin Terminal => \A j \in Attempts(t)' : j <= k
  <2>1. /\ \A j \in Attempts(t) : j < new
        /\ new = 1 \/ (new - 1 \in Attempts(t) /\ run[<<t, new - 1>>].status \in Terminal)
    BY <1>3, NewAttempt
  <2>2. \A j \in 1 .. (new - 1) : j \in Attempts(t)
    BY <2>1, <1>0 DEF OneLiveAttempt
  <2>3. CASE k = new
    BY <1>0, <1>3, <2>1, <2>2, <2>3
  <2>4. CASE k # new
    <3>1. k \in Attempts(t) /\ k <= new - 1 /\ new - 1 \in Attempts(t)
      BY <1>0, <1>3, <2>1, <2>4
    <3>2. run[<<t, k>>].status \in Terminal
      BY <1>0, <2>1, <3>1 DEF OneLiveAttempt
    <3>3. run'[<<t, k>>].status \in Terminal
      BY <1>1, <3>1, <3>2
    <3>. QED
      BY <1>3, <3>1, <3>3 DEF OneLiveAttempt
  <2>. QED
    BY <2>3, <2>4
<1>. QED
  BY <1>2, <1>3, AttemptsStep

(* At most one attempt of a task is in progress, and it is the latest.      *)
THEOREM OneLiveAttemptHolds == Spec => []OneLiveAttempt
<1>1. Init => OneLiveAttempt
  BY DEF Init, OneLiveAttempt, Attempts, AbsentRun, RunId
<1>2. TypeOK /\ OneLiveAttempt /\ [Next]_vars => OneLiveAttempt'
  BY OneLiveStep
<1>. QED
  BY <1>1, <1>2, TypeCorrect, PTL DEF Spec

LEMMA RetryOnceStep ==
  ASSUME TypeOK, RetryOnce, [Next]_vars
  PROVE  RetryOnce'
<1> SUFFICES ASSUME NEW t \in Tasks, NEW j \in Attempts(t)', NEW k \in Attempts(t)', j # k
             PROVE  run'[<<t, j>>].retryId # run'[<<t, k>>].retryId
  BY DEF RetryOnce
<1>. \A i \in 1 .. MaxAttempts : <<t, i>> \in RunId
  BY DEF RunId
<1>1. ASSUME NEW i \in Attempts(t) PROVE run'[<<t, i>>].retryId = run[<<t, i>>].retryId
  BY RowSteps, KeptRow DEF Attempts
<1>2. CASE Attempts(t)' = Attempts(t)
  BY <1>1, <1>2 DEF RetryOnce
<1>3. ASSUME NEW new \in 1 .. MaxAttempts, Attempts(t)' = Attempts(t) \cup {new},
             run[<<t, new>>].status = "absent", run'[<<t, new>>].status # "absent"
      PROVE  run'[<<t, j>>].retryId # run'[<<t, k>>].retryId
  <2>1. \A i \in Attempts(t) : run[<<t, i>>].retryId # run'[<<t, new>>].retryId
    BY <1>3, NewAttempt
  <2>. QED
    BY <1>1, <1>3, <2>1 DEF RetryOnce
<1>. QED
  BY <1>2, <1>3, AttemptsStep

(* A retry request creates at most one run, however often it is delivered.  *)
THEOREM RetryOnceHolds == Spec => []RetryOnce
<1>1. Init => RetryOnce
  BY DEF Init, RetryOnce, Attempts, AbsentRun, RunId
<1>2. TypeOK /\ RetryOnce /\ [Next]_vars => RetryOnce'
  BY RetryOnceStep
<1>. QED
  BY <1>1, <1>2, TypeCorrect, PTL DEF Spec
=============================================================================
