------------------------ MODULE AgentRunTrace_proofs ------------------------
(***************************************************************************)
(* Proofs about the traces of AgentRunStore, for every value of the        *)
(* constants: what its steps may do to the steps and the evidence of a     *)
(* run, that it implements AgentRunLifecycle, as every step of the store   *)
(* moves every run along the lifecycle, and that AgentRunViews can show    *)
(* whatever is stored.                                                     *)
(***************************************************************************)
EXTENDS AgentRunStore_proofs, AgentRunViews, FiniteSetTheorems

-----------------------------------------------------------------------------
(* How a trace changes.                                                     *)

Counted(r, moreSteps, moreCalls) ==
  /\ run'[r].stepCount = run[r].stepCount + moreSteps
  /\ run'[r].toolCallCount = run[r].toolCallCount + moreCalls

SameStatus(r) == run'[r].status = run[r].status

(* Submission, the first claim and the cancellation of a run that waits.    *)
Awaited(r) ==
  /\ run[r].status \in {"absent", "queued"}
  /\ run'[r].status \in {"queued", "running", "cancelled"}

TraceKept(r) ==
  /\ SameStatus(r) \/ Awaited(r)
  /\ steps'[r] = steps[r]
  /\ evidence'[r] = evidence[r]
  /\ Counted(r, 0, 0)

(* The run is settled by somebody: its running steps end with it.           *)
TraceClosed(r) ==
  /\ run[r].status \in {"queued", "running"}
  /\ steps'[r] = Closed(steps[r], DoomedStatus(r))
  /\ evidence'[r] = evidence[r]
  /\ run'[r].status = DoomedStatus(r)
  /\ Counted(r, 0, 0)

(* What a worker must find before it writes to a trace.                     *)
Allowed(r) ==
  /\ Open(r)
  /\ HasMembership(r)
  /\ \E n \in Stamps : n < run[r].deadlineAt /\ n < run[r].leaseExpiresAt

StepResumed(r) ==
  /\ Allowed(r)
  /\ SameStatus(r)
  /\ \E i \in Running(r) : steps'[r] = [steps[r] EXCEPT ![i].executions = @ + 1]
  /\ evidence'[r] = evidence[r]
  /\ Counted(r, 0, 0)

StepStarted(r) ==
  /\ Allowed(r)
  /\ SameStatus(r)
  /\ Running(r) = {}
  /\ run[r].toolCallCount < MaxToolCalls
  /\ steps'[r] = Append(steps[r], Step("tool_call", "running"))
  /\ evidence'[r] = evidence[r]
  /\ Counted(r, 1, 1)

StepObserved(r) ==
  /\ Allowed(r)
  /\ run'[r] = run[r]
  /\ \E i \in Running(r), count \in 0 .. MaxEvidence :
       /\ steps[r][i].kind = "tool_call"
       /\ Len(evidence[r]) + count <= MaxEvidence
       /\ steps'[r] = [steps[r] EXCEPT ![i].status = "completed"]
       /\ evidence'[r] = evidence[r] \o [j \in 1 .. count |-> [step |-> i, finalOrdinal |-> 0]]
  /\ Counted(r, 0, 0)

StepFailed(r) ==
  /\ Allowed(r)
  /\ run'[r] = run[r]
  /\ \E i \in Running(r) : steps'[r] = [steps[r] EXCEPT ![i].status = "failed"]
  /\ evidence'[r] = evidence[r]
  /\ Counted(r, 0, 0)

AnswerPublished(r) ==
  /\ Allowed(r)
  /\ Running(r) = {}
  /\ steps'[r] = Append(steps[r], Step("final_answer", "completed"))
  /\ \E cited \in Citations :
       /\ \A i \in DOMAIN cited : cited[i] \in DOMAIN evidence[r]
       /\ evidence'[r] = [key \in DOMAIN evidence[r] |->
                            [evidence[r][key] EXCEPT !.finalOrdinal = Ordinal(cited, key)]]
       /\ run'[r].finalStatus = IF cited = << >> THEN "insufficient_context" ELSE "answered"
  /\ run'[r].status = "completed"
  /\ Counted(r, 1, 0)

DecisionFailed(r) ==
  /\ Allowed(r)
  /\ steps'[r] = Closed(steps[r], "failed") \o <<Step("decision_error", "failed")>>
  /\ evidence'[r] = evidence[r]
  /\ run'[r].status = "failed"
  /\ Counted(r, 1, 0)

TraceChange(r) ==
  \/ TraceKept(r) \/ TraceClosed(r) \/ StepResumed(r) \/ StepStarted(r)
  \/ StepObserved(r) \/ StepFailed(r) \/ AnswerPublished(r) \/ DecisionFailed(r)

-----------------------------------------------------------------------------
(* Every step of the store changes every trace by a TraceChange.            *)

LEMMA KeptCounts ==
  ASSUME TypeOK, NEW r \in RunId, run'[r] = run[r]
  PROVE  Counted(r, 0, 0) /\ SameStatus(r)
<1>1. run[r].stepCount \in Nat /\ run[r].toolCallCount \in Nat
  BY DEF TypeOK, RunRow
<1>. QED
  BY <1>1 DEF Counted, SameStatus

LEMMA WritableAllowed ==
  ASSUME TypeOK, NEW f \in Fence, NEW n \in Stamps, Holds(f), Writable(f.run, n)
  PROVE  Allowed(f.run)
<1>1. f.run \in RunId /\ n \in Int
  BY DEF Fence, Stamps
<1>2. run[f.run].deadlineAt \in Int /\ run[f.run].leaseExpiresAt \in Int
  BY <1>1 DEF TypeOK, RunRow, NoTime
<1>3. Open(f.run) /\ HasMembership(f.run)
  BY DEF Open, Holds, Writable, WriteGuard
<1>4. n < run[f.run].deadlineAt
  BY <1>1, <1>2 DEF Writable, WriteGuard
<1>5. n < run[f.run].leaseExpiresAt
  BY <1>1, <1>2 DEF Writable, LeaseExpired
<1>. QED
  BY <1>3, <1>4, <1>5 DEF Allowed

(* Settling a running run, by the guard or by a request.                    *)
LEMMA SettleTrace ==
  ASSUME TypeOK, NEW q \in RunId, run[q].status = "running", NEW code,
         Settle(q, DoomedStatus(q), code), NEW r \in RunId
  PROVE  TraceChange(r)
<1>1. CASE r # q
  BY <1>1, KeptCounts DEF Settle, TypeOK, TraceChange, TraceKept
<1>2. CASE r = q
  <2>1. run'[r] = Finished(run[r], DoomedStatus(r), code)
    BY <1>2 DEF Settle, TypeOK
  <2>2. run[r] \in RunRow
    BY DEF TypeOK
  <2>3. /\ run'[r].status = DoomedStatus(r)
        /\ run'[r].stepCount = run[r].stepCount /\ run'[r].toolCallCount = run[r].toolCallCount
    BY <2>1, <2>2, FinishedColumns
  <2>4. Counted(r, 0, 0)
    BY <2>2, <2>3 DEF Counted, RunRow
  <2>5. steps'[r] = Closed(steps[r], DoomedStatus(r)) /\ evidence'[r] = evidence[r]
    BY <1>2 DEF Settle, TypeOK
  <2>. QED
    BY <1>2, <2>3, <2>4, <2>5 DEF TraceChange, TraceClosed
<1>. QED
  BY <1>1, <1>2

LEMMA GuardTrace ==
  ASSUME TypeOK, NEW f \in Fence, Holds(f), NEW n,
         SettleCancelled(f.run, n) \/ SettleFailed(f.run, n), NEW r \in RunId
  PROVE  TraceChange(r)
<1>1. f.run \in RunId /\ run[f.run].status = "running"
  BY DEF Fence, Holds
<1>2. CASE SettleCancelled(f.run, n)
  <2>1. DoomedStatus(f.run) = "cancelled"
    BY <1>2 DEF SettleCancelled, WriteGuard, DoomedStatus, HasMembership
  <2>. QED
    BY <1>1, <1>2, <2>1, SettleTrace DEF SettleCancelled
<1>3. CASE SettleFailed(f.run, n)
  <2>1. DoomedStatus(f.run) = "failed"
    BY <1>3 DEF SettleFailed, WriteGuard, DoomedStatus
  <2>. QED
    BY <1>1, <1>3, <2>1, SettleTrace DEF SettleFailed
<1>. QED
  BY <1>2, <1>3

LEMMA CommandTrace ==
  ASSUME TypeOK, RowInv, NEW n \in Nat, Commands(n), NEW r \in RunId
  PROVE  TraceChange(r)
<1>1. UNCHANGED <<steps, evidence>>
  BY DEF Commands, CreateTaskWithInitialRun, CreateRetryRun, CancelRun
<1>2. run[r] \in RunRow
  BY DEF TypeOK
<1>3. Counted(r, 0, 0) /\ (SameStatus(r) \/ Awaited(r))
  <2>1. CASE run'[r] = run[r]
    BY <2>1, KeptCounts
  <2>2. CASE Created(r)
    <3>1. run[r] = AbsentRun
      BY <2>2 DEF Created, RowInv, RowChecks, StatusColumns
    <3>2. run[r].stepCount = 0 /\ run[r].toolCallCount = 0
      BY <3>1 DEF AbsentRun
    <3>3. /\ run'[r].stepCount = 0 /\ run'[r].toolCallCount = 0
          /\ run'[r].status = "queued"
      BY <2>2, QueuedColumns DEF Created
    <3>. QED
      BY <2>2, <3>2, <3>3 DEF Created, Counted, Awaited
  <2>3. CASE CancelAsked(r)
    <3>1. /\ run'[r].stepCount = run[r].stepCount
          /\ run'[r].toolCallCount = run[r].toolCallCount
      BY <1>2, <2>3 DEF CancelAsked, RunRow
    <3>2. SameStatus(r) \/ Awaited(r)
      BY <1>2, <2>3 DEF CancelAsked, RunRow, SameStatus, Awaited
    <3>. QED
      BY <1>2, <3>1, <3>2 DEF Counted, RunRow
  <2>. QED
    BY <2>1, <2>2, <2>3, CommandRows DEF CommandStep
<1>. QED
  BY <1>1, <1>3 DEF TraceChange, TraceKept

LEMMA ClaimTrace ==
  ASSUME TypeOK, NEW n \in Stamps, NEW w \in Workers, ClaimRun(w, n), NEW r \in RunId
  PROVE  TraceChange(r)
<1>1. PICK taken, buried \in SUBSET Eligible(n) :
        /\ \A s \in taken : ~Doomed(s, n)
        /\ \A s \in buried : Doomed(s, n)
        /\ \A s, t \in taken : s = t
        /\ HandOut(w, n, taken, buried)
  BY ClaimCases
<1>2. run[r] \in RunRow /\ n \in Nat
  BY StampsType DEF TypeOK
<1>3. evidence'[r] = evidence[r]
  BY <1>1 DEF HandOut
<1>4. CASE r \in buried
  <2>1. r \notin taken
    BY <1>1, <1>4
  <2>2. run'[r] = Buried(r, n) /\ steps'[r] = Closed(steps[r], DoomedStatus(r))
    BY <1>1, <1>4, <2>1 DEF HandOut
  <2>3. run'[r].status = DoomedStatus(r) /\ Counted(r, 0, 0)
    BY <1>2, <2>2, BuriedColumns DEF Counted, RunRow
  <2>4. run[r].status \in {"queued", "running"}
    BY <1>4 DEF Eligible
  <2>. QED
    BY <1>3, <2>2, <2>3, <2>4 DEF TraceChange, TraceClosed
<1>5. CASE r \notin buried
  <2>1. steps'[r] = steps[r]
    BY <1>1, <1>5 DEF HandOut
  <2>2. CASE r \in taken
    <3>1. run'[r] = Leased(r, w, n)
      BY <1>1, <2>2 DEF HandOut
    <3>2. Counted(r, 0, 0)
      BY <1>2, <3>1, LeasedColumns DEF Counted, RunRow
    <3>3. SameStatus(r) \/ Awaited(r)
      BY <2>2, <3>1, LeasedColumns DEF Eligible, SameStatus, Awaited
    <3>. QED
      BY <1>3, <2>1, <3>2, <3>3 DEF TraceChange, TraceKept
  <2>3. CASE r \notin taken
    BY <1>1, <1>3, <1>5, <2>1, <2>3, KeptCounts DEF HandOut, TraceChange, TraceKept
  <2>. QED
    BY <2>2, <2>3
<1>. QED
  BY <1>4, <1>5

LEMMA WorkerTrace ==
  ASSUME TypeOK, NEW f \in Fence, NEW n \in Stamps, WorkerWrite(f, n), NEW r \in RunId
  PROVE  TraceChange(r)
<1>0. run[r] \in RunRow /\ steps[r] \in Seq(StepRow) /\ f.run \in RunId
  BY DEF TypeOK, Fence
<1>1. CASE r # f.run
  BY <1>1, KeptCounts, WorkerWriteLocal DEF TraceChange, TraceKept
<1>2. CASE SettleCancelled(f.run, n) \/ SettleFailed(f.run, n)
  BY <1>2, WriterHolds, GuardTrace
<1>3. Writable(f.run, n) => Allowed(f.run)
  BY WriterHolds, WritableAllowed
<1>. SUFFICES ASSUME r = f.run, ~SettleCancelled(r, n), ~SettleFailed(r, n)
              PROVE  TraceChange(r)
  BY <1>1, <1>2
<1>4. CASE HeartbeatLease(f, n)
  <2>1. /\ UNCHANGED <<steps, evidence>>
        /\ run'[r] = [run[r] EXCEPT !.leaseExpiresAt = LeaseExpiry(n, run[r].deadlineAt)]
    BY <1>4 DEF HeartbeatLease, TypeOK
  <2>2. /\ run'[r].stepCount = run[r].stepCount /\ run'[r].toolCallCount = run[r].toolCallCount
        /\ SameStatus(r)
    BY <1>0, <2>1 DEF RunRow, SameStatus
  <2>. QED
    BY <1>0, <2>1, <2>2 DEF Counted, RunRow, TraceChange, TraceKept
<1>5. CASE ReserveStep(f, n)
  <2>1. Writable(r, n)
    BY <1>5 DEF ReserveStep
  <2>2. CASE ResumeStep(r)
    <3>1. PICK i \in Running(r) :
            steps' = [steps EXCEPT ![r] = [steps[r] EXCEPT ![i].executions = @ + 1]]
      BY <2>2 DEF ResumeStep
    <3>2. evidence'[r] = evidence[r] /\ Counted(r, 0, 0) /\ SameStatus(r)
      BY <2>2, KeptCounts DEF ResumeStep
    <3>. QED
      BY <1>0, <1>3, <2>1, <3>1, <3>2 DEF TypeOK, TraceChange, StepResumed
  <2>3. CASE StartStep(r)
    <3>1. run'[r] = [run[r] EXCEPT !.stepCount = run[r].stepCount + 1,
                                   !.toolCallCount = run[r].toolCallCount + 1]
      BY <2>3 DEF StartStep, TypeOK
    <3>2. Counted(r, 1, 1) /\ SameStatus(r)
      BY <1>0, <3>1 DEF Counted, RunRow, SameStatus
    <3>. QED
      BY <1>3, <2>1, <2>3, <3>2 DEF TypeOK, StartStep, TraceChange, StepStarted
  <2>. QED
    BY <1>5, <2>2, <2>3 DEF ReserveStep
<1>6. CASE \E i \in 1 .. MaxSteps, count \in 0 .. MaxEvidence :
             CompleteToolStepWithEvidence(f, i, count, n)
  <2>1. PICK i \in 1 .. MaxSteps, count \in 0 .. MaxEvidence :
          CompleteToolStepWithEvidence(f, i, count, n)
    BY <1>6
  <2>2. /\ Writable(r, n) /\ i \in Running(r) /\ steps[r][i].kind = "tool_call"
        /\ Len(evidence[r]) + count <= MaxEvidence /\ UNCHANGED run
        /\ steps' = [steps EXCEPT ![r] = [steps[r] EXCEPT ![i].status = "completed"]]
        /\ evidence' = [evidence EXCEPT ![r] =
             evidence[r] \o [j \in 1 .. count |-> [step |-> i, finalOrdinal |-> 0]]]
    BY <2>1 DEF CompleteToolStepWithEvidence
  <2>3. Counted(r, 0, 0) /\ SameStatus(r)
    BY <2>2, KeptCounts
  <2>. QED
    BY <1>3, <2>2, <2>3 DEF TypeOK, TraceChange, StepObserved
<1>7. CASE \E i \in 1 .. MaxSteps : FailStep(f, i, n)
  <2>1. PICK i \in 1 .. MaxSteps : FailStep(f, i, n)
    BY <1>7
  <2>2. /\ Writable(r, n) /\ i \in Running(r) /\ UNCHANGED <<run, evidence>>
        /\ steps' = [steps EXCEPT ![r] = [steps[r] EXCEPT ![i].status = "failed"]]
    BY <2>1 DEF FailStep
  <2>3. Counted(r, 0, 0) /\ SameStatus(r)
    BY <2>2, KeptCounts
  <2>. QED
    BY <1>3, <2>2, <2>3 DEF TypeOK, TraceChange, StepFailed
<1>8. CASE \E cited \in Citations : CompleteRun(f, cited, n)
  <2>1. PICK cited \in Citations : CompleteRun(f, cited, n)
    BY <1>8
  <2>2. Writable(r, n) /\ PublishFinal(r, cited)
    BY <2>1 DEF CompleteRun
  <2>. DEFINE fin == Finished(run[r], "completed", None)
              fs == IF cited = << >> THEN "insufficient_context" ELSE "answered"
  <2>3. run'[r] = [fin EXCEPT !.stepCount = fin.stepCount + 1, !.finalStatus = fs]
    BY <2>2 DEF PublishFinal, TypeOK
  <2>4. fin \in RunRow
    BY <1>0, FinishedType DEF Terminal
  <2>5. /\ fin.status = "completed"
        /\ fin.stepCount = run[r].stepCount /\ fin.toolCallCount = run[r].toolCallCount
    BY <1>0, FinishedColumns
  <2>. HIDE DEF fin
  <2>6. run'[r].status = "completed" /\ run'[r].finalStatus = fs /\ Counted(r, 1, 0)
    BY <1>0, <2>3, <2>4, <2>5 DEF Counted, RunRow
  <2>7. \A i \in DOMAIN cited : cited[i] \in DOMAIN evidence[r]
    BY <2>2 DEF PublishFinal, CitedByCompletedTool
  <2>8. /\ Running(r) = {}
        /\ steps'[r] = Append(steps[r], Step("final_answer", "completed"))
        /\ evidence'[r] = [key \in DOMAIN evidence[r] |->
                             [evidence[r][key] EXCEPT !.finalOrdinal = Ordinal(cited, key)]]
    BY <2>2 DEF TypeOK, PublishFinal
  <2>9. AnswerPublished(r)
    BY <1>3, <2>2, <2>6, <2>7, <2>8 DEF AnswerPublished
  <2>. QED
    BY <2>9 DEF TraceChange
<1>9. CASE \E code \in ErrorCode, decisionError \in BOOLEAN :
             FailRun(f, code, decisionError, n)
  <2>1. PICK code \in ErrorCode, decisionError \in BOOLEAN :
          FailRun(f, code, decisionError, n)
    BY <1>9
  <2>2. Writable(r, n) /\ FailWith(r, code, decisionError)
    BY <2>1 DEF FailRun
  <2>. DEFINE fin == Finished(run[r], "failed", code)
  <2>3. fin \in RunRow
    BY <1>0, FinishedType DEF Terminal
  <2>4. /\ fin.status = "failed"
        /\ fin.stepCount = run[r].stepCount /\ fin.toolCallCount = run[r].toolCallCount
    BY <1>0, FinishedColumns
  <2>5. run'[r] = [fin EXCEPT !.stepCount = IF decisionError THEN fin.stepCount + 1
                                            ELSE fin.stepCount]
    BY <2>2 DEF FailWith, TypeOK
  <2>. HIDE DEF fin
  <2>6. CASE decisionError
    <3>1. run'[r].status = "failed" /\ Counted(r, 1, 0)
      BY <1>0, <2>3, <2>4, <2>5, <2>6 DEF Counted, RunRow
    <3>. QED
      BY <1>3, <2>2, <2>6, <3>1 DEF TypeOK, FailWith, TraceChange, DecisionFailed
  <2>7. CASE ~decisionError
    <3>1. run'[r].status = "failed" /\ Counted(r, 0, 0)
      BY <1>0, <2>3, <2>4, <2>5, <2>7 DEF Counted, RunRow
    <3>2. /\ steps' = [steps EXCEPT ![r] = Closed(steps[r], "failed") \o << >>]
          /\ evidence' = evidence
      BY <2>2, <2>7 DEF FailWith
    <3>3. Closed(steps[r], "failed") \in Seq(StepRow)
      BY <1>0, ClosedType
    <3>4. steps'[r] = Closed(steps[r], "failed")
      BY <3>2, <3>3 DEF TypeOK
    <3>5. run[r].status = "running" /\ DoomedStatus(r) = "failed"
      BY <1>3, <2>2 DEF Allowed, Open, DoomedStatus
    <3>. QED
      BY <3>1, <3>2, <3>4, <3>5 DEF TraceChange, TraceClosed
  <2>. QED
    BY <2>6, <2>7
<1>10. CASE MarkCancelled(f)
  <2>1. /\ run[r].status = "running" /\ DoomedStatus(r) = "cancelled"
        /\ Settle(r, "cancelled", None)
    BY <1>10 DEF MarkCancelled, Holds, DoomedStatus
  <2>. QED
    BY <2>1, SettleTrace
<1>. QED
  BY <1>4, <1>5, <1>6, <1>7, <1>8, <1>9, <1>10 DEF WorkerWrite

LEMMA TraceSteps ==
  TypeOK /\ RowInv /\ [Next]_vars => \A r \in RunId : TraceChange(r)
<1> SUFFICES ASSUME TypeOK, RowInv, [Next]_vars, NEW r \in RunId PROVE TraceChange(r)
  OBVIOUS
<1>1. CASE Membership \/ Tick \/ UNCHANGED vars
  BY <1>1, KeptCounts
     DEF Membership, AddMember, RemoveMember, Tick, vars, TraceChange, TraceKept
<1>2. claims \subseteq Fence
  BY DEF TypeOK
<1>. QED
  BY <1>1, <1>2, StampsType, CommandTrace, ClaimTrace, WorkerTrace DEF Next

-----------------------------------------------------------------------------
(* The trace is a log.                                                      *)

Updates(r) ==
  TraceKept(r) \/ TraceClosed(r) \/ StepResumed(r) \/ StepObserved(r) \/ StepFailed(r)

Grows(r) == StepStarted(r) \/ AnswerPublished(r) \/ DecisionFailed(r)

(* Only a running step is changed, and its kind never is.                   *)
LEMMA SameLength ==
  ASSUME TypeOK, NEW r \in RunId, Updates(r)
  PROVE  /\ Len(steps'[r]) = Len(steps[r]) /\ DOMAIN steps'[r] = DOMAIN steps[r]
         /\ \A i \in DOMAIN steps[r] :
              /\ steps'[r][i].kind = steps[r][i].kind
              /\ steps'[r][i].executions >= steps[r][i].executions
         /\ \A i \in DOMAIN steps[r] : i \notin Running(r) => steps'[r][i] = steps[r][i]
<1>. DEFINE s == steps[r]
            Closes(trace) ==
              /\ trace \in Seq(StepRow) /\ Len(trace) = Len(s)
              /\ \A i \in DOMAIN s :
                   trace[i].kind = s[i].kind /\ trace[i].executions >= s[i].executions
              /\ \A i \in DOMAIN s : i \notin Running(r) => trace[i] = s[i]
<1>1. s \in Seq(StepRow) /\ Len(s) \in Nat /\ DOMAIN s = 1 .. Len(s)
  BY LenProperties DEF TypeOK
<1>2. \A i \in DOMAIN s : s[i] \in StepRow
  BY <1>1, LenProperties
<1>3. ASSUME NEW status \in {"failed", "cancelled"} PROVE Closes(Closed(s, status))
  <2>1. Closed(s, status) \in Seq(StepRow) /\ Len(Closed(s, status)) = Len(s)
    BY <1>1, ClosedType
  <2>. QED
    BY <1>2, <2>1 DEF Closed, Running, StepRow
<1>5. CASE TraceKept(r)
  BY <1>1, <1>2, <1>5 DEF TraceKept, StepRow
<1>6. CASE TraceClosed(r)
  <2>1. steps'[r] = Closed(s, DoomedStatus(r)) /\ DoomedStatus(r) \in {"failed", "cancelled"}
    BY <1>6 DEF TraceClosed, DoomedStatus
  <2>2. Closes(steps'[r])
    BY <1>3, <2>1
  <2>. QED
    BY <1>1, <2>2, LenProperties
<1>7. CASE StepResumed(r) \/ StepObserved(r) \/ StepFailed(r)
  <2>1. PICK i \in Running(r) :
          \/ steps'[r] = [s EXCEPT ![i].executions = @ + 1]
          \/ \E status \in {"completed", "failed"} : steps'[r] = [s EXCEPT ![i].status = status]
    BY <1>7 DEF StepResumed, StepObserved, StepFailed
  <2>2. i \in DOMAIN s
    BY DEF Running
  <2>3. PICK e \in StepRow :
          /\ steps'[r] = [s EXCEPT ![i] = e]
          /\ e.kind = s[i].kind /\ e.executions >= s[i].executions
    <3>1. CASE steps'[r] = [s EXCEPT ![i].executions = @ + 1]
      <4>. DEFINE e == [s[i] EXCEPT !.executions = s[i].executions + 1]
      <4>1. e \in StepRow /\ e.kind = s[i].kind /\ e.executions >= s[i].executions
        BY <1>2, <2>2 DEF StepRow
      <4>. QED
        BY <3>1, <4>1
    <3>2. ASSUME NEW status \in {"completed", "failed"},
                 steps'[r] = [s EXCEPT ![i].status = status]
          PROVE  \E e \in StepRow :
                   /\ steps'[r] = [s EXCEPT ![i] = e]
                   /\ e.kind = s[i].kind /\ e.executions >= s[i].executions
      <4>. DEFINE e == [s[i] EXCEPT !.status = status]
      <4>1. e \in StepRow /\ e.kind = s[i].kind /\ e.executions >= s[i].executions
        BY <1>2, <2>2 DEF StepRow
      <4>. QED
        BY <3>2, <4>1
    <3>. QED
      BY <2>1, <3>1, <3>2
  <2>4. Len(steps'[r]) = Len(s) /\ DOMAIN steps'[r] = DOMAIN s
    BY <1>1, <2>2, <2>3, ExceptType
  <2>5. \A j \in DOMAIN s : steps'[r][j] = IF j = i THEN e ELSE s[j]
    BY <2>2, <2>3
  <2>6. \A j \in DOMAIN s : s[j].executions \in Nat
    BY <1>2 DEF StepRow
  <2>. QED
    BY <2>3, <2>4, <2>5, <2>6
<1>. QED
  BY <1>5, <1>6, <1>7 DEF Updates

(* A step is added: nothing else is left running.                           *)
LEMMA OneLonger ==
  ASSUME TypeOK, NEW r \in RunId, Grows(r)
  PROVE  /\ Len(steps'[r]) = Len(steps[r]) + 1
         /\ DOMAIN steps'[r] = DOMAIN steps[r] \cup {Len(steps[r]) + 1}
         /\ \A i \in DOMAIN steps[r] :
              /\ steps'[r][i].kind = steps[r][i].kind /\ steps'[r][i].status # "running"
              /\ steps'[r][i].executions >= steps[r][i].executions
         /\ \A i \in DOMAIN steps[r] : i \notin Running(r) => steps'[r][i] = steps[r][i]
         /\ steps'[r][Len(steps[r]) + 1] \in
              {Step("tool_call", "running"), Step("final_answer", "completed"),
               Step("decision_error", "failed")}
<1>. DEFINE s == steps[r]
            New == {Step("tool_call", "running"), Step("final_answer", "completed"),
                    Step("decision_error", "failed")}
            Still(trace) ==
              /\ trace \in Seq(StepRow) /\ Len(trace) = Len(s)
              /\ \A i \in DOMAIN s :
                   /\ trace[i].kind = s[i].kind /\ trace[i].status # "running"
                   /\ trace[i].executions >= s[i].executions
              /\ \A i \in DOMAIN s : i \notin Running(r) => trace[i] = s[i]
<1>1. s \in Seq(StepRow) /\ Len(s) \in Nat /\ DOMAIN s = 1 .. Len(s)
  BY LenProperties DEF TypeOK
<1>2. \A i \in DOMAIN s : s[i] \in StepRow
  BY <1>1, LenProperties
<1>3. PICK trace : Still(trace) /\ \E x \in New : steps'[r] = Append(trace, x)
  <2>1. CASE StepStarted(r) \/ AnswerPublished(r)
    <3>1. Running(r) = {} /\ \E x \in New : steps'[r] = Append(s, x)
      BY <2>1 DEF StepStarted, AnswerPublished
    <3>2. Still(s)
      BY <1>1, <1>2, <3>1 DEF Running, StepRow
    <3>. HIDE DEF Still, New
    <3>. QED
      BY <3>1, <3>2
  <2>2. CASE DecisionFailed(r)
    <3>1. Closed(s, "failed") \in Seq(StepRow) /\ Len(Closed(s, "failed")) = Len(s)
      BY <1>1, ClosedType
    <3>2. Still(Closed(s, "failed"))
      BY <1>2, <3>1 DEF Closed, Running, StepRow
    <3>3. steps'[r] = Append(Closed(s, "failed"), Step("decision_error", "failed"))
      BY <2>2, <3>1 DEF DecisionFailed
    <3>. HIDE DEF Still
    <3>. QED
      BY <3>2, <3>3
  <2>. QED
    BY <2>1, <2>2 DEF Grows
<1>. QED
  BY <1>1, <1>3

LEMMA KeptEntries ==
  ASSUME TypeOK, NEW r \in RunId, TraceChange(r)
  PROVE  /\ Len(steps'[r]) \in {Len(steps[r]), Len(steps[r]) + 1}
         /\ DOMAIN steps[r] \subseteq DOMAIN steps'[r]
         /\ \A i \in DOMAIN steps[r] : steps'[r][i].kind = steps[r][i].kind
         /\ \A i \in DOMAIN steps[r] : i \notin Running(r) => steps'[r][i] = steps[r][i]
<1>1. Updates(r) \/ Grows(r)
  BY DEF TraceChange, Updates, Grows
<1>2. CASE Updates(r)
  BY <1>2, SameLength
<1>3. CASE Grows(r)
  BY <1>3, OneLonger
<1>. QED
  BY <1>1, <1>2, <1>3

LEMMA KeptEvidence ==
  ASSUME TypeOK, TypeOK', NEW r \in RunId, TraceChange(r)
  PROVE  /\ Len(evidence[r]) <= Len(evidence'[r])
         /\ \A key \in DOMAIN evidence[r] : evidence'[r][key].step = evidence[r][key].step
<1>1. evidence[r] \in Seq(EvidenceRow) /\ evidence'[r] \in Seq(EvidenceRow)
  BY DEF TypeOK
<1>2. /\ Len(evidence[r]) \in Nat /\ DOMAIN evidence[r] = 1 .. Len(evidence[r])
      /\ Len(evidence'[r]) \in Nat /\ DOMAIN evidence'[r] = 1 .. Len(evidence'[r])
  BY <1>1, LenProperties
<1>3. CASE evidence'[r] = evidence[r]
  BY <1>2, <1>3
<1>4. CASE StepObserved(r)
  <2>1. PICK i \in Running(r), count \in 0 .. MaxEvidence :
          evidence'[r] = evidence[r] \o [j \in 1 .. count |-> [step |-> i, finalOrdinal |-> 0]]
    BY <1>4 DEF StepObserved
  <2>. DEFINE more == [j \in 1 .. count |-> [step |-> i, finalOrdinal |-> 0]]
  <2>2. i \in Nat
    <3>1. steps[r] \in Seq(StepRow)
      BY DEF TypeOK
    <3>. QED
      BY <3>1, LenProperties DEF Running
  <2>3. more \in Seq(EvidenceRow) /\ Len(more) \in Nat
    <3>1. more \in [1 .. count -> EvidenceRow] /\ count \in Nat
      BY <2>2, StoreAssumption DEF EvidenceRow
    <3>. QED
      BY <3>1, FunctionIsSeq
  <2>. HIDE DEF more
  <2>. QED
    BY <1>1, <1>2, <2>1, <2>3 DEF more
<1>5. CASE AnswerPublished(r)
  <2>1. PICK cited \in Citations :
          evidence'[r] = [key \in DOMAIN evidence[r] |->
                            [evidence[r][key] EXCEPT !.finalOrdinal = Ordinal(cited, key)]]
    BY <1>5 DEF AnswerPublished
  <2>2. \A key \in DOMAIN evidence[r] : evidence[r][key] \in EvidenceRow
    BY <1>1, LenProperties
  <2>3. \A key \in DOMAIN evidence[r] : evidence'[r][key].step = evidence[r][key].step
    BY <2>1, <2>2 DEF EvidenceRow
  <2>4. 1 .. Len(evidence'[r]) = 1 .. Len(evidence[r])
    BY <1>2, <2>1
  <2>. QED
    BY <1>2, <2>3, <2>4
<1>. QED
  BY <1>3, <1>4, <1>5
     DEF TraceChange, TraceKept, TraceClosed, StepResumed, StepStarted, StepFailed, DecisionFailed

(* Steps and evidence are only ever added: a worker that rebuilds its       *)
(* context from an earlier state of the trace has lost nothing.             *)
THEOREM TraceAppendOnlyHolds == Spec => TraceAppendOnly
<1>1. ASSUME TypeOK, TypeOK', RowInv, [Next]_vars, NEW r \in RunId
      PROVE  /\ Len(steps[r]) <= Len(steps'[r])
             /\ \A i \in DOMAIN steps[r] : i \notin Running(r) => steps'[r][i] = steps[r][i]
             /\ Len(evidence[r]) <= Len(evidence'[r])
             /\ \A key \in DOMAIN evidence[r] : evidence'[r][key].step = evidence[r][key].step
  <2>1. TraceChange(r)
    BY <1>1, TraceSteps
  <2>2. Len(steps[r]) \in Nat
    BY <1>1, LenProperties DEF TypeOK
  <2>. QED
    BY <1>1, <2>1, <2>2, KeptEntries, KeptEvidence
<1>2. TypeOK /\ TypeOK' /\ RowInv /\ [Next]_vars =>
        [\A r \in RunId :
           /\ Len(steps[r]) <= Len(steps'[r])
           /\ \A i \in DOMAIN steps[r] : i \notin Running(r) => steps'[r][i] = steps[r][i]
           /\ Len(evidence[r]) <= Len(evidence'[r])
           /\ \A key \in DOMAIN evidence[r] :
                evidence'[r][key].step = evidence[r][key].step]_vars
  BY <1>1
<1>. QED
  BY <1>2, TypeCorrect, RowInvCorrect, PTL DEF Spec, TraceAppendOnly

-----------------------------------------------------------------------------
(* Cancellation and authorisation.                                          *)

LEMMA CancelledRow ==
  ASSUME TypeOK, NEW r \in RunId, run[r].cancelRequested, RowInv, RowStep(r)
  PROVE  run'[r].cancelRequested /\ run'[r].status \in {run[r].status, "cancelled"}
<1>. run[r] \in RunRow
  BY DEF TypeOK
<1>1. ~Created(r)
  <2>1. Created(r) => run[r] = AbsentRun
    BY DEF Created, RowInv, RowChecks, StatusColumns
  <2>2. ~AbsentRun.cancelRequested
    BY DEF AbsentRun
  <2>. QED
    BY <2>1, <2>2
<1>2. CASE CancelAsked(r)
  <2>1. run'[r].cancelRequested = TRUE
    BY <1>2 DEF CancelAsked, RunRow
  <2>2. CASE run'[r] = [run[r] EXCEPT !.status = "cancelled", !.cancelRequested = TRUE]
    <3>1. run'[r].status = "cancelled"
      BY <2>2 DEF RunRow
    <3>. QED
      BY <2>1, <3>1
  <2>3. CASE run'[r] = [run[r] EXCEPT !.cancelRequested = TRUE]
    <3>1. run'[r].status = run[r].status
      BY <2>3 DEF RunRow
    <3>. QED
      BY <2>1, <3>1
  <2>. QED
    BY <1>2, <2>2, <2>3 DEF CancelAsked
<1>3. ~Granted(r)
  BY DEF Granted, Doomed
<1>4. CASE Discarded(r)
  BY <1>4, BuriedColumns, StampsType DEF Discarded, DoomedStatus
<1>5. CASE Settled(r)
  BY <1>5, FinishedColumns DEF Settled
<1>6. ~Open(r)
  BY DEF Open
<1>. QED
  BY <1>1, <1>2, <1>3, <1>4, <1>5, <1>6
     DEF RowStep, CommandStep, Renewed, Started, Answered, GaveUp

LEMMA CancelledTrace ==
  ASSUME TypeOK, NEW r \in RunId, run[r].cancelRequested, TraceChange(r)
  PROVE  /\ evidence'[r] = evidence[r]
         /\ Len(steps'[r]) = Len(steps[r])
         /\ \A i \in Running(r) : steps'[r][i].status \in {"running", "cancelled"}
<1>0. steps[r] \in Seq(StepRow) /\ \A i \in DOMAIN steps[r] : steps[r][i] \in StepRow
  BY LenProperties DEF TypeOK
<1>1. CASE TraceKept(r)
  BY <1>1 DEF TraceKept, Running
<1>2. CASE TraceClosed(r)
  <2>1. steps'[r] = Closed(steps[r], "cancelled") /\ evidence'[r] = evidence[r]
    BY <1>2 DEF TraceClosed, DoomedStatus
  <2>2. Len(steps'[r]) = Len(steps[r])
    BY <1>0, <2>1, ClosedType
  <2>3. \A i \in Running(r) : steps'[r][i].status = "cancelled"
    BY <1>0, <2>1 DEF Closed, Running, StepRow
  <2>. QED
    BY <2>1, <2>2, <2>3
<1>3. ~Allowed(r)
  BY DEF Allowed, Open
<1>. QED
  BY <1>1, <1>2, <1>3 DEF TraceChange, StepResumed, StepStarted, StepObserved, StepFailed,
                          AnswerPublished, DecisionFailed

(* After a cancellation request nothing is published, whatever the worker   *)
(* that has not noticed it sends.                                           *)
THEOREM CancelFreezesTraceHolds == Spec => CancelFreezesTrace
<1>1. ASSUME TypeOK, RowInv, [Next]_vars, NEW r \in RunId, run[r].cancelRequested
      PROVE  /\ run'[r].cancelRequested
             /\ run'[r].status \in {run[r].status, "cancelled"}
             /\ evidence'[r] = evidence[r]
             /\ Len(steps'[r]) = Len(steps[r])
             /\ \A i \in Running(r) : steps'[r][i].status \in {"running", "cancelled"}
  BY <1>1, RowSteps, CancelledRow, TraceSteps, CancelledTrace
<1>2. TypeOK /\ RowInv /\ [Next]_vars =>
        [\A r \in RunId : run[r].cancelRequested =>
           /\ run'[r].cancelRequested
           /\ run'[r].status \in {run[r].status, "cancelled"}
           /\ evidence'[r] = evidence[r]
           /\ Len(steps'[r]) = Len(steps[r])
           /\ \A i \in Running(r) : steps'[r][i].status \in {"running", "cancelled"}]_vars
  BY <1>1
<1>. QED
  BY <1>2, TypeCorrect, RowInvCorrect, PTL DEF Spec, CancelFreezesTrace

LEMMA PublishingStep ==
  ASSUME TypeOK, NEW r \in RunId, TraceChange(r), Published(r)' # Published(r)
  PROVE  Allowed(r)
<1>1. steps[r] \in Seq(StepRow) /\ \A i \in DOMAIN steps[r] : steps[r][i] \in StepRow
  BY LenProperties DEF TypeOK
<1>2. ~TraceKept(r)
  BY DEF TraceKept, Published
<1>3. ~TraceClosed(r)
  <2>1. SUFFICES ASSUME TraceClosed(r) PROVE FALSE
    OBVIOUS
  <2>2. steps'[r] = Closed(steps[r], DoomedStatus(r)) /\ DoomedStatus(r) # "completed"
    BY <2>1 DEF TraceClosed, DoomedStatus
  <2>3. DOMAIN steps'[r] = DOMAIN steps[r]
    BY <2>2 DEF Closed
  <2>4. \A i \in DOMAIN steps[r] :
          steps'[r][i].status = "completed" <=> steps[r][i].status = "completed"
    BY <1>1, <2>2 DEF Closed, StepRow
  <2>. QED
    BY <2>3, <2>4 DEF Published
<1>. QED
  BY <1>2, <1>3 DEF TraceChange, StepResumed, StepStarted, StepObserved, StepFailed,
                    AnswerPublished, DecisionFailed

(* Observations and answers are stored only for a member of the Space and,  *)
(* up to the age of the time stamp, before deadline and end of the lease.   *)
THEOREM PublicationAuthorisedHolds == Spec => PublicationAuthorised
<1>1. ASSUME TypeOK, RowInv, [Next]_vars, NEW r \in RunId, Published(r)' # Published(r)
      PROVE  /\ HasMembership(r)
             /\ now < run[r].deadlineAt + Lag
             /\ now < run[r].leaseExpiresAt + Lag
  <2>1. Allowed(r)
    BY <1>1, TraceSteps, PublishingStep
  <2>2. PICK n \in Stamps : n < run[r].deadlineAt /\ n < run[r].leaseExpiresAt
    BY <2>1 DEF Allowed
  <2>3. /\ run[r].deadlineAt \in Int /\ run[r].leaseExpiresAt \in Int
        /\ now \in Nat /\ n \in Int /\ now - n <= Lag /\ Lag \in Nat
    BY <1>1, <2>2, StoreAssumption DEF TypeOK, RunRow, NoTime, Stamps
  <2>. QED
    BY <2>1, <2>2, <2>3 DEF Allowed
<1>2. TypeOK /\ RowInv /\ [Next]_vars =>
        [\A r \in RunId : Published(r)' # Published(r) =>
           /\ HasMembership(r)
           /\ now < run[r].deadlineAt + Lag
           /\ now < run[r].leaseExpiresAt + Lag]_vars
  BY <1>1
<1>. QED
  BY <1>2, TypeCorrect, RowInvCorrect, PTL DEF Spec, PublicationAuthorised

-----------------------------------------------------------------------------
(* What a reclaiming worker rebuilds its context from.                      *)

Tools(trace) == {i \in DOMAIN trace : trace[i].kind = "tool_call"}

EvidenceSound(r) ==
  \A key \in DOMAIN evidence[r] :
    evidence[r][key].step \in DOMAIN steps[r] /\ CitedByCompletedTool(r, key)

(* ContextRebuildable, and every evidence record points into the trace.     *)
TraceSound(r) ==
  /\ run[r].stepCount = Len(steps[r])
  /\ run[r].toolCallCount = Cardinality(Tools(steps[r]))
  /\ \A i \in Running(r) : i = Len(steps[r]) /\ steps[r][i].kind = "tool_call"
  /\ Len(evidence[r]) <= MaxEvidence
  /\ EvidenceSound(r)

TraceInv == \A r \in RunId : TraceSound(r)

LEMMA ToolsFinite ==
  ASSUME NEW trace \in Seq(StepRow)
  PROVE  IsFiniteSet(Tools(trace)) /\ Cardinality(Tools(trace)) \in Nat
<1>1. IsFiniteSet(1 .. Len(trace)) /\ DOMAIN trace = 1 .. Len(trace)
  BY FS_Interval, LenProperties
<1>2. Tools(trace) \subseteq 1 .. Len(trace)
  BY <1>1 DEF Tools
<1>. QED
  BY <1>1, <1>2, FS_Subset, FS_CardinalityType

LEMMA ToolsStep ==
  ASSUME TypeOK, TypeOK', NEW r \in RunId, TraceChange(r),
         run[r].toolCallCount = Cardinality(Tools(steps[r]))
  PROVE  run'[r].toolCallCount = Cardinality(Tools(steps'[r]))
<1>1. steps[r] \in Seq(StepRow) /\ steps'[r] \in Seq(StepRow)
  BY DEF TypeOK
<1>2. IsFiniteSet(Tools(steps[r])) /\ Cardinality(Tools(steps[r])) \in Nat
  BY <1>1, ToolsFinite
<1>3. Len(steps[r]) \in Nat /\ DOMAIN steps[r] = 1 .. Len(steps[r])
  BY <1>1, LenProperties
<1>4. CASE Updates(r)
  <2>1. Tools(steps'[r]) = Tools(steps[r])
    BY <1>4, SameLength DEF Tools
  <2>2. Counted(r, 0, 0)
    BY <1>4 DEF Updates, TraceKept, TraceClosed, StepResumed, StepObserved, StepFailed
  <2>. QED
    BY <1>2, <2>1, <2>2 DEF Counted
<1>5. CASE StepStarted(r)
  <2>. DEFINE i == Len(steps[r]) + 1
  <2>1. steps'[r][i].kind = "tool_call"
    BY <1>1, <1>3, <1>5 DEF StepStarted, Step
  <2>2. Tools(steps'[r]) = Tools(steps[r]) \cup {i}
    BY <1>5, <2>1, OneLonger DEF Tools, Grows
  <2>3. i \notin Tools(steps[r])
    BY <1>3 DEF Tools
  <2>4. Cardinality(Tools(steps'[r])) = Cardinality(Tools(steps[r])) + 1
    BY <1>2, <2>2, <2>3, FS_AddElement
  <2>. QED
    BY <1>5, <2>4 DEF StepStarted, Counted
<1>6. CASE AnswerPublished(r) \/ DecisionFailed(r)
  <2>. DEFINE i == Len(steps[r]) + 1
  <2>1. steps'[r][i].kind # "tool_call"
    <3>1. CASE AnswerPublished(r)
      BY <1>1, <1>3, <3>1 DEF AnswerPublished, Step
    <3>2. CASE DecisionFailed(r)
      <4>1. Closed(steps[r], "failed") \in Seq(StepRow)
            /\ Len(Closed(steps[r], "failed")) = Len(steps[r])
        BY <1>1, ClosedType
      <4>2. steps'[r] = Append(Closed(steps[r], "failed"), Step("decision_error", "failed"))
        BY <3>2, <4>1 DEF DecisionFailed
      <4>. QED
        BY <1>3, <4>1, <4>2 DEF Step
    <3>. QED
      BY <1>6, <3>1, <3>2
  <2>2. Tools(steps'[r]) = Tools(steps[r])
    BY <1>6, <2>1, OneLonger DEF Tools, Grows
  <2>. QED
    BY <1>2, <1>6, <2>2 DEF AnswerPublished, DecisionFailed, Counted
<1>. QED
  BY <1>4, <1>5, <1>6 DEF TraceChange, Updates

LEMMA RunningStep ==
  ASSUME TypeOK, NEW r \in RunId, TraceChange(r),
         \A i \in Running(r) : i = Len(steps[r]) /\ steps[r][i].kind = "tool_call"
  PROVE  \A i \in Running(r)' : i = Len(steps'[r]) /\ steps'[r][i].kind = "tool_call"
<1>1. steps[r] \in Seq(StepRow) /\ Len(steps[r]) \in Nat
      /\ DOMAIN steps[r] = 1 .. Len(steps[r])
  BY LenProperties DEF TypeOK
<1>2. CASE Updates(r)
  <2>1. Running(r)' \subseteq Running(r)
    BY <1>2, SameLength DEF Running
  <2>. QED
    BY <1>2, <2>1, SameLength DEF Running
<1>3. CASE Grows(r)
  <2>. DEFINE last == Len(steps[r]) + 1
  <2>1. Running(r)' \subseteq {last} /\ Len(steps'[r]) = last
    BY <1>3, OneLonger DEF Running
  <2>2. CASE StepStarted(r)
    <3>1. steps'[r][last].kind = "tool_call"
      BY <1>1, <2>2 DEF StepStarted, Step
    <3>. QED
      BY <2>1, <3>1
  <2>3. CASE AnswerPublished(r)
    <3>1. steps'[r][last].status = "completed"
      BY <1>1, <2>3 DEF AnswerPublished, Step
    <3>. QED
      BY <2>1, <3>1 DEF Running
  <2>4. CASE DecisionFailed(r)
    <3>1. Closed(steps[r], "failed") \in Seq(StepRow)
          /\ Len(Closed(steps[r], "failed")) = Len(steps[r])
      BY <1>1, ClosedType
    <3>2. steps'[r] = Append(Closed(steps[r], "failed"), Step("decision_error", "failed"))
      BY <2>4, <3>1 DEF DecisionFailed
    <3>3. steps'[r][last].status = "failed"
      BY <1>1, <3>1, <3>2 DEF Step
    <3>. QED
      BY <2>1, <3>3 DEF Running
  <2>. QED
    BY <1>3, <2>2, <2>3, <2>4 DEF Grows
<1>. QED
  BY <1>2, <1>3 DEF TraceChange, Updates, Grows

(* Stored evidence stays sound: the steps it points to are over.            *)
LEMMA EvidenceStep ==
  ASSUME TypeOK, TypeOK', NEW r \in RunId, TraceChange(r),
         EvidenceSound(r), Len(evidence[r]) <= MaxEvidence
  PROVE  EvidenceSound(r)' /\ Len(evidence'[r]) <= MaxEvidence
<1>1. evidence[r] \in Seq(EvidenceRow) /\ evidence'[r] \in Seq(EvidenceRow)
  BY DEF TypeOK
<1>2. /\ Len(evidence[r]) \in Nat /\ DOMAIN evidence[r] = 1 .. Len(evidence[r])
      /\ Len(evidence'[r]) \in Nat /\ DOMAIN evidence'[r] = 1 .. Len(evidence'[r])
  BY <1>1, LenProperties
<1>3. ASSUME NEW key \in DOMAIN evidence[r]
      PROVE  /\ evidence'[r][key].step \in DOMAIN steps'[r]
             /\ CitedByCompletedTool(r, key)'
  <2>. DEFINE i == evidence[r][key].step
  <2>1. i \in DOMAIN steps[r] /\ steps[r][i].status = "completed"
        /\ steps[r][i].kind = "tool_call"
    BY DEF EvidenceSound, CitedByCompletedTool
  <2>2. i \in DOMAIN steps'[r] /\ steps'[r][i] = steps[r][i]
    BY <2>1, KeptEntries DEF Running
  <2>3. evidence'[r][key].step = i /\ key \in DOMAIN evidence'[r]
    BY <1>2, KeptEvidence
  <2>. QED
    BY <2>1, <2>2, <2>3 DEF CitedByCompletedTool
<1>4. CASE StepObserved(r)
  <2>1. PICK i \in Running(r), count \in 0 .. MaxEvidence :
          /\ steps[r][i].kind = "tool_call"
          /\ Len(evidence[r]) + count <= MaxEvidence
          /\ steps'[r] = [steps[r] EXCEPT ![i].status = "completed"]
          /\ evidence'[r] = evidence[r] \o [j \in 1 .. count |-> [step |-> i, finalOrdinal |-> 0]]
    BY <1>4 DEF StepObserved
  <2>. DEFINE more == [j \in 1 .. count |-> [step |-> i, finalOrdinal |-> 0]]
  <2>2. steps[r] \in Seq(StepRow) /\ i \in DOMAIN steps[r] /\ i \in Nat
    <3>1. steps[r] \in Seq(StepRow)
      BY DEF TypeOK
    <3>. QED
      BY <3>1, LenProperties DEF Running
  <2>3. more \in Seq(EvidenceRow) /\ Len(more) = count /\ count \in Nat
    <3>1. more \in [1 .. count -> EvidenceRow] /\ count \in Nat
      BY <2>2, StoreAssumption DEF EvidenceRow
    <3>. QED
      BY <3>1, FunctionIsSeq
  <2>4. \A j \in 1 .. count : more[j].step = i
    OBVIOUS
  <2>5. evidence'[r] = evidence[r] \o more
    BY <2>1
  <2>. HIDE DEF more
  <2>6. Len(evidence'[r]) = Len(evidence[r]) + count
    BY <1>1, <2>3, <2>5, ConcatProperties
  <2>7. ASSUME NEW key \in DOMAIN evidence'[r], key \notin DOMAIN evidence[r]
        PROVE  evidence'[r][key].step = i
    <3>1. key - Len(evidence[r]) \in 1 .. count
      BY <1>2, <2>3, <2>6, <2>7
    <3>2. evidence'[r][key] = more[key - Len(evidence[r])]
      BY <1>1, <1>2, <2>3, <2>5, <2>7, <3>1
    <3>. QED
      BY <2>4, <3>1, <3>2
  <2>8. /\ i \in DOMAIN steps'[r]
        /\ steps'[r][i].status = "completed" /\ steps'[r][i].kind = "tool_call"
    <3>1. steps[r][i] \in StepRow
      BY <2>2, LenProperties
    <3>2. steps'[r][i] = [steps[r][i] EXCEPT !.status = "completed"]
      BY <2>1, <2>2
    <3>. QED
      BY <2>1, <2>2, <3>1, <3>2 DEF StepRow
  <2>9. Len(evidence'[r]) <= MaxEvidence
    BY <2>1, <2>6
  <2>. QED
    BY <1>3, <2>7, <2>8, <2>9 DEF EvidenceSound, CitedByCompletedTool
<1>5. CASE DOMAIN evidence'[r] = DOMAIN evidence[r]
  <2>1. Len(evidence'[r]) = Len(evidence[r])
    BY <1>2, <1>5
  <2>. QED
    BY <1>3, <1>5, <2>1 DEF EvidenceSound
<1>6. StepObserved(r) \/ DOMAIN evidence'[r] = DOMAIN evidence[r]
  BY DEF TraceChange, TraceKept, TraceClosed, StepResumed, StepStarted, StepFailed,
         AnswerPublished, DecisionFailed
<1>. QED
  BY <1>4, <1>5, <1>6

LEMMA TraceInvInit == Init => TraceInv
<1> SUFFICES ASSUME Init, NEW r \in RunId PROVE TraceSound(r)
  BY DEF TraceInv
<1>1. /\ run[r].stepCount = 0 /\ run[r].toolCallCount = 0
      /\ steps[r] = << >> /\ evidence[r] = << >>
  BY DEF Init, AbsentRun
<1>2. Tools(steps[r]) = {} /\ Running(r) = {} /\ EvidenceSound(r)
  BY <1>1 DEF Tools, Running, EvidenceSound
<1>3. Cardinality(Tools(steps[r])) = 0
  BY <1>2, FS_EmptySet
<1>4. Len(steps[r]) = 0 /\ Len(evidence[r]) <= MaxEvidence
  BY <1>1, StoreAssumption
<1>. QED
  BY <1>1, <1>2, <1>3, <1>4 DEF TraceSound

LEMMA TraceInvStep ==
  ASSUME TypeOK, TypeOK', RowInv, TraceInv, [Next]_vars
  PROVE  TraceInv'
<1> SUFFICES ASSUME NEW r \in RunId PROVE TraceSound(r)'
  BY DEF TraceInv
<1>1. TraceChange(r) /\ TraceSound(r)
  BY TraceSteps DEF TraceInv
<1>2. run'[r].stepCount = Len(steps'[r])
  <2>1. Len(steps[r]) \in Nat
    BY LenProperties DEF TypeOK
  <2>2. CASE Updates(r)
    <3>1. Counted(r, 0, 0)
      BY <2>2 DEF Updates, TraceKept, TraceClosed, StepResumed, StepObserved, StepFailed
    <3>. QED
      BY <1>1, <2>1, <2>2, <3>1, SameLength DEF Counted, TraceSound
  <2>3. CASE Grows(r)
    <3>1. Counted(r, 1, 0) \/ Counted(r, 1, 1)
      BY <2>3 DEF Grows, StepStarted, AnswerPublished, DecisionFailed
    <3>. QED
      BY <1>1, <2>1, <2>3, <3>1, OneLonger DEF Counted, TraceSound
  <2>. QED
    BY <1>1, <2>2, <2>3 DEF TraceChange, Updates, Grows
<1>3. run'[r].toolCallCount = Cardinality(Tools(steps'[r]))
  BY <1>1, ToolsStep DEF TraceSound
<1>4. \A i \in Running(r)' : i = Len(steps'[r]) /\ steps'[r][i].kind = "tool_call"
  BY <1>1, RunningStep DEF TraceSound
<1>5. EvidenceSound(r)' /\ Len(evidence'[r]) <= MaxEvidence
  BY <1>1, EvidenceStep DEF TraceSound
<1>. QED
  BY <1>2, <1>3, <1>4, <1>5 DEF TraceSound

(* Counters and traces always agree and evidence points to completed tool   *)
(* steps of the trace.                                                      *)
THEOREM TraceInvCorrect == Spec => []TraceInv
<1>1. Init => TraceInv
  BY TraceInvInit
<1>2. TypeOK /\ TypeOK' /\ RowInv /\ TraceInv /\ [Next]_vars => TraceInv'
  BY TraceInvStep
<1>. QED
  BY <1>1, <1>2, TypeCorrect, RowInvCorrect, PTL DEF Spec

(* At whatever moment a worker is lost, the one that reclaims its run finds *)
(* rows from which the execution context can be rebuilt.                    *)
THEOREM ContextRebuildableHolds == Spec => []ContextRebuildable
<1>1. TraceInv => ContextRebuildable
  BY DEF TraceInv, TraceSound, EvidenceSound, Tools, ContextRebuildable
<1>. QED
  BY <1>1, TraceInvCorrect, PTL

-----------------------------------------------------------------------------
(* What a finished run shows.                                               *)

Finals(trace) == {i \in DOMAIN trace : trace[i].kind = "final_answer"}

Ordinals(r) == {evidence[r][key].finalOrdinal : key \in FinalReferences(r)}

EndShape(r) ==
  /\ run[r].status # "running" => Running(r) = {}
  /\ run[r].status = "completed" =>
       /\ Finals(steps[r]) = {Len(steps[r])}
       /\ Ordinals(r) = 1 .. Cardinality(FinalReferences(r))
       /\ run[r].finalStatus = "answered" <=> FinalReferences(r) # {}
  /\ run[r].status # "completed" => Finals(steps[r]) = {} /\ FinalReferences(r) = {}

(* The citations of an answer are numbered 1, 2, ... in their order.        *)
LEMMA CitationNumbers ==
  ASSUME TypeOK, NEW r \in RunId, NEW cited \in Citations,
         \A i \in DOMAIN cited : cited[i] \in DOMAIN evidence[r],
         evidence'[r] = [key \in DOMAIN evidence[r] |->
                           [evidence[r][key] EXCEPT !.finalOrdinal = Ordinal(cited, key)]]
  PROVE  /\ Ordinals(r)' = 1 .. Cardinality(FinalReferences(r)')
         /\ cited = << >> <=> FinalReferences(r)' = {}
<1>. DEFINE F == FinalReferences(r)'
<1>1. PICK k \in 0 .. MaxEvidence :
        /\ cited \in [1 .. k -> 1 .. MaxEvidence]
        /\ \A i, j \in 1 .. k : cited[i] = cited[j] => i = j
  BY DEF Citations
<1>2. k \in Nat /\ DOMAIN cited = 1 .. k
  BY <1>1, StoreAssumption
<1>3. \A key \in DOMAIN evidence[r] : evidence[r][key] \in EvidenceRow
  BY LenProperties DEF TypeOK
<1>4. ASSUME NEW i \in 1 .. k PROVE Ordinal(cited, cited[i]) = i
  BY <1>1, <1>2 DEF Ordinal
<1>5. ASSUME NEW key, Ordinal(cited, key) # 0 PROVE \E i \in 1 .. k : cited[i] = key
  BY <1>2, <1>5 DEF Ordinal
<1>6. \A key \in DOMAIN evidence[r] : evidence'[r][key].finalOrdinal = Ordinal(cited, key)
  BY <1>3 DEF EvidenceRow
<1>7. F = {key \in DOMAIN evidence[r] : Ordinal(cited, key) # 0}
  BY <1>6 DEF FinalReferences
<1>10. Ordinals(r)' = {evidence'[r][key].finalOrdinal : key \in F}
  BY DEF Ordinals
<1>. HIDE DEF F
<1>8. F = {cited[i] : i \in 1 .. k}
  <2>1. \A i \in 1 .. k : cited[i] \in F
    BY <1>2, <1>4, <1>7
  <2>2. \A key \in F : \E i \in 1 .. k : cited[i] = key
    BY <1>5, <1>7
  <2>. QED
    BY <2>1, <2>2
<1>9. Cardinality(F) = k
  <2>1. cited \in Bijection(1 .. k, F)
    BY <1>1, <1>2, <1>8 DEF Bijection, Injection, Surjection, IsInjective
  <2>2. ExistsBijection(1 .. k, F)
    BY <2>1 DEF ExistsBijection
  <2>. QED
    BY <1>2, <2>2, FS_CountingElements
<1>11. Ordinals(r)' = 1 .. k
  <2>1. \A key \in F : evidence'[r][key].finalOrdinal = Ordinal(cited, key)
    BY <1>6, <1>7
  <2>2. \A i \in 1 .. k : cited[i] \in F /\ evidence'[r][cited[i]].finalOrdinal = i
    BY <1>4, <1>8, <2>1
  <2>3. \A key \in F : evidence'[r][key].finalOrdinal \in 1 .. k
    BY <1>8, <2>2
  <2>. DEFINE O == {evidence'[r][key].finalOrdinal : key \in F}
  <2>4. O \subseteq 1 .. k
    BY <2>3
  <2>5. 1 .. k \subseteq O
    BY <2>2
  <2>6. O = 1 .. k
    BY <2>4, <2>5
  <2>. QED
    BY <1>10, <2>6
<1>12. cited = << >> <=> k = 0
  <2>1. k = 0 => cited = << >>
    BY <1>1
  <2>2. cited = << >> => 1 .. k = {}
    BY <1>2
  <2>. QED
    BY <1>2, <2>1, <2>2
<1>13. F = {} <=> k = 0
  <2>1. k = 0 => 1 .. k = {}
    BY <1>2
  <2>2. k # 0 => 1 \in 1 .. k
    BY <1>2
  <2>3. k # 0 => cited[1] \in F
    BY <1>8, <2>2, Zenon
  <2>4. k = 0 => F = {}
    BY <1>8, <2>1, Zenon
  <2>. QED
    BY <2>3, <2>4
<1>. QED
  BY <1>9, <1>11, <1>12, <1>13 DEF F

(* Only AnswerPublished adds a final answer and final references.           *)
LEMMA NoFinals ==
  ASSUME TypeOK, TypeOK', NEW r \in RunId, TraceChange(r), ~AnswerPublished(r),
         Finals(steps[r]) = {}, FinalReferences(r) = {}
  PROVE  Finals(steps'[r]) = {} /\ FinalReferences(r)' = {}
<1>1. steps[r] \in Seq(StepRow) /\ Len(steps[r]) \in Nat
      /\ DOMAIN steps[r] = 1 .. Len(steps[r])
  BY LenProperties DEF TypeOK
<1>2. Finals(steps'[r]) = {}
  <2>1. CASE Updates(r)
    BY <2>1, SameLength DEF Finals
  <2>2. CASE StepStarted(r) \/ DecisionFailed(r)
    <3>. DEFINE last == Len(steps[r]) + 1
    <3>1. steps'[r][last].kind # "final_answer"
      <4>1. CASE StepStarted(r)
        BY <1>1, <4>1 DEF StepStarted, Step
      <4>2. CASE DecisionFailed(r)
        <5>1. Closed(steps[r], "failed") \in Seq(StepRow)
              /\ Len(Closed(steps[r], "failed")) = Len(steps[r])
          BY <1>1, ClosedType
        <5>2. steps'[r] = Append(Closed(steps[r], "failed"), Step("decision_error", "failed"))
          BY <4>2, <5>1 DEF DecisionFailed
        <5>. QED
          BY <1>1, <5>1, <5>2 DEF Step
      <4>. QED
        BY <2>2, <4>1, <4>2
    <3>. QED
      BY <2>2, <3>1, OneLonger DEF Finals, Grows
  <2>. QED
    BY <2>1, <2>2 DEF TraceChange, Updates
<1>3. FinalReferences(r)' = {}
  <2>1. CASE evidence'[r] = evidence[r]
    BY <2>1 DEF FinalReferences
  <2>2. CASE StepObserved(r)
    <3>1. PICK i \in Running(r), count \in 0 .. MaxEvidence :
            evidence'[r] = evidence[r] \o [j \in 1 .. count |-> [step |-> i, finalOrdinal |-> 0]]
      BY <2>2 DEF StepObserved
    <3>. DEFINE more == [j \in 1 .. count |-> [step |-> i, finalOrdinal |-> 0]]
    <3>2. evidence[r] \in Seq(EvidenceRow)
      BY DEF TypeOK
    <3>3. more \in Seq(EvidenceRow) /\ Len(more) = count /\ count \in Nat
      <4>1. i \in Nat
        BY <1>1 DEF Running
      <4>2. more \in [1 .. count -> EvidenceRow] /\ count \in Nat
        BY <4>1, StoreAssumption DEF EvidenceRow
      <4>. QED
        BY <4>2, FunctionIsSeq
    <3>4. \A j \in 1 .. count : more[j].finalOrdinal = 0
      OBVIOUS
    <3>5. evidence'[r] = evidence[r] \o more
      BY <3>1
    <3>. HIDE DEF more
    <3>6. \A key \in DOMAIN evidence[r] : evidence[r][key].finalOrdinal = 0
      BY DEF FinalReferences
    <3>7. /\ Len(evidence[r]) \in Nat /\ DOMAIN evidence[r] = 1 .. Len(evidence[r])
          /\ Len(evidence'[r]) = Len(evidence[r]) + count
          /\ DOMAIN evidence'[r] = 1 .. Len(evidence'[r])
      BY <3>2, <3>3, <3>5, ConcatProperties, LenProperties
    <3>8. ASSUME NEW key \in DOMAIN evidence'[r] PROVE evidence'[r][key].finalOrdinal = 0
      <4>1. CASE key \in DOMAIN evidence[r]
        <5>1. evidence'[r][key] = evidence[r][key]
          BY <3>2, <3>3, <3>5, <3>7, <4>1
        <5>. QED
          BY <3>6, <4>1, <5>1
      <4>2. CASE key \notin DOMAIN evidence[r]
        <5>1. key - Len(evidence[r]) \in 1 .. count
          BY <3>3, <3>7, <4>2
        <5>2. evidence'[r][key] = more[key - Len(evidence[r])]
          BY <3>2, <3>3, <3>5, <3>7, <4>2, <5>1
        <5>. QED
          BY <3>4, <5>1, <5>2
      <4>. QED
        BY <4>1, <4>2
    <3>. QED
      BY <3>8 DEF FinalReferences
  <2>. QED
    BY <2>1, <2>2 DEF TraceChange, TraceKept, TraceClosed, StepResumed, StepStarted, StepFailed,
                      DecisionFailed
<1>. QED
  BY <1>2, <1>3

LEMMA EndShapeStep ==
  ASSUME TypeOK, TypeOK', RowInv', NEW r \in RunId, TraceChange(r), EndShape(r),
         run[r].status \notin Terminal
  PROVE  EndShape(r)'
<1>1. steps[r] \in Seq(StepRow) /\ Len(steps[r]) \in Nat
      /\ DOMAIN steps[r] = 1 .. Len(steps[r])
      /\ \A i \in DOMAIN steps[r] : steps[r][i] \in StepRow
  BY LenProperties DEF TypeOK
<1>2. Finals(steps[r]) = {} /\ FinalReferences(r) = {}
  BY DEF EndShape, Terminal
<1>3. CASE TraceKept(r)
  <2>1. Running(r)' = Running(r)
    BY <1>3 DEF TraceKept, Running
  <2>2. run'[r].status # "completed" /\ (run'[r].status # "running" => run[r].status # "running")
    BY <1>3 DEF TraceKept, SameStatus, Awaited, Terminal
  <2>3. Finals(steps'[r]) = {} /\ FinalReferences(r)' = {}
    BY <1>2, <1>3 DEF TraceKept, FinalReferences
  <2>. QED
    BY <2>1, <2>2, <2>3 DEF EndShape
<1>4. CASE TraceClosed(r)
  <2>1. steps'[r] = Closed(steps[r], DoomedStatus(r)) /\ DoomedStatus(r) \in {"failed", "cancelled"}
        /\ run'[r].status = DoomedStatus(r) /\ evidence'[r] = evidence[r]
    BY <1>4 DEF TraceClosed, DoomedStatus
  <2>2. Running(r)' = {}
    BY <1>1, <2>1 DEF Closed, Running, StepRow
  <2>3. Finals(steps'[r]) = {}
    BY <1>2, <1>4, SameLength DEF Finals, Updates
  <2>4. FinalReferences(r)' = {}
    BY <1>2, <2>1 DEF FinalReferences
  <2>. QED
    BY <2>1, <2>2, <2>3, <2>4 DEF EndShape
<1>5. CASE StepResumed(r) \/ StepStarted(r) \/ StepObserved(r) \/ StepFailed(r)
  <2>1. run'[r].status = "running"
    BY <1>5 DEF StepResumed, StepStarted, StepObserved, StepFailed, SameStatus, Allowed, Open
  <2>2. ~AnswerPublished(r)
    BY <2>1 DEF AnswerPublished
  <2>. QED
    BY <1>2, <2>1, <2>2, NoFinals DEF EndShape
<1>6. CASE DecisionFailed(r)
  <2>. DEFINE last == Len(steps[r]) + 1
  <2>1. run'[r].status = "failed" /\ ~AnswerPublished(r)
    BY <1>6 DEF DecisionFailed, AnswerPublished
  <2>2. steps'[r][last].status = "failed"
    <3>1. Closed(steps[r], "failed") \in Seq(StepRow)
          /\ Len(Closed(steps[r], "failed")) = Len(steps[r])
      BY <1>1, ClosedType
    <3>2. steps'[r] = Append(Closed(steps[r], "failed"), Step("decision_error", "failed"))
      BY <1>6, <3>1 DEF DecisionFailed
    <3>. QED
      BY <1>1, <3>1, <3>2 DEF Step
  <2>3. Running(r)' = {}
    BY <1>6, <2>2, OneLonger DEF Running, Grows
  <2>. QED
    BY <1>2, <2>1, <2>3, NoFinals DEF EndShape
<1>7. CASE AnswerPublished(r)
  <2>. DEFINE last == Len(steps[r]) + 1
  <2>1. run'[r].status = "completed"
        /\ steps'[r] = Append(steps[r], Step("final_answer", "completed"))
    BY <1>7 DEF AnswerPublished
  <2>2. steps'[r][last].kind = "final_answer" /\ steps'[r][last].status = "completed"
    BY <1>1, <2>1 DEF Step
  <2>3. Running(r)' = {}
    BY <1>7, <2>2, OneLonger DEF Running, Grows
  <2>4. Finals(steps'[r]) = {last} /\ Len(steps'[r]) = last
    BY <1>2, <1>7, <2>2, OneLonger DEF Finals, Grows
  <2>5. PICK cited \in Citations :
          /\ \A i \in DOMAIN cited : cited[i] \in DOMAIN evidence[r]
          /\ evidence'[r] = [key \in DOMAIN evidence[r] |->
                               [evidence[r][key] EXCEPT !.finalOrdinal = Ordinal(cited, key)]]
          /\ run'[r].finalStatus = IF cited = << >> THEN "insufficient_context" ELSE "answered"
    BY <1>7 DEF AnswerPublished
  <2>6. /\ Ordinals(r)' = 1 .. Cardinality(FinalReferences(r)')
        /\ cited = << >> <=> FinalReferences(r)' = {}
    BY <2>5, CitationNumbers
  <2>. QED
    BY <2>1, <2>3, <2>4, <2>5, <2>6 DEF EndShape
<1>. QED
  BY <1>3, <1>4, <1>5, <1>6, <1>7 DEF TraceChange

EndInv == \A r \in RunId : EndShape(r)

LEMMA EndInvInit == Init => EndInv
<1>1. Init => \A r \in RunId : run[r].status = "absent" /\ steps[r] = << >> /\ evidence[r] = << >>
  BY DEF Init, AbsentRun
<1>. QED
  BY <1>1 DEF EndInv, EndShape, Running, Finals, FinalReferences

LEMMA EndInvStep ==
  ASSUME TypeOK, TypeOK', RowInv, RowInv', EndInv, [Next]_vars
  PROVE  EndInv'
<1> SUFFICES ASSUME NEW r \in RunId PROVE EndShape(r)'
  BY DEF EndInv
<1>1. EndShape(r)
  BY DEF EndInv
<1>2. CASE run[r].status \in Terminal
  <2>1. run'[r] = run[r] /\ steps'[r] = steps[r] /\ evidence'[r] = evidence[r]
    BY <1>2, RowSteps, TerminalRow, TraceStep DEF Terminal
  <2>2. /\ Running(r)' = Running(r) /\ FinalReferences(r)' = FinalReferences(r)
        /\ Ordinals(r)' = Ordinals(r)
    BY <2>1 DEF Running, Ordinals, FinalReferences
  <2>. QED
    BY <1>1, <2>1, <2>2 DEF EndShape
<1>3. CASE run[r].status \notin Terminal
  BY <1>1, <1>3, TraceSteps, EndShapeStep
<1>. QED
  BY <1>2, <1>3

(* Every run has, in every reachable state, the shape its status promises.  *)
THEOREM EndInvCorrect == Spec => []EndInv
<1>1. TypeOK /\ TypeOK' /\ RowInv /\ RowInv' /\ EndInv /\ [Next]_vars => EndInv'
  BY EndInvStep
<1>. QED
  BY <1>1, EndInvInit, TypeCorrect, RowInvCorrect, PTL DEF Spec

(* A run that is over has nothing in flight; only a completed run has a     *)
(* final answer, as its last step, with references numbered without gaps.   *)
THEOREM TerminalShapeHolds == Spec => []TerminalShape
<1>1. EndInv => TerminalShape
  BY DEF EndInv, EndShape, Finals, Ordinals, TerminalShape
<1>. QED
  BY <1>1, EndInvCorrect, PTL

-----------------------------------------------------------------------------
(* The abstract trace: the steps that are over.                             *)

Prefix(trace, open, p) ==
  /\ p \in Seq(StepRow) /\ Len(p) \in Nat
  /\ Len(p) = IF open = {} THEN Len(trace) ELSE Len(trace) - 1
  /\ \A i \in 1 .. Len(p) : i \in DOMAIN trace /\ p[i] = trace[i] /\ i \notin open

LEMMA PrefixShape ==
  ASSUME NEW trace \in Seq(StepRow), NEW open \in SUBSET DOMAIN trace,
         \A i \in open : i = Len(trace),
         NEW p, p = IF open = {} THEN trace ELSE SubSeq(trace, 1, Len(trace) - 1)
  PROVE  Prefix(trace, open, p)
<1>1. Len(trace) \in Nat /\ DOMAIN trace = 1 .. Len(trace)
  BY LenProperties
<1>2. CASE open = {}
  BY <1>1, <1>2 DEF Prefix
<1>3. CASE open # {}
  <2>1. Len(trace) > 0
    BY <1>1, <1>3
  <2>. DEFINE n == Len(trace) - 1
  <2>2. p = SubSeq(trace, 1, n) /\ n \in Nat
    BY <1>1, <1>3, <2>1
  <2>3. \A i \in 1 .. n : trace[i] \in StepRow /\ i \in DOMAIN trace
    BY <1>1, <2>2, LenProperties
  <2>4. /\ p \in Seq(StepRow) /\ Len(p) = IF 1 <= n THEN n - 1 + 1 ELSE 0
        /\ \A i \in 1 .. n - 1 + 1 : p[i] = trace[1 + i - 1]
    <3>. HIDE DEF n
    <3>. QED
      BY <2>2, <2>3, SubSeqProperties
  <2>5. Len(p) = n /\ \A i \in 1 .. n : p[i] = trace[i]
    <3>. HIDE DEF n
    <3>1. n - 1 + 1 = n /\ (1 <= n \/ n = 0)
      BY <2>2
    <3>2. \A i \in 1 .. n : 1 + i - 1 = i
      BY <2>2
    <3>. QED
      BY <2>4, <3>1, <3>2
  <2>7. \A i \in 1 .. n : i \notin open
    BY <1>1, <2>2
  <2>. QED
    BY <1>3, <2>2, <2>3, <2>4, <2>5, <2>7 DEF Prefix
<1>. QED
  BY <1>2, <1>3

LEMMA ClosedShape ==
  ASSUME TypeOK, TraceInv, NEW r \in RunId
  PROVE  Prefix(steps[r], Running(r), ClosedPrefix(r))
<1>1. steps[r] \in Seq(StepRow) /\ Running(r) \in SUBSET DOMAIN steps[r]
  BY DEF TypeOK, Running
<1>2. \A i \in Running(r) : i = Len(steps[r])
  BY DEF TraceInv, TraceSound
<1>. QED
  BY <1>1, <1>2, PrefixShape DEF ClosedPrefix

LEMMA ClosedShapeNext ==
  ASSUME TypeOK', TraceInv', NEW r \in RunId
  PROVE  Prefix(steps'[r], Running(r)', ClosedPrefix(r)')
<1>1. steps'[r] \in Seq(StepRow) /\ Running(r)' \in SUBSET DOMAIN steps'[r]
  BY DEF TypeOK, Running
<1>2. \A i \in Running(r)' : i = Len(steps'[r])
  BY DEF TraceInv, TraceSound
<1>3. ClosedPrefix(r)' = IF Running(r)' = {} THEN steps'[r]
                         ELSE SubSeq(steps'[r], 1, Len(steps'[r]) - 1)
  BY DEF ClosedPrefix
<1>. QED
  BY <1>1, <1>2, <1>3, PrefixShape

LEMMA ClosedExtends ==
  ASSUME TypeOK, TypeOK', TraceInv, TraceInv', NEW r \in RunId, TraceChange(r)
  PROVE  Lifecycle!Extends(ClosedPrefix(r)', ClosedPrefix(r))
<1>. DEFINE p == ClosedPrefix(r)
            q == ClosedPrefix(r)'
<1>1. /\ Len(p) \in Nat /\ Len(q) \in Nat
      /\ Len(p) = IF Running(r) = {} THEN Len(steps[r]) ELSE Len(steps[r]) - 1
      /\ \A i \in 1 .. Len(p) : i \in DOMAIN steps[r] /\ p[i] = steps[r][i] /\ i \notin Running(r)
  BY ClosedShape, ClosedShapeNext DEF Prefix
<1>2. /\ Len(q) = IF Running(r)' = {} THEN Len(steps'[r]) ELSE Len(steps'[r]) - 1
      /\ \A i \in 1 .. Len(q) : q[i] = steps'[r][i]
  BY ClosedShapeNext DEF Prefix
<1>3. Len(steps[r]) \in Nat /\ Len(steps'[r]) \in Nat
  BY LenProperties DEF TypeOK
<1>4. Len(p) <= Len(q)
  <2>1. CASE Updates(r)
    <3>1. Running(r)' \subseteq Running(r)
      BY <2>1, SameLength DEF Running
    <3>. QED
      BY <1>1, <1>2, <1>3, <2>1, <3>1, SameLength
  <2>2. CASE Grows(r)
    BY <1>1, <1>2, <1>3, <2>2, OneLonger
  <2>. QED
    BY <2>1, <2>2 DEF TraceChange, Updates, Grows
<1>5. \A i \in 1 .. Len(p) : steps'[r][i] = p[i]
  BY <1>1, KeptEntries
<1>. HIDE DEF p, q
<1>6. \A i \in 1 .. Len(p) : i \in 1 .. Len(q)
  BY <1>1, <1>4
<1>7. \A i \in 1 .. Len(p) : q[i] = p[i]
  BY <1>2, <1>5, <1>6
<1>. QED
  BY <1>4, <1>7 DEF Lifecycle!Extends, p, q

LEMMA ClosedSame ==
  ASSUME TypeOK, TypeOK', TraceInv, TraceInv', NEW r \in RunId, TraceChange(r),
         Len(ClosedPrefix(r)') = Len(ClosedPrefix(r))
  PROVE  ClosedPrefix(r)' = ClosedPrefix(r)
<1>1. ClosedPrefix(r) \in Seq(StepRow) /\ ClosedPrefix(r)' \in Seq(StepRow)
  BY ClosedShape, ClosedShapeNext DEF Prefix
<1>2. \A i \in 1 .. Len(ClosedPrefix(r)) : ClosedPrefix(r)'[i] = ClosedPrefix(r)[i]
  BY ClosedExtends DEF Lifecycle!Extends
<1>. QED
  BY <1>1, <1>2, SeqEqual

-----------------------------------------------------------------------------
(* Each change of a run is a move of the lifecycle.                         *)

LEMMA MoveStays ==
  ASSUME NEW r \in RunId, run'[r].status = run[r].status,
         run'[r].cancelRequested = run[r].cancelRequested,
         ClosedPrefix(r)' = ClosedPrefix(r)
  PROVE  Lifecycle!Move(r)
BY DEF Lifecycle!Move, Lifecycle!Stays

LEMMA MoveSubmit ==
  ASSUME TypeOK, RowInv, OneLiveAttempt, [Next]_vars, NEW r \in RunId, Created(r),
         ClosedPrefix(r)' = ClosedPrefix(r)
  PROVE  Lifecycle!Move(r)
<1>1. PICK t \in Tasks, k \in 1 .. MaxAttempts : r = <<t, k>>
  BY DEF RunId
<1>2. run[r].status = "absent" /\ run'[r].status = "queued"
  BY QueuedColumns DEF Created
<1>3. run[r].cancelRequested = FALSE /\ run'[r].cancelRequested = FALSE
  <2>1. run[r] = AbsentRun
    BY <1>2 DEF RowInv, RowChecks, StatusColumns
  <2>2. run'[r].cancelRequested = FALSE
    BY DEF Created, QueuedRun, AbsentRun
  <2>. QED
    BY <2>1, <2>2 DEF AbsentRun
<1>4. /\ \A j \in Attempts(t) : j < k
      /\ k = 1 \/ (k - 1 \in Attempts(t) /\ run[<<t, k - 1>>].status \in Terminal)
  BY <1>1, <1>2, NewAttempt
<1>5. MaxAttempts \in Nat /\ Attempts(t) \subseteq 1 .. MaxAttempts
  BY StoreAssumption DEF Attempts
<1>6. ASSUME NEW j \in 1 .. MaxAttempts, j > k PROVE run[<<t, j>>].status = "absent"
  BY <1>4, <1>5, <1>6 DEF Attempts
<1>7. ASSUME NEW j \in 1 .. MaxAttempts, j < k PROVE run[<<t, j>>].status \in Terminal
  <2>1. k - 1 \in Attempts(t) /\ run[<<t, k - 1>>].status \in Terminal /\ j <= k - 1
    BY <1>4, <1>5, <1>7
  <2>2. j \in Attempts(t)
    BY <1>5, <2>1 DEF OneLiveAttempt
  <2>3. j = k - 1 \/ ~(k - 1 <= j)
    BY <1>5, <2>1
  <2>. QED
    BY <2>1, <2>2, <2>3 DEF OneLiveAttempt
<1>8. \A o \in RunId : o[1] = r[1] /\ o[2] < r[2] => run[o].status \in Terminal
  <2> SUFFICES ASSUME NEW o \in RunId, o[1] = r[1], o[2] < r[2]
               PROVE  run[o].status \in Terminal
    OBVIOUS
  <2>1. o = <<t, o[2]>> /\ o[2] \in 1 .. MaxAttempts /\ o[2] < k
    BY <1>1 DEF RunId
  <2>. QED
    BY <1>7, <2>1
<1>9. \A o \in RunId : o[1] = r[1] /\ o[2] > r[2] => run[o].status = "absent"
  <2> SUFFICES ASSUME NEW o \in RunId, o[1] = r[1], o[2] > r[2]
               PROVE  run[o].status = "absent"
    OBVIOUS
  <2>1. o = <<t, o[2]>> /\ o[2] \in 1 .. MaxAttempts /\ o[2] > k
    BY <1>1 DEF RunId
  <2>. QED
    BY <1>6, <2>1
<1>. QED
  BY <1>2, <1>3, <1>8, <1>9 DEF Lifecycle!Move, Lifecycle!Submit, Lifecycle!Over, Terminal

(* Cancellation is asked for once and never withdrawn.                      *)
LEMMA AskedRow ==
  ASSUME TypeOK, TypeOK', RowInv, RowInv', NEW r \in RunId, RowStep(r)
  PROVE  /\ run[r].cancelRequested => run'[r].cancelRequested
         /\ run[r].cancelRequested \in BOOLEAN /\ run'[r].cancelRequested \in BOOLEAN
         /\ run'[r].status = "failed" => ~run'[r].cancelRequested
         /\ run'[r].status = "completed" => ~run'[r].cancelRequested
         /\ run'[r].status \in {"absent", "queued"} => ~run'[r].cancelRequested
         /\ run'[r].status = "cancelled" => run'[r].cancelRequested
<1>1. run[r].cancelRequested \in BOOLEAN /\ run'[r].cancelRequested \in BOOLEAN
  BY DEF TypeOK, RunRow
<1>2. StatusColumns(run'[r])
  BY DEF RowInv, RowChecks
<1>3. run'[r].status = "absent" => ~run'[r].cancelRequested
  BY <1>2 DEF StatusColumns, AbsentRun
<1>. QED
  BY <1>1, <1>2, <1>3, CancelledRow DEF StatusColumns

LEMMA MoveAbandon ==
  ASSUME TypeOK, TypeOK', RowInv, RowInv', TraceInv, TraceInv', NEW r \in RunId,
         RowStep(r), TraceChange(r), run[r].status \in {"queued", "running"},
         run'[r].status \in {"failed", "cancelled"},
         Finals(steps'[r]) = {}
  PROVE  Lifecycle!Move(r)
<1>1. Lifecycle!Extends(ClosedPrefix(r)', ClosedPrefix(r))
  BY ClosedExtends
<1>2. Prefix(steps'[r], Running(r)', ClosedPrefix(r)') /\ Len(ClosedPrefix(r)) \in Nat
  BY ClosedShape, ClosedShapeNext DEF Prefix
<1>3. \A i \in (Len(ClosedPrefix(r)) + 1) .. Len(ClosedPrefix(r)') :
        ~Lifecycle!IsFinal(ClosedPrefix(r)'[i])
  <2>1. \A i \in 1 .. Len(ClosedPrefix(r)') : ClosedPrefix(r)'[i].kind # "final_answer"
    BY <1>2 DEF Prefix, Finals
  <2>2. Len(ClosedPrefix(r)') \in Nat
    BY <1>2 DEF Prefix
  <2>. QED
    BY <1>2, <2>1, <2>2 DEF Lifecycle!IsFinal
<1>4. \/ run'[r].status = "failed" /\ ~run[r].cancelRequested /\ ~run'[r].cancelRequested
      \/ run'[r].status = "cancelled" /\ run'[r].cancelRequested
  BY AskedRow
<1>. QED
  BY <1>1, <1>3, <1>4 DEF Lifecycle!Move, Lifecycle!Abandon

(* The status of a run stays and its closed steps stay: the only thing left *)
(* to happen is a request for cancellation.                                 *)
LEMMA MoveAsk ==
  ASSUME TypeOK, TypeOK', RowInv, RowInv', NEW r \in RunId, RowStep(r),
         run[r].status \notin Terminal, SameStatus(r),
         ClosedPrefix(r)' = ClosedPrefix(r)
  PROVE  Lifecycle!Move(r)
<1>1. CASE run'[r].cancelRequested = run[r].cancelRequested
  BY <1>1, MoveStays DEF SameStatus
<1>2. CASE run'[r].cancelRequested # run[r].cancelRequested
  <2>1. run'[r].cancelRequested
    BY <1>2, AskedRow
  <2>2. run[r].status \in Status
    BY DEF TypeOK, RunRow
  <2>3. run[r].status = "running" /\ run'[r].status = "running"
    BY <2>1, <2>2, AskedRow DEF SameStatus, Status
  <2>. QED
    BY <2>1, <2>3 DEF Lifecycle!Move, Lifecycle!Ask
<1>. QED
  BY <1>1, <1>2

LEMMA MoveAwaited ==
  ASSUME TypeOK, TypeOK', RowInv, RowInv', TraceInv, TraceInv', OneLiveAttempt, [Next]_vars,
         NEW r \in RunId, RowStep(r), TraceChange(r), Awaited(r),
         ClosedPrefix(r)' = ClosedPrefix(r), Finals(steps'[r]) = {}
  PROVE  Lifecycle!Move(r)
<1>1. CASE run[r].status = "absent"
  <2>1. Created(r)
    BY <1>1 DEF Awaited, RowStep, CommandStep, CancelAsked, Granted, Discarded, Settled, Renewed,
                Started, Answered, GaveUp, Open, Eligible
  <2>. QED
    BY <2>1, MoveSubmit
<1>2. CASE run[r].status = "queued" /\ run'[r].status = "queued"
  BY <1>2, MoveAsk DEF SameStatus, Terminal
<1>3. CASE run[r].status = "queued" /\ run'[r].status = "running"
  <2>1. ~CancelAsked(r)
    <3>1. run[r] \in RunRow
      BY DEF TypeOK
    <3>. QED
      BY <1>3, <3>1 DEF CancelAsked, RunRow
  <2>2. ~Discarded(r)
    BY <1>3, BuriedColumns, StampsType DEF Discarded, DoomedStatus
  <2>3. Granted(r)
    BY <1>3, <2>1, <2>2 DEF RowStep, CommandStep, Created, Settled, Renewed,
                            Started, Answered, GaveUp, Open
  <2>4. run'[r].cancelRequested = run[r].cancelRequested
    BY <2>3, LeasedColumns DEF Granted
  <2>. QED
    BY <1>3, <2>4 DEF Lifecycle!Move, Lifecycle!Start
<1>4. CASE run[r].status = "queued" /\ run'[r].status = "cancelled"
  BY <1>4, MoveAbandon
<1>. QED
  BY <1>1, <1>2, <1>3, <1>4 DEF Awaited

LEMMA MoveRecord ==
  ASSUME TypeOK, TypeOK', TraceInv, TraceInv', NEW r \in RunId, TraceChange(r),
         StepObserved(r) \/ StepFailed(r)
  PROVE  Lifecycle!Move(r)
<1>0. Len(steps[r]) \in Nat /\ DOMAIN steps[r] = 1 .. Len(steps[r]) /\ steps[r] \in Seq(StepRow)
  BY LenProperties DEF TypeOK
<1>1. PICK i \in Running(r), status \in {"completed", "failed"} :
        steps'[r] = [steps[r] EXCEPT ![i].status = status]
  BY DEF StepObserved, StepFailed
<1>2. i = Len(steps[r]) /\ steps[r][i].kind = "tool_call" /\ i \in DOMAIN steps[r]
  BY DEF TraceInv, TraceSound, Running
<1>3. steps[r][i] \in StepRow
  BY <1>0, <1>2
<1>4. steps'[r][i].status # "running"
  BY <1>1, <1>2, <1>3 DEF StepRow
<1>5. /\ Len(steps'[r]) = Len(steps[r]) /\ Running(r)' = {}
      /\ steps'[r][i].kind = "tool_call"
  <2>1. Updates(r)
    BY DEF Updates
  <2>2. \A j \in Running(r) : j = i
    BY <1>2 DEF TraceInv, TraceSound
  <2>. QED
    BY <1>2, <1>4, <2>1, <2>2, SameLength DEF Running
<1>. DEFINE p == ClosedPrefix(r)
            q == ClosedPrefix(r)'
<1>6. Len(p) = Len(steps[r]) - 1 /\ Len(q) = Len(steps[r])
  BY <1>1, <1>5, ClosedShape, ClosedShapeNext DEF Prefix
<1>7. q[Len(q)].kind = "tool_call"
  <2>1. Len(q) = i /\ Len(q) \in 1 .. Len(q)
    BY <1>0, <1>2, <1>6
  <2>. QED
    BY <1>5, <2>1, ClosedShapeNext DEF Prefix
<1>8. Lifecycle!Extends(q, p)
  BY ClosedExtends
<1>9. Open(r) /\ run'[r] = run[r]
  BY DEF StepObserved, StepFailed, Allowed
<1>10. Len(q) = Len(p) + 1
  BY <1>0, <1>6
<1>. HIDE DEF p, q
<1>11. ~Lifecycle!IsFinal(q[Len(q)])
  BY <1>7 DEF Lifecycle!IsFinal
<1>. QED
  BY <1>8, <1>9, <1>10, <1>11 DEF Lifecycle!Move, Lifecycle!Record, Open, p, q

LEMMA MoveComplete ==
  ASSUME TypeOK, TypeOK', RowInv, RowInv', TraceInv, TraceInv', NEW r \in RunId, TraceChange(r),
         RowStep(r), AnswerPublished(r)
  PROVE  Lifecycle!Move(r)
<1>0. Len(steps[r]) \in Nat /\ steps[r] \in Seq(StepRow)
  BY LenProperties DEF TypeOK
<1>. DEFINE last == Len(steps[r]) + 1
            p == ClosedPrefix(r)
            q == ClosedPrefix(r)'
<1>1. /\ Running(r) = {} /\ Open(r) /\ run'[r].status = "completed"
      /\ steps'[r] = Append(steps[r], Step("final_answer", "completed"))
  BY DEF AnswerPublished, Allowed
<1>2. steps'[r][last].kind = "final_answer" /\ steps'[r][last].status = "completed"
  BY <1>0, <1>1 DEF Step
<1>3. Running(r)' = {} /\ Len(steps'[r]) = last
  BY <1>2, OneLonger DEF Running, Grows
<1>4. Len(p) = Len(steps[r]) /\ Len(q) = last
  BY <1>1, <1>3, ClosedShape, ClosedShapeNext DEF Prefix
<1>5. q[Len(q)].kind = "final_answer"
  <2>1. Len(q) \in 1 .. Len(q)
    BY <1>0, <1>4
  <2>. QED
    BY <1>2, <1>4, <2>1, ClosedShapeNext DEF Prefix
<1>6. Lifecycle!Extends(q, p) /\ Len(q) = Len(p) + 1
  BY <1>4, ClosedExtends
<1>7. ~run[r].cancelRequested /\ ~run'[r].cancelRequested
  BY <1>1, AskedRow DEF Open
<1>. HIDE DEF p, q
<1>8. Lifecycle!IsFinal(q[Len(q)])
  BY <1>5 DEF Lifecycle!IsFinal
<1>. QED
  BY <1>1, <1>6, <1>7, <1>8 DEF Lifecycle!Move, Lifecycle!Complete, Open, p, q

LEMMA MoveStep ==
  ASSUME TypeOK, TypeOK', RowInv, RowInv', TraceInv, TraceInv', EndInv, OneLiveAttempt,
         [Next]_vars, NEW r \in RunId
  PROVE  Lifecycle!Move(r)
<1>1. RowStep(r) /\ TraceChange(r) /\ EndShape(r)
  BY RowSteps, TraceSteps DEF EndInv
<1>2. CASE run[r].status \in Terminal
  <2>1. run'[r] = run[r] /\ steps'[r] = steps[r]
    BY <1>1, <1>2, TerminalRow, TraceStep DEF Terminal
  <2>. QED
    BY <2>1, MoveStays DEF ClosedPrefix, Running
<1>. SUFFICES ASSUME run[r].status \notin Terminal PROVE Lifecycle!Move(r)
  BY <1>2
<1>3. ~AnswerPublished(r) => Finals(steps'[r]) = {}
  BY <1>1, NoFinals DEF EndShape, Terminal
<1>4. CASE TraceKept(r)
  <2>1. ClosedPrefix(r)' = ClosedPrefix(r)
    BY <1>4 DEF TraceKept, ClosedPrefix, Running
  <2>2. CASE SameStatus(r)
    BY <1>1, <2>1, <2>2, MoveAsk
  <2>3. CASE Awaited(r)
    <3>1. ~AnswerPublished(r)
      BY <2>3 DEF Awaited, AnswerPublished
    <3>. QED
      BY <1>1, <1>3, <2>1, <2>3, <3>1, MoveAwaited
  <2>. QED
    BY <1>4, <2>2, <2>3 DEF TraceKept
<1>5. CASE TraceClosed(r)
  <2>1. /\ run[r].status \in {"queued", "running"}
        /\ run'[r].status \in {"failed", "cancelled"}
    BY <1>5 DEF TraceClosed, DoomedStatus
  <2>2. ~AnswerPublished(r)
    BY <2>1 DEF AnswerPublished
  <2>. QED
    BY <1>1, <1>3, <2>1, <2>2, MoveAbandon
<1>6. CASE StepResumed(r) \/ StepStarted(r)
  <2>0. Len(steps[r]) \in Nat /\ DOMAIN steps[r] = 1 .. Len(steps[r])
        /\ \A i \in DOMAIN steps[r] : steps[r][i] \in StepRow
    BY LenProperties DEF TypeOK
  <2>1. Len(ClosedPrefix(r)') = Len(ClosedPrefix(r))
    <3>1. CASE StepResumed(r)
      <4>1. PICK i \in Running(r) : steps'[r] = [steps[r] EXCEPT ![i].executions = @ + 1]
        BY <3>1 DEF StepResumed
      <4>2. i \in DOMAIN steps[r] /\ i \in Running(r)'
        BY <2>0, <4>1 DEF Running, StepRow
      <4>3. Len(steps'[r]) = Len(steps[r])
        BY <3>1, SameLength DEF Updates
      <4>. QED
        BY <4>1, <4>2, <4>3, ClosedShape, ClosedShapeNext DEF Prefix
    <3>2. CASE StepStarted(r)
      <4>1. Running(r) = {} /\ steps'[r] = Append(steps[r], Step("tool_call", "running"))
        BY <3>2 DEF StepStarted
      <4>2. steps'[r][Len(steps[r]) + 1].status = "running"
        BY <2>0, <4>1 DEF Step, TypeOK
      <4>3. Len(steps'[r]) = Len(steps[r]) + 1 /\ Len(steps[r]) + 1 \in Running(r)'
        BY <3>2, <4>2, OneLonger DEF Grows, Running
      <4>. QED
        BY <2>0, <4>1, <4>3, ClosedShape, ClosedShapeNext DEF Prefix
    <3>. QED
      BY <1>6, <3>1, <3>2
  <2>2. SameStatus(r)
    BY <1>6 DEF StepResumed, StepStarted
  <2>. QED
    BY <1>1, <2>1, <2>2, ClosedSame, MoveAsk
<1>7. CASE StepObserved(r) \/ StepFailed(r)
  BY <1>1, <1>7, MoveRecord
<1>8. CASE AnswerPublished(r)
  BY <1>1, <1>8, MoveComplete
<1>9. CASE DecisionFailed(r)
  <2>1. run[r].status = "running" /\ run'[r].status = "failed"
    BY <1>9 DEF DecisionFailed, Allowed, Open
  <2>2. ~AnswerPublished(r)
    BY <2>1 DEF AnswerPublished
  <2>. QED
    BY <1>1, <1>3, <2>1, <2>2, MoveAbandon
<1>. QED
  BY <1>1, <1>4, <1>5, <1>6, <1>7, <1>8, <1>9 DEF TraceChange

(* Every behaviour of the store is a behaviour of the run lifecycle.        *)
THEOREM StoreImplementsLifecycle == Spec => ImplementsLifecycle
<1>1. Init => Lifecycle!Init
  BY DEF Init, Lifecycle!Init, AbsentRun, ClosedPrefix, Running
<1>2. TypeOK /\ TypeOK' /\ RowInv /\ RowInv' /\ TraceInv /\ TraceInv' /\ EndInv
        /\ OneLiveAttempt /\ [Next]_vars => [Lifecycle!Next]_(Lifecycle!vars)
  BY MoveStep DEF Lifecycle!Next
<1>. QED
  BY <1>1, <1>2, TypeCorrect, RowInvCorrect, TraceInvCorrect, EndInvCorrect,
     OneLiveAttemptHolds, PTL DEF Spec, ImplementsLifecycle, Lifecycle!Spec

-----------------------------------------------------------------------------
(* What the members of the Space are shown (AgentRunViews).                 *)

(* A stored step is one that the response contract admits.                  *)
EntrySound(entry) ==
  /\ entry.executions > 0
  /\ entry.kind = "final_answer" => entry.status = "completed"
  /\ entry.kind = "decision_error" => entry.status = "failed"

EntriesSound(r) ==
  /\ run[r].toolCallCount <= MaxToolCalls
  /\ \A i \in DOMAIN steps[r] : EntrySound(steps[r][i])

EntryInv == \A r \in RunId : EntriesSound(r)

LEMMA EntryInvInit == Init => EntryInv
<1>1. Init => \A r \in RunId : run[r].toolCallCount = 0 /\ steps[r] = << >>
  BY DEF Init, AbsentRun
<1>. QED
  BY <1>1, StoreAssumption DEF EntryInv, EntriesSound

LEMMA EntryInvStep ==
  ASSUME TypeOK, TypeOK', RowInv, TraceInv, EntryInv, [Next]_vars
  PROVE  EntryInv'
<1> SUFFICES ASSUME NEW r \in RunId PROVE EntriesSound(r)'
  BY DEF EntryInv
<1>1. TraceChange(r) /\ EntriesSound(r) /\ TraceSound(r)
  BY TraceSteps DEF EntryInv, TraceInv
<1>2. /\ \A i \in DOMAIN steps[r] : steps[r][i] \in StepRow
      /\ \A i \in DOMAIN steps'[r] : steps'[r][i] \in StepRow
      /\ run[r].toolCallCount \in Nat
  BY LenProperties DEF TypeOK, RunRow
<1>3. run'[r].toolCallCount <= MaxToolCalls
  <2>1. run'[r].toolCallCount = run[r].toolCallCount \/ StepStarted(r)
    BY <1>1, <1>2 DEF TraceChange, TraceKept, TraceClosed, StepResumed, StepObserved, StepFailed,
                      AnswerPublished, DecisionFailed, Counted
  <2>2. CASE StepStarted(r)
    <3>1. run'[r].toolCallCount = run[r].toolCallCount + 1 /\ run[r].toolCallCount < MaxToolCalls
      BY <2>2 DEF StepStarted, Counted
    <3>. QED
      BY <1>2, <3>1, StoreAssumption
  <2>. QED
    BY <1>1, <2>1, <2>2 DEF EntriesSound
<1>4. ASSUME NEW i \in DOMAIN steps[r],
             steps'[r][i].kind = steps[r][i].kind,
             steps'[r][i].executions >= steps[r][i].executions,
             i \in DOMAIN steps'[r],
             i \notin Running(r) => steps'[r][i] = steps[r][i]
      PROVE  EntrySound(steps'[r][i])
  <2>1. EntrySound(steps[r][i])
    BY <1>1 DEF EntriesSound
  <2>2. CASE i \in Running(r)
    <3>1. steps'[r][i].kind = "tool_call"
      BY <1>1, <1>4, <2>2 DEF TraceSound
    <3>2. steps'[r][i].executions \in Nat /\ steps[r][i].executions \in Nat
      BY <1>2, <1>4 DEF StepRow
    <3>. QED
      BY <1>4, <2>1, <3>1, <3>2 DEF EntrySound
  <2>. QED
    BY <1>4, <2>1, <2>2
<1>5. CASE Updates(r)
  BY <1>3, <1>4, <1>5, SameLength DEF EntriesSound
<1>6. CASE Grows(r)
  <2>1. EntrySound(steps'[r][Len(steps[r]) + 1])
    BY <1>6, OneLonger DEF EntrySound, Step
  <2>. QED
    BY <1>3, <1>4, <1>6, <2>1, OneLonger DEF EntriesSound
<1>. QED
  BY <1>1, <1>5, <1>6 DEF TraceChange, Updates, Grows

(* The tool calls stay within their limit, every stored step was executed,  *)
(* and the steps that end a run have the status that goes with their kind.  *)
THEOREM EntryInvCorrect == Spec => []EntryInv
<1>1. TypeOK /\ TypeOK' /\ RowInv /\ TraceInv /\ EntryInv /\ [Next]_vars => EntryInv'
  BY EntryInvStep
<1>. QED
  BY <1>1, EntryInvInit, TypeCorrect, RowInvCorrect, TraceInvCorrect, PTL DEF Spec

(* The sequence that InOrder makes of a set whose ranks are 1, 2, ..., N.   *)
LEMMA InOrderByRank ==
  ASSUME NEW S, IsFiniteSet(S), NEW rank,
         {rank[x] : x \in S} = 1 .. Cardinality(S)
  PROVE  /\ InOrder(S, rank) \in [1 .. Cardinality(S) -> S]
         /\ \A i \in 1 .. Cardinality(S) : rank[InOrder(S, rank)[i]] = i
<1>. DEFINE N == Cardinality(S)
            f == [x \in S |-> rank[x]]
            Below(x) == {y \in S : rank[y] < rank[x]}
<1>1. N \in Nat
  BY FS_CardinalityType
<1>2. IsFiniteSet(1 .. N) /\ Cardinality(1 .. N) = N
  <2>1. 1 \in Int /\ N \in Int
    BY <1>1
  <2>2. IsFiniteSet(1 .. N) /\ Cardinality(1 .. N) = IF 1 > N THEN 0 ELSE N - 1 + 1
    BY <2>1, FS_Interval
  <2>. QED
    BY <1>1, <2>2
<1>3. /\ \A x \in S : rank[x] \in 1 .. N
      /\ \A i \in 1 .. N : \E x \in S : rank[x] = i
  OBVIOUS
<1>4. \A x, y \in S : rank[x] = rank[y] => x = y
  <2>1. f \in Surjection(S, 1 .. N)
    BY <1>3 DEF Surjection
  <2>2. f \in Injection(S, 1 .. N)
    BY <1>2, <2>1, FS_SurjSameCardinalityImpliesInj
  <2>. QED
    BY <2>2 DEF Injection, IsInjective
<1>. HIDE DEF N
<1>5. ASSUME NEW x \in S
      PROVE  Cardinality(Below(x)) = rank[x] - 1
  <2>. DEFINE k == rank[x] - 1
              g == [y \in Below(x) |-> rank[y]]
  <2>1. k \in Nat /\ k < N
    BY <1>1, <1>3
  <2>2. IsFiniteSet(Below(x))
    BY FS_Subset
  <2>3. g \in Bijection(Below(x), 1 .. k)
    <3>1. \A y \in Below(x) : rank[y] \in 1 .. k
      BY <1>1, <1>3
    <3>2. \A i \in 1 .. k : \E y \in Below(x) : rank[y] = i
      BY <1>1, <1>3, <2>1
    <3>3. \A y, z \in Below(x) : rank[y] = rank[z] => y = z
      BY <1>4
    <3>. HIDE DEF Below, k
    <3>. QED
      BY <3>1, <3>2, <3>3 DEF Bijection, Injection, Surjection, IsInjective
  <2>4. Cardinality(1 .. k) = Cardinality(Below(x))
    BY <2>2, <2>3, FS_Bijection DEF ExistsBijection
  <2>5. Cardinality(1 .. k) = k
    <3>. HIDE DEF k
    <3>1. 1 \in Int /\ k \in Int
      BY <2>1
    <3>2. Cardinality(1 .. k) = IF 1 > k THEN 0 ELSE k - 1 + 1
      BY <3>1, FS_Interval
    <3>. QED
      BY <2>1, <3>2
  <2>. QED
    BY <2>4, <2>5
<1>6. ASSUME NEW i \in 1 .. N
      PROVE  InOrder(S, rank)[i] \in S /\ rank[InOrder(S, rank)[i]] = i
  <2>. DEFINE chosen == CHOOSE x \in S : Cardinality(Below(x)) = i - 1
  <2>1. InOrder(S, rank)[i] = chosen
    BY DEF InOrder, N
  <2>2. PICK x \in S : rank[x] = i
    BY <1>3
  <2>3. Cardinality(Below(x)) = i - 1
    BY <1>5, <2>2
  <2>4. chosen \in S /\ Cardinality(Below(chosen)) = i - 1
    BY <2>3, Zenon
  <2>. HIDE DEF chosen, Below
  <2>5. rank[chosen] - 1 = i - 1 /\ rank[chosen] \in Int /\ i \in Int
    BY <1>1, <1>3, <1>5, <2>4
  <2>6. rank[chosen] = i
    BY <2>5
  <2>. QED
    BY <2>1, <2>4, <2>6
<1>7. InOrder(S, rank) = [i \in 1 .. N |-> InOrder(S, rank)[i]]
  <2>. DEFINE place(i) == CHOOSE x \in S : Cardinality({y \in S : rank[y] < rank[x]}) = i - 1
  <2>1. InOrder(S, rank) = [i \in 1 .. N |-> place(i)]
    BY DEF InOrder, N
  <2>. HIDE DEF place
  <2>. QED
    BY <2>1
<1>. QED
  BY <1>6, <1>7 DEF N

(* The references of a view are those of the answer, in the order in which  *)
(* the answer gives them.                                                   *)
LEMMA ReferencesOrdered ==
  ASSUME TypeOK, EndInv, TraceInv, NEW r \in RunId,
         NEW n, n = Cardinality(FinalReferences(r))
  PROVE  /\ n \in Nat
         /\ FinalReferences(r) = {} <=> n = 0
         /\ FinalEvidenceIds(r) \in [1 .. n -> FinalReferences(r)]
         /\ \A i \in 1 .. n : evidence[r][FinalEvidenceIds(r)[i]].finalOrdinal = i
<1>. DEFINE F == FinalReferences(r)
            rank == [key \in DOMAIN evidence[r] |-> evidence[r][key].finalOrdinal]
<1>1. IsFiniteSet(DOMAIN evidence[r])
  <2>1. DOMAIN evidence[r] = 1 .. Len(evidence[r]) /\ Len(evidence[r]) \in Nat
    BY LenProperties DEF TypeOK
  <2>2. 1 \in Int /\ Len(evidence[r]) \in Int
    BY <2>1
  <2>. QED
    BY <2>1, <2>2, FS_Interval
<1>2. F \subseteq DOMAIN evidence[r]
  BY DEF FinalReferences
<1>3. IsFiniteSet(F) /\ n \in Nat /\ (F = {} <=> n = 0)
  BY <1>1, <1>2, FS_Subset, FS_CardinalityType, FS_EmptySet
<1>4. {rank[key] : key \in F} = 1 .. n
  <2>1. {rank[key] : key \in F} = Ordinals(r)
    BY <1>2 DEF Ordinals
  <2>2. CASE run[r].status = "completed"
    BY <2>1, <2>2 DEF EndInv, EndShape
  <2>3. CASE run[r].status # "completed"
    <3>1. F = {} /\ Ordinals(r) = {}
      BY <2>3 DEF EndInv, EndShape, Ordinals
    <3>2. 1 .. n = {}
      BY <1>3, <3>1
    <3>. QED
      BY <2>1, <3>1, <3>2
  <2>. QED
    BY <2>2, <2>3
<1>5. FinalEvidenceIds(r) = InOrder(F, rank)
  BY DEF FinalEvidenceIds, FinalReferences
<1>. HIDE DEF rank, F
<1>6. /\ FinalEvidenceIds(r) \in [1 .. n -> F]
      /\ \A i \in 1 .. n : rank[FinalEvidenceIds(r)[i]] = i
  <2>1. n = Cardinality(F)
    BY DEF F
  <2>. QED
    BY <1>3, <1>4, <1>5, <2>1, InOrderByRank
<1>7. \A key \in F : rank[key] = evidence[r][key].finalOrdinal
  BY <1>2 DEF rank
<1>. QED
  BY <1>3, <1>6, <1>7 DEF F

LEMMA RunAccepted ==
  ASSUME TypeOK, RowInv, TraceInv, EndInv, EntryInv, NEW r \in RunId, Stored(r)
  PROVE  ViewBuilt(r) /\ RunSchema(ToRun(r))
<1>. DEFINE ids == FinalEvidenceIds(r)
            n == Cardinality(FinalReferences(r))
            answer == [status |-> run[r].finalStatus, evidenceIds |-> ids]
            reply == ToRun(r)
<1>1. /\ n \in Nat /\ (FinalReferences(r) = {} <=> n = 0)
      /\ ids \in [1 .. n -> FinalReferences(r)]
      /\ \A i \in 1 .. n : evidence[r][ids[i]].finalOrdinal = i
  BY ReferencesOrdered
<1>2. RowChecks(r) /\ EndShape(r) /\ run[r] \in RunRow
  BY DEF RowInv, EndInv, TypeOK
<1>3. FinalReferences(r) \subseteq 1 .. MaxEvidence
  <2>1. DOMAIN evidence[r] = 1 .. Len(evidence[r]) /\ Len(evidence[r]) \in Nat
    BY LenProperties DEF TypeOK
  <2>2. Len(evidence[r]) <= MaxEvidence
    BY DEF TraceInv, TraceSound
  <2>. QED
    BY <2>1, <2>2, StoreAssumption DEF FinalReferences
<1>. HIDE DEF ids, n
<1>4. ids = << >> <=> n = 0
  <2>1. n = 0 => ids = << >>
    BY <1>1
  <2>2. ids = << >> => 1 .. n = {}
    BY <1>1
  <2>. QED
    BY <1>1, <2>1, <2>2
<1>5. ids \in Seq(1 .. MaxEvidence) /\ Len(ids) = n /\ DOMAIN ids = 1 .. n
  <2>1. ids \in [1 .. n -> 1 .. MaxEvidence]
    BY <1>1, <1>3
  <2>. QED
    BY <1>1, <2>1, FunctionIsSeq
<1>6. \A i, j \in 1 .. n : ids[i] = ids[j] => i = j
  BY <1>1
<1>7. n <= MaxEvidence
  <2>1. 1 \in Int /\ MaxEvidence \in Int
    BY StoreAssumption
  <2>2. IsFiniteSet(1 .. MaxEvidence) /\ Cardinality(1 .. MaxEvidence) = MaxEvidence
    BY <2>1, FS_Interval, StoreAssumption
  <2>. QED
    BY <1>3, <2>2, FS_Subset DEF n
<1>8. ViewBuilt(r)
  <2>1. run[r].status # "completed" => n = 0
    BY <1>1, <1>2 DEF EndShape
  <2>2. run[r].finalStatus \in FinalStatus => run[r].status = "completed"
    BY <1>2, StoreAssumption DEF RowChecks, StatusColumns
  <2>3. run[r].status = "completed" => (run[r].finalStatus = "answered" <=> n # 0)
    BY <1>1, <1>2 DEF EndShape
  <2>. QED
    BY <1>1, <1>4, <1>5, <2>1, <2>2, <2>3 DEF ViewBuilt, ids, FinalStatus
<1>9. /\ reply.status = run[r].status
      /\ reply.stepCount = run[r].stepCount /\ reply.toolCallCount = run[r].toolCallCount
      /\ reply.deadlineAt = run[r].deadlineAt /\ reply.errorCode = run[r].errorCode
      /\ reply.finalResult = IF run[r].status = "completed" THEN answer ELSE None
  BY DEF ToRun, ids
<1>. HIDE DEF reply
<1>10. /\ reply.stepCount \in 0 .. MaxSteps
       /\ reply.toolCallCount \in 0 .. MaxToolCalls
       /\ reply.toolCallCount <= reply.stepCount
  <2>1. run[r].stepCount \in Nat /\ run[r].toolCallCount \in Nat
    BY <1>2 DEF RunRow
  <2>2. run[r].toolCallCount <= MaxToolCalls
    BY DEF EntryInv, EntriesSound
  <2>. QED
    BY <1>2, <1>9, <2>1, <2>2, StoreAssumption DEF RowChecks
<1>11. ASSUME run[r].status = "completed" PROVE RunSchema(reply)
  <2>1. run[r].finalStatus \in FinalStatus
    BY <1>2, <1>11 DEF RowChecks, StatusColumns, RunRow
  <2>2. answer \in FinalResult
    BY <1>5, <2>1 DEF FinalResult
  <2>3. answer # None
    BY <2>2, ViewsAssumption
  <2>4. FinalResultSchema(answer)
    <3>1. run[r].finalStatus = "answered" => n # 0
      BY <1>1, <1>2, <1>11 DEF EndShape
    <3>2. run[r].finalStatus # "answered" => n = 0
      BY <1>1, <1>2, <1>11 DEF EndShape
    <3>. QED
      BY <1>1, <1>4, <1>5, <1>6, <1>7, <2>1, <3>1, <3>2 DEF FinalResultSchema, FinalStatus
  <2>. HIDE DEF answer
  <2>5. CompletedRunSchema(reply)
    BY <1>2, <1>9, <1>11, <2>3, <2>4 DEF RowChecks, StatusColumns, CompletedRunSchema
  <2>. QED
    BY <1>9, <1>10, <1>11, <2>5 DEF RunSchema
<1>12. ASSUME run[r].status # "completed" PROVE RunSchema(reply)
  <2>1. reply.finalResult = None
    BY <1>9, <1>12
  <2>2. run[r].status \in {"queued", "running", "failed", "cancelled"}
    BY <1>2, <1>12 DEF Stored, RunRow, Status, Terminal
  <2>3. StatusColumns(run[r]) /\ run[r].errorCode \in ErrorCode \cup {None}
    BY <1>2 DEF RowChecks, RunRow
  <2>4. CASE run[r].status = "queued"
    <3>1. QueuedRunSchema(reply)
      BY <1>9, <2>1, <2>3, <2>4 DEF StatusColumns, QueuedRunSchema
    <3>. QED
      BY <1>9, <1>10, <2>4, <3>1 DEF RunSchema
  <2>5. CASE run[r].status = "running"
    <3>1. RunningRunSchema(reply)
      BY <1>9, <2>1, <2>3, <2>5 DEF StatusColumns, RunningRunSchema
    <3>. QED
      BY <1>9, <1>10, <2>5, <3>1 DEF RunSchema
  <2>6. CASE run[r].status = "failed"
    <3>1. FailedRunSchema(reply)
      BY <1>9, <2>1, <2>3, <2>6 DEF StatusColumns, FailedRunSchema
    <3>. QED
      BY <1>9, <1>10, <2>6, <3>1 DEF RunSchema
  <2>7. CASE run[r].status = "cancelled"
    <3>1. CancelledRunSchema(reply)
      BY <1>9, <2>1, <2>3, <2>7 DEF StatusColumns, CancelledRunSchema
    <3>. QED
      BY <1>9, <1>10, <2>7, <3>1 DEF RunSchema
  <2>. QED
    BY <2>2, <2>4, <2>5, <2>6, <2>7
<1>. QED
  BY <1>8, <1>11, <1>12 DEF reply

LEMMA TraceAccepted ==
  ASSUME TypeOK, RowInv, TraceInv, EndInv, EntryInv, NEW r \in RunId, Stored(r),
         NEW user \in member
  PROVE  TraceSchema(ReadRunTraceForMember(r, user))
<1>. DEFINE trace == ReadRunTraceForMember(r, user)
            cited == {key \in DOMAIN trace.evidence : trace.evidence[key].finalOrdinal # 0}
<1>1. /\ trace.steps = [i \in DOMAIN steps[r] |-> ToStep(r, i)]
      /\ trace.evidence = [key \in DOMAIN evidence[r] |-> ToEvidence(r, key)]
  BY DEF ReadRunTraceForMember
<1>. HIDE DEF trace
<1>2. /\ DOMAIN steps[r] = 1 .. Len(steps[r]) /\ Len(steps[r]) \in Nat
      /\ DOMAIN evidence[r] = 1 .. Len(evidence[r]) /\ Len(evidence[r]) \in Nat
  BY LenProperties DEF TypeOK
<1>3. TraceSound(r) /\ RowChecks(r) /\ EndShape(r) /\ EntriesSound(r)
  BY DEF TraceInv, RowInv, EndInv, EntryInv
<1>4. Len(steps[r]) <= MaxSteps /\ Len(evidence[r]) <= MaxEvidence
  BY <1>3 DEF TraceSound, RowChecks
<1>5. Len(trace.steps) = Len(steps[r]) /\ Len(trace.evidence) = Len(evidence[r])
  <2>1. trace.steps \in [1 .. Len(steps[r]) -> {ToStep(r, i) : i \in 1 .. Len(steps[r])}]
    BY <1>1, <1>2
  <2>2. trace.evidence \in
          [1 .. Len(evidence[r]) -> {ToEvidence(r, key) : key \in 1 .. Len(evidence[r])}]
    BY <1>1, <1>2
  <2>. QED
    BY <1>2, <2>1, <2>2, FunctionIsSeq
<1>6. /\ DOMAIN trace.steps = DOMAIN steps[r]
      /\ DOMAIN trace.evidence = DOMAIN evidence[r]
      /\ \A i \in DOMAIN steps[r] :
           /\ trace.steps[i].sequence = i
           /\ trace.steps[i].kind = steps[r][i].kind
           /\ trace.steps[i].status = steps[r][i].status
           /\ trace.steps[i].executionCount = steps[r][i].executions
      /\ \A key \in DOMAIN evidence[r] :
           /\ trace.evidence[key].evidenceId = key
           /\ trace.evidence[key].stepId = evidence[r][key].step
           /\ trace.evidence[key].finalOrdinal = evidence[r][key].finalOrdinal
  BY <1>1 DEF ToStep, ToEvidence
<1>7. ASSUME NEW i \in DOMAIN steps[r] PROVE StepSchema(trace.steps[i])
  <2>1. EntrySound(steps[r][i]) /\ i \in 1 .. MaxSteps
    BY <1>2, <1>3, <1>4, StoreAssumption DEF EntriesSound
  <2>. QED
    BY <1>6, <2>1 DEF EntrySound, StepSchema
<1>8. \A i \in DOMAIN trace.steps : i > 1 => trace.steps[i - 1].sequence < trace.steps[i].sequence
  BY <1>2, <1>6
<1>9. ASSUME NEW key \in DOMAIN evidence[r]
      PROVE  trace.evidence[key].stepId \in CompletedTools(trace)
  <2>. DEFINE i == evidence[r][key].step
  <2>1. i \in DOMAIN steps[r] /\ steps[r][i].kind = "tool_call" /\ steps[r][i].status = "completed"
    BY <1>3 DEF TraceSound, EvidenceSound, CitedByCompletedTool
  <2>2. i \in CompletedTools(trace)
    BY <1>6, <2>1 DEF CompletedTools
  <2>. QED
    BY <1>6, <2>2
<1>10. {trace.evidence[key].finalOrdinal : key \in cited} = 1 .. Cardinality(cited)
  <2>1. cited = FinalReferences(r)
    BY <1>6 DEF FinalReferences
  <2>2. {trace.evidence[key].finalOrdinal : key \in cited} = Ordinals(r)
    BY <1>6 DEF Ordinals, FinalReferences
  <2>3. CASE run[r].status = "completed"
    BY <1>3, <2>1, <2>2, <2>3 DEF EndShape
  <2>4. CASE run[r].status # "completed"
    <3>1. FinalReferences(r) = {} /\ Ordinals(r) = {} /\ Cardinality(FinalReferences(r)) = 0
      BY <1>3, <2>4, FS_EmptySet DEF EndShape, Ordinals
    <3>2. 1 .. 0 = {}
      OBVIOUS
    <3>. HIDE DEF cited
    <3>. QED
      BY <2>1, <2>2, <3>1, <3>2
  <2>. QED
    BY <2>3, <2>4
<1>11. \A i, j \in DOMAIN trace.evidence :
         i # j => trace.evidence[i].evidenceId # trace.evidence[j].evidenceId
  BY <1>6
<1>12. TraceSchema(trace)
  <2>1. Len(trace.steps) <= MaxSteps /\ Len(trace.evidence) <= MaxEvidence
    BY <1>4, <1>5
  <2>. QED
    BY <1>6, <1>7, <1>8, <1>9, <1>10, <1>11, <2>1 DEF TraceSchema
<1>. QED
  BY <1>12 DEF trace

(* The attempts of a task are numbered without gaps.                        *)
LEMMA AttemptsCounted ==
  ASSUME OneLiveAttempt, NEW t \in Tasks, NEW n, n = Cardinality(Attempts(t))
  PROVE  n \in Nat /\ Attempts(t) = 1 .. n /\ IsFiniteSet(Attempts(t))
<1>1. IsFiniteSet(1 .. MaxAttempts)
  <2>1. 1 \in Int /\ MaxAttempts \in Int
    BY StoreAssumption
  <2>. QED
    BY <2>1, FS_Interval
<1>2. Attempts(t) \subseteq 1 .. MaxAttempts
  BY DEF Attempts
<1>3. IsFiniteSet(Attempts(t)) /\ n \in Nat
  BY <1>1, <1>2, FS_Subset, FS_CardinalityType
<1>4. ASSUME NEW k \in Attempts(t) PROVE k \in 1 .. n
  <2>1. 1 .. k \subseteq Attempts(t) /\ k \in Nat /\ k >= 1
    <3>1. \A j \in 1 .. k : j \in Attempts(t)
      BY DEF OneLiveAttempt
    <3>2. k \in 1 .. MaxAttempts
      BY <1>2
    <3>. QED
      BY <3>1, <3>2, StoreAssumption
  <2>2. Cardinality(1 .. k) <= n
    BY <1>3, <2>1, FS_Subset
  <2>3. 1 \in Int /\ k \in Int
    BY <2>1
  <2>4. Cardinality(1 .. k) = k
    BY <2>1, <2>3, FS_Interval
  <2>. QED
    BY <1>3, <2>1, <2>2, <2>4
<1>5. IsFiniteSet(1 .. n) /\ Cardinality(1 .. n) = n
  <2>1. 1 \in Int /\ n \in Int
    BY <1>3
  <2>2. IsFiniteSet(1 .. n) /\ Cardinality(1 .. n) = IF 1 > n THEN 0 ELSE n - 1 + 1
    BY <2>1, FS_Interval
  <2>. QED
    BY <1>3, <2>2
<1>6. Attempts(t) \subseteq 1 .. n
  BY <1>4
<1>. QED
  BY <1>3, <1>5, <1>6, FS_Subset

LEMMA TaskAccepted ==
  ASSUME TypeOK, RowInv, TraceInv, EndInv, EntryInv, OneLiveAttempt,
         NEW t \in Tasks, Attempts(t) # {}, NEW user \in member
  PROVE  TaskResponseSchema(ReadTaskForMember(t, user))
<1>. DEFINE n == Cardinality(Attempts(t))
            reply == ReadTaskForMember(t, user)
<1>1. n \in Nat /\ Attempts(t) = 1 .. n /\ IsFiniteSet(Attempts(t))
  BY AttemptsCounted
<1>2. n >= 1
  BY <1>1
<1>3. RunsOf(t) \in [1 .. n -> Attempts(t)] /\ \A i \in 1 .. n : RunsOf(t)[i] = i
  <2>. DEFINE rank == [k \in Attempts(t) |-> k]
  <2>1. {rank[k] : k \in Attempts(t)} = 1 .. n
    BY <1>1
  <2>2. RunsOf(t) = InOrder(Attempts(t), rank)
    BY DEF RunsOf
  <2>3. \A k \in Attempts(t) : rank[k] = k
    OBVIOUS
  <2>. HIDE DEF rank
  <2>4. /\ RunsOf(t) \in [1 .. n -> Attempts(t)]
        /\ \A i \in 1 .. n : rank[RunsOf(t)[i]] = i
    BY <1>1, <2>1, <2>2, InOrderByRank
  <2>. QED
    BY <2>3, <2>4
<1>. HIDE DEF n
<1>4. \A i \in 1 .. n : <<t, i>> \in RunId /\ Stored(<<t, i>>)
  BY <1>1 DEF Attempts, RunId, Stored
<1>. DEFINE runs == [k \in 1 .. n |-> ToRun(<<t, k>>)]
<1>5. [k \in DOMAIN RunsOf(t) |-> ToRun(<<t, RunsOf(t)[k]>>)] = runs
  BY <1>3
<1>6. reply = [status |-> "ok", task |-> t, runs |-> runs, latestRun |-> runs[Len(runs)]]
  BY <1>5 DEF ReadTaskForMember
<1>. HIDE DEF reply
<1>7. runs \in Seq({ToRun(<<t, k>>) : k \in 1 .. n}) /\ Len(runs) = n /\ DOMAIN runs = 1 .. n
  <2>1. runs \in [1 .. n -> {ToRun(<<t, k>>) : k \in 1 .. n}]
    OBVIOUS
  <2>. QED
    BY <1>1, <2>1, FunctionIsSeq
<1>8. ASSUME NEW i \in 1 .. n
      PROVE  RunSchema(runs[i]) /\ runs[i].id[1] = t /\ runs[i].id[2] = i
  <2>1. RunSchema(ToRun(<<t, i>>))
    BY <1>4, RunAccepted
  <2>2. ToRun(<<t, i>>).id = <<t, i>>
    BY DEF ToRun
  <2>. QED
    BY <2>1, <2>2
<1>. HIDE DEF runs
<1>9. runs # << >>
  BY <1>2, <1>7
<1>10. \A i \in 1 .. n : i > 1 => runs[i - 1].id[2] < runs[i].id[2]
  <2>1. ASSUME NEW i \in 1 .. n, i > 1 PROVE runs[i - 1].id[2] < runs[i].id[2]
    <3>1. i - 1 \in 1 .. n /\ i - 1 < i
      BY <1>1, <2>1
    <3>. QED
      BY <1>8, <3>1
  <2>. QED
    BY <2>1
<1>11. n \in 1 .. n
  BY <1>1, <1>2
<1>12. reply.task = t /\ reply.runs = runs /\ reply.latestRun = runs[n]
  BY <1>6, <1>7
<1>13. TaskResponseSchema(reply)
  BY <1>7, <1>8, <1>9, <1>10, <1>11, <1>12 DEF TaskResponseSchema, TaskSchema
<1>. QED
  BY <1>13 DEF reply

LEMMA ListAccepted ==
  ASSUME TypeOK, RowInv, TraceInv, EndInv, EntryInv, OneLiveAttempt,
         NEW filter, NEW user \in member
  PROVE  TaskListSchema(ListTasksForMember(user, filter))
<1>1. ASSUME NEW t \in Tasks, Attempts(t) # {}
      PROVE  ToRun(LatestRun(t)).id[1] = t /\ RunSchema(ToRun(LatestRun(t)))
  <2>. DEFINE n == Cardinality(Attempts(t))
              latest == CHOOSE k \in Attempts(t) : \A j \in Attempts(t) : j <= k
  <2>1. n \in Nat /\ Attempts(t) = 1 .. n
    BY AttemptsCounted
  <2>2. n \in Attempts(t) /\ \A j \in Attempts(t) : j <= n
    <3>. HIDE DEF n
    <3>. QED
      BY <1>1, <2>1
  <2>3. latest \in Attempts(t)
    BY <2>2, Zenon
  <2>4. LatestRun(t) = <<t, latest>>
    BY DEF LatestRun
  <2>. HIDE DEF latest
  <2>5. LatestRun(t) \in RunId /\ Stored(LatestRun(t))
    BY <2>3, <2>4 DEF Attempts, RunId, Stored
  <2>6. ToRun(LatestRun(t)).id = <<t, latest>>
    BY <2>4 DEF ToRun
  <2>. QED
    BY <2>5, <2>6, RunAccepted
<1>2. ListTasksForMember(user, filter).tasks =
        {[task |-> t, latestRun |-> ToRun(LatestRun(t))] :
           t \in {t \in Tasks : Attempts(t) # {} /\ run[LatestRun(t)].status \in filter}}
  BY DEF ListTasksForMember
<1>. QED
  BY <1>1, <1>2 DEF TaskListSchema, TaskSchema

LEMMA StateAccepted ==
  ASSUME TypeOK, TraceInv, NEW f \in claims,
         NEW state, state = ReadExecutionState(f, now), state.status = "ok"
  PROVE  StepOrderValid(state) /\ EvidenceValid(state)
<1>1. f.run \in RunId
  BY DEF TypeOK, Fence
<1>2. state = [status |-> "ok", stepCount |-> run[f.run].stepCount,
               toolCallCount |-> run[f.run].toolCallCount,
               steps |-> steps[f.run], evidence |-> evidence[f.run]]
  BY DEF ReadExecutionState, WriteGuard
<1>3. TraceSound(f.run)
  BY <1>1 DEF TraceInv
<1>4. \A i \in DOMAIN steps[f.run] :
        steps[f.run][i].status = "running" =>
          i = Len(steps[f.run]) /\ steps[f.run][i].kind = "tool_call"
  BY <1>3 DEF TraceSound, Running
<1>5. /\ run[f.run].stepCount = Len(steps[f.run])
      /\ run[f.run].toolCallCount =
           Cardinality({i \in DOMAIN steps[f.run] : steps[f.run][i].kind = "tool_call"})
  BY <1>3 DEF TraceSound, Tools
<1>6. StepOrderValid(state)
  BY <1>2, <1>4, <1>5 DEF StepOrderValid
<1>7. EvidenceValid(state)
  <2>1. Len(evidence[f.run]) <= MaxEvidence
    BY <1>3 DEF TraceSound
  <2>2. \A key \in DOMAIN evidence[f.run] :
          /\ evidence[f.run][key].step \in DOMAIN steps[f.run]
          /\ steps[f.run][evidence[f.run][key].step].kind = "tool_call"
          /\ steps[f.run][evidence[f.run][key].step].status = "completed"
    BY <1>3 DEF TraceSound, EvidenceSound, CitedByCompletedTool
  <2>3. state.evidence = evidence[f.run] /\ state.steps = steps[f.run]
    BY <1>2
  <2>. QED
    BY <2>1, <2>2, <2>3 DEF EvidenceValid
<1>. QED
  BY <1>6, <1>7

(* Whatever the handlers have stored, every run, trace, task and task list  *)
(* that a member reads is accepted by its contract, and what a live fence   *)
(* reads can be turned into the context of a decision.                      *)
THEOREM ViewableHolds == Spec => []Viewable
<1>1. ASSUME TypeOK, RowInv, TraceInv, EndInv, EntryInv, OneLiveAttempt
      PROVE  Viewable
  <2>1. ASSUME NEW user \in member, NEW r \in RunId, Stored(r)
        PROVE  /\ ViewBuilt(r)
               /\ RunSchema(ReadRunForMember(r, user).run)
               /\ TraceSchema(ReadRunTraceForMember(r, user))
    <3>1. ReadRunForMember(r, user).run = ToRun(r)
      BY <2>1 DEF ReadRunForMember
    <3>. QED
      BY <1>1, <2>1, <3>1, RunAccepted, TraceAccepted
  <2>2. ASSUME NEW user \in member, NEW t \in Tasks, Attempts(t) # {}
        PROVE  TaskResponseSchema(ReadTaskForMember(t, user))
    BY <1>1, <2>2, TaskAccepted
  <2>3. ASSUME NEW user \in member, NEW filter \in Filters
        PROVE  TaskListSchema(ListTasksForMember(user, filter))
    BY <1>1, <2>3, ListAccepted
  <2>4. \A f \in claims : LET state == ReadExecutionState(f, now) IN
          state.status = "ok" => StepOrderValid(state) /\ EvidenceValid(state)
    BY <1>1, StateAccepted
  <2>. QED
    BY <2>1, <2>2, <2>3, <2>4 DEF Viewable
<1>. QED
  BY <1>1, TypeCorrect, RowInvCorrect, TraceInvCorrect, EndInvCorrect, EntryInvCorrect,
     OneLiveAttemptHolds, PTL
=============================================================================
