--------------------------- MODULE AgentRunViews ---------------------------
(***************************************************************************)
(* What the members of a Space are shown of the Agent runs: the reads of   *)
(* server/modules/agents/repository.ts, the replies that service.ts makes  *)
(* of them and the response contract of shared/contracts/agents.ts that    *)
(* every reply is parsed against before it is sent.  A read is one         *)
(* transaction that holds a share lock on the rows that every writer locks *)
(* for update, so it sees one state of AgentRunStore and is an operator on *)
(* that state.  A reply that its contract refuses is an internal error.    *)
(***************************************************************************)
EXTENDS AgentRunStore

Stored(r) == run[r].status # "absent"

NotFound == [status |-> "not_found"]

-----------------------------------------------------------------------------
(* Persistence views: a row with the evidence its final answer refers to.   *)

(* The members of a finite set from the lowest to the highest rank, no two  *)
(* of which are equal.                                                      *)
InOrder(S, rank) ==
  [i \in 1 .. Cardinality(S) |->
     CHOOSE x \in S : Cardinality({y \in S : rank[y] < rank[x]}) = i - 1]

(* Mutant of FinalEvidenceIds: the references come in the order of storage. *)
FinalEvidenceIdsAsStored(r) ==
  InOrder({key \in DOMAIN evidence[r] : evidence[r][key].finalOrdinal # 0},
          [key \in DOMAIN evidence[r] |-> key])

FinalEvidenceIds(r) ==
  InOrder({key \in DOMAIN evidence[r] : evidence[r][key].finalOrdinal # 0},
          [key \in DOMAIN evidence[r] |-> evidence[r][key].finalOrdinal])

(* The view is built; every other combination throws.                       *)
ViewBuilt(r) ==
  LET ids == FinalEvidenceIds(r) IN
  /\ run[r].status # "completed" => ids = << >>
  /\ run[r].finalStatus = "answered" => ids # << >>
  /\ run[r].finalStatus = "insufficient_context" => ids = << >>
  /\ \A i \in DOMAIN ids : evidence[r][ids[i]].finalOrdinal = i

ToRun(r) ==
  [id |-> r, status |-> run[r].status,
   stepCount |-> run[r].stepCount, toolCallCount |-> run[r].toolCallCount,
   cancelRequested |-> run[r].cancelRequested,
   deadlineAt |-> run[r].deadlineAt, errorCode |-> run[r].errorCode,
   finalResult |-> IF run[r].status = "completed"
                   THEN [status |-> run[r].finalStatus, evidenceIds |-> FinalEvidenceIds(r)]
                   ELSE None]

ToStep(r, i) ==
  [sequence |-> i, kind |-> steps[r][i].kind, status |-> steps[r][i].status,
   executionCount |-> steps[r][i].executions]

ToEvidence(r, key) ==
  [evidenceId |-> key, stepId |-> evidence[r][key].step,
   finalOrdinal |-> evidence[r][key].finalOrdinal]

-----------------------------------------------------------------------------
(* Reads.                                                                   *)

ReadRunForMember(r, user) ==
  IF user \in member /\ Stored(r) THEN [status |-> "ok", run |-> ToRun(r)] ELSE NotFound

ReadRunTraceForMember(r, user) ==
  IF user \in member /\ Stored(r)
  THEN [status |-> "ok", runId |-> r,
        steps |-> [i \in DOMAIN steps[r] |-> ToStep(r, i)],
        evidence |-> [key \in DOMAIN evidence[r] |-> ToEvidence(r, key)]]
  ELSE NotFound

RunsOf(t) == InOrder(Attempts(t), [k \in Attempts(t) |-> k])

ReadTaskForMember(t, user) ==
  IF user \in member /\ Attempts(t) # {}
  THEN LET runs == [k \in DOMAIN RunsOf(t) |-> ToRun(<<t, RunsOf(t)[k]>>)] IN
       [status |-> "ok", task |-> t, runs |-> runs, latestRun |-> runs[Len(runs)]]
  ELSE NotFound

(* The rows of a task list: one per task, joined with its latest attempt,   *)
(* which alone the status filter looks at.                                  *)
LatestRun(t) == <<t, CHOOSE k \in Attempts(t) : \A j \in Attempts(t) : j <= k>>

(* The status filter of a list: one status, or none.                        *)
Filters == {Status} \cup {{status} : status \in Status}

ListTasksForMember(user, filter) ==
  IF user \in member
  THEN [status |-> "ok",
        tasks |-> {[task |-> t, latestRun |-> ToRun(LatestRun(t))] :
                     t \in {t \in Tasks : /\ Attempts(t) # {}
                                          /\ run[LatestRun(t)].status \in filter}}]
  ELSE NotFound

(* What the holder of a fence reads before it decides on the next step.     *)
ReadExecutionState(f, n) ==
  IF ~Holds(f) THEN [status |-> "stale"]
  ELSE IF WriteGuard(f.run, n) # "allowed" THEN [status |-> WriteGuard(f.run, n)]
  ELSE IF LeaseExpired(f.run, n) THEN [status |-> "stale"]
  ELSE [status |-> "ok", stepCount |-> run[f.run].stepCount,
        toolCallCount |-> run[f.run].toolCallCount,
        steps |-> steps[f.run], evidence |-> evidence[f.run]]

-----------------------------------------------------------------------------
(* The response contract.                                                   *)

FinalResult == [status : FinalStatus, evidenceIds : Seq(1 .. MaxEvidence)]

(* An answer is told apart from the null that stands for none.              *)
ASSUME ViewsAssumption == None \notin FinalResult

FinalResultSchema(result) ==
  /\ result.evidenceIds \in Seq(1 .. MaxEvidence)
  /\ \/ /\ result.status = "answered"
        /\ Len(result.evidenceIds) \in 1 .. MaxEvidence
        /\ \A i, j \in DOMAIN result.evidenceIds :
             result.evidenceIds[i] = result.evidenceIds[j] => i = j
     \/ result.status = "insufficient_context" /\ result.evidenceIds = << >>

QueuedRunSchema(reply) ==
  reply.deadlineAt = NoTime /\ reply.errorCode = None /\ reply.finalResult = None

RunningRunSchema(reply) ==
  reply.deadlineAt # NoTime /\ reply.errorCode = None /\ reply.finalResult = None

CompletedRunSchema(reply) ==
  /\ reply.deadlineAt # NoTime /\ reply.errorCode = None
  /\ reply.finalResult # None /\ FinalResultSchema(reply.finalResult)

FailedRunSchema(reply) ==
  reply.deadlineAt # NoTime /\ reply.errorCode \in ErrorCode /\ reply.finalResult = None

CancelledRunSchema(reply) == reply.errorCode = None /\ reply.finalResult = None

RunSchema(reply) ==
  /\ reply.stepCount \in 0 .. MaxSteps
  /\ reply.toolCallCount \in 0 .. MaxToolCalls
  /\ reply.toolCallCount <= reply.stepCount
  /\ CASE reply.status = "queued" -> QueuedRunSchema(reply)
       [] reply.status = "running" -> RunningRunSchema(reply)
       [] reply.status = "completed" -> CompletedRunSchema(reply)
       [] reply.status = "failed" -> FailedRunSchema(reply)
       [] reply.status = "cancelled" -> CancelledRunSchema(reply)

StepSchema(step) ==
  /\ step.sequence \in 1 .. MaxSteps
  /\ step.executionCount > 0
  /\ step.kind = "final_answer" => step.status = "completed"
  /\ step.kind = "decision_error" => step.status = "failed"

CompletedTools(trace) ==
  {trace.steps[i].sequence : i \in {i \in DOMAIN trace.steps :
     trace.steps[i].kind = "tool_call" /\ trace.steps[i].status = "completed"}}

TraceSchema(trace) ==
  LET cited == {key \in DOMAIN trace.evidence : trace.evidence[key].finalOrdinal # 0} IN
  /\ Len(trace.steps) <= MaxSteps
  /\ Len(trace.evidence) <= MaxEvidence
  /\ \A i \in DOMAIN trace.steps :
       /\ StepSchema(trace.steps[i])
       /\ i > 1 => trace.steps[i - 1].sequence < trace.steps[i].sequence
  /\ \A i, j \in DOMAIN trace.evidence :
       i # j => trace.evidence[i].evidenceId # trace.evidence[j].evidenceId
  /\ \A i \in DOMAIN trace.evidence : trace.evidence[i].stepId \in CompletedTools(trace)
  /\ {trace.evidence[key].finalOrdinal : key \in cited} = 1 .. Cardinality(cited)

TaskSchema(item) == item.latestRun.id[1] = item.task /\ RunSchema(item.latestRun)

TaskResponseSchema(reply) ==
  /\ TaskSchema(reply)
  /\ reply.runs # << >> /\ reply.runs[Len(reply.runs)] = reply.latestRun
  /\ \A i \in DOMAIN reply.runs :
       /\ RunSchema(reply.runs[i])
       /\ reply.runs[i].id[1] = reply.task
       /\ i > 1 => reply.runs[i - 1].id[2] < reply.runs[i].id[2]

TaskListSchema(reply) == \A item \in reply.tasks : TaskSchema(item)

-----------------------------------------------------------------------------
(* What a worker makes of the state it reads before it asks for a decision. *)

StepOrderValid(state) ==
  /\ Len(state.steps) = state.stepCount
  /\ Cardinality({i \in DOMAIN state.steps : state.steps[i].kind = "tool_call"})
       = state.toolCallCount
  /\ \A i \in DOMAIN state.steps :
       state.steps[i].status = "running" =>
         i = Len(state.steps) /\ state.steps[i].kind = "tool_call"

EvidenceValid(state) ==
  /\ Len(state.evidence) <= MaxEvidence
  /\ \A key \in DOMAIN state.evidence :
       /\ state.evidence[key].step \in DOMAIN state.steps
       /\ state.steps[state.evidence[key].step].kind = "tool_call"
       /\ state.steps[state.evidence[key].step].status = "completed"

(* Nothing that is stored makes a read fail: whichever transaction ran      *)
(* last, every run, trace, task and task list that a member asks for is     *)
(* accepted by its contract instead of ending as an internal error, and     *)
(* what a live fence reads can be turned into the context of a decision.    *)
Viewable ==
  /\ \A user \in member :
       /\ \A r \in RunId : Stored(r) =>
            /\ ViewBuilt(r)
            /\ RunSchema(ReadRunForMember(r, user).run)
            /\ TraceSchema(ReadRunTraceForMember(r, user))
       /\ \A t \in Tasks : Attempts(t) # {} => TaskResponseSchema(ReadTaskForMember(t, user))
       /\ \A filter \in Filters : TaskListSchema(ListTasksForMember(user, filter))
  /\ \A f \in claims : LET state == ReadExecutionState(f, now) IN
       state.status = "ok" => StepOrderValid(state) /\ EvidenceValid(state)
=============================================================================
