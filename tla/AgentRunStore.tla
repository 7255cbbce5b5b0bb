--------------------------- MODULE AgentRunStore ---------------------------
(***************************************************************************)
(* The durable state of the Agent runtime: the rows of agent_runs,         *)
(* agent_run_steps and agent_run_evidence, and the handlers of             *)
(* server/modules/agents/repository.ts that write them.  Every handler is  *)
(* one PostgreSQL transaction that locks its run row, so every handler is  *)
(* one action here.                                                        *)
(*                                                                         *)
(* A worker is represented by what it can still send to the database: the  *)
(* fences (run, worker, lease generation) that claimRun ever handed out.   *)
(* Fences are never taken back, so a process that stalled, lost its lease  *)
(* or was restarted may write with an old fence at any later time; a       *)
(* process that crashed is one that uses its fence no more.                *)
(*                                                                         *)
(* Handlers receive a time stamp that the caller read before its           *)
(* transaction got its locks; it is at most Lag ticks behind the clock.    *)
(***************************************************************************)
EXTENDS Integers, Sequences, FiniteSets

CONSTANTS
  Tasks,          \* agent tasks
  Users,          \* accounts that may be members of the Research Space
  Workers,        \* worker processes (one random lease owner id each)
  Requests,       \* client request ids of retry commands
  None,           \* the null reference
  MaxAttempts,    \* bound: runs per task
  MaxSteps,       \* snapshot limit maxSteps
  MaxToolCalls,   \* snapshot limit maxToolCalls
  MaxEvidence,    \* snapshot limit maxEvidence
  MaxExecutions,  \* bound: executions of one step
  LeaseDuration,  \* worker lease, in ticks
  WallTime,       \* run wall time, in ticks
  Lag,            \* bound: age of a handler's time stamp, in ticks
  MaxTime         \* bound: the clock stops here

WallTimeExceeded == "agent_wall_time_exceeded"
AccessRevoked == "agent_space_access_revoked"
ExecutorError == "agent_provider_unavailable"   \* stands for every code the executor reports
ErrorCode == {WallTimeExceeded, AccessRevoked, ExecutorError}
FinalStatus == {"answered", "insufficient_context"}

ASSUME StoreAssumption ==
  /\ MaxAttempts \in Nat \ {0}
  /\ MaxSteps \in Nat \ {0}
  /\ MaxToolCalls \in Nat \ {0}
  /\ MaxEvidence \in Nat
  /\ MaxExecutions \in Nat \ {0}
  /\ LeaseDuration \in Nat \ {0}
  /\ WallTime \in Nat \ {0}
  /\ Lag \in Nat
  /\ MaxTime \in Nat
  /\ None \notin Users \cup Workers \cup Requests \cup ErrorCode \cup FinalStatus

VARIABLES
  now,       \* the clock
  member,    \* the users that are members of the Space
  run,       \* run[<<t, k>>] is the row of attempt k of task t
  steps,     \* steps[r]: the run's steps in sequence order
  evidence,  \* evidence[r]: the run's evidence; E1, E2, ... are the indexes
  claims     \* every fence claimRun has returned

vars == <<now, member, run, steps, evidence, claims>>

-----------------------------------------------------------------------------
(* Rows.                                                                    *)

RunId == Tasks \X (1 .. MaxAttempts)
NoTime == -1

Terminal == {"completed", "failed", "cancelled"}
Status == {"absent", "queued", "running"} \cup Terminal

AbsentRun ==
  [status |-> "absent", actor |-> None, retryId |-> None, createdAt |-> NoTime,
   owner |-> None, generation |-> 0, leaseExpiresAt |-> NoTime,
   deadlineAt |-> NoTime, cancelRequested |-> FALSE, errorCode |-> None,
   finalStatus |-> None, stepCount |-> 0, toolCallCount |-> 0]

QueuedRun(user, request, n) ==
  [AbsentRun EXCEPT !.status = "queued", !.actor = user, !.retryId = request,
                    !.createdAt = n]

Step(kind, status) == [kind |-> kind, status |-> status, executions |-> 1]

Attempts(t) == {k \in 1 .. MaxAttempts : run[<<t, k>>].status # "absent"}

(* The steps of r whose status is running.                                  *)
Running(r) == {i \in DOMAIN steps[r] : steps[r][i].status = "running"}

(* Time stamps a handler that commits now may carry.                        *)
Stamps == {n \in 0 .. now : now - n <= Lag}

-----------------------------------------------------------------------------
(* Policy helpers.                                                          *)

LeaseExpiry(n, deadline) ==
  IF n + LeaseDuration <= deadline THEN n + LeaseDuration ELSE deadline

LeaseExpired(r, n) ==
  run[r].leaseExpiresAt = NoTime \/ run[r].leaseExpiresAt <= n

HasMembership(r) == run[r].actor \in member

(* Mutant of WriteGuard: cancellation is not looked at.                     *)
WriteGuardDeafToCancel(r, n) ==
  IF ~HasMembership(r) THEN "access_revoked"
  ELSE IF run[r].deadlineAt = NoTime \/ run[r].deadlineAt <= n THEN "deadline_exceeded"
  ELSE "allowed"

WriteGuard(r, n) ==
  IF run[r].cancelRequested THEN "cancel_requested"
  ELSE IF ~HasMembership(r) THEN "access_revoked"
  ELSE IF run[r].deadlineAt = NoTime \/ run[r].deadlineAt <= n THEN "deadline_exceeded"
  ELSE "allowed"

(* Mutant of Holds: a worker writes whenever the run is running.            *)
HoldsByStatus(f) == run[f.run].status = "running"

(* The where clause of every worker write: the row is still running under   *)
(* the caller's worker id and lease generation.                             *)
Holds(f) ==
  /\ run[f.run].status = "running"
  /\ run[f.run].owner = f.worker
  /\ run[f.run].generation = f.generation

(* Mutant of Writable: the lease is not looked at.                          *)
WritableAfterLease(r, n) == WriteGuard(r, n) = "allowed"

Writable(r, n) == WriteGuard(r, n) = "allowed" /\ ~LeaseExpired(r, n)

(* A row that reaches a terminal status loses its lease.                    *)
Finished(row, status, code) ==
  [row EXCEPT !.status = status, !.errorCode = code,
              !.owner = None, !.leaseExpiresAt = NoTime]

(* The running steps of a settled run end with the run.                     *)
Closed(trace, status) ==
  [i \in DOMAIN trace |->
     IF trace[i].status = "running" THEN [trace[i] EXCEPT !.status = status]
     ELSE trace[i]]

Settle(r, status, code) ==
  /\ run' = [run EXCEPT ![r] = Finished(@, status, code)]
  /\ steps' = [steps EXCEPT ![r] = Closed(@, status)]
  /\ UNCHANGED evidence

SettleCancelled(r, n) ==
  WriteGuard(r, n) = "cancel_requested" /\ Settle(r, "cancelled", None)

SettleFailed(r, n) ==
  \/ WriteGuard(r, n) = "access_revoked" /\ Settle(r, "failed", AccessRevoked)
  \/ WriteGuard(r, n) = "deadline_exceeded" /\ Settle(r, "failed", WallTimeExceeded)

-----------------------------------------------------------------------------
(* Commands of the service.                                                 *)

(* A repeated creation request finds its task and writes nothing.           *)
CreateTaskWithInitialRun(t, user, n) ==
  /\ user \in member
  /\ Attempts(t) = {}
  /\ run' = [run EXCEPT ![<<t, 1>>] = QueuedRun(user, None, n)]
  /\ UNCHANGED <<now, member, steps, evidence, claims>>

(* Mutant of CreateRetryRun: the request id is not looked up.               *)
CreateRetryRunTwice(t, user, request, n) ==
  /\ user \in member
  /\ \E latest \in Attempts(t) :
       /\ \A k \in Attempts(t) : k <= latest
       /\ run[<<t, latest>>].status \in Terminal
       /\ latest < MaxAttempts
       /\ run' = [run EXCEPT ![<<t, latest + 1>>] = QueuedRun(user, request, n)]
  /\ UNCHANGED <<now, member, steps, evidence, claims>>

(* A repeated retry request finds its run and writes nothing.               *)
CreateRetryRun(t, user, request, n) ==
  /\ user \in member
  /\ \A k \in Attempts(t) : run[<<t, k>>].retryId # request
  /\ \E latest \in Attempts(t) :
       /\ \A k \in Attempts(t) : k <= latest
       /\ run[<<t, latest>>].status \in Terminal
       /\ latest < MaxAttempts
       /\ run' = [run EXCEPT ![<<t, latest + 1>>] = QueuedRun(user, request, n)]
  /\ UNCHANGED <<now, member, steps, evidence, claims>>

CancelRun(r, user) ==
  /\ user \in member
  /\ \/ /\ run[r].status = "queued"
        /\ run' = [run EXCEPT ![r].status = "cancelled", ![r].cancelRequested = TRUE]
     \/ /\ run[r].status = "running"
        /\ ~run[r].cancelRequested
        /\ run' = [run EXCEPT ![r].cancelRequested = TRUE]
  /\ UNCHANGED <<now, member, steps, evidence, claims>>

-----------------------------------------------------------------------------
(* Claiming.                                                                *)

(* Mutant of Eligible: nobody takes over an abandoned run.                  *)
EligibleQueued(n) == {r \in RunId : run[r].status = "queued"}

(* Mutant of Eligible: a run asked to be cancelled is not claimed again     *)
(* until its deadline.                                                      *)
EligibleUncancelled(n) ==
  {r \in RunId : \/ run[r].status = "queued"
                 \/ /\ run[r].status = "running" /\ run[r].leaseExpiresAt <= n
                    /\ run[r].cancelRequested => run[r].deadlineAt <= n}

Eligible(n) ==
  {r \in RunId : \/ run[r].status = "queued"
                 \/ run[r].status = "running" /\ run[r].leaseExpiresAt <= n}

DeadlineAtClaim(r, n) ==
  IF run[r].deadlineAt = NoTime THEN n + WallTime ELSE run[r].deadlineAt

Doomed(r, n) ==
  run[r].cancelRequested \/ DeadlineAtClaim(r, n) <= n \/ ~HasMembership(r)

(* Mutant of DoomedStatus: a cancelled run that is reclaimed fails.         *)
DoomedAlwaysFails(r) == "failed"

(* What the claim loop makes of a row it cannot hand out.                   *)
DoomedStatus(r) == IF run[r].cancelRequested THEN "cancelled" ELSE "failed"

Buried(r, n) ==
  [Finished(run[r], DoomedStatus(r),
            IF run[r].cancelRequested THEN None
            ELSE IF DeadlineAtClaim(r, n) <= n THEN WallTimeExceeded
            ELSE AccessRevoked)
   EXCEPT !.deadlineAt = DeadlineAtClaim(r, n)]

Leased(r, w, n) ==
  [run[r] EXCEPT !.status = "running", !.owner = w, !.generation = @ + 1,
                 !.deadlineAt = DeadlineAtClaim(r, n),
                 !.leaseExpiresAt = LeaseExpiry(n, DeadlineAtClaim(r, n))]

(* The effect of a claim that leases taken (at most one run) and settles    *)
(* buried on the way.                                                       *)
HandOut(w, n, taken, buried) ==
  /\ run' = [r \in RunId |-> IF r \in taken THEN Leased(r, w, n)
                             ELSE IF r \in buried THEN Buried(r, n)
                             ELSE run[r]]
  /\ steps' = [r \in RunId |-> IF r \in buried THEN Closed(steps[r], DoomedStatus(r))
                               ELSE steps[r]]
  /\ claims' = claims \cup
       {[run |-> r, worker |-> w, generation |-> run[r].generation + 1] : r \in taken}
  /\ UNCHANGED <<now, member, evidence>>

(* One claimRun transaction.  seen are the eligible rows it finds unlocked  *)
(* at some turn of its loop (locked ones are skipped).  The loop settles    *)
(* the doomed ones and leases the first other one, the oldest it sees; a    *)
(* row locked at one turn may be free at the next, so doomed rows younger   *)
(* than the leased one may be settled too.  Rows of equal age come in the   *)
(* order of their random ids, which the choice of seen covers.              *)
ClaimRun(w, n) ==
  \E seen \in SUBSET Eligible(n) :
    LET alive == {r \in seen : ~Doomed(r, n)} IN
    \/ /\ alive = {}
       /\ HandOut(w, n, {}, seen)
    \/ \E c \in alive :
         /\ \A o \in alive : run[c].createdAt <= run[o].createdAt
         /\ HandOut(w, n, {c}, seen \ alive)

-----------------------------------------------------------------------------
(* Worker writes.  f is the fence the caller holds.                         *)

HeartbeatLease(f, n) ==
  /\ Holds(f)
  /\ \/ SettleCancelled(f.run, n)
     \/ SettleFailed(f.run, n)
     \/ /\ Writable(f.run, n)
        /\ run' = [run EXCEPT ![f.run].leaseExpiresAt = LeaseExpiry(n, run[f.run].deadlineAt)]
        /\ UNCHANGED <<steps, evidence>>
  /\ UNCHANGED <<now, member, claims>>

(* A step left running must be resumed as it is before another one starts.  *)
ResumeStep(r) ==
  \E i \in Running(r) :
    /\ \A j \in Running(r) : j <= i
    /\ steps[r][i].executions < MaxExecutions
    /\ steps' = [steps EXCEPT ![r][i].executions = @ + 1]
    /\ UNCHANGED <<run, evidence>>

(* Mutant of StartStep: a second step starts beside an unfinished one.      *)
StartStepBeside(r) ==
  /\ run[r].stepCount < MaxSteps
  /\ run[r].toolCallCount < MaxToolCalls
  /\ steps' = [steps EXCEPT ![r] = Append(@, Step("tool_call", "running"))]
  /\ run' = [run EXCEPT ![r].stepCount = @ + 1, ![r].toolCallCount = @ + 1]
  /\ UNCHANGED evidence

StartStep(r) ==
  /\ Running(r) = {}
  /\ run[r].stepCount < MaxSteps
  /\ run[r].toolCallCount < MaxToolCalls
  /\ steps' = [steps EXCEPT ![r] = Append(@, Step("tool_call", "running"))]
  /\ run' = [run EXCEPT ![r].stepCount = @ + 1, ![r].toolCallCount = @ + 1]
  /\ UNCHANGED evidence

ReserveStep(f, n) ==
  /\ Holds(f)
  /\ \/ SettleFailed(f.run, n)
     \/ Writable(f.run, n) /\ (ResumeStep(f.run) \/ StartStep(f.run))
  /\ UNCHANGED <<now, member, claims>>

(* Stores the observation of step i and count evidence records with it.     *)
CompleteToolStepWithEvidence(f, i, count, n) ==
  LET r == f.run IN
  /\ Holds(f)
  /\ Writable(r, n)
  /\ i \in Running(r)
  /\ steps[r][i].kind = "tool_call"
  /\ Len(evidence[r]) + count <= MaxEvidence
  /\ steps' = [steps EXCEPT ![r][i].status = "completed"]
  /\ evidence' = [evidence EXCEPT ![r] =
                    @ \o [j \in 1 .. count |-> [step |-> i, finalOrdinal |-> 0]]]
  /\ UNCHANGED <<now, member, run, claims>>

FailStep(f, i, n) ==
  LET r == f.run IN
  /\ Holds(f)
  /\ \/ SettleCancelled(r, n)
     \/ SettleFailed(r, n)
     \/ /\ Writable(r, n)
        /\ i \in Running(r)
        /\ steps[r][i].kind = "tool_call"
        /\ steps' = [steps EXCEPT ![r][i].status = "failed"]
        /\ UNCHANGED <<run, evidence>>
  /\ UNCHANGED <<now, member, claims>>

(* Lists of distinct evidence keys, as the final-result schema admits them. *)
Citations ==
  {s \in UNION {[1 .. k -> 1 .. MaxEvidence] : k \in 0 .. MaxEvidence} :
     \A i, j \in DOMAIN s : s[i] = s[j] => i = j}

CitedByCompletedTool(r, key) ==
  /\ key \in DOMAIN evidence[r]
  /\ steps[r][evidence[r][key].step].status = "completed"
  /\ steps[r][evidence[r][key].step].kind = "tool_call"

(* The 1-based position of key in cited; 0 stands for a null finalOrdinal.  *)
Ordinal(cited, key) ==
  IF \E i \in DOMAIN cited : cited[i] = key
  THEN CHOOSE i \in DOMAIN cited : cited[i] = key ELSE 0

PublishFinal(r, cited) ==
  /\ run[r].stepCount < MaxSteps
  /\ Running(r) = {}
  /\ \A i \in DOMAIN steps[r] : steps[r][i].kind # "final_answer"
  /\ \A i \in DOMAIN cited : CitedByCompletedTool(r, cited[i])
  /\ evidence' = [evidence EXCEPT ![r] =
                    [key \in DOMAIN evidence[r] |->
                       [evidence[r][key] EXCEPT !.finalOrdinal = Ordinal(cited, key)]]]
  /\ steps' = [steps EXCEPT ![r] = Append(@, Step("final_answer", "completed"))]
  /\ run' = [run EXCEPT ![r] =
               [Finished(run[r], "completed", None) EXCEPT
                  !.stepCount = @ + 1,
                  !.finalStatus = IF cited = << >> THEN "insufficient_context" ELSE "answered"]]

CompleteRun(f, cited, n) ==
  /\ Holds(f)
  /\ \/ SettleCancelled(f.run, n)
     \/ SettleFailed(f.run, n)
     \/ Writable(f.run, n) /\ PublishFinal(f.run, cited)
  /\ UNCHANGED <<now, member, claims>>

(* decisionError: the executor also asks for a decision_error step.         *)
FailWith(r, code, decisionError) ==
  /\ decisionError => run[r].stepCount < MaxSteps
  /\ steps' = [steps EXCEPT ![r] =
                 Closed(@, "failed") \o
                   (IF decisionError THEN <<Step("decision_error", "failed")>> ELSE << >>)]
  /\ run' = [run EXCEPT ![r] =
               [Finished(run[r], "failed", code) EXCEPT
                  !.stepCount = IF decisionError THEN @ + 1 ELSE @]]
  /\ UNCHANGED evidence

FailRun(f, code, decisionError, n) ==
  /\ Holds(f)
  /\ \/ SettleCancelled(f.run, n)
     \/ SettleFailed(f.run, n)
     \/ Writable(f.run, n) /\ FailWith(f.run, code, decisionError)
  /\ UNCHANGED <<now, member, claims>>

MarkCancelled(f) ==
  /\ Holds(f)
  /\ run[f.run].cancelRequested
  /\ Settle(f.run, "cancelled", None)
  /\ UNCHANGED <<now, member, claims>>

-----------------------------------------------------------------------------
(* Environment: the members module and time.                                *)

RemoveMember(user) ==
  /\ user \in member
  /\ member' = member \ {user}
  /\ UNCHANGED <<now, run, steps, evidence, claims>>

AddMember(user) ==
  /\ user \notin member
  /\ member' = member \cup {user}
  /\ UNCHANGED <<now, run, steps, evidence, claims>>

Tick ==
  /\ now < MaxTime
  /\ now' = now + 1
  /\ UNCHANGED <<member, run, steps, evidence, claims>>

-----------------------------------------------------------------------------

Init ==
  /\ now = 0
  /\ member = Users
  /\ run = [r \in RunId |-> AbsentRun]
  /\ steps = [r \in RunId |-> << >>]
  /\ evidence = [r \in RunId |-> << >>]
  /\ claims = {}

Commands(n) ==
  \/ \E t \in Tasks, user \in Users : CreateTaskWithInitialRun(t, user, n)
  \/ \E t \in Tasks, user \in Users, q \in Requests : CreateRetryRun(t, user, q, n)
  \/ \E r \in RunId, user \in Users : CancelRun(r, user)

WorkerWrite(f, n) ==
  \/ HeartbeatLease(f, n)
  \/ ReserveStep(f, n)
  \/ \E i \in 1 .. MaxSteps, count \in 0 .. MaxEvidence :
       CompleteToolStepWithEvidence(f, i, count, n)
  \/ \E i \in 1 .. MaxSteps : FailStep(f, i, n)
  \/ \E cited \in Citations : CompleteRun(f, cited, n)
  \/ \E code \in ErrorCode, decisionError \in BOOLEAN : FailRun(f, code, decisionError, n)
  \/ MarkCancelled(f)

Membership == \E user \in Users : RemoveMember(user) \/ AddMember(user)

Next ==
  \/ \E n \in Stamps :
       \/ Commands(n)
       \/ \E w \in Workers : ClaimRun(w, n)
       \/ \E f \in claims : WorkerWrite(f, n)
  \/ Membership
  \/ Tick

Spec == Init /\ [][Next]_vars
-----------------------------------------------------------------------------
(* Properties.                                                              *)

RunRow ==
  [status : Status, actor : Users \cup {None}, retryId : Requests \cup {None},
   createdAt : Nat \cup {NoTime}, owner : Workers \cup {None}, generation : Nat,
   leaseExpiresAt : Nat \cup {NoTime}, deadlineAt : Nat \cup {NoTime},
   cancelRequested : BOOLEAN, errorCode : ErrorCode \cup {None},
   finalStatus : FinalStatus \cup {None},
   stepCount : Nat, toolCallCount : Nat]

StepRow ==
  [kind : {"tool_call", "final_answer", "decision_error"},
   status : {"running", "completed", "failed", "cancelled"}, executions : Nat]

EvidenceRow == [step : Nat, finalOrdinal : Nat]

Fence == [run : RunId, worker : Workers, generation : Nat]

(* Type invariant: the shape of the rows and of the fences handed out.      *)
TypeOK ==
  /\ now \in Nat
  /\ member \in SUBSET Users
  /\ run \in [RunId -> RunRow]
  /\ steps \in [RunId -> Seq(StepRow)]
  /\ evidence \in [RunId -> Seq(EvidenceRow)]
  /\ claims \in SUBSET Fence

(* The CHECK constraints of agent_runs that relate status, lease, timing,   *)
(* retry and result columns (db/schema.ts): no handler, however it is       *)
(* interleaved with the others, submits a row that PostgreSQL would refuse. *)
LeaseColumns(row) ==
  IF row.status = "running" THEN row.owner # None /\ row.leaseExpiresAt # NoTime
  ELSE row.owner = None /\ row.leaseExpiresAt = NoTime

StatusColumns(row) ==
  /\ row.status = "absent" => row = AbsentRun
  /\ row.finalStatus # None <=> row.status = "completed"
  /\ row.errorCode # None <=> row.status = "failed"
  /\ row.status = "queued" => row.deadlineAt = NoTime
  /\ row.status \in {"running", "completed", "failed"} => row.deadlineAt # NoTime
  /\ row.status \in {"queued", "completed", "failed"} => ~row.cancelRequested
  /\ row.status = "cancelled" => row.cancelRequested

RowChecks(r) ==
  /\ LeaseColumns(run[r])
  /\ StatusColumns(run[r])
  /\ run[r].toolCallCount <= run[r].stepCount
  /\ run[r].stepCount <= MaxSteps
  /\ run[r].status # "absent" => (run[r].retryId = None <=> r[2] = 1)

SchemaChecks == \A r \in RunId : RowChecks(r)

(* What a worker that reclaims a run needs to rebuild its context           *)
(* (validateStepOrder and validateEvidence of execution-context.ts throw    *)
(* otherwise): the counters agree with the steps, at most one step runs, it *)
(* is the last one and a tool call, and all evidence belongs to completed   *)
(* tool steps and stays within the limit.                                   *)
ContextRebuildable ==
  \A r \in RunId :
    /\ run[r].stepCount = Len(steps[r])
    /\ run[r].toolCallCount =
         Cardinality({i \in DOMAIN steps[r] : steps[r][i].kind = "tool_call"})
    /\ \A i \in Running(r) : i = Len(steps[r]) /\ steps[r][i].kind = "tool_call"
    /\ Len(evidence[r]) <= MaxEvidence
    /\ \A key \in DOMAIN evidence[r] : CitedByCompletedTool(r, key)

(* A run that is over has no work in flight and says what its status says   *)
(* (assertValidAgentRunTerminalState, buildAgentRunPersistenceViews): only  *)
(* a completed run has a final answer, exactly one, as its last step, and   *)
(* its final references are numbered 1, 2, ... without gaps.                *)
FinalReferences(r) == {key \in DOMAIN evidence[r] : evidence[r][key].finalOrdinal # 0}

TerminalShape ==
  \A r \in RunId :
    LET finals == {i \in DOMAIN steps[r] : steps[r][i].kind = "final_answer"} IN
    /\ run[r].status # "running" => Running(r) = {}
    /\ run[r].status = "completed" =>
         /\ finals = {Len(steps[r])}
         /\ {evidence[r][key].finalOrdinal : key \in FinalReferences(r)}
              = 1 .. Cardinality(FinalReferences(r))
         /\ run[r].finalStatus = "answered" <=> FinalReferences(r) # {}
    /\ run[r].status # "completed" => finals = {} /\ FinalReferences(r) = {}

(* A task has at most one run in progress, its latest attempt, however      *)
(* creation, retries, claims and cancellations interleave.                  *)
OneLiveAttempt ==
  \A t \in Tasks : \A k \in Attempts(t) :
    /\ \A j \in 1 .. k : j \in Attempts(t)
    /\ run[<<t, k>>].status \notin Terminal => \A j \in Attempts(t) : j <= k

(* A retry request that is delivered again, even after the run it created   *)
(* is over, never creates a second run.                                     *)
RetryOnce ==
  \A t \in Tasks : \A j, k \in Attempts(t) :
    j # k => run[<<t, j>>].retryId # run[<<t, k>>].retryId

(* Lease generations are fencing tokens: no two claims of a run share one,  *)
(* none is ahead of the row, and a running row belongs to the claim that    *)
(* carries its current generation.                                          *)
FencingTokens ==
  /\ \A c, d \in claims : c.run = d.run /\ c.generation = d.generation => c = d
  /\ \A c \in claims : c.generation \in 1 .. run[c.run].generation
  /\ \A r \in RunId : run[r].status = "running" =>
       [run |-> r, worker |-> run[r].owner, generation |-> run[r].generation] \in claims

(* No lease outlives the run's deadline.                                    *)
LeaseWithinDeadline ==
  \A r \in RunId : run[r].status = "running" => run[r].leaseExpiresAt <= run[r].deadlineAt

(* A run whose lease is still alive on the clock is never handed to another *)
(* claim, whatever the age of the claimer's time stamp.                     *)
HealthyLeaseKept ==
  [][\A r \in RunId :
       run[r].status = "running" /\ run[r].leaseExpiresAt > now
         => run'[r].generation = run[r].generation]_vars

(* Nothing about a finished run changes any more: no late heartbeat, step,  *)
(* final answer, failure or cancellation, from any fence, touches it.       *)
FinishedFrozen ==
  [][\A r \in RunId : run[r].status \in Terminal =>
       run'[r] = run[r] /\ steps'[r] = steps[r] /\ evidence'[r] = evidence[r]]_vars

(* The trace is a log: steps are never dropped, a step that is over stays   *)
(* as it is, and stored evidence keeps its key and its step.                *)
TraceAppendOnly ==
  [][\A r \in RunId :
       /\ Len(steps[r]) <= Len(steps'[r])
       /\ \A i \in DOMAIN steps[r] : i \notin Running(r) => steps'[r][i] = steps[r][i]
       /\ Len(evidence[r]) <= Len(evidence'[r])
       /\ \A key \in DOMAIN evidence[r] : evidence'[r][key].step = evidence[r][key].step]_vars

(* The deadline is set by the first claim and no reclaim moves it.          *)
DeadlineFixed ==
  [][\A r \in RunId : run[r].deadlineAt # NoTime => run'[r].deadlineAt = run[r].deadlineAt]_vars

(* Once cancellation is requested the run publishes nothing more: no step   *)
(* starts or completes, no evidence is stored, no answer appears, and the   *)
(* only status left to reach is cancelled.                                  *)
CancelFreezesTrace ==
  [][\A r \in RunId : run[r].cancelRequested =>
       /\ run'[r].cancelRequested
       /\ run'[r].status \in {run[r].status, "cancelled"}
       /\ evidence'[r] = evidence[r]
       /\ Len(steps'[r]) = Len(steps[r])
       /\ \A i \in Running(r) : steps'[r][i].status \in {"running", "cancelled"}]_vars

(* An observation or a final answer is stored only while the run's actor is *)
(* a member of the Space and, but for the age of the time stamp, before the *)
(* deadline and the end of the lease.                                       *)
Published(r) == {i \in DOMAIN steps[r] : steps[r][i].status = "completed"}

PublicationAuthorised ==
  [][\A r \in RunId : Published(r)' # Published(r) =>
       /\ HasMembership(r)
       /\ now < run[r].deadlineAt + Lag
       /\ now < run[r].leaseExpiresAt + Lag]_vars

(* The abstract lifecycle this store implements.  A step that is running is *)
(* not yet part of the abstract trace.                                      *)
ClosedPrefix(r) ==
  IF Running(r) = {} THEN steps[r] ELSE SubSeq(steps[r], 1, Len(steps[r]) - 1)

Lifecycle == INSTANCE AgentRunLifecycle WITH
  status <- [r \in RunId |-> run[r].status],
  asked  <- [r \in RunId |-> run[r].cancelRequested],
  trace  <- [r \in RunId |-> ClosedPrefix(r)]

(* Every behaviour of the store is a behaviour of the run lifecycle.        *)
ImplementsLifecycle == Lifecycle!Spec
=============================================================================
