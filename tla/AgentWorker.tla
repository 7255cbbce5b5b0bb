---------------------------- MODULE AgentWorker ----------------------------
(***************************************************************************)
(* The worker processes that execute Agent runs, on top of the durable     *)
(* store: the poll loop, lease maintenance and shutdown of                 *)
(* server/modules/agents/worker.ts and the executor it calls,              *)
(* run-executor.ts.                                                        *)
(*                                                                         *)
(* An executor is a chain of awaited calls.  What it is waiting for is     *)
(* doing; the action that ends the wait makes the database transaction,    *)
(* if there is one, and runs the code up to the next await.  Heartbeats    *)
(* run beside it: Beat is their transaction, BeatReply the arrival of the  *)
(* answer.  (A heartbeat whose transaction outlives its executor is one of *)
(* the late writes AgentRunStore admits from any fence at any time.)       *)
(*                                                                         *)
(* A process that stops or crashes is gone for good: the process that      *)
(* replaces it has a new lease owner id and is another member of Workers.  *)
(***************************************************************************)
EXTENDS AgentRunStore

CONSTANTS
  SafetyMargin,  \* leaseSafetyMarginMs, in ticks
  MaxLost        \* bound: repository calls that throw

ASSUME WorkerAssumption ==
  /\ SafetyMargin \in 1 .. LeaseDuration - 1
  /\ MaxLost \in Nat

VARIABLES
  process,  \* process[w]: "up", "stopping" or "down"
  job,      \* job[w]: the claim w is executing
  losses    \* repository calls that threw, for the bound

allVars == <<now, member, run, steps, evidence, claims, process, job, losses>>

-----------------------------------------------------------------------------
(* Executors.                                                               *)

Nothing == [op |-> "nothing"]
Read == [op |-> "read"]
Reserving == [op |-> "reserve"]
MakeCancelled == [op |-> "cancel"]
Fail(code, blame) == [op |-> "fail", code |-> code, blame |-> blame]
Checkpoint(next) == [op |-> "checkpoint", next |-> next]
OnStep(op, i) == [op |-> op, step |-> i]

NoBeat == [reply |-> "none", until |-> NoTime]

(* confirmed: the lease end the process knows of; beat: the answer of the   *)
(* heartbeat in flight; aborted: its AbortController fired; late: the       *)
(* watchdog's time passed while the event loop was stalled or the claim was *)
(* still on its way.                                                        *)
NoJob ==
  [doing |-> Nothing, fence |-> None, confirmed |-> NoTime, beat |-> NoBeat,
   aborted |-> FALSE, late |-> FALSE]

Active(w) == job[w].doing.op \notin {"nothing", "claimed"}

Turn(w, next) ==
  job' = [job EXCEPT ![w] = IF next = Nothing THEN NoJob ELSE [@ EXCEPT !.doing = next]]

(* The durable trace as snapshotKey compares it.                            *)
Picture(r) == [steps |-> steps[r], evidence |-> evidence[r],
               generation |-> run[r].generation, asked |-> run[r].cancelRequested]

(* What the guards that every worker call starts with find.                 *)
Standing(f, n) ==
  IF ~Holds(f) THEN "stale"
  ELSE IF WriteGuard(f.run, n) # "allowed" THEN WriteGuard(f.run, n)
  ELSE IF LeaseExpired(f.run, n) THEN "stale"
  ELSE "allowed"

(* What the executor does about a standing that is not "allowed".           *)
SettleReadGuard(standing) ==
  CASE standing = "stale" -> Nothing
    [] standing = "cancel_requested" -> MakeCancelled
    [] standing = "deadline_exceeded" -> Fail(WallTimeExceeded, FALSE)
    [] standing = "access_revoked" -> Fail(AccessRevoked, FALSE)

(* recheck, whose result the code up to the next await acts on.             *)
Recheck(w, n, next) ==
  LET standing == Standing(job[w].fence, n) IN
  IF standing # "allowed" THEN SettleReadGuard(standing)
  ELSE IF job[w].aborted THEN Nothing
  ELSE next

FinalOnly(r) == run[r].stepCount + 1 >= MaxSteps \/ run[r].toolCallCount >= MaxToolCalls

AfterRead(r) ==
  IF Running(r) # {} THEN Reserving
  ELSE IF run[r].stepCount >= MaxSteps THEN Fail(ExecutorError, FALSE)
  ELSE [op |-> "decide", seen |-> Picture(r)]

(* The top of the executor's loop.  A snapshot this process cannot serve    *)
(* (another model, a tool it does not know) fails the run.                  *)
ReadState(w, n) ==
  LET r == job[w].fence.run IN
  /\ job[w].doing.op = "read"
  /\ \E next \in {AfterRead(r), Fail(ExecutorError, TRUE)} : Turn(w, Recheck(w, n, next))
  /\ UNCHANGED <<vars, process, losses>>

(* The provider answers, fails, or is cut short by the deadline or an abort *)
(* (which Recheck then finds).                                              *)
Decide(w, n) ==
  LET r == job[w].fence.run
      seen == job[w].doing.seen
      decided == [op |-> "answer", seen |-> seen]
      choices == IF FinalOnly(r) THEN {decided} ELSE {decided, Reserving}
  IN
  /\ job[w].doing.op = "decide"
  /\ \/ Turn(w, Recheck(w, n, Fail(ExecutorError, TRUE)))
     \/ \E next \in choices :
          Turn(w, Recheck(w, n, IF Picture(r) = seen THEN next ELSE Nothing))
  /\ UNCHANGED <<vars, process, losses>>

(* A cancellation is settled by a second call, the store has settled the    *)
(* rest.  The limits were checked on this trace when the step was decided.  *)
HandleReserveResult(standing) ==
  IF standing = "cancel_requested" THEN MakeCancelled ELSE Nothing

Reserve(w, n) ==
  LET f == job[w].fence
      standing == Standing(f, n)
  IN
  /\ job[w].doing.op = "reserve"
  /\ \/ /\ standing \in {"stale", "cancel_requested"}
        /\ Turn(w, HandleReserveResult(standing))
        /\ UNCHANGED vars
     \/ /\ ReserveStep(f, n)
        /\ Turn(w, IF standing = "allowed"
                   THEN Checkpoint(OnStep("tool", Len(steps'[f.run])))
                   ELSE HandleReserveResult(standing))
  /\ UNCHANGED <<process, losses>>

(* The tool answers with count pieces of evidence, fails, times out or      *)
(* finds the membership gone.                                               *)
ExecuteTool(w, n) ==
  LET i == job[w].doing.step
      room == MaxEvidence - Len(evidence[job[w].fence.run])
  IN
  /\ job[w].doing.op = "tool"
  /\ \E next \in {OnStep("failStep", i), Fail(AccessRevoked, FALSE)} \cup
                   {[op |-> "save", step |-> i, count |-> c] : c \in 0 .. room} :
       Turn(w, Recheck(w, n, next))
  /\ UNCHANGED <<vars, process, losses>>

(* The result fits the tool's own limits but not the run's context or       *)
(* evidence limit: appendCompletedToolCall throws, outside any inner try.   *)
ToolOverflows(w, n) ==
  /\ job[w].doing.op = "tool"
  /\ Turn(w, Recheck(w, n, Nothing))
  /\ UNCHANGED <<vars, process, losses>>

(* completeToolStepWithEvidence; the store may refuse the observation.      *)
SaveObservation(w, n) ==
  LET f == job[w].fence
      standing == Standing(f, n)
  IN
  /\ job[w].doing.op = "save"
  /\ \/ /\ Turn(w, IF standing = "allowed" THEN Fail(ExecutorError, FALSE)
                   ELSE SettleReadGuard(standing))
        /\ UNCHANGED vars
     \/ /\ CompleteToolStepWithEvidence(f, job[w].doing.step, job[w].doing.count, n)
        /\ Turn(w, Checkpoint(Read))
  /\ UNCHANGED <<process, losses>>

FailToolStep(w, n) ==
  LET f == job[w].fence
      standing == Standing(f, n)
  IN
  /\ job[w].doing.op = "failStep"
  /\ \/ /\ standing = "stale"
        /\ Turn(w, Nothing)
        /\ UNCHANGED vars
     \/ /\ FailStep(f, job[w].doing.step, n)
        /\ Turn(w, IF standing = "allowed" THEN Checkpoint(Read) ELSE Nothing)
  /\ UNCHANGED <<process, losses>>

(* completeRun; an answer that cites what is not there fails the run.       *)
CompleteFinal(w, n) ==
  LET f == job[w].fence
      standing == Standing(f, n)
  IN
  /\ job[w].doing.op = "answer"
  /\ \/ /\ standing = "stale"
        /\ Turn(w, Nothing)
        /\ UNCHANGED vars
     \/ /\ standing = "allowed"
        /\ Turn(w, Fail(ExecutorError, TRUE))
        /\ UNCHANGED vars
     \/ /\ \E cited \in Citations : CompleteRun(f, cited, n)
        /\ Turn(w, Nothing)
  /\ UNCHANGED <<process, losses>>

(* failRun: without room for a decision_error step it is asked for again    *)
(* without one.                                                             *)
FailTheRun(w, n) ==
  LET f == job[w].fence
      code == job[w].doing.code
      blame == job[w].doing.blame
  IN
  /\ job[w].doing.op = "fail"
  /\ \/ /\ Standing(f, n) = "stale"
        /\ Turn(w, Nothing)
        /\ UNCHANGED vars
     \/ /\ Standing(f, n) = "allowed"
        /\ blame /\ run[f.run].stepCount >= MaxSteps
        /\ Turn(w, Fail(code, FALSE))
        /\ UNCHANGED vars
     \/ /\ FailRun(f, code, blame, n)
        /\ Turn(w, Nothing)
  /\ UNCHANGED <<process, losses>>

SettleCancellation(w) ==
  LET f == job[w].fence IN
  /\ job[w].doing.op = "cancel"
  /\ Turn(w, Nothing)
  /\ \/ MarkCancelled(f)
     \/ UNCHANGED vars /\ ~(Holds(f) /\ run[f.run].cancelRequested)
  /\ UNCHANGED <<process, losses>>

-----------------------------------------------------------------------------
(* The worker around the executor.                                          *)

Poll(w, n) ==
  /\ process[w] = "up"
  /\ job[w] = NoJob
  /\ ClaimRun(w, n)
  /\ job' = [job EXCEPT ![w] =
       IF claims' = claims THEN NoJob
       ELSE LET f == CHOOSE c \in claims' : c \notin claims IN
            [NoJob EXCEPT !.doing = [op |-> "claimed"], !.fence = f,
                          !.confirmed = run'[f.run].leaseExpiresAt]]
  /\ UNCHANGED <<process, losses>>

(* The claim arrives; a process that is told to stop leaves it to expire.   *)
(* After the lease, the watchdog is set with no delay and is due already.   *)
ProcessClaim(w) ==
  /\ job[w].doing.op = "claimed"
  /\ job' = [job EXCEPT ![w] =
       IF process[w] = "up" THEN [@ EXCEPT !.doing = Read, !.late = (job[w].confirmed <= now)]
       ELSE NoJob]
  /\ UNCHANGED <<vars, process, losses>>

(* stopExecution: both controllers are aborted; heartbeats end with them.   *)
Abort(w) ==
  job' = [job EXCEPT ![w].aborted = TRUE, ![w].beat = NoBeat, ![w].late = FALSE]

(* A process sends one heartbeat at a time, so its stamps do not go back:   *)
(* none is older than the stamp the lease was set with.                     *)
StampsAdvance(f, n) == run[f.run].leaseExpiresAt <= n + LeaseDuration

Beat(w, n) ==
  LET f == job[w].fence
      Answer(until) == job' = [job EXCEPT ![w].beat =
                                [reply |-> Standing(f, n), until |-> until]]
  IN
  /\ Active(w) /\ ~job[w].aborted
  /\ job[w].beat = NoBeat
  /\ \/ /\ HeartbeatLease(f, n) /\ StampsAdvance(f, n)
        /\ Answer(run'[f.run].leaseExpiresAt)
     \/ Standing(f, n) = "stale" /\ UNCHANGED vars /\ Answer(NoTime)
  /\ UNCHANGED <<process, losses>>

(* Mutant of CutOff: the watchdog waits for the very end of the lease.      *)
CutOffWithoutMargin(r, leaseEnd) == leaseEnd

(* When the watchdog gives a lease up.  At the deadline nobody else can be  *)
(* given the run, so a lease that ends there needs no margin.               *)
CutOff(r, leaseEnd) ==
  IF leaseEnd = run[r].deadlineAt THEN leaseEnd ELSE leaseEnd - SafetyMargin

(* A renewed lease resets the watchdog and lets a checkpoint pass; every    *)
(* other answer ends the execution.                                         *)
BeatReply(w) ==
  LET renewed == job[w].beat.until IN
  /\ job[w].beat # NoBeat
  /\ \/ /\ job[w].beat.reply = "allowed"
        /\ job' = [job EXCEPT
             ![w].confirmed = renewed, ![w].beat = NoBeat,
             ![w].late = @ /\ CutOff(job[w].fence.run, renewed) <= now,
             ![w].doing = IF @.op = "checkpoint" THEN @.next ELSE @]
     \/ job[w].beat.reply # "allowed" /\ Abort(w)
  /\ UNCHANGED <<vars, process, losses>>

Overdue(w) ==
  Active(w) /\ ~job[w].aborted /\ CutOff(job[w].fence.run, job[w].confirmed) <= now

Watchdog(w) == Overdue(w) /\ Abort(w) /\ UNCHANGED <<vars, process, losses>>

CheckpointStops(w) ==
  /\ job[w].doing.op = "checkpoint"
  /\ job[w].aborted
  /\ Turn(w, Nothing)
  /\ UNCHANGED <<vars, process, losses>>

(* A repository call throws, before or after PostgreSQL committed: the      *)
(* executor returns "interrupted", a heartbeat is tried again.              *)
CallThrows(w) ==
  /\ losses < MaxLost
  /\ losses' = losses + 1
  /\ \/ job[w].doing # Nothing /\ Turn(w, Nothing)
     \/ job[w].beat # NoBeat /\ job' = [job EXCEPT ![w].beat = NoBeat]
  /\ UNCHANGED <<vars, process>>

(* Another process stays up, or is started in the place of this one.        *)
Replaced(w) == \E x \in Workers \ {w} : process[x] = "up"

Stop(w) ==
  /\ process[w] = "up"
  /\ Replaced(w)
  /\ process' = [process EXCEPT ![w] = "stopping"]
  /\ UNCHANGED <<vars, job, losses>>

(* The execution outlived shutdownGraceMs.                                  *)
GraceOver(w) ==
  /\ process[w] = "stopping"
  /\ Active(w) /\ ~job[w].aborted
  /\ Abort(w)
  /\ UNCHANGED <<vars, process, losses>>

(* stop() is done, or done waiting for an execution it has aborted.         *)
Exit(w) ==
  /\ process[w] = "stopping"
  /\ Active(w) => job[w].aborted
  /\ process' = [process EXCEPT ![w] = "down"]
  /\ job' = [job EXCEPT ![w] = NoJob]
  /\ UNCHANGED <<vars, losses>>

Crash(w) ==
  /\ process[w] # "down"
  /\ Replaced(w)
  /\ process' = [process EXCEPT ![w] = "down"]
  /\ job' = [job EXCEPT ![w] = NoJob]
  /\ UNCHANGED <<vars, losses>>

(* Time passes; a watchdog that should have fired by now is late.           *)
TimePasses ==
  /\ Tick
  /\ job' = [w \in Workers |-> [job[w] EXCEPT !.late = @ \/ Overdue(w)]]
  /\ UNCHANGED <<process, losses>>

-----------------------------------------------------------------------------

WorkerInit ==
  /\ Init
  /\ process = [w \in Workers |-> "up"]
  /\ job = [w \in Workers |-> NoJob]
  /\ losses = 0

Execute(w, n) ==
  \/ ReadState(w, n)
  \/ Decide(w, n)
  \/ Reserve(w, n)
  \/ ExecuteTool(w, n)
  \/ ToolOverflows(w, n)
  \/ SaveObservation(w, n)
  \/ FailToolStep(w, n)
  \/ CompleteFinal(w, n)
  \/ FailTheRun(w, n)
  \/ SettleCancellation(w)

Polls(w) == \E n \in Stamps : Poll(w, n)
Executes(w) == ProcessClaim(w) \/ CheckpointStops(w) \/ \E n \in Stamps : Execute(w, n)
Beats(w) == BeatReply(w) \/ \E n \in Stamps : Beat(w, n)
Stops(w) == GraceOver(w) \/ Exit(w)

(* What a process does by itself.                                           *)
Runs(w) == Polls(w) \/ Executes(w) \/ Beats(w) \/ Watchdog(w) \/ Stops(w)

WorkerNext ==
  \/ \E w \in Workers : Runs(w) \/ CallThrows(w) \/ Stop(w) \/ Crash(w)
  \/ \E n \in Stamps : Commands(n) /\ UNCHANGED <<process, job, losses>>
  \/ Membership /\ UNCHANGED <<process, job, losses>>
  \/ TimePasses

(* A process that is not down takes some step when it has one, in no        *)
(* particular order of polling, executing and heartbeats: its event loop    *)
(* runs what is due, repository calls return or throw, the timers of        *)
(* runExternal end every provider and tool call, and row locks are short,   *)
(* so SKIP LOCKED hides a run from a poller only for a while.               *)
Fairness == WF_allVars(TimePasses) /\ \A w \in Workers : WF_allVars(Runs(w))

WorkerSpec == WorkerInit /\ [][WorkerNext]_allVars /\ Fairness
-----------------------------------------------------------------------------
(* Properties.                                                              *)

Replies == {"none", "stale", "allowed", "cancel_requested", "deadline_exceeded", "access_revoked"}

PictureRow ==
  [steps : Seq(StepRow), evidence : Seq(EvidenceRow), generation : Nat, asked : BOOLEAN]

StepIndex == 1 .. MaxSteps

(* What an executor may be waiting for, with what it remembers meanwhile.   *)
Await ==
  [op : {"nothing", "claimed", "read", "reserve", "cancel"}]
    \cup [op : {"decide", "answer"}, seen : PictureRow]
    \cup [op : {"tool", "failStep"}, step : StepIndex]
    \cup [op : {"save"}, step : StepIndex, count : 0 .. MaxEvidence]
    \cup [op : {"fail"}, code : ErrorCode, blame : BOOLEAN]
    \cup [op : {"checkpoint"}, next : [op : {"read"}] \cup [op : {"tool"}, step : StepIndex]]

Job ==
  [doing : Await, fence : Fence \cup {None}, confirmed : Nat \cup {NoTime},
   beat : [reply : Replies, until : Nat \cup {NoTime}], aborted : BOOLEAN, late : BOOLEAN]

(* Type invariant: what processes and executors remember.                   *)
WorkerTypeOK ==
  /\ TypeOK
  /\ process \in [Workers -> {"up", "stopping", "down"}]
  /\ losses \in Nat
  /\ job \in [Workers -> Job]
  /\ \A w \in Workers :
       job[w].doing # Nothing => job[w].fence \in claims /\ job[w].fence.worker = w

(* A provider or tool call in progress, in a process whose timers are       *)
(* punctual and that has not aborted it.                                    *)
Executing(w) ==
  job[w].doing.op \in {"decide", "tool"} /\ ~job[w].aborted /\ ~job[w].late

(* At most one process works on a run: its watchdog stops an executor that  *)
(* cannot renew its lease before another process can be given the run.      *)
OneExecutor ==
  \A w, x \in Workers :
    w # x /\ Executing(w) /\ Executing(x) => job[w].fence.run # job[x].fence.run

(* While an executor holds the lease, what it acts on is the stored trace:  *)
(* the trace a decision was made on, and the one step that runs.  Whoever   *)
(* else wrote to the run in the meantime has taken the lease.               *)
PictureCurrent ==
  \A w \in Workers :
    LET r == job[w].fence.run
        doing == IF job[w].doing.op = "checkpoint" THEN job[w].doing.next ELSE job[w].doing
    IN
    Active(w) /\ Holds(job[w].fence) =>
      /\ doing.op \in {"decide", "answer"} =>
           doing.seen.steps = steps[r] /\ doing.seen.evidence = evidence[r]
      /\ doing.op \in {"tool", "save", "failStep"} => Running(r) = {doing.step}

(* Every queued run is taken up, and every run whose deadline the clock     *)
(* reaches ends, through crashes, shutdowns and calls that throw.           *)
EveryRunEnds ==
  \A r \in RunId :
    /\ run[r].status = "queued" ~> run[r].status # "queued"
    /\ run[r].status = "running" /\ run[r].deadlineAt <= MaxTime ~> run[r].status \in Terminal

(* A cancelled run whose lease the clock reaches and whose deadline it never *)
(* does, so that nothing but the request itself can end the run.            *)
CancelPending(r) ==
  /\ run[r].status = "running" /\ run[r].cancelRequested
  /\ run[r].leaseExpiresAt <= MaxTime /\ MaxTime < run[r].deadlineAt

(* A cancellation request takes effect without waiting for the deadline:    *)
(* the executor's next heartbeat or check settles it, or, if the executor   *)
(* is gone, the first poll after the lease.                                 *)
CancelTakesEffect ==
  \A r \in RunId : CancelPending(r) ~> run[r].status = "cancelled"

(* An executor that was not aborted and could still write leaves no run     *)
(* running behind: a limit that is reached fails the run.                   *)
LimitFailsRun ==
  [][\A w \in Workers, n \in Stamps :
       LET f == job[w].fence
           undisturbed ==
             /\ Active(w) /\ ~job[w].aborted
             /\ Standing(f, n) = "allowed"
             /\ process'[w] = process[w] /\ losses' = losses
       IN undisturbed /\ job'[w] = NoJob => run'[f.run].status # "running"]_allVars
=============================================================================
