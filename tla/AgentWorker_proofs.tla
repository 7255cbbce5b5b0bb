------------------------- MODULE AgentWorker_proofs -------------------------
(***************************************************************************)
(* Proofs about the worker processes: that what they do to the store is    *)
(* what AgentRunStore allows, so that its theorems hold of them, and that  *)
(* an executor that holds its lease acts on the stored trace and alone.    *)
(***************************************************************************)
EXTENDS AgentWorker, AgentRunTrace_proofs

-----------------------------------------------------------------------------
(* Types: what an executor waits for.                                       *)

Resumable == [op : {"read"}] \cup [op : {"tool"}, step : StepIndex]

LEMMA AwaitFields ==
  ASSUME NEW d \in Await
  PROVE  /\ d.op \in {"decide", "answer"} => d.seen \in PictureRow
         /\ d.op \in {"tool", "failStep", "save"} => d.step \in StepIndex
         /\ d.op = "save" => d.count \in 0 .. MaxEvidence
         /\ d.op = "fail" => d.code \in ErrorCode /\ d.blame \in BOOLEAN
         /\ d.op = "checkpoint" => d.next \in Resumable
<1>1. CASE d \in [op : {"nothing", "claimed", "read", "reserve", "cancel"}]
  BY <1>1
<1>2. CASE d \in [op : {"decide", "answer"}, seen : PictureRow]
  BY <1>2
<1>3. CASE d \in [op : {"tool", "failStep"}, step : StepIndex]
  BY <1>3
<1>4. CASE d \in [op : {"save"}, step : StepIndex, count : 0 .. MaxEvidence]
  BY <1>4
<1>5. CASE d \in [op : {"fail"}, code : ErrorCode, blame : BOOLEAN]
  BY <1>5
<1>6. CASE d \in [op : {"checkpoint"}, next : Resumable]
  BY <1>6
<1>. QED
  BY <1>1, <1>2, <1>3, <1>4, <1>5, <1>6 DEF Await, Resumable

LEMMA AwaitTypes ==
  /\ Nothing \in Await /\ Read \in Await /\ Reserving \in Await /\ MakeCancelled \in Await
  /\ [op |-> "claimed"] \in Await
  /\ \A code \in ErrorCode, blame \in BOOLEAN : Fail(code, blame) \in Await
  /\ \A seen \in PictureRow :
       [op |-> "decide", seen |-> seen] \in Await /\ [op |-> "answer", seen |-> seen] \in Await
  /\ \A i \in StepIndex : OnStep("tool", i) \in Await /\ OnStep("failStep", i) \in Await
  /\ \A i \in StepIndex, c \in 0 .. MaxEvidence :
       [op |-> "save", step |-> i, count |-> c] \in Await
  /\ Resumable \subseteq Await
  /\ \A next \in Resumable : Checkpoint(next) \in Await
  /\ Read \in Resumable
  /\ \A i \in StepIndex : OnStep("tool", i) \in Resumable
<1>1. Nothing \in Await /\ Read \in Await /\ Reserving \in Await /\ MakeCancelled \in Await
      /\ [op |-> "claimed"] \in Await
  BY DEF Await, Nothing, Read, Reserving, MakeCancelled
<1>2. \A code \in ErrorCode, blame \in BOOLEAN : Fail(code, blame) \in Await
  BY DEF Await, Fail
<1>3. \A seen \in PictureRow :
        [op |-> "decide", seen |-> seen] \in Await /\ [op |-> "answer", seen |-> seen] \in Await
  BY DEF Await
<1>4. \A i \in StepIndex : OnStep("tool", i) \in Await /\ OnStep("failStep", i) \in Await
  BY DEF Await, OnStep
<1>5. \A i \in StepIndex, c \in 0 .. MaxEvidence :
        [op |-> "save", step |-> i, count |-> c] \in Await
  BY DEF Await
<1>6. Resumable \subseteq Await
  BY DEF Await, Resumable
<1>7. \A next \in Resumable : Checkpoint(next) \in Await
  BY DEF Await, Resumable, Checkpoint
<1>8. Read \in Resumable /\ \A i \in StepIndex : OnStep("tool", i) \in Resumable
  BY DEF Resumable, Read, OnStep
<1>. QED
  BY <1>1, <1>2, <1>3, <1>4, <1>5, <1>6, <1>7, <1>8

(* The updates of what a process remembers about its execution.             *)
Beating == [reply : Replies, until : Nat \cup {NoTime}]

LEMMA JobUpdates ==
  ASSUME NEW j \in Job
  PROVE  /\ \A d \in Await : [j EXCEPT !.doing = d] \in Job
         /\ \A b \in Beating : [j EXCEPT !.beat = b] \in Job
         /\ \A l \in BOOLEAN : [j EXCEPT !.late = l] \in Job
         /\ \A a \in BOOLEAN : [j EXCEPT !.aborted = a] \in Job
         /\ \A e \in Nat \cup {NoTime} : [j EXCEPT !.confirmed = e] \in Job
         /\ NoBeat \in Beating /\ NoJob \in Job
<1>1. NoBeat \in Beating
  BY DEF NoBeat, Beating, Replies
<1>2. NoJob \in Job
  BY <1>1, AwaitTypes DEF NoJob, Job, Beating
<1>3. \A d \in Await : [j EXCEPT !.doing = d] \in Job
  BY DEF Job
<1>4. \A b \in Beating : [j EXCEPT !.beat = b] \in Job
  BY DEF Job, Beating
<1>5. \A l \in BOOLEAN : [j EXCEPT !.late = l] \in Job
  BY DEF Job
<1>6. \A a \in BOOLEAN : [j EXCEPT !.aborted = a] \in Job
  BY DEF Job
<1>7. \A e \in Nat \cup {NoTime} : [j EXCEPT !.confirmed = e] \in Job
  BY DEF Job
<1>. QED
  BY <1>1, <1>2, <1>3, <1>4, <1>5, <1>6, <1>7

LEMMA JobFields ==
  ASSUME WorkerTypeOK, NEW w \in Workers
  PROVE  /\ job \in [Workers -> Job] /\ job[w] \in Job
         /\ job[w].doing \in Await
         /\ job[w].confirmed \in Nat \cup {NoTime}
         /\ job[w].beat \in Beating
         /\ job[w].beat.reply \in Replies /\ job[w].beat.until \in Nat \cup {NoTime}
         /\ job[w].aborted \in BOOLEAN /\ job[w].late \in BOOLEAN
         /\ job[w].doing # Nothing =>
              /\ job[w].fence \in claims /\ job[w].fence.worker = w
              /\ job[w].fence \in Fence /\ job[w].fence.run \in RunId
  BY DEF WorkerTypeOK, TypeOK, Job, Beating, Fence

(* The wait ends and another begins, or the execution is over.              *)
LEMMA Turns ==
  ASSUME WorkerTypeOK, NEW w \in Workers, NEW next \in Await, Turn(w, next)
  PROVE  /\ job' \in [Workers -> Job]
         /\ \A x \in Workers \ {w} : job'[x] = job[x]
         /\ next = Nothing => job'[w] = NoJob
         /\ next # Nothing =>
              /\ job'[w].doing = next /\ job'[w].fence = job[w].fence
              /\ job'[w].confirmed = job[w].confirmed /\ job'[w].beat = job[w].beat
              /\ job'[w].aborted = job[w].aborted /\ job'[w].late = job[w].late
<1>0. job \in [Workers -> Job] /\ job[w] \in Job
  BY JobFields
<1>1. CASE next = Nothing
  BY <1>0, <1>1, JobUpdates DEF Turn
<1>2. CASE next # Nothing
  <2>1. job' = [job EXCEPT ![w] = [job[w] EXCEPT !.doing = next]]
    BY <1>2 DEF Turn
  <2>2. [job[w] EXCEPT !.doing = next] \in Job
    BY <1>0, JobUpdates
  <2>3. /\ [job[w] EXCEPT !.doing = next].doing = next
        /\ [job[w] EXCEPT !.doing = next].fence = job[w].fence
        /\ [job[w] EXCEPT !.doing = next].confirmed = job[w].confirmed
        /\ [job[w] EXCEPT !.doing = next].beat = job[w].beat
        /\ [job[w] EXCEPT !.doing = next].aborted = job[w].aborted
        /\ [job[w] EXCEPT !.doing = next].late = job[w].late
    BY <1>0 DEF Job
  <2>. QED
    BY <1>0, <1>2, <2>1, <2>2, <2>3
<1>. QED
  BY <1>1, <1>2

LEMMA Aborts ==
  ASSUME WorkerTypeOK, NEW w \in Workers, Abort(w)
  PROVE  /\ job' \in [Workers -> Job]
         /\ \A x \in Workers \ {w} : job'[x] = job[x]
         /\ job'[w].doing = job[w].doing /\ job'[w].fence = job[w].fence
         /\ job'[w].confirmed = job[w].confirmed /\ job'[w].beat = NoBeat
         /\ job'[w].aborted = TRUE /\ job'[w].late = FALSE
<1>0. job \in [Workers -> Job] /\ job[w] \in Job
  BY JobFields
<1>. DEFINE a == [job[w] EXCEPT !.aborted = TRUE]
            b == [a EXCEPT !.beat = NoBeat]
            c == [b EXCEPT !.late = FALSE]
<1>1. a \in Job /\ b \in Job /\ c \in Job
  BY <1>0, JobUpdates
<1>2. job' = [job EXCEPT ![w] = c]
  BY <1>0 DEF Abort
<1>3. /\ a.aborted = TRUE /\ a.doing = job[w].doing /\ a.fence = job[w].fence
      /\ a.confirmed = job[w].confirmed
  BY <1>0 DEF Job
<1>4. /\ b.aborted = a.aborted /\ b.doing = a.doing /\ b.fence = a.fence
      /\ b.confirmed = a.confirmed /\ b.beat = NoBeat
  BY <1>1 DEF Job
<1>5. /\ c.aborted = b.aborted /\ c.doing = b.doing /\ c.fence = b.fence
      /\ c.confirmed = b.confirmed /\ c.beat = b.beat /\ c.late = FALSE
  BY <1>1 DEF Job
<1>. QED
  BY <1>0, <1>1, <1>2, <1>3, <1>4, <1>5

LEMMA Renewals ==
  ASSUME WorkerTypeOK, NEW w \in Workers, BeatReply(w), job[w].beat.reply = "allowed"
  PROVE  /\ job' \in [Workers -> Job]
         /\ \A x \in Workers \ {w} : job'[x] = job[x]
         /\ job'[w].doing = IF job[w].doing.op = "checkpoint" THEN job[w].doing.next
                            ELSE job[w].doing
         /\ job'[w].fence = job[w].fence /\ job'[w].confirmed = job[w].beat.until
         /\ job'[w].beat = NoBeat /\ job'[w].aborted = job[w].aborted
         /\ job'[w].late <=> /\ job[w].late
                             /\ CutOff(job[w].fence.run, job[w].beat.until) <= now
<1>0. job \in [Workers -> Job] /\ job[w] \in Job
  BY JobFields
<1>. DEFINE late == job[w].late /\ CutOff(job[w].fence.run, job[w].beat.until) <= now
            next == IF job[w].doing.op = "checkpoint" THEN job[w].doing.next ELSE job[w].doing
            a == [job[w] EXCEPT !.confirmed = job[w].beat.until]
            b == [a EXCEPT !.beat = NoBeat]
            c == [b EXCEPT !.late = late]
            d == [c EXCEPT !.doing = next]
<1>1. next \in Await
  BY JobFields, AwaitFields, AwaitTypes
<1>2. a \in Job
  BY <1>0, JobFields, JobUpdates
<1>3. b \in Job
  BY <1>2, JobUpdates
<1>4. late \in BOOLEAN
  BY JobFields
<1>5. c \in Job
  <2>. HIDE DEF b, late
  <2>. QED
    BY <1>3, <1>4, JobUpdates
<1>6. d \in Job
  <2>. HIDE DEF c, next
  <2>. QED
    BY <1>1, <1>5, JobUpdates
<1>7. job' = [job EXCEPT ![w] = d]
  <2>1. a.doing = job[w].doing /\ b.doing = a.doing /\ c.doing = b.doing
    BY <1>0, <1>2, <1>3 DEF Job
  <2>2. a.late = job[w].late /\ b.late = a.late
    BY <1>0, <1>2 DEF Job
  <2>3. job' = [job EXCEPT
             ![w].confirmed = job[w].beat.until, ![w].beat = NoBeat,
             ![w].late = @ /\ CutOff(job[w].fence.run, job[w].beat.until) <= now,
             ![w].doing = IF @.op = "checkpoint" THEN @.next ELSE @]
    BY DEF BeatReply
  <2>. QED
    BY <1>0, <2>1, <2>2, <2>3
<1>8. /\ a.fence = job[w].fence /\ a.aborted = job[w].aborted
      /\ a.confirmed = job[w].beat.until
  BY <1>0 DEF Job
<1>9. /\ b.fence = a.fence /\ b.aborted = a.aborted /\ b.confirmed = a.confirmed
      /\ b.beat = NoBeat
  BY <1>2 DEF Job
<1>10. /\ c.fence = b.fence /\ c.aborted = b.aborted /\ c.confirmed = b.confirmed
       /\ c.beat = b.beat /\ c.late = late
  <2>. HIDE DEF b, late
  <2>. QED
    BY <1>3 DEF Job
<1>11. /\ d.fence = c.fence /\ d.aborted = c.aborted /\ d.confirmed = c.confirmed
       /\ d.beat = c.beat /\ d.late = c.late /\ d.doing = next
  <2>. HIDE DEF c, next
  <2>. QED
    BY <1>5 DEF Job
<1>. HIDE DEF a, b, c, d, late
<1>12. job'[w] = d /\ job' \in [Workers -> Job] /\ \A x \in Workers \ {w} : job'[x] = job[x]
  BY <1>0, <1>6, <1>7
<1>13. job'[w].late = late
  BY <1>12, <1>11, <1>10
<1>. QED
  BY <1>8, <1>9, <1>10, <1>11, <1>12, <1>13 DEF late

(* The claim arrives, in time or after the end of its lease.                *)
LEMMA ClaimTaken ==
  ASSUME WorkerTypeOK, NEW w \in Workers, ProcessClaim(w)
  PROVE  /\ job' \in [Workers -> Job]
         /\ \A x \in Workers \ {w} : job'[x] = job[x]
         /\ \/ job'[w] = NoJob
            \/ /\ job'[w].doing = Read /\ job'[w].fence = job[w].fence
               /\ job'[w].confirmed = job[w].confirmed /\ job'[w].beat = job[w].beat
               /\ job'[w].aborted = job[w].aborted
               /\ job'[w].late <=> job[w].confirmed <= now
<1>0. job \in [Workers -> Job] /\ job[w] \in Job
  BY JobFields
<1>1. CASE process[w] # "up"
  BY <1>0, <1>1, JobUpdates DEF ProcessClaim
<1>2. CASE process[w] = "up"
  <2>. DEFINE late == job[w].confirmed <= now
              a == [job[w] EXCEPT !.doing = Read]
              b == [a EXCEPT !.late = late]
  <2>1. a \in Job
    BY <1>0, JobUpdates, AwaitTypes
  <2>2. /\ a.doing = Read /\ a.fence = job[w].fence /\ a.confirmed = job[w].confirmed
        /\ a.beat = job[w].beat /\ a.aborted = job[w].aborted
    BY <1>0 DEF Job
  <2>3. late \in BOOLEAN
    OBVIOUS
  <2>4. job' = [job EXCEPT ![w] = b]
    BY <1>2 DEF ProcessClaim
  <2>5. b \in Job
    <3>. HIDE DEF a, late
    <3>. QED
      BY <2>1, <2>3, JobUpdates
  <2>6. /\ b.doing = a.doing /\ b.fence = a.fence /\ b.confirmed = a.confirmed
        /\ b.beat = a.beat /\ b.aborted = a.aborted /\ b.late = late
    <3>. HIDE DEF a, late
    <3>. QED
      BY <2>1 DEF Job
  <2>. HIDE DEF a, b
  <2>7. job'[w] = b /\ job' \in [Workers -> Job] /\ \A x \in Workers \ {w} : job'[x] = job[x]
    BY <1>0, <2>4, <2>5
  <2>. QED
    BY <2>2, <2>6, <2>7
<1>. QED
  BY <1>1, <1>2

(* A heartbeat was sent: only the answer in flight changes.                 *)
LEMMA BeatSent ==
  ASSUME WorkerTypeOK, NEW w \in Workers, NEW b \in Beating,
         job' = [job EXCEPT ![w].beat = b]
  PROVE  /\ job' \in [Workers -> Job]
         /\ \A x \in Workers \ {w} : job'[x] = job[x]
         /\ job'[w].doing = job[w].doing /\ job'[w].fence = job[w].fence
         /\ job'[w].confirmed = job[w].confirmed /\ job'[w].beat = b
         /\ job'[w].aborted = job[w].aborted /\ job'[w].late = job[w].late
<1>0. job \in [Workers -> Job] /\ job[w] \in Job
  BY JobFields
<1>1. [job[w] EXCEPT !.beat = b] \in Job
  BY <1>0, JobUpdates
<1>2. job' = [job EXCEPT ![w] = [job[w] EXCEPT !.beat = b]]
  BY <1>0
<1>3. /\ [job[w] EXCEPT !.beat = b].doing = job[w].doing
      /\ [job[w] EXCEPT !.beat = b].fence = job[w].fence
      /\ [job[w] EXCEPT !.beat = b].confirmed = job[w].confirmed
      /\ [job[w] EXCEPT !.beat = b].beat = b
      /\ [job[w] EXCEPT !.beat = b].aborted = job[w].aborted
      /\ [job[w] EXCEPT !.beat = b].late = job[w].late
  BY <1>0 DEF Job
<1>. QED
  BY <1>0, <1>1, <1>2, <1>3

(* Time passes: only watchdogs become late.                                 *)
LEMMA Ticks ==
  ASSUME WorkerTypeOK, TimePasses
  PROVE  /\ job' \in [Workers -> Job]
         /\ \A w \in Workers :
              /\ job'[w].doing = job[w].doing /\ job'[w].fence = job[w].fence
              /\ job'[w].confirmed = job[w].confirmed /\ job'[w].beat = job[w].beat
              /\ job'[w].aborted = job[w].aborted
              /\ job'[w].late <=> job[w].late \/ Overdue(w)
<1>1. job' = [w \in Workers |-> [job[w] EXCEPT !.late = job[w].late \/ Overdue(w)]]
  BY DEF TimePasses
<1>2. ASSUME NEW j \in Job, NEW l \in BOOLEAN
      PROVE  /\ [j EXCEPT !.late = l] \in Job
             /\ [j EXCEPT !.late = l].doing = j.doing /\ [j EXCEPT !.late = l].fence = j.fence
             /\ [j EXCEPT !.late = l].confirmed = j.confirmed
             /\ [j EXCEPT !.late = l].beat = j.beat
             /\ [j EXCEPT !.late = l].aborted = j.aborted /\ [j EXCEPT !.late = l].late = l
  BY DEF Job
<1>3. ASSUME NEW w \in Workers
      PROVE  job[w] \in Job /\ (job[w].late \/ Overdue(w)) \in BOOLEAN
  BY JobFields
<1>. QED
  BY <1>1, <1>2, <1>3, ZenonT(60)

-----------------------------------------------------------------------------
(* What a worker does to the store is what the store allows.                *)

StoreInv == TypeOK /\ RowInv /\ TraceInv /\ FencingTokens

LEMMA StoreInvInit == Init => StoreInv
<1>1. Init => FencingTokens
  BY DEF Init, FencingTokens, AbsentRun
<1>. QED
  BY <1>1, TypeInit, RowInvInit, TraceInvInit DEF StoreInv

LEMMA StoreInvKept == StoreInv /\ [Next]_vars => StoreInv'
  BY TypeStep, RowInvStep, TraceInvStep, FencingStep DEF StoreInv

Busy(w) == job[w].doing # Nothing

LEMMA BusyOps ==
  ASSUME NEW w
  PROVE  job[w].doing.op \in {"claimed", "read", "decide", "reserve", "tool", "save", "failStep",
                              "answer", "fail", "cancel", "checkpoint"} => Busy(w)
  BY DEF Busy, Nothing

LEMMA StandingCases ==
  ASSUME NEW f, NEW n
  PROVE  /\ Standing(f, n) \in {"stale", "allowed", "cancel_requested", "deadline_exceeded",
                                "access_revoked"}
         /\ Standing(f, n) = "allowed" => Holds(f) /\ Writable(f.run, n)
         /\ Standing(f, n) \notin {"stale", "allowed"} =>
              Holds(f) /\ WriteGuard(f.run, n) = Standing(f, n)
  BY DEF Standing, WriteGuard, Writable

LEMMA RecheckCases ==
  ASSUME NEW w, NEW n, NEW next
  PROVE  \/ /\ Recheck(w, n, next) = next
            /\ Holds(job[w].fence) /\ Writable(job[w].fence.run, n) /\ ~job[w].aborted
         \/ Recheck(w, n, next) \in {Nothing, MakeCancelled, Fail(WallTimeExceeded, FALSE),
                                     Fail(AccessRevoked, FALSE)}
  BY StandingCases DEF Recheck, SettleReadGuard

LEMMA Excuses ==
  /\ {Nothing, MakeCancelled, Fail(WallTimeExceeded, FALSE), Fail(AccessRevoked, FALSE),
      Fail(ExecutorError, FALSE), Fail(ExecutorError, TRUE)} \subseteq Await
  /\ \A standing : HandleReserveResult(standing) \in {Nothing, MakeCancelled}
  /\ \A standing \in {"stale", "cancel_requested", "deadline_exceeded", "access_revoked"} :
       SettleReadGuard(standing) \in {Nothing, MakeCancelled, Fail(WallTimeExceeded, FALSE),
                                      Fail(AccessRevoked, FALSE)}
  BY AwaitTypes DEF HandleReserveResult, SettleReadGuard, ErrorCode

LEMMA PictureType ==
  ASSUME TypeOK, NEW r \in RunId
  PROVE  Picture(r) \in PictureRow
<1>1. /\ steps[r] \in Seq(StepRow) /\ evidence[r] \in Seq(EvidenceRow)
      /\ run[r].generation \in Nat /\ run[r].cancelRequested \in BOOLEAN
  BY DEF TypeOK, RunRow
<1>. QED
  BY <1>1 DEF Picture, PictureRow

(* The step a reservation runs is the last of the trace.                    *)
LEMMA ReservedStep ==
  ASSUME StoreInv, NEW f \in Fence, NEW n, ReserveStep(f, n), Standing(f, n) = "allowed"
  PROVE  /\ Len(steps'[f.run]) \in StepIndex
         /\ Running(f.run)' = {Len(steps'[f.run])}
<1>. DEFINE r == f.run
<1>0. /\ r \in RunId /\ steps \in [RunId -> Seq(StepRow)] /\ run[r].stepCount = Len(steps[r])
      /\ Len(steps[r]) \in Nat /\ Len(steps[r]) <= MaxSteps /\ MaxSteps \in Nat
      /\ steps[r] \in Seq(StepRow) /\ DOMAIN steps[r] = 1 .. Len(steps[r])
      /\ \A i \in Running(r) : i = Len(steps[r])
  BY StoreAssumption, LenProperties
  DEF StoreInv, TypeOK, Fence, TraceInv, TraceSound, RowInv, RowChecks
<1>1. ResumeStep(r) \/ StartStep(r)
  BY StandingCases DEF ReserveStep, SettleFailed, Writable
<1>2. CASE ResumeStep(r)
  <2>1. PICK i \in Running(r) : steps' = [steps EXCEPT ![r][i].executions = @ + 1]
    BY <1>2 DEF ResumeStep
  <2>2. i \in DOMAIN steps[r] /\ i = Len(steps[r]) /\ steps[r][i] \in StepRow
        /\ steps[r][i].status = "running"
    BY <1>0, <2>1 DEF Running
  <2>. DEFINE e == [steps[r][i] EXCEPT !.executions = steps[r][i].executions + 1]
  <2>3. e \in StepRow /\ e.status = "running"
    BY <2>2 DEF StepRow
  <2>4. steps'[r] = [steps[r] EXCEPT ![i] = e]
    BY <1>0, <2>1, <2>2
  <2>5. /\ Len(steps'[r]) = Len(steps[r]) /\ DOMAIN steps'[r] = DOMAIN steps[r]
        /\ steps'[r][i] = e /\ \A j \in DOMAIN steps[r] \ {i} : steps'[r][j] = steps[r][j]
    BY <1>0, <2>2, <2>3, <2>4, ExceptSeq
  <2>6. Running(r)' = {i}
    <3>1. \A j \in DOMAIN steps[r] \ {i} : steps[r][j].status # "running"
      BY <1>0, <2>2 DEF Running
    <3>2. steps'[r][i].status = "running"
      BY <2>3, <2>5
    <3>. HIDE DEF e
    <3>. QED
      BY <2>2, <2>5, <3>1, <3>2 DEF Running
  <2>. QED
    BY <1>0, <2>2, <2>5, <2>6 DEF StepIndex
<1>3. CASE StartStep(r)
  <2>1. /\ steps'[r] = Append(steps[r], Step("tool_call", "running"))
        /\ run[r].stepCount < MaxSteps /\ Running(r) = {}
    BY <1>0, <1>3 DEF StartStep
  <2>2. Step("tool_call", "running") \in StepRow /\ Step("tool_call", "running").status = "running"
    BY DEF Step, StepRow
  <2>3. /\ Len(steps'[r]) = Len(steps[r]) + 1
        /\ DOMAIN steps'[r] = 1 .. Len(steps[r]) + 1
        /\ steps'[r][Len(steps[r]) + 1].status = "running"
        /\ \A j \in 1 .. Len(steps[r]) : steps'[r][j] = steps[r][j]
    BY <1>0, <2>1, <2>2, AppendProperties
  <2>4. Running(r)' = {Len(steps[r]) + 1}
    BY <1>0, <2>1, <2>3 DEF Running
  <2>. QED
    BY <1>0, <2>1, <2>3, <2>4 DEF StepIndex
<1>. QED
  BY <1>1, <1>2, <1>3

(* Every step of an executor ends one wait, begins the next and writes to   *)
(* the store, if it does, under the fence it was given.                     *)
LEMMA ExecuteTurns ==
  ASSUME StoreInv, WorkerTypeOK, NEW w \in Workers, NEW n \in Stamps, Execute(w, n)
  PROVE  /\ Busy(w) /\ job[w].doing.op # "claimed"
         /\ \E next \in Await : Turn(w, next)
         /\ UNCHANGED vars \/ WorkerWrite(job[w].fence, n)
         /\ UNCHANGED <<process, losses>>
<1>. DEFINE f == job[w].fence
            r == f.run
            Goal == /\ Busy(w) /\ job[w].doing.op # "claimed"
                    /\ \E next \in Await : Turn(w, next)
                    /\ UNCHANGED vars \/ WorkerWrite(f, n)
                    /\ UNCHANGED <<process, losses>>
<1>0. TypeOK /\ job[w].doing \in Await /\ MaxEvidence \in Nat
      /\ (Busy(w) => f \in Fence /\ r \in RunId)
  BY JobFields, StoreAssumption DEF StoreInv, Busy
<1>1. \A next \in Await : Recheck(w, n, next) \in Await
  BY RecheckCases, Excuses
<1>2. CASE ReadState(w, n)
  <2>1. Busy(w)
    BY <1>2, BusyOps DEF ReadState
  <2>2. AfterRead(r) \in Await
    BY <1>0, <2>1, PictureType, AwaitTypes, Excuses DEF AfterRead
  <2>3. \E next \in Await : Turn(w, next)
    BY <1>1, <1>2, <2>2, Excuses DEF ReadState
  <2>. QED
    BY <1>2, <2>1, <2>3 DEF ReadState
<1>3. CASE Decide(w, n)
  <2>1. Busy(w)
    BY <1>3, BusyOps DEF Decide
  <2>2. [op |-> "answer", seen |-> job[w].doing.seen] \in Await
    BY <1>0, <1>3, AwaitFields, AwaitTypes DEF Decide
  <2>3. \E next \in Await : Turn(w, next)
    <3>1. CASE Turn(w, Recheck(w, n, Fail(ExecutorError, TRUE)))
      BY <1>1, <3>1, Excuses
    <3>2. ASSUME NEW next \in {[op |-> "answer", seen |-> job[w].doing.seen], Reserving},
                 Turn(w, Recheck(w, n, IF Picture(r) = job[w].doing.seen THEN next ELSE Nothing))
          PROVE  \E choice \in Await : Turn(w, choice)
      BY <1>1, <2>2, <3>2, AwaitTypes
    <3>. QED
      BY <1>3, <3>1, <3>2 DEF Decide
  <2>. QED
    BY <1>3, <2>1, <2>3 DEF Decide
<1>4. CASE Reserve(w, n)
  <2>1. Busy(w)
    BY <1>4, BusyOps DEF Reserve
  <2>2. UNCHANGED vars \/ ReserveStep(f, n)
    BY <1>4 DEF Reserve
  <2>3. \E next \in Await : Turn(w, next)
    <3>1. CASE Turn(w, HandleReserveResult(Standing(f, n)))
      BY <3>1, Excuses
    <3>2. CASE /\ ReserveStep(f, n) /\ Standing(f, n) = "allowed"
               /\ Turn(w, Checkpoint(OnStep("tool", Len(steps'[r]))))
      <4>1. Len(steps'[r]) \in StepIndex
        BY <1>0, <2>1, <3>2, ReservedStep
      <4>. QED
        BY <3>2, <4>1, AwaitTypes
    <3>. QED
      BY <1>4, <3>1, <3>2 DEF Reserve
  <2>. QED
    BY <1>4, <2>1, <2>2, <2>3 DEF Reserve, WorkerWrite
<1>5. CASE ExecuteTool(w, n)
  <2>1. Busy(w)
    BY <1>5, BusyOps DEF ExecuteTool
  <2>2. job[w].doing.step \in StepIndex
    BY <1>0, <1>5, AwaitFields DEF ExecuteTool
  <2>3. 0 .. (MaxEvidence - Len(evidence[r])) \subseteq 0 .. MaxEvidence
    <3>1. Len(evidence[r]) \in Nat
      BY <1>0, <2>1, LenProperties DEF TypeOK
    <3>. QED
      BY <1>0, <3>1, SMTT(30)
  <2>4. \E next \in Await : Turn(w, next)
    <3>1. PICK next \in {OnStep("failStep", job[w].doing.step), Fail(AccessRevoked, FALSE)} \cup
                          {[op |-> "save", step |-> job[w].doing.step, count |-> c] :
                             c \in 0 .. (MaxEvidence - Len(evidence[r]))} :
             Turn(w, Recheck(w, n, next))
      BY <1>5 DEF ExecuteTool
    <3>2. next \in Await
      BY <2>2, <2>3, <3>1, AwaitTypes, Excuses
    <3>. QED
      BY <1>1, <3>1, <3>2
  <2>. QED
    BY <1>5, <2>1, <2>4 DEF ExecuteTool
<1>6. CASE ToolOverflows(w, n)
  BY <1>1, <1>6, BusyOps, Excuses DEF ToolOverflows
<1>7. CASE SaveObservation(w, n)
  <2>1. Busy(w)
    BY <1>7, BusyOps DEF SaveObservation
  <2>2. job[w].doing.step \in 1 .. MaxSteps /\ job[w].doing.count \in 0 .. MaxEvidence
    BY <1>0, <1>7, AwaitFields DEF SaveObservation, StepIndex
  <2>3. \E next \in Await : Turn(w, next)
    BY <1>7, StandingCases, Excuses, AwaitTypes DEF SaveObservation
  <2>4. UNCHANGED vars \/ WorkerWrite(f, n)
    BY <1>7, <2>2 DEF SaveObservation, WorkerWrite
  <2>. QED
    BY <1>7, <2>1, <2>3, <2>4 DEF SaveObservation
<1>8. CASE FailToolStep(w, n)
  <2>1. Busy(w)
    BY <1>8, BusyOps DEF FailToolStep
  <2>2. job[w].doing.step \in 1 .. MaxSteps
    BY <1>0, <1>8, AwaitFields DEF FailToolStep, StepIndex
  <2>3. \E next \in Await : Turn(w, next)
    BY <1>8, Excuses, AwaitTypes DEF FailToolStep
  <2>4. UNCHANGED vars \/ WorkerWrite(f, n)
    BY <1>8, <2>2 DEF FailToolStep, WorkerWrite
  <2>. QED
    BY <1>8, <2>1, <2>3, <2>4 DEF FailToolStep
<1>9. CASE CompleteFinal(w, n)
  <2>1. Busy(w)
    BY <1>9, BusyOps DEF CompleteFinal
  <2>2. \E next \in Await : Turn(w, next)
    BY <1>9, Excuses DEF CompleteFinal
  <2>. QED
    BY <1>9, <2>1, <2>2 DEF CompleteFinal, WorkerWrite
<1>10. CASE FailTheRun(w, n)
  <2>1. Busy(w)
    BY <1>10, BusyOps DEF FailTheRun
  <2>2. job[w].doing.code \in ErrorCode /\ job[w].doing.blame \in BOOLEAN
    BY <1>0, <1>10, AwaitFields DEF FailTheRun
  <2>3. \E next \in Await : Turn(w, next)
    BY <1>10, <2>2, Excuses, AwaitTypes DEF FailTheRun
  <2>4. UNCHANGED vars \/ WorkerWrite(f, n)
    BY <1>10, <2>2 DEF FailTheRun, WorkerWrite
  <2>. QED
    BY <1>10, <2>1, <2>3, <2>4 DEF FailTheRun
<1>11. CASE SettleCancellation(w)
  <2>1. Busy(w)
    BY <1>11, BusyOps DEF SettleCancellation
  <2>. QED
    BY <1>11, <2>1, Excuses DEF SettleCancellation, WorkerWrite
<1>. QED
  BY <1>2, <1>3, <1>4, <1>5, <1>6, <1>7, <1>8, <1>9, <1>10, <1>11 DEF Execute

(* A poll hands out nothing, or one fence of this worker, whose run it has  *)
(* just leased.                                                             *)
LeasedTo(w, f, n) ==
  /\ f \in claims' /\ f \notin claims /\ f \in Fence /\ f.worker = w
  /\ run'[f.run].status = "running" /\ run'[f.run].generation = f.generation
  /\ run'[f.run].leaseExpiresAt \in Nat

NewJob(w, f) ==
  /\ job'[w].doing = [op |-> "claimed"] /\ job'[w].fence = f
  /\ job'[w].confirmed = run'[f.run].leaseExpiresAt /\ job'[w].beat = NoBeat
  /\ ~job'[w].aborted /\ ~job'[w].late

LEMMA Polled ==
  ASSUME StoreInv, WorkerTypeOK, NEW w \in Workers, NEW n \in Stamps, Poll(w, n)
  PROVE  /\ ClaimRun(w, n) /\ UNCHANGED <<process, losses>>
         /\ job' \in [Workers -> Job]
         /\ \A x \in Workers \ {w} : job'[x] = job[x]
         /\ \/ job' = job /\ job'[w] = NoJob
            \/ \E f \in claims' : LeasedTo(w, f, n) /\ NewJob(w, f)
<1>0. job \in [Workers -> Job] /\ TypeOK /\ TypeOK' /\ n \in Nat
  <2>1. job \in [Workers -> Job] /\ TypeOK
    BY JobFields DEF StoreInv
  <2>2. n \in Nat
    BY <2>1, StampsType
  <2>. QED
    BY <2>1, <2>2, TypeClaim DEF Poll
<1>1. CASE claims' = claims
  <2>1. job' = [job EXCEPT ![w] = NoJob] /\ job[w] = NoJob
    BY <1>1 DEF Poll
  <2>. QED
    BY <1>0, <2>1 DEF Poll
<1>2. CASE claims' # claims
  <2>. DEFINE f == CHOOSE c \in claims' : c \notin claims
              j == [NoJob EXCEPT !.doing = [op |-> "claimed"], !.fence = f,
                                 !.confirmed = run'[f.run].leaseExpiresAt]
  <2>1. PICK taken, buried \in SUBSET Eligible(n) :
          (\A s, t \in taken : s = t) /\ HandOut(w, n, taken, buried)
    BY ClaimCases DEF Poll
  <2>2. claims' = claims \cup
          {[run |-> r, worker |-> w, generation |-> run[r].generation + 1] : r \in taken}
    BY <2>1 DEF HandOut
  <2>3. \E c \in claims' : c \notin claims
    BY <1>2, <2>2
  <2>4. f \in claims' /\ f \notin claims
    BY <2>3
  <2>. HIDE DEF f
  <2>5. PICK r \in taken : f = [run |-> r, worker |-> w, generation |-> run[r].generation + 1]
    BY <2>2, <2>4
  <2>6. r \in RunId /\ f.run = r /\ f.worker = w /\ f.generation = run[r].generation + 1
    <3>1. r \in RunId
      BY <2>1 DEF Eligible
    <3>. QED
      BY <2>5, <3>1
  <2>7. run'[r] = Leased(r, w, n)
    BY <2>1, <2>5, <2>6 DEF HandOut
  <2>8. /\ run'[r].status = "running" /\ run'[r].generation = run[r].generation + 1
        /\ run'[r].leaseExpiresAt = LeaseExpiry(n, DeadlineAtClaim(r, n))
    BY <1>0, <2>6, <2>7, LeasedColumns
  <2>9. run'[r].leaseExpiresAt \in Nat
    BY <1>0, <2>6, <2>8, DeadlineAtClaimType, LeaseExpiryType
  <2>10. f \in Fence
    BY <1>0, <2>4 DEF TypeOK
  <2>11. LeasedTo(w, f, n)
    BY <2>4, <2>6, <2>8, <2>9, <2>10 DEF LeasedTo
  <2>12. job' = [job EXCEPT ![w] = j]
    BY <1>2 DEF Poll, f
  <2>13. /\ j.doing = [op |-> "claimed"] /\ j.fence = f
         /\ j.confirmed = run'[f.run].leaseExpiresAt /\ j.beat = NoBeat
         /\ j.aborted = FALSE /\ j.late = FALSE
    BY DEF NoJob
  <2>14. j \in Job
    <3>1. run'[f.run].leaseExpiresAt \in Nat
      BY <2>6, <2>9
    <3>2. [op |-> "claimed"] \in Await /\ NoBeat \in Beating
      BY <1>0, AwaitTypes, JobUpdates, JobFields
    <3>. QED
      BY <2>10, <3>1, <3>2 DEF NoJob, Job, Beating
  <2>15. job'[w] = j /\ job' \in [Workers -> Job] /\ \A x \in Workers \ {w} : job'[x] = job[x]
    <3>. HIDE DEF j
    <3>. QED
      BY <1>0, <2>12, <2>14
  <2>16. NewJob(w, f)
    <3>. HIDE DEF j
    <3>. QED
      BY <2>13, <2>15 DEF NewJob
  <2>. QED
    BY <2>4, <2>11, <2>15, <2>16 DEF Poll
<1>. QED
  BY <1>1, <1>2

(* A process by itself: it changes its own execution only, and writes to    *)
(* the store, if it does, as the claimer or under the fence it was given.   *)
Own(w) == Runs(w) \/ CallThrows(w) \/ Stop(w) \/ Crash(w)

Resumes(w) == job'[w].doing = Nothing \/ (Busy(w) /\ job'[w].fence = job[w].fence)

OwnWrite(w) ==
  \E n \in Stamps : ClaimRun(w, n) \/ (Busy(w) /\ WorkerWrite(job[w].fence, n))

LEMMA TurnResumes ==
  ASSUME WorkerTypeOK, NEW w \in Workers, NEW next \in Await, Turn(w, next), Busy(w)
  PROVE  /\ job' \in [Workers -> Job] /\ Resumes(w)
         /\ \A x \in Workers \ {w} : job'[x] = job[x]
  BY Turns DEF Resumes, NoJob

LEMMA OwnStep ==
  ASSUME StoreInv, WorkerTypeOK, NEW w \in Workers, Own(w)
  PROVE  /\ job' \in [Workers -> Job]
         /\ \A x \in Workers \ {w} : job'[x] = job[x]
         /\ Resumes(w) \/ \E n \in Stamps, f \in claims' : LeasedTo(w, f, n) /\ NewJob(w, f)
         /\ UNCHANGED vars \/ OwnWrite(w)
         /\ process' \in [Workers -> {"up", "stopping", "down"}] /\ losses' \in Nat
<1>. DEFINE Goal == /\ job' \in [Workers -> Job]
                    /\ \A x \in Workers \ {w} : job'[x] = job[x]
                    /\ \/ Resumes(w)
                       \/ \E n \in Stamps, f \in claims' : LeasedTo(w, f, n) /\ NewJob(w, f)
                    /\ UNCHANGED vars \/ OwnWrite(w)
                    /\ process' \in [Workers -> {"up", "stopping", "down"}] /\ losses' \in Nat
<1>0. /\ TypeOK /\ job \in [Workers -> Job] /\ losses \in Nat
      /\ process \in [Workers -> {"up", "stopping", "down"}]
  BY JobFields DEF StoreInv, WorkerTypeOK
<1>1. ASSUME NEW n \in Stamps, Poll(w, n) PROVE Goal
  <2>1. /\ ClaimRun(w, n) /\ UNCHANGED <<process, losses>>
        /\ job' \in [Workers -> Job]
        /\ \A x \in Workers \ {w} : job'[x] = job[x]
        /\ \/ job'[w] = NoJob
           \/ \E f \in claims' : LeasedTo(w, f, n) /\ NewJob(w, f)
    BY <1>1, Polled
  <2>2. job'[w] = NoJob => Resumes(w)
    BY DEF Resumes, NoJob
  <2>. QED
    BY <1>0, <2>1, <2>2 DEF OwnWrite
<1>2. ASSUME NEW n \in Stamps, Execute(w, n) PROVE Goal
  <2>1. /\ Busy(w) /\ \E next \in Await : Turn(w, next)
        /\ UNCHANGED vars \/ WorkerWrite(job[w].fence, n)
        /\ UNCHANGED <<process, losses>>
    BY <1>2, ExecuteTurns
  <2>. QED
    BY <1>0, <2>1, TurnResumes DEF OwnWrite
<1>3. CASE ProcessClaim(w)
  <2>1. Busy(w) /\ UNCHANGED <<vars, process, losses>>
    BY <1>3, BusyOps DEF ProcessClaim
  <2>2. job'[w] = NoJob => Resumes(w)
    BY DEF Resumes, NoJob
  <2>. QED
    BY <1>0, <1>3, <2>1, <2>2, ClaimTaken DEF Resumes
<1>4. CASE CheckpointStops(w)
  <2>1. Busy(w) /\ UNCHANGED <<vars, process, losses>>
    BY <1>4, BusyOps DEF CheckpointStops
  <2>2. \E next \in Await : Turn(w, next)
    BY <1>4, AwaitTypes DEF CheckpointStops
  <2>. QED
    BY <1>0, <2>1, <2>2, TurnResumes
<1>5. CASE Abort(w) /\ UNCHANGED <<vars, process, losses>>
  BY <1>0, <1>5, Aborts DEF Resumes, Busy
<1>6. CASE BeatReply(w)
  <2>1. CASE job[w].beat.reply = "allowed"
    <3>1. /\ job' \in [Workers -> Job]
          /\ \A x \in Workers \ {w} : job'[x] = job[x]
          /\ job'[w].fence = job[w].fence
          /\ job[w].doing = Nothing => job'[w].doing = Nothing
      BY <1>6, <2>1, Renewals DEF Nothing
    <3>2. UNCHANGED <<vars, process, losses>>
      BY <1>6 DEF BeatReply
    <3>. QED
      BY <1>0, <3>1, <3>2 DEF Resumes, Busy
  <2>. QED
    BY <1>5, <1>6, <2>1 DEF BeatReply
<1>7. ASSUME NEW n \in Stamps, Beat(w, n) PROVE Goal
  <2>. DEFINE f == job[w].fence
  <2>1. Busy(w) /\ f \in Fence /\ UNCHANGED <<process, losses>>
    BY <1>7, JobFields DEF Beat, Active, Busy, Nothing
  <2>2. Standing(f, n) \in Replies
    BY StandingCases DEF Replies
  <2>3. PICK b \in Beating :
          job' = [job EXCEPT ![w].beat = b] /\ (HeartbeatLease(f, n) \/ UNCHANGED vars)
    <3>1. CASE /\ HeartbeatLease(f, n)
               /\ job' = [job EXCEPT ![w].beat =
                            [reply |-> Standing(f, n), until |-> run'[f.run].leaseExpiresAt]]
      <4>1. n \in Nat /\ f.run \in RunId
        BY <1>0, <2>1, StampsType DEF Fence
      <4>2. TypeOK'
        BY <1>0, <2>1, <3>1, <4>1, TypeHeartbeat
      <4>3. run'[f.run].leaseExpiresAt \in Nat \cup {NoTime}
        BY <4>1, <4>2 DEF TypeOK, RunRow
      <4>4. [reply |-> Standing(f, n), until |-> run'[f.run].leaseExpiresAt] \in Beating
        BY <2>2, <4>3 DEF Beating
      <4>. QED
        BY <3>1, <4>4
    <3>2. CASE /\ UNCHANGED vars
               /\ job' = [job EXCEPT ![w].beat = [reply |-> Standing(f, n), until |-> NoTime]]
      <4>1. [reply |-> Standing(f, n), until |-> NoTime] \in Beating
        BY <2>2 DEF Beating
      <4>. QED
        BY <3>2, <4>1
    <3>. QED
      BY <1>7, <3>1, <3>2 DEF Beat
  <2>4. /\ job' \in [Workers -> Job] /\ job'[w].fence = f
        /\ \A x \in Workers \ {w} : job'[x] = job[x]
    BY <2>3, BeatSent
  <2>. QED
    BY <1>0, <2>1, <2>3, <2>4 DEF Resumes, OwnWrite, WorkerWrite
<1>8. CASE CallThrows(w)
  <2>1. losses' \in Nat /\ UNCHANGED <<vars, process>>
    BY <1>0, <1>8 DEF CallThrows
  <2>2. CASE job[w].doing # Nothing /\ Turn(w, Nothing)
    BY <1>0, <2>1, <2>2, TurnResumes, AwaitTypes DEF Busy
  <2>3. CASE job' = [job EXCEPT ![w].beat = NoBeat]
    <3>1. NoBeat \in Beating
      BY <1>0, JobUpdates
    <3>2. /\ job' \in [Workers -> Job] /\ job'[w].fence = job[w].fence
          /\ job'[w].doing = job[w].doing
          /\ \A x \in Workers \ {w} : job'[x] = job[x]
      BY <2>3, <3>1, BeatSent
    <3>. QED
      BY <1>0, <2>1, <3>2 DEF Resumes, Busy
  <2>. QED
    BY <1>8, <2>2, <2>3 DEF CallThrows
<1>9. CASE Stop(w)
  BY <1>0, <1>9 DEF Stop, Resumes, Busy
<1>10. CASE Exit(w) \/ Crash(w)
  <2>1. /\ job' = [job EXCEPT ![w] = NoJob] /\ UNCHANGED <<vars, losses>>
        /\ process' = [process EXCEPT ![w] = "down"]
    BY <1>10 DEF Exit, Crash
  <2>2. NoJob \in Job /\ NoJob.doing = Nothing
    BY <1>0, JobUpdates DEF NoJob
  <2>3. Resumes(w) /\ job' \in [Workers -> Job] /\ \A x \in Workers \ {w} : job'[x] = job[x]
    BY <1>0, <2>1, <2>2 DEF Resumes
  <2>. QED
    BY <1>0, <2>1, <2>3
<1>11. (GraceOver(w) \/ Watchdog(w)) => Abort(w) /\ UNCHANGED <<vars, process, losses>>
  BY DEF GraceOver, Watchdog
<1>. QED
  BY <1>1, <1>2, <1>3, <1>4, <1>5, <1>6, <1>7, <1>8, <1>9, <1>10, <1>11
  DEF Own, Runs, Polls, Executes, Beats, Stops

(* Every step of the processes is a step of the store or leaves it alone.   *)
LEMMA StoreStep ==
  ASSUME StoreInv, WorkerTypeOK, [WorkerNext]_allVars
  PROVE  [Next]_vars
<1>1. ASSUME NEW w \in Workers, Own(w) PROVE [Next]_vars
  <2>1. Busy(w) => job[w].fence \in claims
    BY JobFields DEF Busy
  <2>2. UNCHANGED vars \/ OwnWrite(w)
    BY <1>1, OwnStep
  <2>. QED
    BY <2>1, <2>2 DEF OwnWrite, Next
<1>2. ASSUME NEW n \in Stamps, Commands(n) PROVE Next
  BY <1>2 DEF Next
<1>3. CASE Membership
  BY <1>3 DEF Next
<1>4. CASE TimePasses
  BY <1>4 DEF TimePasses, Next
<1>5. CASE UNCHANGED allVars
  BY <1>5 DEF allVars, vars
<1>. QED
  BY <1>1, <1>2, <1>3, <1>4, <1>5 DEF WorkerNext, Own

LEMMA WorkerTypeInit == WorkerInit => WorkerTypeOK
<1>. SUFFICES ASSUME WorkerInit PROVE WorkerTypeOK
  OBVIOUS
<1>1. TypeOK /\ NoJob \in Job /\ NoJob.doing = Nothing
  <2>1. NoBeat \in Beating
    BY DEF NoBeat, Beating, Replies
  <2>. QED
    BY <2>1, TypeInit, AwaitTypes DEF WorkerInit, NoJob, Job, Beating
<1>. QED
  BY <1>1 DEF WorkerInit, WorkerTypeOK

LEMMA WorkerTypeStep ==
  ASSUME StoreInv, WorkerTypeOK, [WorkerNext]_allVars
  PROVE  WorkerTypeOK'
<1>1. [Next]_vars
  BY StoreStep
<1>2. TypeOK' /\ claims \subseteq claims'
  BY <1>1, TypeStep, ClaimsStep DEF StoreInv
<1>3. ASSUME job' \in [Workers -> Job], losses' \in Nat,
             process' \in [Workers -> {"up", "stopping", "down"}],
             \A w \in Workers : job'[w].doing # Nothing =>
               job'[w].fence \in claims' /\ job'[w].fence.worker = w
      PROVE  WorkerTypeOK'
  BY <1>2, <1>3 DEF WorkerTypeOK
<1>4. /\ job \in [Workers -> Job] /\ losses \in Nat
      /\ process \in [Workers -> {"up", "stopping", "down"}]
      /\ \A x \in Workers : job[x].doing # Nothing =>
           job[x].fence \in claims /\ job[x].fence.worker = x
  BY DEF WorkerTypeOK
<1>5. ASSUME NEW w \in Workers, Own(w) PROVE WorkerTypeOK'
  <2>1. /\ job' \in [Workers -> Job]
        /\ \A x \in Workers \ {w} : job'[x] = job[x]
        /\ Resumes(w) \/ \E n \in Stamps, f \in claims' : LeasedTo(w, f, n) /\ NewJob(w, f)
        /\ process' \in [Workers -> {"up", "stopping", "down"}] /\ losses' \in Nat
    BY <1>5, OwnStep
  <2>2. job'[w].doing # Nothing => job'[w].fence \in claims' /\ job'[w].fence.worker = w
    BY <1>2, <1>4, <2>1 DEF Resumes, Busy, LeasedTo, NewJob
  <2>3. ASSUME NEW x \in Workers, job'[x].doing # Nothing
        PROVE  job'[x].fence \in claims' /\ job'[x].fence.worker = x
    BY <1>2, <1>4, <2>1, <2>2, <2>3
  <2>. QED
    BY <1>3, <2>1, <2>3
<1>6. CASE UNCHANGED <<process, job, losses>>
  BY <1>2, <1>3, <1>4, <1>6
<1>7. CASE TimePasses
  <2>1. /\ job' \in [Workers -> Job] /\ UNCHANGED <<process, losses>>
        /\ \A w \in Workers : job'[w].doing = job[w].doing /\ job'[w].fence = job[w].fence
    BY <1>7, Ticks DEF TimePasses
  <2>. QED
    BY <1>2, <1>3, <1>4, <2>1
<1>. QED
  BY <1>5, <1>6, <1>7 DEF WorkerNext, Own, allVars

(* The processes implement the store: what AgentRunStore allows a worker to *)
(* do at any time, with any fence, covers the poll loop, the executor and   *)
(* the heartbeats, so every theorem about the store holds of them.          *)
THEOREM WorkersImplementStore == WorkerSpec => Spec
<1>1. WorkerInit => Init /\ StoreInv /\ WorkerTypeOK
  BY StoreInvInit, WorkerTypeInit DEF WorkerInit
<1>2. StoreInv /\ WorkerTypeOK /\ [WorkerNext]_allVars =>
        [Next]_vars /\ StoreInv' /\ WorkerTypeOK'
  BY StoreStep, StoreInvKept, WorkerTypeStep
<1>. QED
  BY <1>1, <1>2, PTL DEF WorkerSpec, Spec

LEMMA WorkerInvariant == WorkerSpec => [](StoreInv /\ WorkerTypeOK)
<1>1. WorkerInit => StoreInv /\ WorkerTypeOK
  BY StoreInvInit, WorkerTypeInit DEF WorkerInit
<1>2. StoreInv /\ WorkerTypeOK /\ [WorkerNext]_allVars => StoreInv' /\ WorkerTypeOK'
  BY StoreStep, StoreInvKept, WorkerTypeStep
<1>. QED
  BY <1>1, <1>2, PTL DEF WorkerSpec

(* What processes and executors remember is well formed, and an execution   *)
(* always belongs to a fence that its own process was given.                *)
THEOREM WorkerTypeCorrect == WorkerSpec => []WorkerTypeOK
  BY WorkerInvariant, PTL

-----------------------------------------------------------------------------
(* Who holds a lease, and who writes under it.                              *)

(* A fence that was handed out earlier never comes back into force.         *)
LEMMA HeldBefore ==
  ASSUME StoreInv, [Next]_vars, NEW f \in claims, Holds(f)'
  PROVE  /\ Holds(f)
         /\ run'[f.run].generation = run[f.run].generation
<1>. DEFINE r == f.run
<1>0. /\ TypeOK /\ TypeOK' /\ RowInv /\ f \in Fence /\ r \in RunId
      /\ f.generation <= run[r].generation /\ run[r].generation \in Nat
  <2>1. TypeOK /\ TypeOK' /\ RowInv
    BY TypeStep DEF StoreInv
  <2>2. f \in Fence /\ r \in RunId
    BY <2>1 DEF TypeOK, Fence
  <2>3. run[r] \in RunRow
    BY <2>1, <2>2 DEF TypeOK
  <2>4. f.generation \in 1 .. run[r].generation
    BY DEF StoreInv, FencingTokens
  <2>. QED
    BY <2>1, <2>2, <2>3, <2>4 DEF RunRow
<1>1. RowStep(r)
  BY <1>0, RowSteps
<1>2. ~Granted(r)
  <2>1. ASSUME Granted(r) PROVE FALSE
    <3>1. PICK w \in Workers, n \in Stamps : run'[r] = Leased(r, w, n)
      BY <2>1 DEF Granted
    <3>2. run'[r].generation = run[r].generation + 1
      BY <1>0, <3>1, LeasedColumns
    <3>. QED
      BY <1>0, <3>2 DEF Holds
  <2>. QED
    BY <2>1
<1>. QED
  BY <1>0, <1>1, <1>2, GenerationStep DEF Holds

(* Two fences in force of one run are one fence.                            *)
LEMMA OneHolder ==
  ASSUME StoreInv, NEW f \in claims, NEW g \in claims, Holds(f), Holds(g), f.run = g.run
  PROVE  f = g
  BY DEF StoreInv, FencingTokens, Holds

(* While a fence stays in force, nobody else changes the trace or the lease *)
(* of its run.                                                              *)
Foreign(f) ==
  \/ UNCHANGED vars
  \/ \E n \in Stamps : Commands(n)
  \/ Membership
  \/ Tick
  \/ \E w \in Workers, n \in Stamps : ClaimRun(w, n)
  \/ \E g \in claims \ {f}, n \in Stamps : WorkerWrite(g, n)

LEMMA ForeignSteps ==
  ASSUME StoreInv, NEW f \in claims, Holds(f)', Foreign(f)
  PROVE  /\ Holds(f)
         /\ steps'[f.run] = steps[f.run] /\ evidence'[f.run] = evidence[f.run]
         /\ run'[f.run].leaseExpiresAt = run[f.run].leaseExpiresAt
<1>. DEFINE r == f.run
<1>0. TypeOK /\ f \in Fence /\ r \in RunId /\ Stamps \subseteq Nat
  BY StampsType DEF StoreInv, TypeOK, Fence
<1>1. [Next]_vars
  BY DEF Foreign, Next
<1>2. Holds(f) /\ run'[r].generation = run[r].generation /\ run'[r].status = "running"
  BY <1>1, HeldBefore DEF Holds
<1>3. CASE UNCHANGED vars
  BY <1>2, <1>3 DEF vars
<1>4. ASSUME NEW n \in Stamps, Commands(n)
      PROVE  UNCHANGED <<steps, evidence>> /\ run'[r].leaseExpiresAt = run[r].leaseExpiresAt
  <2>1. UNCHANGED <<steps, evidence>>
    BY <1>4 DEF Commands, CreateTaskWithInitialRun, CreateRetryRun, CancelRun
  <2>2. CommandStep(r)
    BY <1>0, <1>4, CommandRows
  <2>3. ~Created(r)
    BY <1>2, QueuedColumns DEF Created
  <2>4. CancelAsked(r) => run'[r].leaseExpiresAt = run[r].leaseExpiresAt
    <3>1. run[r] \in RunRow
      BY <1>0 DEF TypeOK
    <3>. QED
      BY <3>1 DEF CancelAsked, RunRow
  <2>. QED
    BY <2>1, <2>2, <2>3, <2>4 DEF CommandStep
<1>5. CASE Membership \/ Tick
  BY <1>2, <1>5 DEF Membership, RemoveMember, AddMember, Tick
<1>6. ASSUME NEW w \in Workers, NEW n \in Stamps, ClaimRun(w, n)
      PROVE  /\ run'[r] = run[r] /\ steps'[r] = steps[r] /\ evidence'[r] = evidence[r]
  <2>1. PICK taken, buried \in SUBSET Eligible(n) : HandOut(w, n, taken, buried)
    BY <1>6, ClaimCases
  <2>2. r \notin taken
    <3>1. ASSUME r \in taken PROVE FALSE
      <4>1. run'[r].generation = run[r].generation + 1
        BY <1>0, <2>1, <3>1, LeasedColumns DEF HandOut
      <4>2. run[r].generation \in Nat
        BY <1>0 DEF TypeOK, RunRow
      <4>. QED
        BY <1>2, <4>1, <4>2
    <3>. QED
      BY <3>1
  <2>3. r \notin buried
    <3>1. r \in buried => run'[r].status = DoomedStatus(r)
      BY <1>0, <2>1, <2>2, BuriedColumns DEF HandOut
    <3>. QED
      BY <1>2, <3>1 DEF DoomedStatus
  <2>. QED
    BY <1>0, <2>1, <2>2, <2>3 DEF HandOut
<1>7. ASSUME NEW g \in claims \ {f}, NEW n \in Stamps, WorkerWrite(g, n)
      PROVE  /\ run'[r] = run[r] /\ steps'[r] = steps[r] /\ evidence'[r] = evidence[r]
  <2>1. g \in Fence /\ Holds(g)
    BY <1>0, <1>7, WriterHolds DEF TypeOK
  <2>2. r # g.run
    BY <1>2, <2>1, OneHolder
  <2>. QED
    BY <1>0, <1>7, <2>1, <2>2, WorkerWriteLocal
<1>. QED
  BY <1>2, <1>3, <1>4, <1>5, <1>6, <1>7 DEF Foreign

(* To a process, the steps of all the others are foreign.                   *)
LEMMA OthersForeign ==
  ASSUME StoreInv, WorkerTypeOK, NEW w \in Workers, Busy(w), [WorkerNext]_allVars, ~Own(w)
  PROVE  Foreign(job[w].fence)
<1>1. ASSUME NEW x \in Workers \ {w}, Own(x) PROVE Foreign(job[w].fence)
  <2>1. Busy(x) => job[x].fence \in claims /\ job[x].fence # job[w].fence
    BY JobFields DEF Busy
  <2>. QED
    BY <1>1, <2>1, OwnStep DEF OwnWrite, Foreign
<1>. QED
  BY <1>1 DEF WorkerNext, Own, TimePasses, allVars, vars, Foreign

(* Nor do they touch what it is doing.                                      *)
LEMMA OthersJob ==
  ASSUME StoreInv, WorkerTypeOK, NEW w \in Workers, [WorkerNext]_allVars, ~Own(w)
  PROVE  /\ job'[w].doing = job[w].doing /\ job'[w].fence = job[w].fence
         /\ job'[w].confirmed = job[w].confirmed /\ job'[w].beat = job[w].beat
         /\ job'[w].aborted = job[w].aborted
         /\ job'[w].late = job[w].late \/ TimePasses
<1>1. ASSUME NEW x \in Workers \ {w}, Own(x) PROVE job'[w] = job[w]
  BY <1>1, OwnStep
<1>2. CASE TimePasses
  BY <1>2, Ticks
<1>. QED
  BY <1>1, <1>2 DEF WorkerNext, Own, allVars

-----------------------------------------------------------------------------
(* An executor acts on the stored trace.                                    *)

DoingOf(d) == IF d.op = "checkpoint" THEN d.next ELSE d

Remembers(d) == DoingOf(d).op \in {"decide", "answer", "tool", "save", "failStep"}

Current(r, d) ==
  /\ d.op \in {"decide", "answer"} =>
       d.seen.steps = steps[r] /\ d.seen.evidence = evidence[r]
  /\ d.op \in {"tool", "save", "failStep"} => Running(r) = {d.step}

PictureOf(w) ==
  Active(w) /\ Holds(job[w].fence) => Current(job[w].fence.run, DoingOf(job[w].doing))

LEMMA PictureParts == PictureCurrent <=> \A w \in Workers : PictureOf(w)
  BY DEF PictureCurrent, PictureOf, Current, DoingOf

LEMMA NothingRemembered ==
  /\ \A d \in {Nothing, MakeCancelled, Read, Reserving, Checkpoint(Read)} : ~Remembers(d)
  /\ \A code, blame : ~Remembers(Fail(code, blame))
  /\ \A standing : ~Remembers(HandleReserveResult(standing))
  /\ \A standing \in {"stale", "cancel_requested", "deadline_exceeded", "access_revoked"} :
       ~Remembers(SettleReadGuard(standing))
<1>1. /\ \A d \in {Nothing, MakeCancelled, Read, Reserving, Checkpoint(Read)} : ~Remembers(d)
      /\ \A code, blame : ~Remembers(Fail(code, blame))
  BY DEF Remembers, DoingOf, Nothing, MakeCancelled, Read, Reserving, Checkpoint, Fail
<1>. QED
  BY <1>1 DEF HandleReserveResult, SettleReadGuard

LEMMA ExecutePicture ==
  ASSUME StoreInv, WorkerTypeOK, NEW w \in Workers, PictureOf(w), NEW n \in Stamps,
         Execute(w, n)
  PROVE  PictureOf(w)'
<1>0. Busy(w) /\ TypeOK
  BY ExecuteTurns DEF StoreInv
<1>. SUFFICES ASSUME NEW f \in Fence, f = job[w].fence PROVE PictureOf(w)'
  BY <1>0, JobFields DEF Busy
<1>. DEFINE r == f.run
<1>1. ASSUME NEW next \in Await, Turn(w, next),
             Remembers(next) => Current(r, DoingOf(next))'
      PROVE  PictureOf(w)'
  <2>1. CASE next = Nothing
    BY <1>1, <2>1, Turns DEF PictureOf, Active, NoJob, Nothing
  <2>2. CASE next # Nothing
    <3>1. job'[w].doing = next /\ job'[w].fence = f
      BY <1>1, <2>2, Turns
    <3>2. Current(r, DoingOf(next))'
      BY <1>1 DEF Remembers, Current
    <3>. QED
      BY <3>1, <3>2 DEF PictureOf
  <2>. QED
    BY <2>1, <2>2
<1>2. ASSUME NEW next, Turn(w, Recheck(w, n, next)), next \in Await, UNCHANGED vars,
             Holds(f) /\ Remembers(next) => Current(r, DoingOf(next))
      PROVE  PictureOf(w)'
  <2>1. PICK t \in Await : t = Recheck(w, n, next) /\ Turn(w, t)
    BY <1>2, RecheckCases, Excuses
  <2>2. Remembers(t) => t = next /\ Holds(f)
    BY <2>1, RecheckCases, NothingRemembered
  <2>3. Remembers(t) => Current(r, DoingOf(t))'
    BY <1>2, <2>2 DEF Current, vars, Running
  <2>. QED
    BY <1>1, <2>1, <2>3
<1>3. CASE ReadState(w, n)
  <2>1. PICK next \in {AfterRead(r), Fail(ExecutorError, TRUE)} : Turn(w, Recheck(w, n, next))
    BY <1>3 DEF ReadState
  <2>2. next \in Await
    BY <1>0, PictureType, AwaitTypes, Excuses DEF AfterRead, Fence
  <2>3. Remembers(next) => next = [op |-> "decide", seen |-> Picture(r)]
    BY NothingRemembered DEF AfterRead
  <2>4. Remembers(next) => Current(r, DoingOf(next))
    BY <2>3 DEF Current, DoingOf, Picture
  <2>. QED
    BY <1>2, <1>3, <2>1, <2>2, <2>4 DEF ReadState
<1>4. CASE Decide(w, n)
  <2>0. /\ UNCHANGED vars /\ Active(w) /\ job[w].doing.seen \in PictureRow
        /\ Holds(f) => /\ job[w].doing.seen.steps = steps[r]
                       /\ job[w].doing.seen.evidence = evidence[r]
    BY <1>4, JobFields, AwaitFields DEF Decide, Active, PictureOf, Current, DoingOf
  <2>1. CASE Turn(w, Recheck(w, n, Fail(ExecutorError, TRUE)))
    BY <1>2, <2>0, <2>1, Excuses, NothingRemembered
  <2>2. ASSUME NEW next \in {[op |-> "answer", seen |-> job[w].doing.seen], Reserving},
               Turn(w, Recheck(w, n, IF Picture(r) = job[w].doing.seen THEN next ELSE Nothing))
        PROVE  PictureOf(w)'
    <3>1. PICK t : t = IF Picture(r) = job[w].doing.seen THEN next ELSE Nothing
      OBVIOUS
    <3>2. t \in Await
      BY <2>0, <3>1, AwaitTypes
    <3>3. Remembers(t) => t = [op |-> "answer", seen |-> job[w].doing.seen]
      BY <3>1, NothingRemembered
    <3>4. Holds(f) /\ Remembers(t) => Current(r, DoingOf(t))
      BY <2>0, <3>3 DEF Current, DoingOf
    <3>. QED
      BY <1>2, <2>0, <2>2, <3>1, <3>2, <3>4
  <2>. QED
    BY <1>4, <2>1, <2>2 DEF Decide
<1>5. CASE Reserve(w, n)
  <2>1. CASE Turn(w, HandleReserveResult(Standing(f, n)))
    <3>1. PICK t \in Await : t = HandleReserveResult(Standing(f, n)) /\ Turn(w, t)
      BY <2>1, Excuses
    <3>. QED
      BY <1>1, <3>1, NothingRemembered
  <2>2. CASE /\ ReserveStep(f, n) /\ Standing(f, n) = "allowed"
             /\ Turn(w, Checkpoint(OnStep("tool", Len(steps'[r]))))
    <3>1. /\ Len(steps'[r]) \in StepIndex
          /\ Running(r)' = {Len(steps'[r])}
      BY <2>2, ReservedStep
    <3>2. PICK i \in StepIndex : i = Len(steps'[r])
      BY <3>1
    <3>3. PICK t \in Await : t = Checkpoint(OnStep("tool", i)) /\ Turn(w, t)
      BY <2>2, <3>2, AwaitTypes
    <3>4. DoingOf(t) = OnStep("tool", i)
      BY <3>3 DEF DoingOf, Checkpoint
    <3>5. Current(r, DoingOf(t))'
      BY <3>1, <3>2, <3>4 DEF Current, OnStep
    <3>. QED
      BY <1>1, <3>3, <3>5
  <2>. QED
    BY <1>5, <2>1, <2>2 DEF Reserve
<1>6. CASE ExecuteTool(w, n)
  <2>0. /\ UNCHANGED vars /\ Active(w) /\ job[w].doing.step \in StepIndex
        /\ Holds(f) => Running(r) = {job[w].doing.step}
    BY <1>6, JobFields, AwaitFields DEF ExecuteTool, Active, PictureOf, Current, DoingOf
  <2>1. PICK next \in {OnStep("failStep", job[w].doing.step), Fail(AccessRevoked, FALSE)} \cup
                        {[op |-> "save", step |-> job[w].doing.step, count |-> c] :
                           c \in 0 .. (MaxEvidence - Len(evidence[r]))} :
           Turn(w, Recheck(w, n, next))
    BY <1>6 DEF ExecuteTool
  <2>2. next \in Await
    <3>1. MaxEvidence \in Nat /\ Len(evidence[r]) \in Nat
      BY <1>0, LenProperties, StoreAssumption DEF TypeOK, Fence
    <3>2. 0 .. (MaxEvidence - Len(evidence[r])) \subseteq 0 .. MaxEvidence
      BY <3>1, SMTT(30)
    <3>. QED
      BY <2>0, <2>1, <3>2, AwaitTypes, Excuses
  <2>3. Remembers(next) => /\ next.op \in {"failStep", "save"} /\ next.step = job[w].doing.step
                           /\ DoingOf(next) = next
    <3>1. CASE next = OnStep("failStep", job[w].doing.step)
      BY <3>1 DEF OnStep, DoingOf
    <3>2. CASE next = Fail(AccessRevoked, FALSE)
      BY <3>2, NothingRemembered
    <3>3. ASSUME NEW c, next = [op |-> "save", step |-> job[w].doing.step, count |-> c]
          PROVE  /\ next.op \in {"failStep", "save"} /\ next.step = job[w].doing.step
                 /\ DoingOf(next) = next
      BY <3>3 DEF DoingOf
    <3>. QED
      BY <2>1, <3>1, <3>2, <3>3
  <2>4. Holds(f) /\ Remembers(next) => Current(r, DoingOf(next))
    BY <2>0, <2>3 DEF Current
  <2>. QED
    BY <1>2, <2>0, <2>1, <2>2, <2>4
<1>7. CASE ToolOverflows(w, n)
  BY <1>2, <1>7, AwaitTypes, NothingRemembered DEF ToolOverflows
<1>8. ASSUME NEW t \in Await, Turn(w, t), ~Remembers(t) PROVE PictureOf(w)'
  BY <1>1, <1>8
<1>9. CASE SaveObservation(w, n)
  <2>1. PICK t \in Await : Turn(w, t) /\ ~Remembers(t)
    BY <1>9, StandingCases, Excuses, AwaitTypes, NothingRemembered DEF SaveObservation
  <2>. QED
    BY <1>8, <2>1
<1>10. CASE FailToolStep(w, n)
  <2>1. PICK t \in Await : Turn(w, t) /\ ~Remembers(t)
    BY <1>10, AwaitTypes, NothingRemembered DEF FailToolStep
  <2>. QED
    BY <1>8, <2>1
<1>11. CASE CompleteFinal(w, n)
  <2>1. PICK t \in Await : Turn(w, t) /\ ~Remembers(t)
    BY <1>11, Excuses, NothingRemembered DEF CompleteFinal
  <2>. QED
    BY <1>8, <2>1
<1>12. CASE FailTheRun(w, n)
  <2>1. job[w].doing.code \in ErrorCode
    BY <1>12, JobFields, AwaitFields DEF FailTheRun
  <2>2. PICK t \in Await : Turn(w, t) /\ ~Remembers(t)
    BY <1>12, <2>1, AwaitTypes, NothingRemembered DEF FailTheRun
  <2>. QED
    BY <1>8, <2>2
<1>13. CASE SettleCancellation(w)
  BY <1>8, <1>13, AwaitTypes, NothingRemembered DEF SettleCancellation
<1>. QED
  BY <1>3, <1>4, <1>5, <1>6, <1>7, <1>9, <1>10, <1>11, <1>12, <1>13 DEF Execute

(* A wait that goes on while the trace stays as it is.                      *)
LEMMA Undisturbed ==
  ASSUME WorkerTypeOK, NEW w \in Workers, PictureOf(w),
         job'[w].fence = job[w].fence,
         job'[w].doing \in {job[w].doing, DoingOf(job[w].doing)},
         Active(w) /\ Holds(job[w].fence)' =>
           /\ Holds(job[w].fence)
           /\ steps'[job[w].fence.run] = steps[job[w].fence.run]
           /\ evidence'[job[w].fence.run] = evidence[job[w].fence.run]
  PROVE  PictureOf(w)'
<1>. SUFFICES ASSUME NEW f, f = job[w].fence, NEW d \in Await, d = job'[w].doing,
                     Active(w)', Holds(f)'
              PROVE  Current(f.run, DoingOf(d))'
  <2>1. job'[w].doing \in Await
    BY JobFields, AwaitFields, AwaitTypes DEF DoingOf
  <2>. QED
    BY <2>1 DEF PictureOf
<1>1. DoingOf(d) = DoingOf(job[w].doing)
  <2>1. job[w].doing.op = "checkpoint" => job[w].doing.next.op # "checkpoint"
    BY JobFields, AwaitFields DEF Resumable
  <2>. QED
    BY <2>1 DEF DoingOf
<1>2. Active(w)
  BY DEF Active, DoingOf
<1>. QED
  BY <1>1, <1>2 DEF PictureOf, Current, Running

LEMMA IdlePicture ==
  ASSUME WorkerTypeOK, NEW w \in Workers,
         job'[w].doing = Nothing \/ job'[w].doing = [op |-> "claimed"]
  PROVE  PictureOf(w)'
  BY DEF PictureOf, Active, Nothing

LEMMA PictureStep ==
  ASSUME StoreInv, WorkerTypeOK, PictureCurrent, [WorkerNext]_allVars
  PROVE  PictureCurrent'
<1>. SUFFICES (\A w \in Workers : PictureOf(w))'
  BY PictureParts, PTL
<1>. SUFFICES ASSUME NEW w \in Workers PROVE PictureOf(w)'
  OBVIOUS
<1>0. PictureOf(w) /\ TypeOK
  BY PictureParts DEF StoreInv
<1>1. CASE ~Own(w)
  <2>1. job'[w].doing = job[w].doing /\ job'[w].fence = job[w].fence
    BY <1>1, OthersJob
  <2>2. Active(w) => Busy(w)
    BY DEF Active, Busy, Nothing
  <2>3. Busy(w) => job[w].fence \in claims /\ Foreign(job[w].fence)
    BY <1>1, OthersForeign, JobFields DEF Busy
  <2>4. ASSUME NEW f \in claims, f = job[w].fence, Foreign(f), Holds(f)'
        PROVE  /\ Holds(f)
               /\ steps'[f.run] = steps[f.run] /\ evidence'[f.run] = evidence[f.run]
    BY <2>4, ForeignSteps
  <2>5. Active(w) /\ Holds(job[w].fence)' =>
          /\ Holds(job[w].fence)
          /\ steps'[job[w].fence.run] = steps[job[w].fence.run]
          /\ evidence'[job[w].fence.run] = evidence[job[w].fence.run]
    <3>. SUFFICES ASSUME NEW f, f = job[w].fence, Active(w), Holds(job[w].fence)'
                  PROVE  /\ Holds(f)
                         /\ steps'[f.run] = steps[f.run] /\ evidence'[f.run] = evidence[f.run]
      OBVIOUS
    <3>1. Holds(f)'
      BY <2>1 DEF Holds
    <3>. QED
      BY <2>2, <2>3, <2>4, <3>1
  <2>. QED
    BY <1>0, <2>1, <2>5, Undisturbed
<1>2. ASSUME NEW n \in Stamps, Poll(w, n) PROVE PictureOf(w)'
  <2>1. job'[w] = NoJob \/ \E f \in claims' : NewJob(w, f)
    BY <1>2, Polled
  <2>. QED
    BY <2>1, IdlePicture DEF NoJob, NewJob
<1>3. ASSUME NEW n \in Stamps, Execute(w, n) PROVE PictureOf(w)'
  BY <1>0, <1>3, ExecutePicture
<1>4. ASSUME Turn(w, Nothing) PROVE PictureOf(w)'
  BY <1>4, Turns, AwaitTypes, IdlePicture DEF NoJob
<1>5. CASE ProcessClaim(w)
  <2>1. job'[w] = NoJob => PictureOf(w)'
    BY IdlePicture DEF NoJob
  <2>2. job'[w].doing = Read => PictureOf(w)'
    BY DEF PictureOf, Current, DoingOf, Read
  <2>. QED
    BY <1>5, <2>1, <2>2, ClaimTaken
<1>6. CASE UNCHANGED vars /\ job'[w].fence = job[w].fence
             /\ job'[w].doing \in {job[w].doing, DoingOf(job[w].doing)}
  BY <1>0, <1>6, Undisturbed DEF vars, Holds
<1>7. CASE Abort(w) /\ UNCHANGED vars
  BY <1>6, <1>7, Aborts
<1>8. CASE BeatReply(w)
  BY <1>6, <1>7, <1>8, Renewals DEF BeatReply, DoingOf
<1>9. ASSUME NEW n \in Stamps, Beat(w, n) PROVE PictureOf(w)'
  <2>1. PICK f \in Fence : f = job[w].fence
    BY <1>9, JobFields DEF Beat, Active, Nothing
  <2>2. job'[w].doing = job[w].doing /\ job'[w].fence = f
    BY <1>9, <2>1, JobFields DEF Beat, Job
  <2>3. HeartbeatLease(f, n) \/ UNCHANGED vars
    BY <1>9, <2>1 DEF Beat
  <2>4. CASE HeartbeatLease(f, n)
    <3>1. Holds(f) /\ f.run \in RunId /\ run[f.run] \in RunRow /\ run \in [RunId -> RunRow]
      BY <1>0, <2>4 DEF HeartbeatLease, TypeOK, Fence
    <3>2. ASSUME SettleCancelled(f.run, n) \/ SettleFailed(f.run, n) PROVE ~Holds(f)'
      BY <3>1, <3>2, FinishedColumns DEF SettleCancelled, SettleFailed, Settle, Holds
    <3>3. Holds(f)' => UNCHANGED <<steps, evidence>>
      BY <2>4, <3>2 DEF HeartbeatLease
    <3>4. Holds(job[w].fence)' => Holds(f)'
      BY <2>1, <2>2 DEF Holds
    <3>. QED
      BY <1>0, <2>1, <2>2, <3>1, <3>3, <3>4, Undisturbed
  <2>. QED
    BY <1>6, <2>1, <2>2, <2>3, <2>4
<1>10. CASE CheckpointStops(w)
  BY <1>4, <1>10 DEF CheckpointStops
<1>11. CASE CallThrows(w)
  <2>1. job' = [job EXCEPT ![w].beat = NoBeat] =>
          job'[w].fence = job[w].fence /\ job'[w].doing = job[w].doing
    BY JobFields, JobUpdates, BeatSent
  <2>. QED
    BY <1>4, <1>6, <1>11, <2>1 DEF CallThrows
<1>12. CASE Stop(w)
  BY <1>6, <1>12 DEF Stop
<1>13. CASE Exit(w) \/ Crash(w)
  BY <1>13, JobFields, IdlePicture DEF Exit, Crash, NoJob
<1>14. CASE GraceOver(w) \/ Watchdog(w)
  BY <1>7, <1>14 DEF GraceOver, Watchdog, vars
<1>. QED
  BY <1>1, <1>2, <1>3, <1>5, <1>8, <1>9, <1>10, <1>11, <1>12, <1>13, <1>14
  DEF Own, Runs, Polls, Executes, Beats, Stops

LEMMA PictureInit == WorkerInit => PictureCurrent
<1>. SUFFICES ASSUME WorkerInit, NEW w \in Workers PROVE PictureOf(w)
  BY PictureParts
<1>. QED
  BY DEF WorkerInit, PictureOf, Active, NoJob, Nothing

(* While an executor holds the lease, what it acts on is the stored trace:  *)
(* the trace a decision was made on, and the one step that runs.  This is   *)
(* the property PictureCurrent that TLC checks on small instances, for any  *)
(* number of processes, runs and steps, any lease and any age of the stamps.*)
THEOREM PicturesCurrent == WorkerSpec => []PictureCurrent
<1>1. WorkerInit => PictureCurrent
  BY PictureInit
<1>2. StoreInv /\ WorkerTypeOK /\ PictureCurrent /\ [WorkerNext]_allVars => PictureCurrent'
  BY PictureStep
<1>. QED
  BY <1>1, <1>2, WorkerInvariant, PTL DEF WorkerSpec

-----------------------------------------------------------------------------
(* One executor per run, whatever the age of the stamps.                    *)

LEMMA ClockStep ==
  ASSUME TypeOK, [Next]_vars
  PROVE  now' \in Nat /\ now <= now' /\ (now' = now \/ Tick)
<1>1. ASSUME NEW n \in Stamps, Commands(n) PROVE now' = now
  BY <1>1 DEF Commands, CreateTaskWithInitialRun, CreateRetryRun, CancelRun
<1>2. ASSUME NEW n \in Stamps, NEW w \in Workers, ClaimRun(w, n) PROVE now' = now
  BY <1>2 DEF ClaimRun, HandOut
<1>3. ASSUME NEW n \in Stamps, NEW f \in claims, WorkerWrite(f, n) PROVE now' = now
  BY <1>3 DEF WorkerWrite, HeartbeatLease, ReserveStep, CompleteToolStepWithEvidence, FailStep,
              CompleteRun, FailRun, MarkCancelled
<1>4. CASE Membership \/ Tick \/ UNCHANGED vars
  BY <1>4 DEF Membership, RemoveMember, AddMember, Tick, TypeOK, vars
<1>. QED
  BY <1>1, <1>2, <1>3, <1>4 DEF Next, TypeOK

(* The deadline of a run that was ever handed out is set.                   *)
DeadlinesSet == \A c \in claims : run[c.run].deadlineAt # NoTime

LEMMA DeadlinesStep ==
  ASSUME StoreInv, DeadlinesSet, [Next]_vars
  PROVE  /\ DeadlinesSet'
         /\ \A c \in claims : run'[c.run].deadlineAt = run[c.run].deadlineAt
<1>0. TypeOK /\ TypeOK' /\ RowInv
  BY TypeStep DEF StoreInv
<1>1. ASSUME NEW c \in claims PROVE run'[c.run].deadlineAt = run[c.run].deadlineAt
  <2>1. c.run \in RunId
    BY <1>0 DEF TypeOK, Fence
  <2>. QED
    BY <1>0, <2>1, RowSteps, DeadlineRow DEF DeadlinesSet
<1>2. ASSUME NEW c \in claims' \ claims PROVE run'[c.run].deadlineAt # NoTime
  <2>1. /\ c.run \in RunId /\ run'[c.run].generation = run[c.run].generation + 1
        /\ run[c.run].generation \in Nat
    BY <1>0, ClaimsStep DEF TypeOK, RunRow
  <2>2. Granted(c.run)
    BY <1>0, <2>1, RowSteps, GenerationStep
  <2>3. PICK n \in Stamps : \E w \in Workers : run'[c.run] = Leased(c.run, w, n)
    BY <2>2 DEF Granted
  <2>4. n \in Nat
    BY <1>0, StampsType
  <2>5. run'[c.run].deadlineAt = DeadlineAtClaim(c.run, n)
    BY <1>0, <2>1, <2>3, LeasedColumns
  <2>6. DeadlineAtClaim(c.run, n) \in Nat
    BY <1>0, <2>1, <2>4, DeadlineAtClaimType
  <2>. QED
    BY <2>5, <2>6 DEF NoTime
<1>. QED
  BY <1>1, <1>2 DEF DeadlinesSet

LEMMA RunningRow ==
  ASSUME StoreInv, NEW r \in RunId, run[r].status = "running"
  PROVE  /\ run[r] \in RunRow
         /\ run[r].leaseExpiresAt \in Nat /\ run[r].deadlineAt \in Nat
         /\ run[r].leaseExpiresAt <= run[r].deadlineAt
<1>1. run[r] \in RunRow /\ RowChecks(r) /\ LeaseInTime(r)
  BY DEF StoreInv, TypeOK, RowInv
<1>2. run[r].leaseExpiresAt # NoTime /\ run[r].deadlineAt # NoTime
  BY <1>1 DEF RowChecks, LeaseColumns, StatusColumns
<1>. QED
  BY <1>1, <1>2 DEF RunRow, LeaseInTime

LEMMA ExpiryBounds ==
  ASSUME NEW n \in Nat, NEW d \in Nat
  PROVE  /\ LeaseExpiry(n, d) \in Nat
         /\ LeaseExpiry(n, d) <= n + LeaseDuration /\ LeaseExpiry(n, d) <= d
         /\ \A e \in Nat : e <= n + LeaseDuration /\ e <= d => e <= LeaseExpiry(n, d)
  BY StoreAssumption DEF LeaseExpiry

(* What a step does to the lease of a run that is running after it: it is   *)
(* the same, or a claim or a heartbeat set it.                              *)
LEMMA LeaseSteps ==
  ASSUME StoreInv, [Next]_vars, NEW r \in RunId, run'[r].status = "running"
  PROVE  \/ run[r].status = "running" /\ run'[r].leaseExpiresAt = run[r].leaseExpiresAt
         \/ /\ run[r].status = "running"
            /\ \E n \in Stamps : run'[r].leaseExpiresAt = LeaseExpiry(n, run[r].deadlineAt)
         \/ \E n \in Stamps : /\ run'[r].leaseExpiresAt = LeaseExpiry(n, DeadlineAtClaim(r, n))
                              /\ run'[r].generation = run[r].generation + 1
                              /\ r \in Eligible(n) /\ ~Doomed(r, n)
<1>0. TypeOK /\ run[r] \in RunRow /\ RowStep(r) /\ Stamps \subseteq Nat
  BY RowSteps, StampsType DEF StoreInv, TypeOK
<1>1. CASE run'[r] = run[r]
  BY <1>1
<1>2. ~Created(r)
  BY QueuedColumns DEF Created
<1>3. CASE CancelAsked(r)
  <2>1. [run[r] EXCEPT !.status = "cancelled", !.cancelRequested = TRUE].status = "cancelled"
    BY <1>0 DEF RunRow
  <2>2. /\ [run[r] EXCEPT !.cancelRequested = TRUE].leaseExpiresAt = run[r].leaseExpiresAt
    BY <1>0 DEF RunRow
  <2>. QED
    BY <1>3, <2>1, <2>2 DEF CancelAsked
<1>4. CASE Granted(r)
  BY <1>0, <1>4, LeasedColumns DEF Granted
<1>5. ~Discarded(r)
  BY <1>0, BuriedColumns DEF Discarded, DoomedStatus
<1>6. ~Settled(r)
  BY <1>0, FinishedColumns DEF Settled
<1>7. CASE Renewed(r)
  <2>1. PICK n \in Stamps :
          run'[r] = [run[r] EXCEPT !.leaseExpiresAt = LeaseExpiry(n, run[r].deadlineAt)]
    BY <1>7 DEF Renewed
  <2>2. run'[r].leaseExpiresAt = LeaseExpiry(n, run[r].deadlineAt)
    BY <1>0, <2>1 DEF RunRow
  <2>. QED
    BY <1>7, <2>2 DEF Renewed, Open
<1>8. CASE Started(r)
  BY <1>0, <1>8 DEF Started, Open, RunRow
<1>9. ~Answered(r)
  BY <1>0 DEF Answered, Finished, RunRow
<1>10. ~GaveUp(r)
  BY <1>0 DEF GaveUp, Finished, RunRow
<1>. QED
  BY <1>0, <1>1, <1>2, <1>3, <1>4, <1>5, <1>6, <1>7, <1>8, <1>9, <1>10
  DEF RowStep, CommandStep

-----------------------------------------------------------------------------
(* The lease ends a process knows of.                                       *)

(* A known lease end that still protects the run: it is in the future, or   *)
(* it is the deadline, from which on nobody is given the run.               *)
Guards(r, end) == now < end \/ end = run[r].deadlineAt

Known(f, end) ==
  /\ end \in Nat
  /\ Holds(f) => end <= run[f.run].leaseExpiresAt
  /\ Guards(f.run, end) => f.generation = run[f.run].generation

Promised(w) == job[w].beat.reply = "allowed"

(* What the claim, or the last heartbeat that was answered, told.           *)
LeaseKnownTo(w) ==
  Busy(w) =>
    /\ Known(job[w].fence, job[w].confirmed)
    /\ Promised(w) =>
         /\ Known(job[w].fence, job[w].beat.until)
         /\ job[w].confirmed <= job[w].beat.until
         /\ job[w].beat.until <= run[job[w].fence.run].deadlineAt

LeaseKnown == \A w \in Workers : LeaseKnownTo(w)

LEMMA FenceRow ==
  ASSUME StoreInv, NEW f \in claims
  PROVE  /\ f \in Fence /\ f.run \in RunId /\ f.generation \in Nat /\ run[f.run] \in RunRow
         /\ f.generation <= run[f.run].generation /\ run[f.run].generation \in Nat
<1>1. f \in Fence /\ f.run \in RunId /\ f.generation \in Nat
  BY DEF StoreInv, TypeOK, Fence
<1>2. run[f.run] \in RunRow
  BY <1>1 DEF StoreInv, TypeOK
<1>3. f.generation \in 1 .. run[f.run].generation
  BY DEF StoreInv, FencingTokens
<1>. QED
  BY <1>1, <1>2, <1>3 DEF RunRow

LEMMA StoreFacts ==
  ASSUME StoreInv, [Next]_vars
  PROVE  /\ StoreInv' /\ TypeOK /\ TypeOK' /\ RowInv
         /\ now \in Nat /\ now' \in Nat /\ now <= now'
         /\ claims \subseteq claims'
         /\ LeaseDuration \in Nat
         /\ \A n \in Stamps : n \in Nat /\ n <= now
<1>1. StoreInv' /\ TypeOK /\ TypeOK' /\ RowInv
  BY StoreInvKept, TypeStep DEF StoreInv
<1>2. now \in Nat /\ now' \in Nat /\ now <= now' /\ claims \subseteq claims'
  BY <1>1, ClockStep, ClaimsStep DEF TypeOK
<1>3. \A n \in Stamps : n \in Nat /\ n <= now
  BY <1>2 DEF Stamps
<1>. QED
  BY <1>1, <1>2, <1>3, StoreAssumption

(* No call of an executor moves the end of a lease that stays in force.     *)
LEMMA ExecutorLease ==
  ASSUME StoreInv, NEW w \in Workers, NEW n \in Stamps, Execute(w, n),
         NEW f \in claims, f = job[w].fence, Holds(f)'
  PROVE  run'[f.run].leaseExpiresAt = run[f.run].leaseExpiresAt
<1>. DEFINE r == f.run
            Same == run'[r].leaseExpiresAt = run[r].leaseExpiresAt
<1>0. /\ r \in RunId /\ run \in [RunId -> RunRow] /\ run[r] \in RunRow
      /\ run'[r].status = "running"
  BY FenceRow DEF StoreInv, TypeOK, Holds
<1>1. ASSUME NEW status \in Terminal, NEW code, Settle(r, status, code) PROVE FALSE
  BY <1>0, <1>1, FinishedColumns DEF Settle, Terminal
<1>2. ASSUME SettleCancelled(r, n) \/ SettleFailed(r, n) PROVE FALSE
  BY <1>1, <1>2 DEF SettleCancelled, SettleFailed, Terminal
<1>3. CASE UNCHANGED vars
  BY <1>3 DEF vars
<1>4. CASE ReserveStep(f, n)
  <2>1. CASE ResumeStep(r)
    BY <2>1 DEF ResumeStep
  <2>2. CASE StartStep(r)
    BY <1>0, <2>2 DEF StartStep, RunRow
  <2>. QED
    BY <1>2, <1>4, <2>1, <2>2 DEF ReserveStep
<1>5. ASSUME NEW i, NEW count, CompleteToolStepWithEvidence(f, i, count, n) PROVE Same
  BY <1>5 DEF CompleteToolStepWithEvidence
<1>6. ASSUME NEW i, FailStep(f, i, n) PROVE Same
  BY <1>2, <1>6 DEF FailStep
<1>7. ASSUME NEW cited, CompleteRun(f, cited, n) PROVE FALSE
  <2>1. \E fs : run'[r] = [Finished(run[r], "completed", None) EXCEPT
                           !.stepCount = Finished(run[r], "completed", None).stepCount + 1,
                           !.finalStatus = fs]
    BY <1>0, <1>2, <1>7 DEF CompleteRun, PublishFinal
  <2>. QED
    BY <1>0, <2>1 DEF Finished, RunRow
<1>8. ASSUME NEW code, NEW blame, FailRun(f, code, blame, n) PROVE FALSE
  <2>1. \E c : run'[r] = [Finished(run[r], "failed", code) EXCEPT !.stepCount = c]
    BY <1>0, <1>2, <1>8 DEF FailRun, FailWith
  <2>. QED
    BY <1>0, <2>1 DEF Finished, RunRow
<1>9. ASSUME MarkCancelled(f) PROVE FALSE
  BY <1>1, <1>9 DEF MarkCancelled, Terminal
<1>. QED
  BY <1>3, <1>4, <1>5, <1>6, <1>7, <1>8, <1>9
  DEF Execute, ReadState, Decide, Reserve, ExecuteTool, ToolOverflows, SaveObservation,
      FailToolStep, CompleteFinal, FailTheRun, SettleCancellation

(* A heartbeat that leaves its fence in force has renewed the lease, and,   *)
(* since the stamps of a process do not go back, not to an earlier end.     *)
LEMMA HeartbeatLonger ==
  ASSUME StoreInv, NEW f \in claims, NEW n \in Stamps, HeartbeatLease(f, n),
         StampsAdvance(f, n), Holds(f)'
  PROVE  /\ run'[f.run].leaseExpiresAt \in Nat
         /\ run[f.run].leaseExpiresAt <= run'[f.run].leaseExpiresAt
         /\ run'[f.run].leaseExpiresAt <= run[f.run].deadlineAt
<1>. DEFINE r == f.run
            e == LeaseExpiry(n, run[r].deadlineAt)
<1>0. /\ r \in RunId /\ run \in [RunId -> RunRow] /\ run[r] \in RunRow
      /\ run[r].status = "running" /\ run'[r].status = "running"
  BY FenceRow DEF StoreInv, TypeOK, HeartbeatLease, Holds
<1>1. /\ run[r].leaseExpiresAt \in Nat /\ run[r].deadlineAt \in Nat
      /\ run[r].leaseExpiresAt <= run[r].deadlineAt /\ n \in Nat
  BY <1>0, RunningRow DEF Stamps
<1>2. e \in Nat /\ run[r].leaseExpiresAt <= e /\ e <= run[r].deadlineAt
  BY <1>1, ExpiryBounds DEF StampsAdvance
<1>3. ASSUME NEW status \in Terminal, NEW code, Settle(r, status, code) PROVE FALSE
  BY <1>0, <1>3, FinishedColumns DEF Settle, Terminal
<1>4. run' = [run EXCEPT ![r].leaseExpiresAt = e]
  BY <1>3 DEF HeartbeatLease, SettleCancelled, SettleFailed, Terminal
<1>. HIDE DEF e
<1>5. run'[r].leaseExpiresAt = e
  BY <1>0, <1>4 DEF RunRow
<1>. QED
  BY <1>2, <1>5

(* While a fence stays in force its lease only grows.                       *)
LEMMA LeaseGrows ==
  ASSUME StoreInv, WorkerTypeOK, NEW w \in Workers, Busy(w), [WorkerNext]_allVars,
         NEW f \in claims, f = job[w].fence, Holds(f)'
  PROVE  /\ Holds(f)
         /\ run[f.run].leaseExpiresAt \in Nat
         /\ run[f.run].leaseExpiresAt <= run'[f.run].leaseExpiresAt
<1>0. /\ [Next]_vars /\ Holds(f) /\ run[f.run].leaseExpiresAt \in Nat
  BY StoreStep, HeldBefore, FenceRow, RunningRow DEF Holds
<1>1. ASSUME run'[f.run].leaseExpiresAt = run[f.run].leaseExpiresAt
      PROVE  run[f.run].leaseExpiresAt <= run'[f.run].leaseExpiresAt
  BY <1>0, <1>1
<1>2. CASE Foreign(f)
  BY <1>0, <1>1, <1>2, ForeignSteps
<1>3. ASSUME NEW n \in Stamps, Poll(w, n) PROVE Foreign(f)
  BY <1>3 DEF Poll, Foreign
<1>4. ASSUME NEW n \in Stamps, Execute(w, n)
      PROVE  run'[f.run].leaseExpiresAt = run[f.run].leaseExpiresAt
  BY <1>4, ExecutorLease
<1>5. ASSUME NEW n \in Stamps, Beat(w, n)
      PROVE  Foreign(f) \/ run[f.run].leaseExpiresAt <= run'[f.run].leaseExpiresAt
  BY <1>5, HeartbeatLonger DEF Beat, Foreign
<1>6. ~Own(w) => Foreign(f)
  BY OthersForeign
<1>. QED
  BY <1>0, <1>1, <1>2, <1>3, <1>4, <1>5, <1>6
  DEF Own, Runs, Polls, Executes, Beats, Stops, ProcessClaim, CheckpointStops, BeatReply,
      CallThrows, Stop, Exit, Crash, GraceOver, Watchdog, Foreign

(* A guarding end keeps the run with its fence.                             *)
LEMMA Guarded ==
  ASSUME StoreInv, DeadlinesSet, [Next]_vars, NEW f \in claims, NEW end, Known(f, end),
         Guards(f.run, end)
  PROVE  run'[f.run].generation = run[f.run].generation
<1>. DEFINE r == f.run
<1>0. /\ r \in RunId /\ f \in Fence /\ TypeOK /\ TypeOK' /\ RowInv /\ now \in Nat
      /\ f.generation = run[r].generation /\ end \in Nat
      /\ run[r].deadlineAt # NoTime
  BY FenceRow, StoreFacts DEF Known, DeadlinesSet
<1>1. RowStep(r)
  BY <1>0, RowSteps
<1>2. ASSUME Granted(r) PROVE FALSE
  <2>1. PICK n \in Stamps : r \in Eligible(n) /\ ~Doomed(r, n)
    BY <1>2 DEF Granted
  <2>2. n \in Nat /\ n <= now
    BY <2>1, StoreFacts
  <2>3. run[r].status # "queued"
    BY <1>0 DEF RowInv, RowChecks, StatusColumns
  <2>4. run[r].status = "running" /\ run[r].leaseExpiresAt <= n
    BY <2>1, <2>3 DEF Eligible
  <2>5. Holds(f)
    <3>1. [run |-> r, worker |-> run[r].owner, generation |-> run[r].generation] \in claims
      BY <1>0, <2>4 DEF StoreInv, FencingTokens
    <3>2. f = [run |-> r, worker |-> run[r].owner, generation |-> run[r].generation]
      BY <1>0, <3>1 DEF StoreInv, FencingTokens
    <3>3. f.worker = run[r].owner
      BY <3>2
    <3>. QED
      BY <1>0, <2>4, <3>3 DEF Holds
  <2>6. end <= run[r].leaseExpiresAt /\ run[r].leaseExpiresAt \in Nat
    BY <1>0, <2>4, <2>5, RunningRow DEF Known
  <2>7. end = run[r].deadlineAt
    BY <1>0, <2>2, <2>4, <2>6 DEF Guards
  <2>8. DeadlineAtClaim(r, n) <= n
    BY <1>0, <2>2, <2>4, <2>6, <2>7 DEF DeadlineAtClaim
  <2>. QED
    BY <2>1, <2>8 DEF Doomed
<1>. QED
  BY <1>0, <1>1, <1>2, GenerationStep

LEMMA KnownKept ==
  ASSUME StoreInv, WorkerTypeOK, DeadlinesSet, NEW w \in Workers, Busy(w),
         [WorkerNext]_allVars,
         NEW f \in claims, f = job[w].fence, NEW end, Known(f, end)
  PROVE  Known(f, end)'
<1>0. [Next]_vars
  BY StoreStep
<1>1. end \in Nat /\ now \in Nat /\ now' \in Nat /\ now <= now'
      /\ run'[f.run].deadlineAt = run[f.run].deadlineAt
  BY <1>0, StoreFacts, DeadlinesStep DEF Known
<1>2. Holds(f)' => end <= run'[f.run].leaseExpiresAt
  <2>. SUFFICES ASSUME Holds(f)' PROVE end <= run'[f.run].leaseExpiresAt
    OBVIOUS
  <2>1. /\ Holds(f) /\ run[f.run].leaseExpiresAt \in Nat
        /\ run[f.run].leaseExpiresAt <= run'[f.run].leaseExpiresAt
    BY LeaseGrows
  <2>2. run'[f.run].leaseExpiresAt \in Nat \cup {NoTime}
    BY <1>0, StoreFacts, FenceRow DEF TypeOK, RunRow
  <2>. QED
    BY <1>1, <2>1, <2>2 DEF Known, NoTime
<1>3. Guards(f.run, end)' => Guards(f.run, end)
  BY <1>1 DEF Guards
<1>4. Guards(f.run, end)' => f.generation = run'[f.run].generation
  BY <1>0, <1>3, Guarded DEF Known
<1>. QED
  BY <1>1, <1>2, <1>4 DEF Known

(* A heartbeat that is answered with a renewal has made it.                 *)
LEMMA RenewedLease ==
  ASSUME StoreInv, NEW f \in claims, NEW n \in Stamps, StampsAdvance(f, n),
         HeartbeatLease(f, n), Standing(f, n) = "allowed"
  PROVE  /\ Holds(f)' /\ run'[f.run].generation = f.generation
         /\ run'[f.run].leaseExpiresAt \in Nat
         /\ run[f.run].leaseExpiresAt <= run'[f.run].leaseExpiresAt
         /\ run'[f.run].leaseExpiresAt <= run'[f.run].deadlineAt
         /\ run'[f.run].deadlineAt = run[f.run].deadlineAt
<1>. DEFINE r == f.run
<1>0. /\ r \in RunId /\ run \in [RunId -> RunRow] /\ Holds(f) /\ Writable(r, n)
      /\ run[r] \in RunRow
  BY FenceRow, StandingCases DEF StoreInv, TypeOK
<1>2. run' = [run EXCEPT ![r].leaseExpiresAt = LeaseExpiry(n, run[r].deadlineAt)]
  BY <1>0 DEF HeartbeatLease, SettleCancelled, SettleFailed, Writable
<1>3. /\ run'[r].status = run[r].status /\ run'[r].owner = run[r].owner
      /\ run'[r].generation = run[r].generation /\ run'[r].deadlineAt = run[r].deadlineAt
  BY <1>0, <1>2 DEF RunRow
<1>4. Holds(f)' /\ run'[r].generation = f.generation
  BY <1>0, <1>3 DEF Holds
<1>. QED
  BY <1>3, <1>4, HeartbeatLonger

LEMMA LeaseKnownStep ==
  ASSUME StoreInv, WorkerTypeOK, DeadlinesSet, LeaseKnown,
         [WorkerNext]_allVars
  PROVE  LeaseKnown'
<1>. SUFFICES ASSUME NEW w \in Workers PROVE LeaseKnownTo(w)'
  BY DEF LeaseKnown
<1>0. LeaseKnownTo(w) /\ [Next]_vars
  BY StoreStep DEF LeaseKnown
<1>. DEFINE SameFence == job'[w].fence = job[w].fence
<1>1. ASSUME job'[w].doing = Nothing PROVE LeaseKnownTo(w)'
  BY <1>1 DEF LeaseKnownTo, Busy
<1>2. ASSUME Busy(w) PROVE /\ job[w].fence \in claims
                           /\ Known(job[w].fence, job[w].confirmed)
  BY <1>0, <1>2, JobFields DEF LeaseKnownTo, Busy
<1>3. ASSUME Busy(w), SameFence, job'[w].confirmed = job[w].confirmed,
             job'[w].beat \in {job[w].beat, NoBeat}
      PROVE  LeaseKnownTo(w)'
  <2>1. PICK f, e, u : /\ f \in claims /\ f = job[w].fence
                       /\ e = job[w].confirmed /\ u = job[w].beat.until
    BY <1>2, <1>3
  <2>2. Known(f, e)'
    BY <1>2, <1>3, <2>1, KnownKept
  <2>3. Promised(w)' => job'[w].beat = job[w].beat /\ Promised(w)
    BY <1>3 DEF Promised, NoBeat
  <2>4. Promised(w) => Known(f, u) /\ e <= u /\ u <= run[f.run].deadlineAt
    BY <1>0, <1>3, <2>1 DEF LeaseKnownTo
  <2>5. Promised(w) => Known(f, u)' /\ e <= u /\ u <= run'[f.run].deadlineAt
    BY <1>0, <1>3, <2>1, <2>4, KnownKept, DeadlinesStep
  <2>. QED
    BY <1>3, <2>1, <2>2, <2>3, <2>5 DEF LeaseKnownTo
<1>4. CASE ~Own(w)
  BY <1>1, <1>3, <1>4, OthersJob DEF Busy
<1>5. ASSUME NEW n \in Stamps, Poll(w, n) PROVE LeaseKnownTo(w)'
  <2>1. CASE job'[w] = NoJob
    BY <1>1, <2>1 DEF NoJob
  <2>2. ASSUME NEW f \in claims', LeasedTo(w, f, n), NewJob(w, f) PROVE LeaseKnownTo(w)'
    <3>1. Known(f, run[f.run].leaseExpiresAt)'
      BY <1>0, <2>2, StoreFacts DEF LeasedTo, Known
    <3>2. job'[w].fence = f /\ job'[w].confirmed = run'[f.run].leaseExpiresAt /\ ~Promised(w)'
      BY <2>2 DEF NewJob, Promised, NoBeat
    <3>. QED
      BY <3>1, <3>2 DEF LeaseKnownTo
  <2>. QED
    BY <1>5, <2>1, <2>2, Polled
<1>6. ASSUME NEW next \in Await, Turn(w, next), Busy(w) PROVE LeaseKnownTo(w)'
  BY <1>1, <1>3, <1>6, Turns DEF NoJob
<1>7. ASSUME NEW n \in Stamps, Execute(w, n) PROVE LeaseKnownTo(w)'
  BY <1>6, <1>7, ExecuteTurns
<1>8. CASE ProcessClaim(w) \/ CheckpointStops(w)
  <2>1. CASE ProcessClaim(w)
    <3>1. Busy(w)
      BY <2>1, BusyOps DEF ProcessClaim
    <3>. QED
      BY <1>1, <1>3, <2>1, <3>1, ClaimTaken DEF NoJob
  <2>. QED
    BY <1>6, <1>8, <2>1, AwaitTypes, BusyOps DEF CheckpointStops
<1>9. CASE Abort(w)
  BY <1>1, <1>3, <1>9, Aborts DEF Busy
<1>10. CASE BeatReply(w)
  <2>1. CASE job[w].beat.reply = "allowed"
    <3>1. /\ job[w].doing = Nothing => job'[w].doing = Nothing
          /\ job'[w].fence = job[w].fence /\ job'[w].confirmed = job[w].beat.until
          /\ ~Promised(w)'
      BY <1>10, <2>1, Renewals DEF Nothing, Promised, NoBeat
    <3>2. ASSUME Busy(w) PROVE LeaseKnownTo(w)'
      <4>1. PICK f, u : f \in claims /\ f = job[w].fence /\ u = job[w].beat.until
        BY <1>2, <3>2
      <4>2. Known(f, u)
        BY <1>0, <2>1, <3>2, <4>1 DEF LeaseKnownTo, Promised
      <4>3. Known(f, u)'
        BY <3>2, <4>1, <4>2, KnownKept
      <4>. QED
        BY <3>1, <4>1, <4>3 DEF LeaseKnownTo
    <3>. QED
      BY <1>1, <3>1, <3>2 DEF Busy
  <2>. QED
    BY <1>9, <1>10, <2>1 DEF BeatReply
<1>11. ASSUME NEW n \in Stamps, Beat(w, n) PROVE LeaseKnownTo(w)'
  <2>1. Busy(w)
    BY <1>11 DEF Beat, Active, Busy, Nothing
  <2>2. PICK f, e : f \in claims /\ f = job[w].fence /\ e = job[w].confirmed /\ Known(f, e)
    BY <1>2, <2>1
  <2>3. job \in [Workers -> Job] /\ job[w] \in Job
    BY JobFields
  <2>4. Known(f, e)'
    BY <2>1, <2>2, KnownKept
  <2>5. CASE /\ HeartbeatLease(f, n) /\ StampsAdvance(f, n)
             /\ job' = [job EXCEPT ![w].beat =
                          [reply |-> Standing(f, n), until |-> run'[f.run].leaseExpiresAt]]
    <3>1. /\ job'[w].fence = f /\ job'[w].confirmed = e
          /\ job'[w].beat.reply = Standing(f, n)
          /\ job'[w].beat.until = run'[f.run].leaseExpiresAt
      BY <2>2, <2>3, <2>5 DEF Job
    <3>2. ASSUME Standing(f, n) = "allowed"
          PROVE  /\ Known(f, run[f.run].leaseExpiresAt)'
                 /\ e <= run'[f.run].leaseExpiresAt
                 /\ run'[f.run].leaseExpiresAt <= run'[f.run].deadlineAt
      <4>1. /\ run'[f.run].generation = f.generation /\ run'[f.run].leaseExpiresAt \in Nat
            /\ Holds(f)' /\ run'[f.run].leaseExpiresAt <= run'[f.run].deadlineAt
        BY <2>2, <2>5, <3>2, RenewedLease
      <4>. QED
        BY <2>4, <4>1 DEF Known
    <3>. QED
      BY <2>4, <3>1, <3>2 DEF LeaseKnownTo, Promised
  <2>6. CASE /\ Standing(f, n) = "stale"
             /\ job' = [job EXCEPT ![w].beat = [reply |-> Standing(f, n), until |-> NoTime]]
    <3>1. /\ job'[w].fence = f /\ job'[w].confirmed = e
          /\ job'[w].beat.reply = "stale"
      BY <2>2, <2>3, <2>6 DEF Job
    <3>. QED
      BY <2>4, <3>1 DEF LeaseKnownTo, Promised
  <2>. QED
    BY <1>11, <2>2, <2>5, <2>6 DEF Beat
<1>12. CASE CallThrows(w)
  <2>1. CASE job' = [job EXCEPT ![w].beat = NoBeat]
    <3>1. /\ job'[w].fence = job[w].fence /\ job'[w].confirmed = job[w].confirmed
          /\ job'[w].doing = job[w].doing /\ job'[w].beat = NoBeat
      BY <2>1, JobFields, JobUpdates, BeatSent
    <3>. QED
      BY <1>1, <1>3, <3>1 DEF Busy
  <2>. QED
    BY <1>6, <1>12, <2>1, AwaitTypes DEF CallThrows, Busy
<1>13. CASE Stop(w)
  BY <1>1, <1>3, <1>13 DEF Stop, Busy
<1>14. CASE Exit(w) \/ Crash(w)
  BY <1>1, <1>14, JobFields DEF Exit, Crash, NoJob
<1>15. CASE GraceOver(w) \/ Watchdog(w)
  BY <1>9, <1>15 DEF GraceOver, Watchdog
<1>. QED
  BY <1>4, <1>5, <1>7, <1>8, <1>10, <1>11, <1>12, <1>13, <1>14, <1>15
  DEF Own, Runs, Polls, Executes, Beats, Stops

-----------------------------------------------------------------------------
(* Live executions.                                                         *)

(* Its process has not aborted it, and no watchdog of it is late.           *)
Live(w) == Active(w) /\ ~job[w].aborted /\ ~job[w].late

(* A live execution is guarded by the lease end its process knows of.       *)
LiveGuardedOne(w) == Live(w) => Guards(job[w].fence.run, job[w].confirmed)

LiveGuarded == \A w \in Workers : LiveGuardedOne(w)

LEMMA LiveStep ==
  ASSUME StoreInv, WorkerTypeOK, DeadlinesSet, LeaseKnown, [WorkerNext]_allVars,
         NEW w \in Workers, LiveGuardedOne(w)
  PROVE  LiveGuardedOne(w)'
<1>0. /\ [Next]_vars /\ LeaseKnownTo(w)
      /\ now \in Nat /\ now' \in Nat /\ now <= now'
  BY StoreStep, StoreFacts DEF LeaseKnown
<1>. SUFFICES ASSUME Live(w)' PROVE LiveGuardedOne(w)'
  BY DEF LiveGuardedOne
<1>1. job'[w].doing.op \notin {"nothing", "claimed"} /\ job'[w].aborted = FALSE
      /\ job'[w].late = FALSE
  <2>1. job' \in [Workers -> Job]
    BY StoreInvKept, WorkerTypeStep, <1>0, JobFields DEF WorkerTypeOK
  <2>2. job'[w].aborted \in BOOLEAN /\ job'[w].late \in BOOLEAN
    BY <2>1 DEF Job
  <2>. QED
    BY <2>2 DEF Live, Active
<1>2. Busy(w)
  <2>1. ASSUME ~Busy(w) PROVE FALSE
    <3>1. CASE ~Own(w)
      BY <1>1, <2>1, <3>1, OthersJob DEF Busy, Nothing
    <3>2. CASE Own(w)
      <4>1. Resumes(w) \/ \E f \in claims' : NewJob(w, f)
        BY <3>2, OwnStep
      <4>. QED
        BY <1>1, <2>1, <4>1 DEF Resumes, NewJob, Nothing
    <3>. QED
      BY <3>1, <3>2
  <2>. QED
    BY <2>1
<1>3. PICK f \in claims, e \in Nat :
        /\ f = job[w].fence /\ e = job[w].confirmed
        /\ run'[f.run].deadlineAt = run[f.run].deadlineAt
  BY <1>0, <1>2, JobFields, DeadlinesStep DEF Busy, LeaseKnownTo, Known
(* The execution was live before, and what it knows is what it knew.        *)
<1>4. ASSUME Live(w), job'[w].fence = f, job'[w].confirmed = e,
             now' = now \/ now' < e \/ e = run[f.run].deadlineAt
      PROVE  LiveGuardedOne(w)'
  <2>1. Guards(f.run, e)
    BY <1>3, <1>4 DEF LiveGuardedOne
  <2>2. Guards(f.run, e)'
    BY <1>0, <1>3, <1>4, <2>1 DEF Guards
  <2>. QED
    BY <1>4, <2>2 DEF LiveGuardedOne
<1>5. CASE ~Own(w)
  <2>1. /\ job'[w].doing = job[w].doing /\ job'[w].fence = f /\ job'[w].confirmed = e
        /\ job'[w].aborted = job[w].aborted
        /\ job'[w].late = job[w].late \/ TimePasses
    BY <1>3, <1>5, OthersJob
  <2>2. CASE TimePasses
    <3>1. ~job[w].late /\ ~Overdue(w) /\ now' = now + 1
      BY <1>0, <1>1, <2>2, Ticks DEF TimePasses, Tick
    <3>2. Live(w)
      BY <1>1, <2>1, <3>1 DEF Live, Active
    <3>3. ~(CutOff(f.run, e) <= now)
      BY <1>3, <3>1, <3>2 DEF Overdue, Live
    <3>4. now' < e \/ e = run[f.run].deadlineAt
      BY <1>0, <3>1, <3>3, WorkerAssumption, StoreAssumption DEF CutOff
    <3>. QED
      BY <1>4, <2>1, <3>2, <3>4
  <2>3. CASE ~TimePasses
    <3>1. ASSUME NEW x \in Workers, Own(x) PROVE now' = now
      <4>1. UNCHANGED vars \/ OwnWrite(x)
        BY <3>1, OwnStep
      <4>. QED
        BY <4>1 DEF vars, OwnWrite, ClaimRun, HandOut, WorkerWrite, HeartbeatLease,
                    ReserveStep, CompleteToolStepWithEvidence, FailStep, CompleteRun,
                    FailRun, MarkCancelled
    <3>2. now' = now
      BY <2>3, <3>1 DEF WorkerNext, Own, Commands, CreateTaskWithInitialRun, CreateRetryRun,
                        CancelRun, Membership, RemoveMember, AddMember, allVars
    <3>3. Live(w)
      BY <1>1, <2>1, <2>3 DEF Live, Active
    <3>. QED
      BY <1>4, <2>1, <3>2, <3>3
  <2>. QED
    BY <2>2, <2>3
<1>6. ASSUME NEW n \in Stamps, Poll(w, n) PROVE LiveGuardedOne(w)'
  <2>1. job'[w] = NoJob \/ \E g \in claims' : NewJob(w, g)
    BY <1>6, Polled
  <2>. QED
    BY <1>1, <2>1 DEF NoJob, NewJob, Nothing
<1>7. ASSUME NEW n \in Stamps, Execute(w, n) PROVE LiveGuardedOne(w)'
  <2>1. PICK next \in Await : Turn(w, next)
    BY <1>7, ExecuteTurns
  <2>2. next # Nothing
    BY <1>1, <2>1, Turns DEF NoJob, Nothing
  <2>3. /\ job'[w].fence = f /\ job'[w].confirmed = e
        /\ job'[w].aborted = job[w].aborted /\ job'[w].late = job[w].late
    BY <1>3, <2>1, <2>2, Turns
  <2>4. Live(w)
    <3>1. Busy(w) /\ job[w].doing.op # "claimed" /\ job[w].doing \in Await
      BY <1>7, ExecuteTurns, JobFields
    <3>2. \A d \in Await : d.op = "nothing" => d = Nothing
      BY DEF Await, Nothing
    <3>. QED
      BY <1>1, <2>3, <3>1, <3>2 DEF Live, Active, Busy
  <2>5. now' = now
    <3>1. UNCHANGED vars \/ WorkerWrite(f, n)
      BY <1>3, <1>7, ExecuteTurns
    <3>. QED
      BY <3>1 DEF vars, WorkerWrite, HeartbeatLease, ReserveStep, CompleteToolStepWithEvidence,
                  FailStep, CompleteRun, FailRun, MarkCancelled
  <2>. QED
    BY <1>4, <2>3, <2>4, <2>5
<1>8. CASE ProcessClaim(w)
  <2>1. /\ job'[w].fence = f /\ job'[w].confirmed = e /\ (job'[w].late <=> e <= now)
    BY <1>1, <1>3, <1>8, ClaimTaken DEF NoJob, Nothing
  <2>2. UNCHANGED vars
    BY <1>8 DEF ProcessClaim
  <2>3. Guards(f.run, e)'
    BY <1>0, <1>1, <2>1, <2>2 DEF vars, Guards
  <2>. QED
    BY <2>1, <2>3 DEF LiveGuardedOne
<1>9. CASE Abort(w)
  BY <1>1, <1>9, Aborts
<1>10. CASE BeatReply(w)
  <2>1. CASE job[w].beat.reply = "allowed"
    <3>1. /\ job'[w].fence = f /\ job'[w].confirmed = job[w].beat.until
          /\ job'[w].aborted = job[w].aborted
          /\ job'[w].late <=> job[w].late /\ CutOff(f.run, job[w].beat.until) <= now
          /\ job[w].doing.op \in {"nothing", "claimed"} => job'[w].doing = job[w].doing
      BY <1>3, <1>10, <2>1, Renewals
    <3>2. PICK u \in Nat : u = job[w].beat.until /\ e <= u /\ u <= run[f.run].deadlineAt
      BY <1>0, <1>2, <1>3, <2>1 DEF LeaseKnownTo, Known, Promised
    <3>3. UNCHANGED vars
      BY <1>10 DEF BeatReply
    <3>4. now < u \/ u = run[f.run].deadlineAt
      <4>1. CASE job[w].late
        BY <1>0, <1>1, <3>1, <3>2, <4>1, WorkerAssumption, StoreAssumption DEF CutOff
      <4>2. CASE ~job[w].late
        <5>1. Live(w)
          BY <1>1, <3>1, <4>2 DEF Live, Active
        <5>2. Guards(f.run, e)
          BY <1>3, <5>1 DEF LiveGuardedOne
        <5>3. run[f.run].deadlineAt \in Nat
          <6>1. run[f.run].deadlineAt # NoTime
            BY DEF DeadlinesSet
          <6>. QED
            BY <6>1, FenceRow DEF RunRow
        <5>. QED
          BY <1>0, <3>2, <5>2, <5>3 DEF Guards
      <4>. QED
        BY <4>1, <4>2
    <3>5. Guards(f.run, u)'
      BY <3>3, <3>4 DEF vars, Guards
    <3>. QED
      BY <3>1, <3>2, <3>5 DEF LiveGuardedOne
  <2>. QED
    BY <1>9, <1>10, <2>1 DEF BeatReply
<1>11. ASSUME NEW n \in Stamps, Beat(w, n) PROVE LiveGuardedOne(w)'
  <2>1. job \in [Workers -> Job] /\ job[w] \in Job
    BY JobFields
  <2>2. /\ job'[w].fence = f /\ job'[w].confirmed = e /\ job'[w].doing = job[w].doing
        /\ job'[w].aborted = job[w].aborted /\ job'[w].late = job[w].late
    BY <1>3, <1>11, <2>1 DEF Beat, Job
  <2>3. Live(w)
    BY <1>1, <2>2 DEF Live, Active
  <2>4. now' = now
    BY <1>11 DEF Beat, HeartbeatLease, vars
  <2>. QED
    BY <1>4, <2>2, <2>3, <2>4
<1>12. CASE CheckpointStops(w) \/ Exit(w) \/ Crash(w)
  <2>1. job'[w] = NoJob
    BY <1>12, JobFields, Turns, AwaitTypes DEF CheckpointStops, Exit, Crash
  <2>. QED
    BY <1>1, <2>1 DEF NoJob, Nothing
<1>13. CASE CallThrows(w)
  <2>1. CASE Turn(w, Nothing)
    BY <1>1, <2>1, Turns, AwaitTypes DEF NoJob, Nothing
  <2>2. CASE job' = [job EXCEPT ![w].beat = NoBeat]
    <3>1. /\ job'[w].fence = f /\ job'[w].confirmed = e /\ job'[w].doing = job[w].doing
          /\ job'[w].aborted = job[w].aborted /\ job'[w].late = job[w].late
      BY <1>3, <2>2, JobFields, JobUpdates, BeatSent
    <3>2. Live(w) /\ UNCHANGED vars
      BY <1>1, <1>13, <3>1 DEF Live, Active, CallThrows
    <3>. QED
      BY <1>4, <3>1, <3>2 DEF vars
  <2>. QED
    BY <1>13, <2>1, <2>2 DEF CallThrows
<1>14. CASE Stop(w)
  <2>1. UNCHANGED <<vars, job>>
    BY <1>14 DEF Stop
  <2>2. Live(w)
    BY <1>1, <2>1 DEF Live, Active
  <2>. QED
    BY <1>3, <1>4, <2>1, <2>2 DEF vars
<1>15. CASE GraceOver(w) \/ Watchdog(w)
  BY <1>9, <1>15 DEF GraceOver, Watchdog
<1>. QED
  BY <1>5, <1>6, <1>7, <1>8, <1>10, <1>11, <1>12, <1>13, <1>14, <1>15
  DEF Own, Runs, Polls, Executes, Beats, Stops

GuardInv == DeadlinesSet /\ LeaseKnown /\ LiveGuarded

LEMMA GuardInvInit == WorkerInit => GuardInv
<1>. SUFFICES ASSUME WorkerInit PROVE GuardInv
  OBVIOUS
<1>1. DeadlinesSet
  BY DEF WorkerInit, Init, DeadlinesSet
<1>2. \A w \in Workers : job[w].doing = Nothing
  BY DEF WorkerInit, NoJob
<1>. QED
  BY <1>1, <1>2 DEF GuardInv, LeaseKnown, LeaseKnownTo, LiveGuarded, LiveGuardedOne,
                    Live, Active, Busy, Nothing

LEMMA GuardInvStep ==
  ASSUME StoreInv, WorkerTypeOK, GuardInv, [WorkerNext]_allVars
  PROVE  GuardInv'
<1>1. [Next]_vars
  BY StoreStep
<1>2. DeadlinesSet'
  BY <1>1, DeadlinesStep DEF GuardInv
<1>3. LeaseKnown'
  BY LeaseKnownStep DEF GuardInv
<1>4. LiveGuarded'
  BY LiveStep DEF GuardInv, LiveGuarded
<1>. QED
  BY <1>2, <1>3, <1>4 DEF GuardInv

LEMMA GuardedAlone ==
  ASSUME StoreInv, WorkerTypeOK, GuardInv
  PROVE  OneExecutor
<1>. SUFFICES ASSUME NEW w \in Workers, NEW x \in Workers, Executing(w), Executing(x),
                     job[w].fence.run = job[x].fence.run
              PROVE  w = x
  BY DEF OneExecutor
<1>1. ASSUME NEW y \in Workers, Executing(y)
      PROVE  /\ job[y].fence \in claims /\ job[y].fence.worker = y
             /\ job[y].fence.generation = run[job[y].fence.run].generation
  <2>1. Live(y) /\ Busy(y)
    BY <1>1, BusyOps DEF Executing, Live, Active
  <2>2. Guards(job[y].fence.run, job[y].confirmed)
    BY <1>1, <2>1 DEF GuardInv, LiveGuarded, LiveGuardedOne, Executing
  <2>. QED
    BY <2>1, <2>2, JobFields DEF GuardInv, LeaseKnown, LeaseKnownTo, Known, Busy
<1>2. job[w].fence = job[x].fence
  BY <1>1 DEF StoreInv, FencingTokens
<1>. QED
  BY <1>1, <1>2

(* At most one process works on a run at any time.  This is the property    *)
(* OneExecutor, for any number of processes and runs, any lease, any safety *)
(* margin shorter than it, any age of the stamps with which runs are        *)
(* claimed and leases renewed, and any interleaving of heartbeats, their    *)
(* late or lost answers, watchdogs and takeovers.                           *)
THEOREM OneExecutorAlone == WorkerSpec => []OneExecutor
<1>1. WorkerInit => GuardInv
  BY GuardInvInit
<1>2. StoreInv /\ WorkerTypeOK /\ GuardInv /\ [WorkerNext]_allVars => GuardInv'
  BY GuardInvStep
<1>3. StoreInv /\ WorkerTypeOK /\ GuardInv => OneExecutor
  BY GuardedAlone
<1>. QED
  BY <1>1, <1>2, <1>3, WorkerInvariant, PTL DEF WorkerSpec
=============================================================================
