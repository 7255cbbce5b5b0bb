---------------------------- MODULE RunFollowing ----------------------------
(***************************************************************************)
(* A tab that follows an Agent run on the task page or the run page        *)
(* (src/features/agents/pages): queries that are fetched again every two   *)
(* seconds while the run they show is active, the reply of a cancellation  *)
(* that is stored beside them, and the not-found reply that puts a removed *)
(* member out of the page.                                                 *)
(*                                                                         *)
(* Every run moves along AgentRunLifecycle, which AgentRunStore            *)
(* implements; here only its status and its cancellation request matter.   *)
(* The trace query is fetched and dropped as the task query of the run     *)
(* page is.  Cached replies go when the tab moves to another page: the     *)
(* code keeps them and fetches again on mount, so it shows at most an      *)
(* older reply for a moment.                                               *)
(***************************************************************************)
EXTENDS Integers, Sequences

CONSTANTS
  NoReply,      \* no reply yet, or no page
  NotFound,     \* the reply 404
  MaxTaskRuns,  \* bound: runs of the task
  Removals      \* bound: changes of the membership

ASSUME FollowingAssumption ==
  /\ MaxTaskRuns \in Nat \ {0} /\ Removals \in Nat
  /\ NoReply # NotFound

VARIABLES
  runs,      \* the stored runs of the task, in order of attempt
  admitted,  \* the user is a member of the Space
  changed,   \* number of changes of the membership
  page,      \* the page shown: kind and attempt; NoReply when elsewhere
  shown,     \* the cached reply of each query of the page
  flight     \* the reply of each query that is on its way

followingVars == <<runs, admitted, changed, page, shown, flight>>

RunQueries == {"run", "task"}
NoReplies == [q \in RunQueries |-> NoReply]

IsActive(status) == status \in {"queued", "running"}

Latest == Len(runs)
Queued == [status |-> "queued", asked |-> FALSE]

RunReply(k) == [attempt |-> k, status |-> runs[k].status, asked |-> runs[k].asked]

Reply(q) ==
  CASE ~admitted -> NotFound
    [] admitted /\ q = "run" -> RunReply(page.attempt)
    [] admitted /\ q = "task" -> RunReply(Latest)

-----------------------------------------------------------------------------
(* Polling.                                                                 *)

(* What decides whether a page polls on: the run of the run page, the       *)
(* latest run of the task page.                                             *)
Leading == IF page.kind = "run" THEN "run" ELSE "task"

(* Mutant of KeepsPolling: a page fetches once and then only shows.         *)
KeepsPollingOnce == shown[Leading] = NoReply

KeepsPolling == shown[Leading] # NoReply /\ IsActive(shown[Leading].status)

(* The run page learns its task from the run.                               *)
Enabled(q) == q = Leading \/ (page.kind = "run" /\ shown.run # NoReply)

(* A query is fetched on mount, and at its interval while the run that      *)
(* leads the page is active; a fetch in flight is not doubled.              *)
Poll(q) ==
  /\ page # NoReply
  /\ flight[q] = NoReply
  /\ Enabled(q)
  /\ shown[q] = NoReply \/ KeepsPolling
  /\ flight' = [flight EXCEPT ![q] = Reply(q)]
  /\ UNCHANGED <<runs, admitted, changed, page, shown>>

Leave == page' = NoReply /\ shown' = NoReplies /\ flight' = NoReplies

(* Mutant of Deliver: a not-found reply leaves the page as it is.           *)
DeliverDeaf(q) ==
  /\ page # NoReply /\ flight[q] # NoReply
  /\ flight' = [flight EXCEPT ![q] = NoReply]
  /\ shown' = IF flight[q] = NotFound THEN shown ELSE [shown EXCEPT ![q] = flight[q]]
  /\ UNCHANGED <<runs, admitted, changed, page>>

(* A not-found reply for something that was shown before is a revocation:   *)
(* every Agent reply leaves the cache and the tab leaves the Space.         *)
Deliver(q) ==
  /\ page # NoReply /\ flight[q] # NoReply
  /\ IF flight[q] = NotFound /\ shown[q] # NoReply
     THEN Leave
     ELSE /\ flight' = [flight EXCEPT ![q] = NoReply]
          /\ shown' = IF flight[q] = NotFound THEN shown ELSE [shown EXCEPT ![q] = flight[q]]
          /\ UNCHANGED page
  /\ UNCHANGED <<runs, admitted, changed>>

(* A fetch that fails twice keeps what is shown.                            *)
LoseFetch(q) ==
  /\ page # NoReply /\ flight[q] # NoReply
  /\ flight' = [flight EXCEPT ![q] = NoReply]
  /\ UNCHANGED <<runs, admitted, changed, page, shown>>

-----------------------------------------------------------------------------
(* Buttons and links.                                                       *)

(* The attempt the page offers commands for: on a run page only while the   *)
(* task it knows has no later one.                                          *)
Offered ==
  IF shown.task = NoReply \/ shown[Leading] = NoReply THEN {}
  ELSE IF page.kind = "run" /\ shown.task.attempt # page.attempt THEN {}
  ELSE {shown[Leading].attempt}

Cancelled(run) ==
  [status |-> IF run.status = "queued" THEN "cancelled" ELSE run.status, asked |-> TRUE]

(* The reply of an accepted cancellation is stored as the run's newest      *)
(* state and the task is fetched again; a fetch of the run that is on its   *)
(* way is left alone.  A refusal, or a lost reply, changes nothing here.    *)
PressCancel(replied) ==
  /\ page # NoReply
  /\ \E k \in Offered :
       /\ IsActive(shown[Leading].status) /\ ~shown[Leading].asked
       /\ admitted /\ IsActive(runs[k].status)
       /\ runs' = [runs EXCEPT ![k] = Cancelled(@)]
       /\ IF replied
          THEN /\ flight' = [flight EXCEPT !.task =
                    [attempt |-> Latest, status |-> runs'[Latest].status, asked |-> runs'[Latest].asked]]
               /\ shown' = IF page.kind = "task" THEN shown
                           ELSE [shown EXCEPT !.run =
                                  [attempt |-> k, status |-> runs'[k].status, asked |-> TRUE]]
          ELSE UNCHANGED <<shown, flight>>
  /\ UNCHANGED <<admitted, changed, page>>

Open(kind, k) ==
  page' = [kind |-> kind, attempt |-> k] /\ shown' = NoReplies /\ flight' = NoReplies

(* An accepted retry opens the page of the new run.                         *)
PressRunRetry ==
  /\ page # NoReply
  /\ \E k \in Offered :
       /\ ~IsActive(shown[Leading].status)
       /\ admitted /\ ~IsActive(runs[Latest].status) /\ Latest < MaxTaskRuns
       /\ runs' = Append(runs, Queued)
       /\ Open("run", Latest + 1)
  /\ UNCHANGED <<admitted, changed>>

FollowLink ==
  /\ page # NoReply
  /\ \/ page.kind = "task" /\ shown.task # NoReply /\ Open("run", shown.task.attempt)
     \/ page.kind = "run" /\ shown.run # NoReply /\ Open("task", page.attempt)
     \/ Leave
  /\ UNCHANGED <<runs, admitted, changed>>

-----------------------------------------------------------------------------
(* The rest of the system: runs, other members, the owner.                  *)

NextStatuses(run) ==
  CASE run.status = "queued" -> {"running", "failed"}
    [] run.status = "running" /\ run.asked -> {"cancelled"}
    [] run.status = "running" /\ ~run.asked -> {"completed", "failed"}
    [] OTHER -> {}

RunMoves ==
  /\ \E k \in DOMAIN runs : \E s \in NextStatuses(runs[k]) : runs' = [runs EXCEPT ![k].status = s]
  /\ UNCHANGED <<admitted, changed, page, shown, flight>>

OtherMember ==
  /\ \/ /\ ~IsActive(runs[Latest].status) /\ Latest < MaxTaskRuns
        /\ runs' = Append(runs, Queued)
     \/ \E k \in DOMAIN runs : IsActive(runs[k].status) /\ runs' = [runs EXCEPT ![k] = Cancelled(@)]
  /\ UNCHANGED <<admitted, changed, page, shown, flight>>

ChangeMembership ==
  /\ changed < Removals
  /\ changed' = changed + 1
  /\ admitted' = ~admitted
  /\ UNCHANGED <<runs, page, shown, flight>>

FollowingInit ==
  /\ runs = <<Queued>>
  /\ admitted = TRUE /\ changed = 0
  /\ page = [kind |-> "task", attempt |-> 1]
  /\ shown = NoReplies /\ flight = NoReplies

FollowingNext ==
  \/ \E q \in RunQueries : Poll(q) \/ Deliver(q) \/ LoseFetch(q)
  \/ \E replied \in BOOLEAN : PressCancel(replied)
  \/ PressRunRetry
  \/ FollowLink
  \/ RunMoves
  \/ OtherMember
  \/ ChangeMembership

FollowingSpec == FollowingInit /\ [][FollowingNext]_followingVars

(* Intervals fire, and a fetch that is repeated for ever is answered.       *)
FollowingFairness ==
  \A q \in RunQueries : WF_followingVars(Poll(q)) /\ SF_followingVars(Deliver(q))
-----------------------------------------------------------------------------
ShowsActive ==
  page # NoReply /\ shown[Leading] # NoReply /\ IsActive(shown[Leading].status)

(* A page that shows a run as active does not do so for ever: once the run  *)
(* is over, the page shows its end, or a later run, or is left.  An older   *)
(* reply that arrives after the reply of a cancellation does not stop it.   *)
EndIsShown ==
  \A k \in 1 .. MaxTaskRuns :
    (ShowsActive /\ shown[Leading].attempt = k /\ k \in DOMAIN runs /\ ~IsActive(runs[k].status))
    ~> ~(ShowsActive /\ shown[Leading].attempt = k)

(* A member who is removed while a page follows an active run is put out of *)
(* it, unless the run ends or the membership is restored first.             *)
RevokedPageLeft == (ShowsActive /\ ~admitted) ~> (admitted \/ ~ShowsActive)
=============================================================================
