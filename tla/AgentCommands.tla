---------------------------- MODULE AgentCommands ----------------------------
(***************************************************************************)
(* The commands that create work for the Agents: the creation dialog and   *)
(* the Retry button of a task or run page (src/features/agents), against   *)
(* the transactions createTaskWithInitialRun and createRetryRun of         *)
(* server/modules/agents.  The server may execute a request whose reply is *)
(* lost, the user may submit again, and the repetitions may overlap.       *)
(*                                                                         *)
(* What the runs do otherwise is AgentRunStore's; here a run is over or    *)
(* not.                                                                    *)
(***************************************************************************)
EXTENDS Integers, Sequences, FiniteSets

CONSTANTS
  Forms,         \* contents of the creation form: Space, Agent and prompt
  NoValue,       \* null
  MaxIntents,    \* bound: tasks the user means to create, less one
  MaxCalls,      \* bound: creation and retry requests sent
  MaxRuns,       \* bound: attempts per task
  Changes        \* bound: administrative changes

ASSUME CommandsAssumption ==
  /\ MaxIntents \in Nat /\ MaxCalls \in Nat
  /\ MaxRuns \in Nat \ {0} /\ Changes \in Nat
  /\ NoValue \notin Forms
  /\ NoValue \notin [fingerprint : Forms \cup Nat, id : Nat]

VARIABLES
  agent,     \* the Agent: enabled, and whether the runtime is ready; changes so far
  joined,    \* the user is a member of the Space
  tasks,     \* the stored tasks with their runs, in order of creation
  form,      \* the dialog: content, request identity, intent, request awaited
  calls,     \* the requests the server has yet to finish
  sent,      \* number of requests sent
  view       \* the page: task, attempt shown, request identity, mount, request awaited

commandsVars == <<agent, joined, tasks, form, calls, sent, view>>

NewRun(key, intent) == [over |-> FALSE, key |-> key, intent |-> intent]
NewTask(key, content, intent) ==
  [key |-> key, form |-> content, intent |-> intent, runs |-> <<NewRun(NoValue, NoValue)>>]

LatestAttempt(t) == Len(tasks[t].runs)
TaskOf(key) == {t \in DOMAIN tasks : tasks[t].key = key}
RunsOfKey(t, key) == {k \in DOMAIN tasks[t].runs : tasks[t].runs[k].key = key}

Availability ==
  IF ~agent.enabled THEN "agent_disabled"
  ELSE IF agent.ready THEN "available" ELSE "runtime_unavailable"

-----------------------------------------------------------------------------
(* The request identity that makes a repeated submission recognisable.      *)

ResolveIdentity(current, fingerprint) ==
  IF current # NoValue /\ current.fingerprint = fingerprint THEN current
  ELSE [fingerprint |-> fingerprint, id |-> sent + 1]

SendCall(kind, key, content, intent) ==
  /\ sent < MaxCalls
  /\ sent' = sent + 1
  /\ calls' = calls \cup {[serial |-> sent + 1, kind |-> kind, key |-> key,
                           content |-> content, intent |-> intent, phase |-> "sent"]}

(* Editing any field, even while a submission is under way, drops the       *)
(* identity: it is another submission.                                      *)
EditForm(content) ==
  /\ content # form.content
  /\ form.intent < MaxIntents
  /\ form' = [form EXCEPT !.content = content, !.identity = NoValue, !.intent = @ + 1]
  /\ UNCHANGED <<agent, joined, tasks, calls, sent, view>>

SubmitForm ==
  LET identity == ResolveIdentity(form.identity, form.content) IN
  /\ view = NoValue /\ form.awaits = NoValue
  /\ Availability = "available"
  /\ SendCall("create", identity.id, form.content, form.intent)
  /\ form' = [form EXCEPT !.identity = identity, !.awaits = sent + 1]
  /\ UNCHANGED <<agent, joined, tasks, view>>

(* A retry is offered for the latest run the page knows, once it is over.   *)
PressRetry ==
  /\ view # NoValue /\ view.awaits = NoValue
  /\ tasks[view.task].runs[view.attempt].over
  /\ LET identity == ResolveIdentity(view.identity, view.attempt) IN
     /\ SendCall("retry", identity.id, view.task, <<view.mount, view.attempt>>)
     /\ view' = [view EXCEPT !.identity = identity, !.awaits = sent + 1]
  /\ UNCHANGED <<agent, joined, tasks, form>>

(* The tab gives up waiting; the server may still execute the request, or   *)
(* have executed it.  The identity is kept for the next submission.         *)
LoseReply ==
  \/ /\ form.awaits # NoValue
     /\ form' = [form EXCEPT !.awaits = NoValue]
     /\ UNCHANGED <<agent, joined, tasks, calls, sent, view>>
  \/ /\ view # NoValue /\ view.awaits # NoValue
     /\ view' = [view EXCEPT !.awaits = NoValue]
     /\ UNCHANGED <<agent, joined, tasks, form, calls, sent>>

Opened(t, k) ==
  [task |-> t, attempt |-> k, identity |-> NoValue, mount |-> sent, awaits |-> NoValue]

(* The page learns of a later attempt, or the user leaves it.               *)
RefreshView ==
  /\ view # NoValue
  /\ view' = [view EXCEPT !.attempt = LatestAttempt(view.task)]
  /\ UNCHANGED <<agent, joined, tasks, form, calls, sent>>

LeaveView ==
  /\ view # NoValue
  /\ view' = NoValue
  /\ UNCHANGED <<agent, joined, tasks, form, calls, sent>>

-----------------------------------------------------------------------------
(* The server.                                                              *)

(* The server is done with a call.  Its answer reaches the dialog or the    *)
(* page if they still wait for it; an accepted command opens the page of    *)
(* what it made, and only then is the identity given up.                    *)
Finish(call, result) ==
  /\ calls' = calls \ {call}
  /\ IF call.serial = form.awaits
     THEN IF result = NoValue
          THEN form' = [form EXCEPT !.awaits = NoValue] /\ UNCHANGED view
          ELSE /\ form' = [form EXCEPT !.awaits = NoValue, !.identity = NoValue, !.intent = @ + 1]
               /\ view' = Opened(result.task, result.run)
     ELSE /\ UNCHANGED form
          /\ IF view # NoValue /\ call.serial = view.awaits
             THEN view' = IF result = NoValue THEN [view EXCEPT !.awaits = NoValue]
                          ELSE Opened(result.task, result.run)
             ELSE UNCHANGED view

(* A key seen before answers with the task of its first use, unless the     *)
(* request differs (idempotency_conflict).                                  *)
Existing(t, call) == IF tasks[t].form = call.content THEN [task |-> t, run |-> 1] ELSE NoValue

(* The first statements of the creation transaction: membership, repeated   *)
(* request, definition and runtime.  From here to its commit the rows of    *)
(* the membership and of the definition are share-locked.                   *)
LookUpTask(call) ==
  /\ call.kind = "create" /\ call.phase = "sent"
  /\ \/ ~joined /\ Finish(call, NoValue)
     \/ \E t \in TaskOf(call.key) : joined /\ Finish(call, Existing(t, call))
     \/ /\ joined /\ TaskOf(call.key) = {} /\ Availability # "available"
        /\ Finish(call, NoValue)
     \/ /\ joined /\ TaskOf(call.key) = {} /\ Availability = "available"
        /\ calls' = (calls \ {call}) \cup {[call EXCEPT !.phase = "insert"]}
        /\ UNCHANGED <<form, view>>
  /\ UNCHANGED <<agent, joined, tasks, sent>>

(* Mutant of InsertTask: the insert does not expect a conflict.             *)
InsertTaskAnyway(call) ==
  /\ tasks' = Append(tasks, NewTask(call.key, call.content, call.intent))
  /\ Finish(call, [task |-> Len(tasks) + 1, run |-> 1])

(* Another transaction may have committed the same key since the lookup:    *)
(* the unique index then leaves this one with the stored task.              *)
InsertTask(call) ==
  \/ /\ TaskOf(call.key) = {}
     /\ tasks' = Append(tasks, NewTask(call.key, call.content, call.intent))
     /\ Finish(call, [task |-> Len(tasks) + 1, run |-> 1])
  \/ \E t \in TaskOf(call.key) : Finish(call, Existing(t, call)) /\ UNCHANGED tasks

CreateTask(call) ==
  /\ call.kind = "create" /\ call.phase = "insert"
  /\ InsertTask(call)
  /\ UNCHANGED <<agent, joined, sent>>

(* The retry transaction holds the lock of the task row throughout.         *)
CreateRetryRun(call) ==
  LET t == call.content
      latest == tasks[t].runs[LatestAttempt(t)] IN
  \/ ~joined /\ Finish(call, NoValue) /\ UNCHANGED tasks
  \/ \E k \in RunsOfKey(t, call.key) :
       joined /\ Finish(call, [task |-> t, run |-> k]) /\ UNCHANGED tasks
  \/ /\ joined /\ RunsOfKey(t, call.key) = {}
     /\ latest.over /\ Availability = "available" /\ LatestAttempt(t) < MaxRuns
     /\ tasks' = [tasks EXCEPT ![t].runs = Append(@, NewRun(call.key, call.intent))]
     /\ Finish(call, [task |-> t, run |-> LatestAttempt(t) + 1])
  \/ /\ joined /\ RunsOfKey(t, call.key) = {}
     /\ ~latest.over \/ Availability # "available"
     /\ Finish(call, NoValue) /\ UNCHANGED tasks

RetryTask(call) ==
  /\ call.kind = "retry"
  /\ CreateRetryRun(call)
  /\ UNCHANGED <<agent, joined, sent>>

-----------------------------------------------------------------------------
(* The rest of the system: runs end, and the operator and the owner act.    *)

EndRun(t) ==
  /\ ~tasks[t].runs[LatestAttempt(t)].over
  /\ tasks' = [tasks EXCEPT ![t].runs[LatestAttempt(t)].over = TRUE]
  /\ UNCHANGED <<agent, joined, form, calls, sent, view>>

(* The rows that a creation in progress has locked do not change.           *)
Unlocked == \A c \in calls : c.phase # "insert"

Administer ==
  /\ agent.changes < Changes
  /\ \/ /\ Unlocked
        /\ joined' = ~joined
        /\ agent' = [agent EXCEPT !.changes = @ + 1]
     \/ /\ Unlocked
        /\ agent' = [agent EXCEPT !.enabled = ~@, !.changes = @ + 1]
        /\ UNCHANGED joined
     \/ /\ agent' = [agent EXCEPT !.ready = ~@, !.changes = @ + 1]
        /\ UNCHANGED joined
  /\ UNCHANGED <<tasks, form, calls, sent, view>>

CommandsInit ==
  /\ agent = [enabled |-> TRUE, ready |-> TRUE, changes |-> 0]
  /\ joined = TRUE
  /\ tasks = << >>
  /\ form \in {[content |-> c, identity |-> NoValue, intent |-> 0, awaits |-> NoValue] : c \in Forms}
  /\ calls = {} /\ sent = 0 /\ view = NoValue

CommandsNext ==
  \/ \E c \in Forms : EditForm(c)
  \/ SubmitForm
  \/ PressRetry
  \/ LoseReply
  \/ RefreshView
  \/ LeaveView
  \/ \E call \in calls : LookUpTask(call) \/ CreateTask(call) \/ RetryTask(call)
  \/ \E t \in DOMAIN tasks : EndRun(t)
  \/ Administer

CommandsSpec == CommandsInit /\ [][CommandsNext]_commandsVars
-----------------------------------------------------------------------------
(* However often a submission is repeated because its reply was lost or     *)
(* late, and however the repetitions overlap in the server, it makes one    *)
(* task, and pressing Retry for one run on one page makes one run.          *)
OnePerIntent ==
  /\ \A i, j \in DOMAIN tasks : i # j => tasks[i].intent # tasks[j].intent
  /\ \A t \in DOMAIN tasks : \A j, k \in DOMAIN tasks[t].runs :
       j # k /\ tasks[t].runs[j].intent # NoValue =>
         tasks[t].runs[j].intent # tasks[t].runs[k].intent
=============================================================================
