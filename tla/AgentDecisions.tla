--------------------------- MODULE AgentDecisions ---------------------------
(***************************************************************************)
(* What a model is shown and what it may answer while an Agent run is      *)
(* worked on: the context that is built from the stored steps and evidence *)
(* before every decision, its size that is stored with every step, the     *)
(* actions it may choose from, and the evidence its final answer may cite. *)
(*                                                                         *)
(* Workers take a run over from one another at any time, as the leases of  *)
(* AgentRunStore let them; of its guards only the lease generation is      *)
(* kept.  A result has a size in units of ContextBytes and a number of     *)
(* pieces of evidence, and its observation may be too large as JSON or     *)
(* only as jsonb; a step that fails adds nothing to the context.           *)
(***************************************************************************)
EXTENDS Integers, Sequences, FiniteSets, Functions

CONSTANTS
  Workers,
  AllTools,     \* the tools of the registry
  Tools,        \* those the run allows
  SubmitFinalAnswer,  \* the control action
  NoAnswer,     \* nothing published
  MaxSteps, MaxTools, MaxEvidence, MaxBytes,  \* limits of the run
  MaxClaims     \* bound: times the run is taken over

ASSUME DecisionAssumption ==
  /\ Tools \subseteq AllTools /\ SubmitFinalAnswer \notin AllTools
  /\ MaxSteps \in Nat \ {0} /\ MaxTools \in Nat \ {0}
  /\ MaxEvidence \in Nat /\ MaxBytes \in Nat \ {0} /\ MaxClaims \in Nat \ {0}

VARIABLES
  job,      \* the stored run: status, generation, steps, evidence, size of its context
  brain,    \* what each worker holds: its stage, generation and the context it showed
  answer    \* the published final answer, with what its author had been shown

decisionVars == <<job, brain, answer>>

PromptBytes == 1
Results == [size : 1 .. 2, pieces : 0 .. 2, measured : {"fits", "as_json", "as_jsonb"}]
Away == [at |-> "away", generation |-> 0, shown |-> << >>, finalOnly |-> FALSE]

-----------------------------------------------------------------------------
(* The context, built from the stored rows: the completed calls, of which   *)
(* each has the place of its step.                                          *)

KeysOf(i) == {k \in DOMAIN job.evidence : job.evidence[k] = i}
Completed == {i \in DOMAIN job.steps : job.steps[i].status = "completed"}

Context == [i \in Completed |-> [size |-> job.steps[i].size, evidenceIds |-> KeysOf(i)]]

ContextBytes(calls) == PromptBytes + SumFunction([i \in DOMAIN calls |-> calls[i].size])

StepOrderValid ==
  \A i \in DOMAIN job.steps : job.steps[i].status = "running" => i = Len(job.steps)

EvidenceValid ==
  Len(job.evidence) <= MaxEvidence /\ \A k \in DOMAIN job.evidence : job.evidence[k] \in Completed

(* The schema of a context: no piece of evidence in two of its calls.       *)
ContextValid(calls) ==
  \A i, j \in DOMAIN calls : i # j => calls[i].evidenceIds \cap calls[j].evidenceIds = {}

SizeValid ==
  job.bytes = IF \E i \in DOMAIN job.steps : job.steps[i].status # "running"
              THEN ContextBytes(Context) ELSE 0

(* buildAgentDecisionContext: the stored rows must be whole, the context    *)
(* within its limit, and as large as was stored with the last step.         *)
BuildContext ==
  StepOrderValid /\ EvidenceValid /\ ContextValid(Context) /\ ContextBytes(Context) <= MaxBytes /\ SizeValid

(* appendCompletedToolCall: the context as it will be with this result.     *)
Appended(i, r) ==
  [j \in Completed \cup {i} |->
     IF j = i THEN [size |-> r.size,
                    evidenceIds |-> Len(job.evidence) + 1 .. Len(job.evidence) + r.pieces]
     ELSE Context[j]]

Fits(i, r) ==
  Len(job.evidence) + r.pieces <= MaxEvidence /\ ContextBytes(Appended(i, r)) <= MaxBytes
-----------------------------------------------------------------------------
(* Mutant of Fenced: whoever once held the run may still write to it.       *)
FencedByRun(w) == job.status = "running" /\ brain[w].generation > 0

Fenced(w) == job.status = "running" /\ brain[w].generation = job.generation

Leave(w) == brain' = [brain EXCEPT ![w] = Away]
Settled(w, status) == Leave(w) /\ job' = [job EXCEPT !.status = status]
Continue(w, stage) == brain' = [brain EXCEPT ![w].at = stage]

(* A worker that finds its lease lost puts the run down.                    *)
PutDown(w) ==
  /\ brain[w].at # "away" /\ ~Fenced(w)
  /\ Leave(w)
  /\ UNCHANGED <<job, answer>>

TakeOver(w) ==
  /\ job.status \in {"queued", "running"} /\ job.generation < MaxClaims
  /\ brain[w].at = "away"
  /\ job' = [job EXCEPT !.status = "running", !.generation = @ + 1]
  /\ brain' = [brain EXCEPT ![w] = [Away EXCEPT !.at = "reading", !.generation = job.generation + 1]]
  /\ UNCHANGED answer

ToolCalls == Len(job.steps)

(* Only the final answer may be chosen when a tool call would leave no step *)
(* for it; otherwise also the tools of the run, each once.                  *)
FinalOnly == Len(job.steps) + 1 >= MaxSteps \/ ToolCalls >= MaxTools
Descriptors(final) == IF final THEN {} ELSE Tools
OfferedActions(final) == Descriptors(final) \cup {SubmitFinalAnswer}

(* What a provider may answer to the projected actions: a name, arguments   *)
(* that the schema of that action takes or not, and for a final answer the  *)
(* markers in its text and the evidence it lists.                           *)
Replies ==
  [action : AllTools \cup {SubmitFinalAnswer}, sound : BOOLEAN,
   markers : SUBSET (1 .. MaxEvidence), ids : SUBSET (1 .. MaxEvidence)]

FinalSound(reply) == reply.markers = reply.ids

(* One call of one offered action with arguments its schema takes; anything *)
(* else is an invalid response.                                             *)
Parsed(reply, offered) ==
  /\ reply.action \in offered /\ reply.sound
  /\ reply.action = SubmitFinalAnswer => FinalSound(reply)

(* The registry checks the name again, against the tools it offered or, for *)
(* a step that is resumed, against those of the run.                        *)
Prepared(tool, allowed) == tool \in allowed \cap AllTools

(* A step that was left running is run again before anything is decided.    *)
Read(w) ==
  /\ brain[w].at = "reading" /\ Fenced(w)
  /\ IF ~BuildContext THEN Settled(w, "failed")
     ELSE IF \E i \in DOMAIN job.steps : job.steps[i].status = "running"
     THEN IF Prepared(job.steps[Len(job.steps)].tool, Tools)
          THEN Continue(w, "tool") /\ UNCHANGED job
          ELSE Settled(w, "failed")
     ELSE IF Len(job.steps) >= MaxSteps THEN Settled(w, "failed")
     ELSE /\ brain' = [brain EXCEPT ![w].at = "deciding", ![w].shown = Context, ![w].finalOnly = FinalOnly]
          /\ UNCHANGED job
  /\ UNCHANGED answer

StartTool(w, tool) ==
  /\ job' = [job EXCEPT !.steps = Append(@, [tool |-> tool, status |-> "running", size |-> 0])]
  /\ Continue(w, "tool")
  /\ UNCHANGED answer

(* A final answer that cites evidence the run does not have, from completed *)
(* tool calls, fails the run.                                               *)
CompleteFinal(w, ids) ==
  IF ids \subseteq DOMAIN job.evidence /\ \A k \in ids : job.evidence[k] \in Completed
  THEN /\ Settled(w, "completed")
       /\ answer' = [ids |-> ids,
                     seen |-> UNION {brain[w].shown[i].evidenceIds : i \in DOMAIN brain[w].shown}]
  ELSE Settled(w, "failed") /\ UNCHANGED answer

(* A reply that is refused, and a provider that fails, end the run.         *)
Decide(w, reply) ==
  /\ brain[w].at = "deciding" /\ Fenced(w)
  /\ LET offered == OfferedActions(brain[w].finalOnly) IN
       IF ~Parsed(reply, offered) THEN Settled(w, "failed") /\ UNCHANGED answer
       ELSE IF reply.action = SubmitFinalAnswer THEN CompleteFinal(w, reply.ids)
       ELSE IF Prepared(reply.action, Descriptors(brain[w].finalOnly)) THEN StartTool(w, reply.action)
       ELSE Settled(w, "failed") /\ UNCHANGED answer

(* Mutant of FailStep: the size is stored with completed steps only.        *)
FailStepSilent(w) ==
  /\ brain[w].at = "tool" /\ Fenced(w)
  /\ job' = [job EXCEPT !.steps[Len(job.steps)].status = "failed"]
  /\ Continue(w, "reading")
  /\ UNCHANGED answer

FailStep(w) ==
  /\ brain[w].at = "tool" /\ Fenced(w)
  /\ job' = [job EXCEPT !.steps[Len(job.steps)].status = "failed", !.bytes = ContextBytes(Context)]
  /\ Continue(w, "reading")
  /\ UNCHANGED answer

(* An observation that is too large as compact JSON fails the run.  A       *)
(* result over a limit of the context is thrown as an error that the        *)
(* executor does not tell from a lost database, and so is an observation    *)
(* that only the table's check, which measures the longer jsonb text,       *)
(* refuses: in both the worker lets the run go as it is.                    *)
CompleteStep(w, r) ==
  /\ brain[w].at = "tool" /\ Fenced(w)
  /\ LET i == Len(job.steps) IN
       IF Fits(i, r) /\ r.measured = "as_json" THEN Settled(w, "failed")
       ELSE IF Fits(i, r) /\ r.measured = "fits"
       THEN /\ job' = [job EXCEPT !.steps[i].status = "completed", !.steps[i].size = r.size,
                                  !.evidence = @ \o [k \in 1 .. r.pieces |-> i],
                                  !.bytes = ContextBytes(Appended(i, r))]
            /\ Continue(w, "reading")
       ELSE Leave(w) /\ UNCHANGED job
  /\ UNCHANGED answer

(* Cancellation, the deadline and lost access settle a run from outside.    *)
SettleOutside ==
  /\ job.status \in {"queued", "running"}
  /\ job' = [job EXCEPT !.status = "cancelled"]
  /\ UNCHANGED <<brain, answer>>

DecisionsInit ==
  /\ job = [status |-> "queued", generation |-> 0, steps |-> << >>, evidence |-> << >>, bytes |-> 0]
  /\ brain = [w \in Workers |-> Away]
  /\ answer = NoAnswer

DecisionsNext ==
  \/ \E w \in Workers :
       \/ TakeOver(w)
       \/ PutDown(w)
       \/ Read(w)
       \/ FailStep(w)
       \/ \E r \in Results : CompleteStep(w, r)
       \/ \E reply \in Replies : Decide(w, reply)
  \/ SettleOutside

DecisionsSpec == DecisionsInit /\ [][DecisionsNext]_decisionVars

-----------------------------------------------------------------------------
(* What the workers store, whichever of them it was and however often the   *)
(* run changed hands, is a context that the next one accepts: no run fails  *)
(* because of its own rows.                                                 *)
StoredContextAccepted == job.status = "running" => BuildContext

(* A final answer cites only evidence its author had been shown: never      *)
(* evidence that another worker stored while the answer was being decided.  *)
CitesWhatWasShown ==
  answer # NoAnswer => answer.ids \subseteq answer.seen /\ answer.seen \subseteq DOMAIN job.evidence
=============================================================================
