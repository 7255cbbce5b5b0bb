---------------------------- MODULE ProviderCalls ----------------------------
(***************************************************************************)
(* One call of a model provider through its adapter                        *)
(* (src/server/integrations): embeddings, grounded answers, paper          *)
(* comparisons, paper summaries and Agent decisions.                       *)
(*                                                                         *)
(* An adapter sends at most MaxAttempts requests, each with a timer of its *)
(* own that runs until the body is read.  Whatever goes wrong becomes a    *)
(* failure with a kind and a "retryable" mark; the five adapters share one *)
(* shape and differ in FailureOf.  The provider and the network are the    *)
(* environment: they may answer anything, or never.                        *)
(***************************************************************************)
EXTENDS Integers

CONSTANTS
  MaxAttempts,  \* requests per batch, 1 or 2 by configuration
  MaxBatches,   \* bound: batches of texts of one embedding call
  None          \* no verdict yet

ASSUME CallAssumption == MaxAttempts \in {1, 2} /\ MaxBatches \in Nat \ {0}

(* The failure statuses: "transient" is 429, 502, 503 or 504, "refused" any *)
(* other 4xx, "broken" any other.  The kinds of failure the adapters tell   *)
(* their callers, and the two other ends of a call.                         *)
Refusals == {"transient", "refused", "broken"}
CallResults == {"ok", "aborted", "unavailable", "rejected", "invalid", "too_large", "timeout", "failure"}

ASSUME NoVerdict == None \notin Refusals \cup CallResults

VARIABLE call

callVars == <<call>>

Adapters == {"embedding", "answer", "comparison", "summary", "decision"}

(* What may happen to one request.  "large" is a body over the adapter's    *)
(* limit, "bad" one that its schema rejects.                                *)
Events == Refusals \cup {"unreachable", "late", "late_body", "dropped", "bad", "large"}

Failure(kind, retryable) == [kind |-> kind, retryable |-> retryable]

(* The summary adapter turns every error of response.json(), a timeout or a *)
(* broken connection in the body included, into an invalid response.        *)
EmbeddingFailure(e) ==
  CASE e \in {"bad", "large"} -> Failure("invalid", FALSE)
    [] e = "refused" -> Failure("rejected", FALSE)
    [] e = "broken" -> Failure("unavailable", FALSE)
    [] OTHER -> Failure("unavailable", TRUE)

AnswerFailure(e) ==
  CASE e \in Refusals -> Failure("rejected", e = "transient")
    [] e = "bad" -> Failure("invalid", FALSE)
    [] e = "large" -> Failure("too_large", FALSE)
    [] e \in {"late", "late_body"} -> Failure("timeout", TRUE)
    [] OTHER -> Failure("failure", TRUE)

ComparisonFailure(e) ==
  CASE e \in Refusals -> Failure("failure", e = "transient")
    [] e = "bad" -> Failure("invalid", FALSE)
    [] e = "large" -> Failure("too_large", FALSE)
    [] e \in {"late", "late_body"} -> Failure("timeout", TRUE)
    [] OTHER -> Failure("failure", TRUE)

SummaryFailure(e) ==
  CASE e \in Refusals -> Failure("failure", e = "transient")
    [] e \in {"bad", "dropped", "late_body"} -> Failure("invalid", FALSE)
    [] e = "late" -> Failure("timeout", TRUE)
    [] OTHER -> Failure("failure", TRUE)

DecisionFailure(e) ==
  CASE e = "transient" -> Failure("unavailable", TRUE)
    [] e \in {"refused", "broken"} -> Failure("rejected", FALSE)
    [] e \in {"bad", "large"} -> Failure("invalid", FALSE)
    [] e \in {"late", "late_body"} -> Failure("timeout", TRUE)
    [] OTHER -> Failure("unavailable", TRUE)

FailureOf(adapter, e) ==
  CASE adapter = "embedding" -> EmbeddingFailure(e)
    [] adapter = "answer" -> AnswerFailure(e)
    [] adapter = "comparison" -> ComparisonFailure(e)
    [] adapter = "summary" -> SummaryFailure(e)
    [] adapter = "decision" -> DecisionFailure(e)

(* What a body may turn out to be.  All but the summary adapter count its   *)
(* bytes while they read; an embedding must have one vector of the right    *)
(* length for every text, a comparison exactly one observation per paper    *)
(* and dimension, a decision one call of one offered action.                *)
EmbeddingBody == {"bad", "large", "dropped"}
AnswerBody == {"bad", "large", "dropped"}
ComparisonBody == {"bad", "large", "dropped"}
SummaryBody == {"bad", "dropped"}
DecisionBody == {"bad", "large", "dropped"}

BodyEvents(adapter) ==
  CASE adapter = "embedding" -> EmbeddingBody
    [] adapter = "answer" -> AnswerBody
    [] adapter = "comparison" -> ComparisonBody
    [] adapter = "summary" -> SummaryBody
    [] adapter = "decision" -> DecisionBody
-----------------------------------------------------------------------------
Request(adapter, batch, batches, attempt, sent) ==
  [adapter |-> adapter, batch |-> batch, batches |-> batches, attempt |-> attempt,
   sent |-> sent, phase |-> "headers", timer |-> "armed", verdict |-> None,
   aborted |-> FALSE, result |-> None]

Idle == [Request("answer", 1, 1, 1, 0) EXCEPT !.phase = "idle", !.timer = "off"]

Ended(c, result) == [c EXCEPT !.phase = "ended", !.timer = "off", !.result = result]

(* An attempt fails; another follows when the failure is retryable and no   *)
(* caller has left.  An abort by the caller wins over every other failure,  *)
(* and the verdict of a failure status over a timer that fires after it.    *)
Failed(c, e) ==
  LET f == FailureOf(c.adapter, e) IN
    IF c.aborted THEN Ended(c, "aborted")
    ELSE IF f.retryable /\ c.attempt < MaxAttempts
    THEN Request(c.adapter, c.batch, c.batches, c.attempt + 1, c.sent + 1)
    ELSE Ended(c, f.kind)

(* Only embeddings come in batches: the next is sent when the last one is   *)
(* answered, with attempts of its own, and the vectors are put together in  *)
(* the order of the texts.                                                  *)
Answered(c) ==
  IF c.batch = c.batches THEN Ended(c, "ok")
  ELSE Request(c.adapter, c.batch + 1, c.batches, 1, c.sent + 1)

StartCall(adapter, batches) ==
  /\ call.phase = "idle"
  /\ batches = 1 \/ adapter = "embedding"
  /\ call' = Request(adapter, 1, batches, 1, 1)

(* A decision whose prompt version is not known is not asked for at all.    *)
Unprepared ==
  /\ call.phase = "idle"
  /\ call' = Ended(Request("decision", 1, 1, 1, 0), "unavailable")

(* Mutant of Headers: the timer guards the headers only.                    *)
HeadersReleaseTimer ==
  /\ call.phase = "headers"
  /\ \/ call' = [call EXCEPT !.phase = "body", !.timer = "off"]
     \/ \E e \in Refusals : call' = [call EXCEPT !.phase = "drain", !.verdict = e, !.timer = "off"]

(* A success has its body read; of a failure only the status counts, and    *)
(* its body is thrown away.                                                 *)
Headers ==
  /\ call.phase = "headers"
  /\ \/ call' = [call EXCEPT !.phase = "body"]
     \/ \E e \in Refusals : call' = [call EXCEPT !.phase = "drain", !.verdict = e]

NoConnection ==
  /\ call.phase = "headers"
  /\ call' = Failed(call, "unreachable")

BodyRead ==
  /\ call.phase = "body"
  /\ call' = Answered(call)

BodyFails ==
  /\ call.phase = "body"
  /\ \E e \in BodyEvents(call.adapter) : call' = Failed(call, e)

(* The body of a failure is cancelled.  The decision adapter reads it for   *)
(* its log first, for at most 250 ms and 4 kB; nothing that goes wrong      *)
(* there is looked at.                                                      *)
Drained ==
  /\ call.phase = "drain"
  /\ call' = Failed(call, call.verdict)

TimerFires ==
  /\ call.timer = "armed"
  /\ call' = CASE call.phase = "headers" -> Failed(call, "late")
               [] call.phase = "body" -> Failed(call, "late_body")
               [] call.phase = "drain" -> [call EXCEPT !.timer = "fired"]

(* Only a decision takes a signal: a lost lease, a deadline or a shutdown   *)
(* aborts it.                                                               *)
CallerLeaves ==
  /\ call.adapter = "decision" /\ ~call.aborted
  /\ call.phase \in {"headers", "body", "drain"}
  /\ call' = IF call.phase = "drain" THEN [call EXCEPT !.aborted = TRUE]
             ELSE Ended([call EXCEPT !.aborted = TRUE], "aborted")

CallNext ==
  \/ \E adapter \in Adapters, batches \in 1 .. MaxBatches : StartCall(adapter, batches)
  \/ Unprepared
  \/ Headers
  \/ NoConnection
  \/ BodyRead
  \/ BodyFails
  \/ Drained
  \/ TimerFires
  \/ CallerLeaves

CallInit == call = Idle

(* Timers fire and a cancelled body ends; nothing is assumed of a provider. *)
CallFairness == WF_callVars(TimerFires) /\ WF_callVars(Drained)

CallSpec == CallInit /\ [][CallNext]_callVars /\ CallFairness
-----------------------------------------------------------------------------
(* A call that ended says what happened to it: aborted if and only if its   *)
(* caller left it, refused if it was refused for good, although its timer   *)
(* fires while the refusal's body is thrown away.                           *)
ToldRight ==
  /\ call.aborted <=> call.result = "aborted"
  /\ call.verdict \in {"refused", "broken"} /\ ~call.aborted =>
       call.result = FailureOf(call.adapter, call.verdict).kind

(* Every call ends, and says what happened to it, whatever the provider     *)
(* does or leaves undone: no answer at all, or a body that stops half way.  *)
CallEnds == call.phase # "idle" ~> call.phase = "ended" /\ ToldRight
=============================================================================
