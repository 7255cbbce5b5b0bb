------------------------- MODULE AgentRunLifecycle -------------------------
(***************************************************************************)
(* What the Agent runtime promises about its runs, without leases, claims, *)
(* clocks or workers: a task is worked on by one attempt at a time, an     *)
(* attempt moves once from submission to an end, its trace only grows      *)
(* while it is running, a requested cancellation excludes every other end, *)
(* and a completed run ends with its only final answer.  AgentRunStore     *)
(* implements this specification.                                          *)
(***************************************************************************)
EXTENDS Integers, Sequences

CONSTANT RunId  \* pairs <<task, attempt>>

VARIABLES
  status,       \* status[r] of each attempt, "absent" before submission
  asked,        \* asked[r]: cancellation was requested
  trace         \* trace[r]: the steps of the attempt that are over

vars == <<status, asked, trace>>

Over == {"completed", "failed", "cancelled"}

IsFinal(step) == step.kind = "final_answer"

Extends(long, short) ==
  /\ Len(short) <= Len(long)
  /\ \A i \in 1 .. Len(short) : long[i] = short[i]

Init ==
  /\ status = [r \in RunId |-> "absent"]
  /\ asked = [r \in RunId |-> FALSE]
  /\ trace = [r \in RunId |-> << >>]

Stays(r) ==
  status'[r] = status[r] /\ asked'[r] = asked[r] /\ trace'[r] = trace[r]

(* The next attempt of a task is submitted when the previous ones are over. *)
Submit(r) ==
  /\ status[r] = "absent" /\ status'[r] = "queued"
  /\ \A o \in RunId : o[1] = r[1] /\ o[2] < r[2] => status[o] \in Over
  /\ \A o \in RunId : o[1] = r[1] /\ o[2] > r[2] => status[o] = "absent"
  /\ asked'[r] = asked[r] /\ trace'[r] = trace[r]

Start(r) ==
  /\ status[r] = "queued" /\ status'[r] = "running"
  /\ asked'[r] = asked[r] /\ trace'[r] = trace[r]

Ask(r) ==
  /\ status[r] = "running" /\ status'[r] = "running"
  /\ asked'[r]
  /\ trace'[r] = trace[r]

(* One more step is over; it is not a final answer.                         *)
Record(r) ==
  /\ status[r] = "running" /\ status'[r] = "running"
  /\ ~asked[r] /\ ~asked'[r]
  /\ Extends(trace'[r], trace[r])
  /\ Len(trace'[r]) = Len(trace[r]) + 1
  /\ ~IsFinal(trace'[r][Len(trace'[r])])

Complete(r) ==
  /\ status[r] = "running" /\ status'[r] = "completed"
  /\ ~asked[r] /\ ~asked'[r]
  /\ Extends(trace'[r], trace[r])
  /\ Len(trace'[r]) = Len(trace[r]) + 1
  /\ IsFinal(trace'[r][Len(trace'[r])])

(* A run that fails or is cancelled closes the step it was in and may       *)
(* record the decision that failed; it never gains a final answer.          *)
Abandon(r) ==
  /\ status[r] \in {"queued", "running"}
  /\ \/ status'[r] = "failed" /\ ~asked[r] /\ ~asked'[r]
     \/ status'[r] = "cancelled" /\ asked'[r]
  /\ Extends(trace'[r], trace[r])
  /\ \A i \in (Len(trace[r]) + 1) .. Len(trace'[r]) : ~IsFinal(trace'[r][i])

(* One transaction may settle several runs.                                 *)
Move(r) ==
  Stays(r) \/ Submit(r) \/ Start(r) \/ Ask(r) \/ Record(r) \/ Complete(r) \/ Abandon(r)

Next == \A r \in RunId : Move(r)

Spec == Init /\ [][Next]_vars
=============================================================================
