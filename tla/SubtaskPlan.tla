------------------------------- MODULE SubtaskPlan -------------------------------
(***************************************************************************)
(* What schedule() promises the execution coordinator, without saying how:  *)
(* a subtask starts at most once, only after all its dependencies           *)
(* succeeded and never beside more than the agreed number of others; it     *)
(* ends once, and a subtask that is not run fails only below a failure or   *)
(* because it is rejected at its own start.  SubtaskScheduler implements it *)
(* under the mapping stated there.                                          *)
(***************************************************************************)
EXTENDS Naturals, FiniteSets

CONSTANTS Subtask, Deps, Prior, Concurrency

VARIABLE status   \* status[s]: how far subtask s has come

Status == {"waiting", "running", "succeeded", "failed", "dropped"}

Outcome(d) ==
  IF d \in Subtask THEN status[d]
  ELSE IF Prior[d] = "success" THEN "succeeded" ELSE "failed"

Enabled(s) == \A d \in Deps[s] : Outcome(d) = "succeeded"

Move(s, new) == status' = [status EXCEPT ![s] = new]

----------------------------------------------------------------------------
Start(s) ==
  /\ status[s] = "waiting" /\ Enabled(s)
  /\ Cardinality({t \in Subtask : status[t] = "running"}) < Concurrency
  /\ Move(s, "running")

\* No agent for it, or no budget left when its turn comes.
Reject(s) ==
  /\ status[s] = "waiting" /\ Enabled(s)
  /\ Move(s, "failed")

End(s) ==
  /\ status[s] = "running"
  /\ \E new \in {"succeeded", "failed", "dropped"} : Move(s, new)

\* The pipeline stops before the subtask has started.
Drop(s) ==
  /\ status[s] = "waiting"
  /\ Move(s, "dropped")

\* A set of waiting subtasks fails at once, each below a failure that is
\* already there or part of the same set.
WriteOff(S) ==
  /\ S # {}
  /\ \A s \in S : /\ status[s] = "waiting"
                  /\ \E d \in Deps[s] : d \in S \/ Outcome(d) = "failed"
  /\ status' = [s \in Subtask |-> IF s \in S THEN "failed" ELSE status[s]]

----------------------------------------------------------------------------
Init == status = [s \in Subtask |-> "waiting"]

Next ==
  \/ \E s \in Subtask : Start(s) \/ Reject(s) \/ End(s) \/ Drop(s)
  \/ \E S \in SUBSET Subtask : WriteOff(S)

Spec == Init /\ [][Next]_status
=============================================================================
