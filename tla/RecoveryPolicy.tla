----------------------------- MODULE RecoveryPolicy -----------------------------
(***************************************************************************)
(* The deterministic failure-recovery kernel of so_agent.runtime.failure:   *)
(* the value domain of failure types, the classes the policy matrix uses,   *)
(* the per-agent counter of consecutive identical failures, and the pure    *)
(* decision function.  No state lives here; SubtaskScheduler applies these  *)
(* operators at the point where _run_attempts calls them.                   *)
(***************************************************************************)
EXTENDS Naturals

ProviderTypes  == {"network", "rate_limit", "timeout"}
Replaceable    == {"quality", "tool", "sandbox"}
ContractTypes  == {"format"}
NonRetryable   == {"permission", "invalid_input", "budget", "internal"}
BackoffTypes   == {"network", "rate_limit"}

\* "repeated" is reserved in the enumeration and never produced.
FailureType == ProviderTypes \cup Replaceable \cup ContractTypes \cup NonRetryable

RecoveryAction == {"retry", "repair_contract", "replace", "replan", "stop"}

\* The actions that end the attempts of the current agent.
IsTerminal(action) == action \in {"replace", "replan", "stop"}

----------------------------------------------------------------------------
(***************************************************************************)
(* FailureDeduplicator: a streak is the last fingerprint of one agent and   *)
(* how often it came in a row.  Any other fingerprint starts again at one.  *)
(***************************************************************************)
RecordFailure(streak, cause) ==
  [cause |-> cause, n |-> IF streak.cause = cause THEN streak.n + 1 ELSE 1]

Suppressed(streak, threshold) == streak.n >= threshold

----------------------------------------------------------------------------
\* An agent that may not go on is replaced only for a fault of its own.
Escalate(type) == IF type \in Replaceable THEN "replace" ELSE "replan"

Decide_OneTooMany(type, suppressed, attempt, maxAttempts, repairUsed, repairMax) ==
  IF type \in NonRetryable THEN "stop"
  ELSE IF suppressed THEN Escalate(type)
  ELSE IF type \in ContractTypes
       THEN IF repairUsed < repairMax THEN "repair_contract" ELSE "replan"
  ELSE IF attempt > maxAttempts THEN Escalate(type)
  ELSE "retry"

(***************************************************************************)
(* RecoveryPolicy.decide.  The order matters: the first rule that applies   *)
(* decides, and the contract rule comes before the attempt limit because a  *)
(* repair round does not consume an attempt.                                *)
(***************************************************************************)
Decide(type, suppressed, attempt, maxAttempts, repairUsed, repairMax) ==
  IF type \in NonRetryable THEN "stop"
  ELSE IF suppressed THEN Escalate(type)
  ELSE IF type \in ContractTypes
       THEN IF repairUsed < repairMax THEN "repair_contract" ELSE "replan"
  ELSE IF attempt >= maxAttempts THEN Escalate(type)
  ELSE "retry"

\* Only these retries wait; the length of the wait is abstracted.
BacksOff(type, action) == action = "retry" /\ type \in BackoffTypes
=============================================================================
