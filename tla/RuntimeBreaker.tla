----------------------------- MODULE RuntimeBreaker -----------------------------
(***************************************************************************)
(* The runtime breaker of so_agent.runtime.parallelism (gate G4): it counts *)
(* the results one schedule records and, once tripped, stays tripped.       *)
(* SubtaskScheduler feeds it and obeys it through Released.                 *)
(***************************************************************************)
EXTENDS Naturals

CONSTANTS ProviderFailureLimit, ConsecutiveFailureLimit

ASSUME BreakerAssumption ==
  /\ ProviderFailureLimit \in Nat \ {0}
  /\ ConsecutiveFailureLimit \in Nat \ {0}

\* parallelism.py keeps a provider set of its own, wider by "provider".
BreakerProviderTypes == {"network", "rate_limit", "timeout", "provider"}

Breaker == [provider : Nat, consecutive : Nat, tripped : BOOLEAN]

FreshBreaker == [provider |-> 0, consecutive |-> 0, tripped |-> FALSE]

(***************************************************************************)
(* RuntimeBreaker.record: a success only resets the consecutive count; a    *)
(* failure counts, and trips at either limit.                               *)
(***************************************************************************)
RecordSuccess(b) == [b EXCEPT !.consecutive = 0]

RecordFailed(b, type) ==
  LET provider    == b.provider + (IF type \in BreakerProviderTypes THEN 1 ELSE 0)
      consecutive == b.consecutive + 1
  IN [provider    |-> provider,
      consecutive |-> consecutive,
      tripped     |-> \/ b.tripped
                      \/ provider >= ProviderFailureLimit
                      \/ consecutive >= ConsecutiveFailureLimit]

(***************************************************************************)
(* collapse_ready: which ready subtasks become asyncio tasks now.  A        *)
(* tripped breaker releases none beside a running one, and otherwise one    *)
(* (the first of the plan; its order is left open here).                    *)
(***************************************************************************)
Released(b, ready, running) ==
  IF ~b.tripped \/ ready = {} THEN {ready}
  ELSE IF running # {} THEN {{}}
  ELSE {{s} : s \in ready}
=============================================================================
