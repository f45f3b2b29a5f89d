------------------------------- MODULE TaskIntake -------------------------------
(***************************************************************************)
(* From a request to an accepted plan: the router (TaskRouting), and for     *)
(* what it hands to the workflow engine the planning (PlanAdoption), which  *)
(* does not look at how the request was routed.                             *)
(***************************************************************************)
EXTENDS TaskRouting, PlanAdoption

CONSTANT Planned    \* the requests whose planning is followed

ASSUME IntakeAssumption == Planned \subseteq Requests

vars == <<routingVars, planningVars>>

Init == RoutingInit /\ PlanningInit

Route == RoutingNext /\ UNCHANGED planningVars

\* _run_full_workflow.
PlanIt ==
  /\ stage = "workflow" /\ request \in Planned
  /\ PlanningNext
  /\ UNCHANGED routingVars

Ended ==
  /\ \/ stage = "done"
     \/ stage = "workflow" /\ (request \notin Planned \/ phase \in {"accepted", "exhausted", "offline"})
  /\ UNCHANGED vars

Next == Route \/ PlanIt \/ Ended

Spec == Init /\ [][Next]_vars
=============================================================================
