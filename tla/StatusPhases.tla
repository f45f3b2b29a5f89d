----------------------------- MODULE StatusPhases -----------------------------
(***************************************************************************)
(* The status of a task and the graph of phases that shadows it             *)
(* (state_machine.py).  A view is [status, phase].                          *)
(***************************************************************************)

Phase == {"idle", "classifying", "planning", "reviewing_plan",
          "granting_permissions", "executing", "monitoring", "replacing_agent",
          "creating_tool", "reviewing_result", "reworking", "aggregating",
          "completed"}

\* _STATUS_TO_PHASE.  A status outside its domain freezes the graph.
PhaseOf == [
  planning              |-> "planning",
  replanning            |-> "planning",
  plan_review           |-> "reviewing_plan",
  executing             |-> "executing",
  replacement_requested |-> "replacing_agent",
  replacement_executing |-> "executing",
  decomposition_issue   |-> "monitoring",
  aggregating           |-> "aggregating",
  result_review         |-> "reviewing_result",
  completed_provisional |-> "reviewing_result",
  completed             |-> "completed"]

\* The phases `monitor` may come from: a batch also fails while its last
\* replacement was only requested.
MonitorFrom_Executing == {"executing"}
MonitorFrom == {"executing", "replacing_agent"}

\* The phases the event of each phase may come from; each event has one target.
Sources == [
  planning         |-> {"idle", "classifying", "reviewing_plan",
                        "granting_permissions", "monitoring", "reworking"},
  reviewing_plan   |-> {"planning", "granting_permissions"},
  executing        |-> {"reviewing_plan", "granting_permissions", "planning",
                        "monitoring", "replacing_agent", "creating_tool", "reworking"},
  monitoring       |-> MonitorFrom,
  replacing_agent  |-> {"executing", "monitoring"},
  aggregating      |-> {"executing", "monitoring", "replacing_agent", "creating_tool"},
  reviewing_result |-> {"aggregating", "executing"},
  completed        |-> Phase \ {"idle", "reviewing_plan", "completed"}]

\* A transition the graph does not have is dropped without a trace.
Advanced(phase, status) ==
  IF status \in DOMAIN PhaseOf /\ phase \in Sources[PhaseOf[status]]
  THEN PhaseOf[status] ELSE phase

\* transition(): a status that does not change moves nothing.
Moved(view, status) ==
  IF status = view.status THEN view
  ELSE [status |-> status, phase |-> Advanced(view.phase, status)]

Through(view, first, then) == Moved(Moved(view, first), then)

Mirrors(view) == view.status \in DOMAIN PhaseOf => view.phase = PhaseOf[view.status]
=============================================================================
