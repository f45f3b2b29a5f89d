----------------------------- MODULE MCWebTasks -----------------------------
(***************************************************************************)
(* Instances of WebTasks: three tasks, a memory for two.                    *)
(***************************************************************************)
EXTENDS WebTasks, TLC

Outcomes == {"completed", "human_required", "completed_provisional"}
=============================================================================
