----------------------------- MODULE MCPollerScenes -----------------------------
(***************************************************************************)
(* Two scenes of PeriodicTaskPoller.  "single": one process that may be     *)
(* stopped, with a cron task and one that runs once.  "shared": two         *)
(* processes that may crash, with the cron task.  In both a process that    *)
(* catches up may be started again with a setting to skip.                  *)
(***************************************************************************)
EXTENDS MCPeriodicTaskPoller

VARIABLE scene

Single ==
  \/ \E t \in Task : Create(t) \/ Execute(daemon, t)
  \/ Poll(daemon) \/ Stop(daemon) \/ Drained(daemon) \/ Restart(daemon)
  \/ Tick \/ Rest

Shared == Next /\ creator'[once] = "none"

MCNext == scene' = scene /\ IF scene = "single" THEN Single ELSE Shared

MCFairness ==
  /\ WF_vars(Tick)
  /\ \A t \in Task : WF_vars(scene = "single" /\ (Create(t) \/ Execute(daemon, t)))
  /\ WF_vars(scene = "single" /\ (Poll(daemon) \/ Drained(daemon) \/ Restart(daemon)))

MCInit == Init /\ scene \in {"single", "shared"}

MCSpec == MCInit /\ [][MCNext]_<<vars, scene>> /\ MCFairness

\* A run recorded as running is the run of a live coroutine as long as one
\* process that does not crash has the store: a stop or a failure closes it.
OpenRunsOwnedAlone == scene = "single" => OpenRunsOwned

\* With one process a trigger that was completed or skipped never runs again,
\* although a process that catches up is followed by one that skips.
TriggerHandledOnceAlone == scene = "single" => TriggerHandledOnce

=============================================================================
