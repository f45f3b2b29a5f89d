-------------------------- MODULE MCPeriodicTaskPoller --------------------------
(***************************************************************************)
(* Instances of PeriodicTaskPoller: an interval task, a cron task and a     *)
(* task that runs once, on one or two processes.                            *)
(***************************************************************************)
EXTENDS PeriodicTaskPoller, TLC

CONSTANTS interval, cron, once, daemon, web

Triggers == [t \in Task |-> IF t = interval THEN "interval"
                            ELSE IF t = cron THEN "cron" ELSE "once"]

EverySecond == [t \in Task |-> 1]
EveryOther  == [t \in Task |-> 2]

\* The default, or the two other policies: a process that catches up is stopped
\* and started again with a setting to skip.
Coalesce      == [n \in 1..(MaxRestarts + 1) |-> "coalesce"]
OtherPolicies == [n \in 1..(MaxRestarts + 1) |-> IF n = 1 THEN "catch_up" ELSE "skip"]
=============================================================================
