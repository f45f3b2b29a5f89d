--------------------------- MODULE MCSubtaskScheduler ---------------------------
(***************************************************************************)
(* An instance of SubtaskScheduler: three subtasks of a plan of which two   *)
(* others ran in an earlier batch, each with the failures it can meet.      *)
(***************************************************************************)
EXTENDS SubtaskScheduler, FailureClassification, TLC

CONSTANTS a, b, c

\* b waits for a subtask of an earlier batch that succeeded, c for a.
ForkDeps == a :> {} @@ b :> {"done"} @@ c :> {a}

ForkPrior == "done" :> "success"

\* The failures each can meet.  a's agent gives up, and may be replaced; b's
\* connection breaks or its service is down, and it backs off; c's agent breaks
\* its contract (what it says of the network counts for nothing), or the
\* scheduler catches an exception that says it has no permission.
Failures ==
  a :> {[from |-> "result", text |-> {"timeout"}, root |-> 1]} @@
  b :> {[from |-> "exception", name |-> {"network"}, status |-> 0, text |-> {"network"}, root |-> 1],
        [from |-> "exception", name |-> {}, status |-> 503, text |-> {"internal"}, root |-> 2]} @@
  c :> {[from |-> "result", text |-> {"network", "format"}, root |-> 1],
        [from |-> "exception", name |-> {}, status |-> 0, text |-> {"permission", "tool"}, root |-> 1]}

MixedFaults == [s \in DOMAIN Failures |-> {FingerprintOf(failure) : failure \in Failures[s]}]
=============================================================================
