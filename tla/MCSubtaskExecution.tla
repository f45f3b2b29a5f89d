-------------------------- MODULE MCSubtaskExecution ---------------------------
(* A subtask that code_agent executes writes a script, one the supervisor     *)
(* executes writes a table.  The sandbox holds a table of an earlier run; the *)
(* cache holds the script of an earlier success, or one that was damaged.     *)
EXTENDS SubtaskExecution, TLC

CONSTANTS coding, tables, script, table

ToolsOf == coding :> {"write_file", "run_in_sandbox"} @@ tables :> {"write_file", "tabulate"}

Scopes == coding :> {{script}} @@ tables :> {{table}}
RulesOf == coding :> {[kind |-> "file_non_empty", path |-> script, value |-> "any"]}
        @@ tables :> {[kind |-> "numeric_match", path |-> table, value |-> "right"]}
Earlier == script :> NoFile @@ table :> [what |-> "right", by |-> "before"]

Indexes == {script :> "right", script :> "wrong"}
Store == <<script, "right">> :> "right" @@ <<script, "wrong">> :> "nan"

\* The number written is NaN, which every rule on it accepts.
WrittenBy == coding :> {"wrong"} @@ tables :> {"nan"}

Plain == [form |-> "contract", says |-> "yes", body |-> "full",
          ran |-> "ok", prints |-> "empty", named |-> "none"]
AnswersGiven == {Plain, [Plain EXCEPT !.says = "no"], [Plain EXCEPT !.ran = "failed"],
                 [Plain EXCEPT !.form = "object", !.says = "unsaid"]}

\* Two scenes.  "files": what tools write, answers claim and the cache holds, without
\* a review, and with a replacement in the first batch.  "batches": both subtasks work through the supervisor, may be replaced at
\* the same time, and write their file at every dispatch; the order of batches is free.
VARIABLE scene

ToolsBeyond == [s \in Subtask |-> {"tabulate"}]
Verdicts == {Plain, [Plain EXCEPT !.says = "no"]}
Batches == INSTANCE SubtaskExecution WITH
  Tools <- ToolsBeyond, Answers <- Verdicts, MaxAttempts <- 1, MaxRepairs <- 0,
  MaxReplacements <- 2, MaxReplans <- 2

WriteTheirs ==
  /\ index' = index
  /\ \A s \in Subtask :
       /\ job'[s].used /\ ~ job[s].used =>
            /\ \A f \in Output(s) : disk'[f].by = "agent"
            /\ Completed(s) \in calls'
       /\ Running(s) /\ job'[s].pc # job[s].pc => job[s].used

MCInit == \/ scene = "files" /\ ExecutionInit
          \/ scene = "batches" /\ Batches!ExecutionInit /\ index[script] = "wrong"

MCNext ==
  /\ scene' = scene
  /\ \/ /\ scene = "files" /\ ExecutionNext /\ engine' \notin {"aggregating", "review"}
        /\ batch.count = 2 => quota'.replacements = quota.replacements
     \/ scene = "batches" /\ Batches!ExecutionNext /\ WriteTheirs

MCSpec == MCInit /\ [][MCNext]_<<executionVars, scene>>

\* What the theorem about SuccessBacked supposes of a plan.
ASSUME PlanAssumption == ScopesApart
===============================================================================
