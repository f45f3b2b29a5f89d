--------------------------- MODULE SubtaskExecution ---------------------------
(***************************************************************************)
(* Attempts at the subtasks of a plan as the execution coordinator makes    *)
(* them (execution_coordinator.py): scripts of an earlier run are staged,   *)
(* the attempt is dispatched to code_agent or to the supervisor, and its    *)
(* answer is parsed and held against the sandbox, the log of tool calls and *)
(* the rules of the subtask.  An answer that claims success and fails that  *)
(* is repaired once in the same attempt.  The scheduler is reduced to what  *)
(* the coordinator sees of it: attempts, one replacement, the end of a      *)
(* batch.  The status of the task follows (execution_replacement.py): a     *)
(* batch of which nothing is dispatched does not enter "executing".         *)
(*                                                                         *)
(* One event loop: a dispatch and a notification are the only awaits.       *)
(***************************************************************************)
EXTENDS VerificationRules, StatusPhases, FiniteSets

CONSTANTS
  Subtask, File,
  Tools,           \* Tools[s]: allowed_tools
  Scope,           \* Scope[s]: write_scope, a set of entries
  Rules,           \* Rules[s]: verification
  Script,          \* the files that are scripts
  Written,         \* Written[s]: what its tools may write
  Answers,         \* the answers of an attempt
  EarlierFiles,    \* the sandbox as this run finds it
  EarlierStore,    \* cached scripts: <<file, digest>> -> bytes
  EarlierIndexes,  \* what the index of this objective may hold: file -> digest
  MaxAttempts, MaxReplacements, MaxRepairs,
  MaxReworks, MaxReplans

\* form: a "contract", another JSON "object", or "text"; body: how the object's
\* output looks; named: the file the answer declares as its artifact.
Answer == [form : {"contract", "object", "text"}, says : {"yes", "no", "unsaid"},
           body : {"full", "short", "pending"}, ran : {"ok", "failed", "none"},
           prints : {"empty", "right", "wrong"}, named : File \cup {"none"}]

ASSUME ExecutionAssumption ==
  /\ Subtask = DOMAIN Tools /\ Script \subseteq File
  /\ Scope \in [Subtask -> SUBSET SUBSET File]
  /\ Written \in [Subtask -> SUBSET Content] /\ Answers \subseteq Answer
  /\ EarlierFiles \in [File -> Entry] /\ \A f \in File : EarlierFiles[f].by # "staged"
  /\ \A i \in EarlierIndexes : DOMAIN i \subseteq Script /\ i \in [DOMAIN i -> Content]
  /\ DOMAIN EarlierStore \subseteq Script \X Content
  /\ EarlierStore \in [DOMAIN EarlierStore -> Content]
  /\ "none" \notin File
  /\ \A s \in Subtask : \A rule \in Rules[s] : rule.kind = "exit_code" => rule.path = "none"
  /\ MaxAttempts \in Nat \ {0} /\ MaxReplacements \in Nat /\ MaxRepairs \in 0..1
  /\ MaxReworks \in Nat /\ MaxReplans \in Nat

VARIABLES
  disk,      \* the sandbox
  job,       \* each subtask: where it is, and how it ended
  calls,     \* the tool calls that completed, in the event log
  index, store,   \* script cache
  view,      \* status and phase of the task
  quota,     \* replacements, reworks and replans left
  engine,     \* what the engine waits for
  batch,     \* history: batches begun, and whether this one was dispatched
  spoiled    \* history: successes a file of which an unchecked tool changed

executionVars == <<disk, job, calls, index, store, view, quota, engine, batch, spoiled>>

EngineState == {"batch", "planning", "aggregating", "review", "over"}

\* pc: "ready"; "first" and "repair" (a dispatch is awaited); "requested",
\* "created" and "reporting" (a notification of the replacement is awaited);
\* "done".  agent counts the replacements; attempt restarts with the agent.
FreshJob == [pc |-> "ready", agent |-> 0, attempt |-> 0, used |-> FALSE, ok |-> FALSE]

\* resolve_executor: with standard tools, or none declared, code_agent works
\* itself; anything else goes through the supervisor.
StandardTools == {"read_file", "write_file", "run_in_sandbox"}
Direct == {s \in Subtask : Tools[s] \subseteq StandardTools}

Running(s) == job[s].pc \in {"first", "repair"}
Output(s)  == UNION Scope[s]
Judged(s)  == Output(s) \cup {rule.path : rule \in Rules[s]}

---------------------------------------------------------------------------
(* Script cache (script_cache.py) *)

\* What is in the sandbox is never overwritten, and the bytes must have the
\* digest of the index.
Stageable_AnyBytes(f) ==
  /\ f \in DOMAIN index /\ disk[f] = NoFile
  /\ <<f, index[f]>> \in DOMAIN store
Stageable(f) ==
  /\ f \in DOMAIN index /\ disk[f] = NoFile
  /\ <<f, index[f]>> \in DOMAIN store /\ store[<<f, index[f]>>] = index[f]

Staged == [f \in File |-> IF Stageable(f)
                          THEN [what |-> store[<<f, index[f]>>], by |-> "staged"]
                          ELSE disk[f]]

\* A cached file that is there is not written again, whatever it holds.
Indexed(digest) ==
  [f \in DOMAIN digest \cup DOMAIN index |-> IF f \in DOMAIN digest THEN digest[f] ELSE index[f]]
WithBytes(digest) ==
  [e \in DOMAIN store \cup {<<f, digest[f]>> : f \in DOMAIN digest} |->
     IF e \in DOMAIN store THEN store[e] ELSE e[2]]

\* The lock of the index may time out, and then nothing is recorded.
Record(files) ==
  LET new == {f \in files \cap Script : disk[f].what \notin {"absent", "empty"}}
      digest == [f \in new |-> disk[f].what]
  IN  \/ index' = Indexed(digest) /\ store' = WithBytes(digest)
      \/ new # {} /\ UNCHANGED <<index, store>>

---------------------------------------------------------------------------
(* The answer of an attempt *)

\* A failed sandbox run is a fact that no claim outweighs.
ParsedDirect(a) == a.form # "text" /\ a.says = "yes" /\ a.ran # "failed"

\* Success an object does not state is inferred, unless its output looks unfinished.
ParsedSupervisor(a) ==
  \/ a.form = "contract" /\ a.says = "yes"
  \/ a.form = "object" /\ a.says \in {"yes", "unsaid"} /\ a.body = "full"

Claims(s, a) == IF s \in Direct THEN ParsedDirect(a) ELSE ParsedSupervisor(a)

ScopeMet(s) == Missing(Scope[s], disk) = {}

\* The log is searched by subtask and number of the attempt.
Evident_AnyAttempt(s, a, log) ==
  (Scope[s] # {} \/ a.named # "none") =>
    (\E c \in log : c.subtask = s)
Evident(s, a, log) ==
  (Scope[s] # {} \/ a.named # "none") =>
    \E c \in log : c.subtask = s /\ c.attempt = job[s].attempt

RulesHold(s, a) == \A rule \in Rules[s] : Passes(rule, disk, [ran |-> a.ran, prints |-> a.prints])

\* A repaired answer is held against the same three.
Accepted_RepairTrusted(s, a, log) ==
  /\ Claims(s, a)
  /\ job[s].pc = "repair" \/ (ScopeMet(s) /\ Evident(s, a, log) /\ RulesHold(s, a))
Accepted(s, a, log) ==
  Claims(s, a) /\ ScopeMet(s) /\ Evident(s, a, log) /\ RulesHold(s, a)

---------------------------------------------------------------------------
(* Attempts *)

Completed(s) == [subtask |-> s, attempt |-> job[s].attempt, agent |-> job[s].agent]

Begin(s) ==
  /\ job[s].pc = "ready"
  /\ job' = [job EXCEPT ![s].pc = "first", ![s].attempt = @ + 1, ![s].used = FALSE]
  /\ disk' = Staged
  /\ UNCHANGED <<calls, index, store, view, quota, engine, batch, spoiled>>

\* path_allowed: an empty scope allows every path.
Allowed(s) == IF Scope[s] = {} THEN File ELSE Output(s)

Spoilt(f) == spoiled \cup {t \in Subtask : job[t].ok /\ f \in Judged(t)}

\* write_file of code_agent checks the path against the scope.
WriteChecked(s) ==
  /\ s \in Direct
  /\ \E f \in Allowed(s), c \in Written[s] :
       /\ disk' = [disk EXCEPT ![f] = [what |-> c, by |-> "agent"]]
       /\ spoiled' = IF Scope[s] = {} THEN Spoilt(f) ELSE spoiled

\* A script, or a tool the supervisor calls, writes or deletes any file.
RunUnchecked(s) ==
  \E f \in File, entry \in {[what |-> c, by |-> "agent"] : c \in Written[s]} \cup {NoFile} :
    /\ disk' = [disk EXCEPT ![f] = entry]
    /\ spoiled' = Spoilt(f)

\* Under the supervisor the call itself is logged.
UseTool(s) ==
  /\ Running(s) /\ ~ job[s].used
  /\ job' = [job EXCEPT ![s].used = TRUE]
  /\ WriteChecked(s) \/ RunUnchecked(s) \/ UNCHANGED <<disk, spoiled>>
  /\ IF s \in Direct THEN UNCHANGED calls
     ELSE calls' \in {calls, calls \cup {Completed(s)}}
  /\ UNCHANGED <<index, store, view, quota, engine, batch>>

\* What the recovery policy makes of an attempt that failed: another one, a
\* replacement, or the end.
Failed(s) ==
  \/ /\ job[s].attempt < MaxAttempts
     /\ job' = [job EXCEPT ![s].pc = "ready"]
     /\ UNCHANGED quota
  \/ /\ job[s].agent = 0 /\ quota.replacements > 0
     /\ job' = [job EXCEPT ![s].pc = "requested"]
     /\ quota' = [quota EXCEPT !.replacements = @ - 1]
  \/ /\ job' = [job EXCEPT ![s].pc = IF job[s].agent = 0 THEN "done" ELSE "reporting"]
     /\ UNCHANGED quota

\* The attempt is dispatched again for what its answer lacked; nothing is staged.
Repair(s) == job' = [job EXCEPT ![s].pc = "repair", ![s].used = FALSE]

Succeeded(s, a) ==
  /\ job' = [job EXCEPT ![s].ok = TRUE,
                        ![s].pc = IF job[s].agent = 0 THEN "done" ELSE "reporting"]
  /\ Record({a.named} \cup {f \in File : {f} \in Scope[s]})
  /\ UNCHANGED quota

AttemptAnswered(s) ==
  /\ Running(s)
  /\ \E a \in Answers :
       LET log == IF s \in Direct THEN calls \cup {Completed(s)} ELSE calls IN
       /\ calls' = log
       /\ \/ Accepted(s, a, log) /\ Succeeded(s, a) /\ spoiled' = spoiled \ {s}
          \/ /\ ~ Accepted(s, a, log)
             /\ IF Claims(s, a) /\ job[s].pc = "first" /\ MaxRepairs > 0
                THEN Repair(s) /\ UNCHANGED quota
                ELSE Failed(s)
             /\ UNCHANGED <<index, store, spoiled>>
  /\ UNCHANGED <<disk, view, engine, batch>>

\* The server answers with an error, or the supervisor's call raises.
Raises(s) ==
  /\ Running(s)
  /\ Failed(s)
  /\ UNCHANGED <<disk, calls, index, store, view, engine, batch, spoiled>>

---------------------------------------------------------------------------
(* Replacement *)

Notify(s, pc, from, next) ==
  /\ job[s].pc = from
  /\ job' = [job EXCEPT ![s].pc = pc]
  /\ view' = next
  /\ UNCHANGED <<disk, calls, index, store, quota, engine, batch, spoiled>>

ReplacementRequested(s) == Notify(s, "created", "requested", Moved(view, "replacement_requested"))

\* The registry may be full.
Created(s) ==
  /\ job[s].pc = "created"
  /\ \/ /\ job' = [job EXCEPT ![s] = [FreshJob EXCEPT !.agent = 1]]
        /\ view' = Moved(view, "replacement_executing")
     \/ job' = [job EXCEPT ![s].pc = "reporting"] /\ UNCHANGED view
  /\ UNCHANGED <<disk, calls, index, store, quota, engine, batch, spoiled>>

\* A replacement that failed leaves the status alone.
Reported(s) ==
  Notify(s, "done", "reporting", IF job[s].ok THEN Moved(view, "executing") ELSE view)

---------------------------------------------------------------------------
(* Batches *)

AllDone == \A s \in Subtask : job[s].pc = "done"
AllGood == \A s \in Subtask : job[s].ok

\* Of the subtasks S those with a tool that is not ready fail at once; the others
\* are dispatched.  Without any the status stays as it was.
Unready(S) == SUBSET (S \ Direct)

Jobs(S, gaps, kept) ==
  [s \in Subtask |-> IF s \in gaps THEN [FreshJob EXCEPT !.pc = "done"]
                     ELSE IF s \in S THEN FreshJob ELSE kept[s]]

Entered(from, S, gaps) == IF S \subseteq gaps THEN from ELSE Moved(from, "executing")

Execute(S, from) ==
  \E gaps \in Unready(S) :
    /\ job' = Jobs(S, gaps, job)
    /\ view' = Entered(from, S, gaps)
    /\ batch' = [count |-> batch.count + 1, entered |-> ~ S \subseteq gaps]
    /\ engine' = "batch"

\* The issue is reported; without quota left the task goes to a human.
Decompose ==
  /\ engine = "batch" /\ AllDone /\ ~ AllGood
  /\ IF quota.replans > 0
     THEN /\ quota' = [quota EXCEPT !.replans = @ - 1]
          /\ view' = Through(view, "decomposition_issue", "replanning")
          /\ engine' = "planning"
     ELSE /\ view' = Through(view, "decomposition_issue", "human_required")
          /\ engine' = "over" /\ UNCHANGED quota
  /\ UNCHANGED <<disk, job, calls, index, store, batch, spoiled>>

\* The new plan keeps the results it declares, all of them perhaps.
Replanned ==
  /\ engine = "planning"
  /\ \E kept \in SUBSET {s \in Subtask : job[s].ok} :
       Execute(Subtask \ kept, Moved(view, "plan_review"))
  /\ UNCHANGED <<disk, calls, index, store, quota, spoiled>>

\* The results of a simple plan are delivered as they are.
Aggregate ==
  /\ engine = "batch" /\ AllDone /\ AllGood
  /\ \/ view' = Moved(view, "aggregating") /\ engine' = "aggregating"
     \/ view' = Moved(view, "completed") /\ engine' = "over"
  /\ UNCHANGED <<disk, job, calls, index, store, quota, batch, spoiled>>

\* The review may be switched off.
Review ==
  /\ engine = "aggregating"
  /\ \/ view' = Moved(view, "result_review") /\ engine' = "review"
     \/ view' = Moved(view, "completed") /\ engine' = "over"
  /\ UNCHANGED <<disk, job, calls, index, store, quota, batch, spoiled>>

\* A result that is refused goes to a human when no rework is left, and when it does
\* not say what to do again.
Concluded ==
  /\ engine = "review" /\ engine' = "over"
  /\ view' \in {Moved(view, "completed"), Moved(view, "human_required")}
  /\ UNCHANGED <<disk, job, calls, index, store, quota, batch, spoiled>>

Rework ==
  /\ engine = "review" /\ quota.reworks > 0
  /\ \E S \in SUBSET Subtask \ {{}} : Execute(S, view)
  /\ quota' = [quota EXCEPT !.reworks = @ - 1]
  /\ UNCHANGED <<disk, calls, index, store, spoiled>>

\* A simple first plan is not reviewed.
FirstPlanned ==
  LET planning == Moved([status |-> "received", phase |-> "idle"], "planning")
  IN  {planning, Moved(planning, "plan_review")}

ExecutionInit ==
  /\ disk = EarlierFiles /\ index \in EarlierIndexes /\ store = EarlierStore
  /\ calls = {} /\ spoiled = {}
  /\ quota = [replacements |-> MaxReplacements, reworks |-> MaxReworks, replans |-> MaxReplans]
  /\ engine = "batch"
  /\ \E gaps \in Unready(Subtask), planned \in FirstPlanned :
       /\ job = Jobs(Subtask, gaps, <<>>)
       /\ view = Entered(planned, Subtask, gaps)
       /\ batch = [count |-> 1, entered |-> ~ Subtask \subseteq gaps]

ExecutionNext ==
  \/ \E s \in Subtask :
       \/ Begin(s) \/ UseTool(s) \/ AttemptAnswered(s) \/ Raises(s)
       \/ ReplacementRequested(s) \/ Created(s) \/ Reported(s)
  \/ Decompose \/ Replanned \/ Aggregate \/ Review \/ Concluded \/ Rework

ExecutionSpec == ExecutionInit /\ [][ExecutionNext]_executionVars

---------------------------------------------------------------------------
Pc == {"ready", "first", "repair", "requested", "created", "reporting", "done"}

JobState == [pc : Pc, agent : 0..1, attempt : 0..MaxAttempts, used : BOOLEAN, ok : BOOLEAN]

ExecutionTypeOK ==
  /\ disk \in [File -> Entry]
  /\ DOMAIN index \subseteq Script /\ index \in [DOMAIN index -> Content]
  /\ DOMAIN store \subseteq Script \X Content /\ store \in [DOMAIN store -> Content]
  /\ job \in [Subtask -> JobState]
  /\ calls \subseteq [subtask : Subtask, attempt : 0..MaxAttempts, agent : 0..1]
  /\ view \in [status : DOMAIN PhaseOf \cup {"human_required"}, phase : Phase]
  /\ quota \in [replacements : 0..MaxReplacements, reworks : 0..MaxReworks, replans : 0..MaxReplans]
  /\ engine \in EngineState
  /\ batch \in [count : Nat \ {0}, entered : BOOLEAN]
  /\ spoiled \subseteq Subtask

\* No subtask declares what another one declares or is judged by.
ScopesApart ==
  \A s, t \in Subtask : s # t =>
    /\ Output(s) \cap Output(t) = {}
    /\ \A rule \in Rules[s] : rule.path \notin Output(t)

\* Every entry of the write scope of s is a file of this run that is not empty, and
\* the rules of s on files hold.
Backed(s, d) ==
  /\ Missing(Scope[s], d) = {}
  /\ \A rule \in Rules[s] :
       rule.path \in File => Passes(rule, d, [ran |-> "none", prints |-> "empty"])

(* A success of the plan stays backed by the sandbox through the attempts,  *)
(* repairs and checked writes of the other subtasks, staged scripts and     *)
(* later batches, until a tool that is not held to a scope changes a file   *)
(* it was judged by.                                                        *)
SuccessBacked == \A s \in Subtask \ spoiled : job[s].ok => Backed(s, disk)

(* A success of the original agent's first batch that declares output rests *)
(* on a tool call of that very attempt: not of an earlier attempt, and not  *)
(* of a subtask that runs beside it.  (After a replacement or a rework the  *)
(* numbers start again, and the call may be an earlier agent's.)            *)
EvidenceOfThisAttempt ==
  \A s \in Subtask :
    job[s].ok /\ job[s].agent = 0 /\ batch.count = 1 /\ Scope[s] # {} =>
      Completed(s) \in calls

(* A script the sandbox got from the cache has the content of some success  *)
(* that was recorded under this objective, whatever became of the cached    *)
(* file and of the index since.                                             *)
StagedWereRecorded ==
  \A f \in File : disk[f].by = "staged" => <<f, disk[f].what>> \in DOMAIN store

(* Up to the first rework the graph of phases follows the status, through   *)
(* replacements that run at the same time, batches that fail and new plans. *)
(* The one exception is a plan that keeps every result: it is aggregated,   *)
(* reviewed and delivered while the graph is still at its planning.         *)
PhaseMirrors ==
  quota.reworks = MaxReworks =>
    \/ Mirrors(view)
    \/ /\ ~ batch.entered /\ AllGood
       /\ view.status \in {"aggregating", "result_review", "completed"}
       /\ view.phase \in {"planning", "reviewing_plan"}

---------------------------------------------------------------------------
(* Not true of the code, see the README. *)

\* What is accepted was written in this run by an agent.
ProducedByAgents ==
  \A s \in Subtask : job[s].ok =>
    \A entry \in Scope[s] : \E f \in entry : disk[f].by = "agent"

\* The evidence is of the agent whose result is accepted.
EvidenceOfThisAgent ==
  \A s \in Subtask : job[s].ok /\ Scope[s] # {} =>
    \E c \in calls : c.subtask = s /\ c.agent = job[s].agent

\* A number that is accepted is the expected one.
NumbersAreClose ==
  \A s \in Subtask \ spoiled : job[s].ok =>
    \A rule \in Rules[s] : rule.kind = "numeric_match" /\ rule.path \in File =>
      disk[rule.path].what = rule.value

\* A success stays backed whatever tools do.
AlwaysBacked == \A s \in Subtask : job[s].ok => Backed(s, disk)

\* The graph follows the status to the end.
PhaseAlwaysMirrors == Mirrors(view)
=============================================================================
