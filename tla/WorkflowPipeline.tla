------------------------- MODULE WorkflowPipeline -------------------------
(***************************************************************************)
(* One task in a WorkflowEngine: run() with its main coroutine, watchdog   *)
(* and deadline, the background review of a result delivered early, and    *)
(* the resumption by a human, in the same process or from the checkpoint.  *)
(* workflow*.py, planning_*.py, execution_*.py, aggregation_coordinator.py *)
(*                                                                         *)
(* An action is what runs between two awaits.  Operators that take the     *)
(* state w of the task as an argument are the synchronous code between     *)
(* them, in the order of the source; each ends in Suspend, Raise or        *)
(* Return.                                                                 *)
(***************************************************************************)
EXTENDS Naturals, FiniteSets

CONSTANTS
  Subtask,      \* the subtasks of every version of the plan
  Graphs,       \* what the plan may look like: [Subtask -> SUBSET Subtask]
  Tooled,       \* subtasks that ask for a tool
  Absent,       \* of these, those whose tool does not exist yet
  Config,       \* delivery modes, see config
  MaxReplan,    \* max_replan_attempts
  MaxNetwork,   \* _MAX_NETWORK_RETRIES
  Watched,      \* pipeline_no_progress_timeout > 0
  Deadline,     \* max_pipeline_timeout > 0
  MaxResumes    \* bound on resumptions by a human

ASSUME PipelineAssumption ==
  /\ IsFiniteSet(Subtask) /\ Subtask # {}
  /\ Graphs \subseteq [Subtask -> SUBSET Subtask]
  /\ Tooled \subseteq Subtask /\ Absent \subseteq Tooled
  /\ Config \subseteq {"always", "risk_based", "off", "simple", "provisional"}
  /\ {MaxReplan, MaxNetwork, MaxResumes} \subseteq Nat
  /\ {Watched, Deadline} \subseteq BOOLEAN

VARIABLES
  task,       \* the engine's state of the task, and its checkpoint file
  main,       \* the coroutine that works on the task, and where it waits
  wrap,       \* run() itself: waiting, escalating, returned or raised
  watch,      \* the watchdog: off, watching or fired
  output,     \* status of the last output handed out, or "none"
  cancelled,  \* cancel_requested
  spent,      \* the token budget is exceeded
  resumes,    \* resumptions so far
  config,     \* how results are delivered: result_review_mode, or "simple"
              \* or "provisional" for the two ways of not waiting for it
  deps        \* the dependencies, the same in every version of the plan

vars == <<task, main, wrap, watch, output, cancelled, spent, resumes, config, deps>>

---------------------------------------------------------------------------
(* Data *)

Version == 0 .. MaxReplan + 1

\* by: the version of the plan whose batch produced it (reused keeps it).
Result == [by : Version, ok : BOOLEAN, reused : BOOLEAN]
None == [by |-> 0, ok |-> FALSE, reused |-> FALSE]
NoResults == [s \in Subtask |-> None]

Status == {"received", "planning", "replanning", "plan_review", "executing",
           "decomposition_issue", "aggregating", "result_review", "completed",
           "completed_provisional", "human_required", "failed", "cancelled"}

Checkpoint ==
  [status : Status, version : Version, replans : 0 .. MaxReplan,
   reworks : 0 .. MaxReplan + 1, results : [Subtask -> Result],
   slots : SUBSET Subtask, archived : Version, archive : [Subtask -> Result],
   accepted : SUBSET Version, escalated : BOOLEAN]

Task ==
  [mode : {"run", "background", "resume"}, status : Status, version : Version,
   replans : 0 .. MaxReplan, reworks : 0 .. MaxReplan + 1,
   results : [Subtask -> Result],   \* WorkflowState.results
   sched : [Subtask -> Result],     \* scheduler.results
   archived : Version,              \* the version archive is about
   archive : [Subtask -> Result],   \* archive_results of that version
   slots : SUBSET Subtask,          \* plan_grant_map
   grants : SUBSET (Subtask \X Version),  \* not revoked in the gateway
   ready : SUBSET Subtask,          \* those whose tool is approved
   stopping : BOOLEAN,              \* PipelineGate
   escalated : BOOLEAN,             \* human_escalation is set
   restored : BOOLEAN,              \* restored_from_checkpoint
   provisional : BOOLEAN,           \* provisional_task is set
   saved : SUBSET Checkpoint,       \* the file: at most one
   accepted : SUBSET Version,       \* (history) versions that passed review
   judged : [Subtask -> Result]]    \* (history) what the last passed result
                                    \* review was about

Wait == {"refreshing", "requesting", "planreview", "gap", "scheduling",
         "aggregating", "reviewing", "escalating"}
Exit == {"output", "WorkflowCancelledError", "PipelineStoppedError",
         "TokenBudgetExceeded", "Exception", "PipelineDeadlineExceeded",
         "CancelledError"}

\* then: in planning, which caller goes on; when ended, how; else what follows.
Coroutine ==
  [at : Wait \cup {"ended"},
   then : {"first", "again", "deliver", "provisional", "review", "confirm"} \cup Exit,
   nets : 0 .. MaxNetwork, batch : SUBSET Subtask, lacking : SUBSET Subtask]

At(place, then) ==
  [at |-> place, then |-> then, nets |-> 0, batch |-> {}, lacking |-> {}]

TypeOK ==
  /\ task \in Task /\ \A c, d \in task.saved : c = d
  /\ main \in Coroutine
  /\ wrap \in {"waiting", "escalating", "returned", "raised"}
  /\ watch \in {"off", "watching", "fired"}
  /\ output \in Status \cup {"none"}
  /\ cancelled \in BOOLEAN /\ spent \in BOOLEAN
  /\ resumes \in 0 .. MaxResumes /\ config \in Config /\ deps \in Graphs

---------------------------------------------------------------------------
(* Parts of the engine *)

GateOpen_Always(w) == TRUE
GateOpen(w) == ~w.stopping

Good(results) == {s \in Subtask : results[s].ok}
Failed(results) == {s \in Subtask : results[s] # None /\ ~results[s].ok}
Open(results) == {s \in Subtask : results[s] = None}

\* results of the engine, completed by those the scheduler has settled
Merged(w) == [s \in Subtask |-> IF w.results[s] # None THEN w.results[s] ELSE w.sched[s]]

Save(w) == [w EXCEPT !.saved =
  {[status |-> w.status, version |-> w.version, replans |-> w.replans,
    reworks |-> w.reworks, results |-> Merged(w), slots |-> w.slots,
    archived |-> w.archived, archive |-> w.archive,
    accepted |-> w.accepted, escalated |-> w.escalated]}]

IssueGrants(w) ==
  LET new == {s \in Tooled \cap w.ready : ~w.results[s].reused}
  IN  [w EXCEPT !.slots = new,
                !.grants = @ \cup {<<s, w.version>> : s \in new}]

RevokeGrants_Later(w) == w
RevokeGrants(w) == [w EXCEPT !.grants = {}]

RevokeBatchGrants(w, batch) ==
  [w EXCEPT !.grants = {g \in @ : g[1] \notin batch}]

\* a batch that enters execution again finds its grants revoked
EnsureBatchGrants(w, batch) ==
  IF \E s \in batch \cap w.slots : <<s, w.version>> \notin w.grants
    THEN IssueGrants(w) ELSE w

\* least superset of targets that contains with s every t of <<s, t>> \in edges
Closure(targets, edges) ==
  {t \in Subtask : \A X \in SUBSET Subtask :
     targets \subseteq X /\ (\A e \in edges : e[1] \in X => e[2] \in X) => t \in X}

Dependence == {e \in Subtask \X Subtask : e[1] \in deps[e[2]]}

Downstream(targets) == Closure(targets, Dependence)

\* what _archive_completed_results adds to the archive of this version
Archived(w) ==
  IF w.archived # w.version THEN w.results
  ELSE [s \in Subtask |-> IF w.results[s] # None THEN w.results[s] ELSE w.archive[s]]

\* what a plan with the same names can keep: successes, none of them spoiled
\* by a failure above it, with the successes they build on (PlanReuse)
Keepable(good, spoiled, graph) ==
  {R \in SUBSET (good \ spoiled) : \A s \in R : graph[s] \cap good \subseteq R}

\* declarations of reuse that pass every check
Reusable(w) ==
  IF w.archived # w.version THEN {{}}
  ELSE Keepable(Good(w.archive), Downstream(Failed(w.archive)), deps)

AdoptPlan(w, R) ==
  [w EXCEPT !.version = @ + 1, !.slots = {},
            !.results = [s \in Subtask |->
                           IF s \in R THEN [w.archive[s] EXCEPT !.reused = TRUE]
                                      ELSE None]]

\* the targets, what depends on them, and what these need and have not got
GuidanceAffected(w, targets) ==
  Closure(Downstream(targets),
          {e \in Subtask \X Subtask : e[2] \in deps[e[1]] /\ ~w.results[e[2]].ok})

History(w) == w.replans > 0 \/ w.reworks > 0

ShouldRunResultReview(w) ==
  /\ config # "off"
  /\ config = "risk_based" => History(w) \/ Good(w.results) = {} \/ Failed(w.results) # {}

ShouldDeliverProvisionally(w) ==
  /\ config = "provisional" /\ ~History(w)
  /\ Good(w.results) # {} /\ Failed(w.results) = {}

\* two subtasks at most, none of which depends on another
IsSimplePlan == Cardinality(Subtask) <= 2 /\ \A s \in Subtask : deps[s] = {}

MayTakeFastPath(w) ==
  config = "simple" /\ IsSimplePlan /\ Failed(w.results) = {} /\ Good(w.results) # {}

---------------------------------------------------------------------------
(* Synchronous code between two awaits *)

Suspend(w, place) == task' = w /\ main' = place /\ UNCHANGED output

Return(w, status) ==
  /\ task' = [w EXCEPT !.status = status]
  /\ main' = At("ended", "output")
  /\ output' = status

EscalateToHuman(w) ==
  Suspend(Save([w EXCEPT !.status = "human_required", !.escalated = TRUE]),
          At("escalating", "review"))

\* The background review ends in handlers of its own; run() has handlers
\* (MainEnds); whoever resumed the task gets the exception.
Raise(w, exception) ==
  \/ w.mode # "background" /\ Suspend(w, At("ended", exception))
  \/ /\ w.mode = "background"
     /\ \/ exception = "TokenBudgetExceeded" /\ Return(w, "failed")
        \/ exception = "Exception" /\ EscalateToHuman(w)
        \/ /\ exception \notin {"TokenBudgetExceeded", "Exception"}
           /\ Return(w, "cancelled")

AfterAggregation_Trusting(w, then) ==
  \/ then \in {"deliver", "confirm"} /\ Return(w, "completed")
  \/ then = "provisional" /\ Return(w, "completed_provisional")
  \/ then = "review" /\ Suspend([w EXCEPT !.status = "result_review"], At("reviewing", then))
AfterAggregation(w, then) ==
  \/ then = "deliver" /\ Return(w, "completed")
  \/ then = "provisional" /\ Return(w, "completed_provisional")
  \/ then = "review" /\ Suspend([w EXCEPT !.status = "result_review"], At("reviewing", then))
  \/ then = "confirm" /\ Suspend(w, At("reviewing", then))

\* One or two short results are joined without a model call.
AggregateResults(w, then) ==
  LET v == IF then = "confirm" THEN w ELSE [w EXCEPT !.status = "aggregating"]
  IN  \/ Cardinality(Good(v.results)) <= 2 /\ AfterAggregation(v, then)
      \/ /\ Cardinality(Good(v.results)) # 1
         /\ IF GateOpen(v) THEN Suspend(v, At("aggregating", then))
                           ELSE Raise(v, "PipelineStoppedError")

\* the rest of _run_result_loop after an execution without failures
DeliverResults(w) ==
  \/ MayTakeFastPath(w) /\ Return(w, "completed")
  \/ AggregateResults(w, IF ~ShouldRunResultReview(w) THEN "deliver"
                         ELSE IF ShouldDeliverProvisionally(w) THEN "provisional"
                         ELSE "review")

PlanHead(w, then, nets) ==
  LET v == [(IF w.version > 0 THEN RevokeGrants(w) ELSE w)
              EXCEPT !.status = IF w.version > 0 THEN "replanning" ELSE "planning"]
  IN  IF ~GateOpen(w) THEN Raise(w, "PipelineStoppedError")
      ELSE IF cancelled THEN Raise(v, "WorkflowCancelledError")
      ELSE Suspend(v, [At("requesting", then) EXCEPT !.nets = nets])

PlanAndReview(w, then) ==
  PlanHead(IF w.version > 0
             THEN [w EXCEPT !.archived = w.version, !.archive = Archived(w)] ELSE w,
           then, 0)

QuotaLeft(w) == w.replans < MaxReplan

\* a plan that was invalid or rejected
PlanAgain(w, then, nets) ==
  IF QuotaLeft(w) THEN PlanHead([w EXCEPT !.replans = @ + 1], then, nets)
                  ELSE EscalateToHuman(w)

\* after a batch: the execution cycle, or the rework of the background review
BatchDone(w, failed) ==
  IF w.mode = "background"
    THEN IF failed = {} THEN AggregateResults(w, "confirm") ELSE EscalateToHuman(w)
  ELSE IF failed = {} THEN DeliverResults(w)
  ELSE IF QuotaLeft(w)
    THEN PlanAndReview([w EXCEPT !.status = "replanning", !.replans = @ + 1], "again")
  ELSE EscalateToHuman([w EXCEPT !.status = "decomposition_issue"])

Outcome(w, ok) == [by |-> w.version, ok |-> ok, reused |-> FALSE]

\* A batch has come to an end, and these are its results; what lacks a tool
\* has failed.
BatchReturns(w, batch, lacking, outcome) ==
  LET v == [RevokeBatchGrants(w, batch) EXCEPT !.results =
              [s \in Subtask |-> IF s \in batch THEN outcome[s]
                                 ELSE IF s \in lacking THEN Outcome(w, FALSE) ELSE @[s]]]
  IN  BatchDone(Save(v), lacking \cup {s \in batch : ~outcome[s].ok})

\* hands the batch to schedule(), which refuses one with a dependency that was
\* left out, then checks gate and budget
Schedule(w, batch, lacking) ==
  LET u == EnsureBatchGrants([w EXCEPT !.status = "executing"], batch)
      v == [u EXCEPT !.sched = NoResults]
  IN  IF \E s \in batch : deps[s] \cap lacking # {}
        THEN BatchReturns(u, batch, lacking, [s \in batch |-> Outcome(u, FALSE)])
      ELSE IF ~GateOpen(v) THEN Raise(v, "PipelineStoppedError")
      ELSE IF spent THEN Raise(v, "TokenBudgetExceeded")
      ELSE Suspend(v, [At("scheduling", "review")
                         EXCEPT !.batch = batch, !.lacking = lacking])

ExecuteSubtasks(w, batch) ==
  IF ~GateOpen(w) THEN Raise(w, "PipelineStoppedError")
  ELSE IF batch = {} THEN BatchDone(w, {})
  ELSE IF cancelled THEN Raise(w, "WorkflowCancelledError")
  ELSE IF batch \cap Tooled \subseteq w.ready THEN Schedule(w, batch, {})
  ELSE Suspend(w, [At("gap", "review") EXCEPT !.batch = batch])

ExecutionCycle(w, batch) ==
  IF ~GateOpen(w) THEN Raise(w, "PipelineStoppedError")
  ELSE IF spent THEN Raise(w, "TokenBudgetExceeded")
  ELSE ExecuteSubtasks(w, batch)

ResultLoop(w, batch) ==
  IF cancelled THEN Raise(w, "WorkflowCancelledError")
               ELSE ExecutionCycle(w, batch)

PlanAccepted(w, then) ==
  LET v == Save(IssueGrants([w EXCEPT !.accepted = @ \cup {w.version}]))
  IN  IF then = "first" THEN ResultLoop(v, Subtask)
                        ELSE ExecutionCycle(v, Open(v.results))

Rework_Uncounted(w, targets) ==
  LET v == [w EXCEPT !.results = [s \in Subtask |->
                                    IF s \in targets THEN None ELSE @[s]]]
  IN  IF w.mode = "background" THEN ExecuteSubtasks(v, targets)
                               ELSE ResultLoop(v, targets)
Rework(w, targets) ==
  LET v == [w EXCEPT !.reworks = @ + 1,
                     !.results = [s \in Subtask |->
                                    IF s \in targets THEN None ELSE @[s]]]
  IN  IF w.mode = "background" THEN ExecuteSubtasks(v, targets)
                               ELSE ResultLoop(v, targets)

---------------------------------------------------------------------------
(* The main coroutine, the background review, or a resumption: what happens *)
(* when the await it is suspended at returns.                               *)

Refreshed ==
  main.at = "refreshing" /\ PlanAndReview(task, "first")

\* A supervisor's answer that comes after the stop is dropped.
AnswerTooLate ==
  /\ main.at \in {"requesting", "aggregating"} /\ ~GateOpen(task)
  /\ Raise(task, "PipelineStoppedError")

\* the usage of a model call is settled when it returns
AnswerOverBudget ==
  /\ main.at \in {"requesting", "planreview", "gap", "aggregating", "reviewing"} /\ spent
  /\ main.at \in {"requesting", "aggregating"} => GateOpen(task)
  /\ Raise(task, "TokenBudgetExceeded")

\* the deadline cuts a supervisor's call short
DeadlineInCall ==
  /\ main.at \in {"requesting", "aggregating"} /\ Deadline /\ task.mode = "run"
  /\ Raise(task, "PipelineDeadlineExceeded")

CallFails ==
  /\ main.at \in {"planreview", "gap", "reviewing"}
  /\ Raise(task, "Exception")

NetworkFails ==
  /\ main.at = "requesting"
  /\ IF main.nets < MaxNetwork THEN PlanHead(task, main.then, main.nets + 1)
                               ELSE EscalateToHuman(task)

PlanInvalid ==
  /\ main.at = "requesting" /\ GateOpen(task)
  /\ PlanAgain(task, main.then, main.nets)

\* The structure is checked at once; a simple plan needs no model to review it.
PlanAdopted ==
  /\ main.at = "requesting" /\ GateOpen(task)
  /\ \E R \in Reusable(task) :
       LET w == AdoptPlan(task, R)
       IN  \/ PlanAgain(w, main.then, main.nets)
           \/ PlanAccepted(w, main.then)
           \/ Suspend([w EXCEPT !.status = "plan_review"],
                      [main EXCEPT !.at = "planreview"])

PlanPasses ==
  /\ main.at = "planreview"
  /\ IF GateOpen(task) THEN PlanAccepted(task, main.then)
                       ELSE Raise(task, "PipelineStoppedError")

PlanRejected ==
  main.at = "planreview" /\ PlanAgain(task, main.then, main.nets)

\* Missing tools have been created and reviewed, or not.
GapSettled ==
  /\ main.at = "gap"
  /\ LET gaps == (main.batch \cap Tooled) \ task.ready
     IN  \E made \in SUBSET gaps :
           LET lacking == gaps \ made
               v == [task EXCEPT !.ready = @ \cup made]
               w == IF made # {} THEN IssueGrants(v) ELSE v
               failed == [s \in Subtask |->
                            IF s \in lacking THEN Outcome(w, FALSE) ELSE w.results[s]]
           IN  IF main.batch = lacking
                 THEN BatchDone([w EXCEPT !.results = failed], lacking)
                 ELSE Schedule(w, main.batch \ lacking, lacking)

Settled(s) == s \notin main.batch \/ task.sched[s] # None

\* In a rework the dependencies outside the batch are dropped; in any other
\* batch they have succeeded.
Startable(s) == \A d \in deps[s] \cap main.batch : task.sched[d].ok

SubtaskSettled ==
  /\ main.at = "scheduling"
  /\ \E s \in main.batch, ok \in BOOLEAN :
       /\ ~Settled(s)
       /\ \/ Startable(s)
          \/ ~ok /\ deps[s] \cap main.batch \cap Failed(task.sched) # {}
       /\ LET w == Save([task EXCEPT !.sched[s] = Outcome(task, ok)])
          IN  IF \A t \in main.batch \ {s} : Settled(t)
                THEN BatchReturns(w, main.batch, main.lacking, w.sched)
                ELSE Suspend(w, main)

\* schedule() is interrupted; what ends while it shuts down still counts.
Interrupted(w, late) ==
  [w EXCEPT !.sched = [s \in Subtask |-> IF s \in DOMAIN late THEN late[s] ELSE @[s]]]
Late ==
  LET begun == IF main.at # "scheduling" THEN {}
               ELSE {s \in main.batch : ~Settled(s) /\ Startable(s)}
  IN  [begun -> {None, Outcome(task, TRUE), Outcome(task, FALSE)}]

BatchInterrupted ==
  /\ main.at = "scheduling"
  /\ \E late \in Late :
       \/ ~GateOpen(task) /\ Raise(Interrupted(task, late), "PipelineStoppedError")
       \/ spent /\ Raise(Interrupted(task, late), "TokenBudgetExceeded")
       \/ /\ Deadline /\ task.mode = "run"
          /\ Raise(Interrupted(task, late), "PipelineDeadlineExceeded")

\* The model's text, or a local summary when its call failed.
Aggregated ==
  main.at = "aggregating" /\ AfterAggregation(task, main.then)

ResultPasses ==
  /\ main.at = "reviewing"
  /\ IF task.mode = "background" /\ cancelled
       THEN Raise(task, "WorkflowCancelledError")
       ELSE Return([task EXCEPT !.judged = task.results], "completed")

\* The review names a subtask; otherwise those that failed are meant.
ResultRejected ==
  /\ main.at = "reviewing"
  /\ \E targets \in {{s} : s \in Subtask} \cup {Failed(task.results)} :
       IF task.mode = "background" /\ cancelled
         THEN Raise(task, "WorkflowCancelledError")
       ELSE IF \/ targets = {} \/ main.then = "confirm"
               \/ task.reworks >= (IF task.mode = "background" THEN 1 ELSE MaxReplan)
         THEN EscalateToHuman(task)
       ELSE Rework(task, targets)

Notified ==
  /\ main.at = "escalating"
  /\ task' = task /\ main' = At("ended", "output") /\ output' = "human_required"

MainStep ==
  /\ UNCHANGED <<wrap, watch, cancelled, spent, resumes, config, deps>>
  /\ \/ Refreshed \/ AnswerTooLate \/ AnswerOverBudget \/ DeadlineInCall \/ CallFails
     \/ NetworkFails \/ PlanInvalid \/ PlanAdopted \/ PlanPasses \/ PlanRejected
     \/ GapSettled \/ SubtaskSettled \/ BatchInterrupted \/ Aggregated
     \/ ResultPasses \/ ResultRejected \/ Notified

---------------------------------------------------------------------------
(* run(): it waits for the main coroutine, the watchdog and the deadline *)

Finish(w, status, how) ==
  /\ task' = RevokeGrants([w EXCEPT !.stopping = TRUE])
  /\ wrap' = how /\ output' = status

\* _escalate_on_pipeline_stall and _escalate_on_pipeline_timeout
RunEscalates(w) ==
  /\ task' = Save([w EXCEPT !.stopping = TRUE, !.status = "human_required",
                            !.escalated = TRUE])
  /\ wrap' = "escalating" /\ UNCHANGED output

MainEnds ==
  /\ wrap = "waiting" /\ main.at = "ended"
  /\ \/ main.then = "output" /\ Finish(task, output, "returned")
     \/ main.then = "PipelineDeadlineExceeded" /\ RunEscalates(task)
     \/ /\ main.then = "WorkflowCancelledError"
        /\ Finish([Save([task EXCEPT !.stopping = TRUE]) EXCEPT !.status = "cancelled"],
                  "cancelled", "returned")
     \/ /\ main.then = "PipelineStoppedError"
        /\ Finish([task EXCEPT !.status = "cancelled"], "cancelled", "returned")
     \/ /\ main.then \in {"TokenBudgetExceeded", "Exception"}
        /\ Finish([task EXCEPT !.status = "failed"], "failed", "returned")
  /\ watch' = "off"
  /\ UNCHANGED <<main, cancelled, spent, resumes, config, deps>>

\* The watchdog stops the gate itself, before run() wakes up.
WatchdogFires ==
  /\ watch = "watching" /\ wrap = "waiting"
  /\ watch' = "fired" /\ task' = [task EXCEPT !.stopping = TRUE]
  /\ UNCHANGED <<main, wrap, output, cancelled, spent, resumes, config, deps>>

Stall ==
  /\ wrap = "waiting" /\ watch = "fired" /\ main.at # "ended"
  /\ \E late \in Late : RunEscalates(Interrupted(task, late))
  /\ main' = At("ended", "CancelledError")
  /\ UNCHANGED <<watch, cancelled, spent, resumes, config, deps>>

Timeout ==
  /\ wrap = "waiting" /\ Deadline /\ watch # "fired" /\ main.at # "ended"
  /\ \E late \in Late : RunEscalates(Interrupted(task, late))
  /\ main' = At("ended", "CancelledError") /\ watch' = "off"
  /\ UNCHANGED <<cancelled, spent, resumes, config, deps>>

RunNotified ==
  /\ wrap = "escalating"
  /\ Finish(task, "human_required", "returned")
  /\ UNCHANGED <<main, watch, cancelled, spent, resumes, config, deps>>

\* CancelledError: the caller's task is cancelled.
TaskCancelled ==
  /\ wrap \in {"waiting", "escalating"}
  /\ \E late \in Late :
       Finish([Save([Interrupted(task, late) EXCEPT !.stopping = TRUE])
                 EXCEPT !.status = "cancelled"], "none", "raised")
  /\ main' = At("ended", "CancelledError") /\ watch' = "off"
  /\ UNCHANGED <<cancelled, spent, resumes, config, deps>>

RunStep == MainEnds \/ Stall \/ RunNotified

---------------------------------------------------------------------------
(* What others do to the task *)

Running == wrap \in {"waiting", "escalating"} \/ main.at # "ended"

\* cancel(): takes effect at the next check
Cancel ==
  /\ Running /\ ~cancelled
  /\ cancelled' = TRUE /\ task' = [task EXCEPT !.stopping = TRUE]
  /\ UNCHANGED <<main, wrap, watch, output, spent, resumes, config, deps>>

\* An engine restored from a checkpoint has no budget.
Spend ==
  /\ main.at \in {"requesting", "planreview", "gap", "scheduling", "aggregating", "reviewing"}
  /\ ~task.restored /\ ~spent /\ spent' = TRUE
  /\ UNCHANGED <<task, main, wrap, watch, output, cancelled, resumes, config, deps>>

\* Once in the life of an engine: a result delivered early again, after a
\* resumption, is reviewed by nobody.
StartBackgroundReview ==
  /\ ~Running /\ ~task.provisional /\ output = "completed_provisional"
  /\ main.then = "output"
  /\ LET w == [task EXCEPT !.mode = "background", !.provisional = TRUE,
                           !.stopping = FALSE]
     IN  IF cancelled THEN Raise(w, "WorkflowCancelledError")
         ELSE Suspend([w EXCEPT !.status = "result_review"], At("reviewing", "review"))
  /\ UNCHANGED <<wrap, watch, cancelled, spent, resumes, config, deps>>

ResumeWithGuidance ==
  /\ ~Running /\ resumes < MaxResumes /\ task.version > 0
  /\ \/ task.escalated /\ task.status = "human_required"
     \/ task.restored /\ task.status \notin {"completed", "failed"}
  /\ \E rollback \in SUBSET Subtask :
       LET targets == IF rollback # {} THEN rollback ELSE Subtask \ Good(task.results)
           affected == GuidanceAffected(task, targets)
       IN  ResultLoop([task EXCEPT !.mode = "resume", !.stopping = FALSE,
                         !.escalated = FALSE, !.status = "executing",
                         !.results = [s \in Subtask |->
                                        IF s \in affected THEN None ELSE @[s]]],
                      affected)
  /\ resumes' = resumes + 1
  /\ UNCHANGED <<wrap, watch, cancelled, spent, config, deps>>

\* The process ends, at whatever point, and another reads the checkpoint.
Restore ==
  /\ ~task.restored
  /\ \E c \in task.saved :
       task' = [mode |-> "resume", status |-> c.status, version |-> c.version,
                replans |-> c.replans, reworks |-> c.reworks, results |-> c.results,
                sched |-> NoResults, archived |-> c.archived, archive |-> c.archive,
                slots |-> c.slots, grants |-> {}, ready |-> task.ready,
                stopping |-> FALSE, escalated |-> c.escalated, restored |-> TRUE,
                provisional |-> FALSE, saved |-> task.saved, accepted |-> c.accepted,
                judged |-> NoResults]
  /\ main' = At("ended", "CancelledError") /\ wrap' = "raised" /\ watch' = "off"
  /\ output' = "none" /\ cancelled' = FALSE /\ spent' = FALSE
  /\ UNCHANGED <<resumes, config, deps>>

DeleteCheckpoint ==
  /\ task.restored /\ ~Running /\ task.saved # {}
  /\ main.then = "output" /\ output \in {"completed", "failed", "cancelled"}
  /\ task' = [task EXCEPT !.saved = {}]
  /\ UNCHANGED <<main, wrap, watch, output, cancelled, spent, resumes, config, deps>>

---------------------------------------------------------------------------

Init ==
  /\ task = [mode |-> "run", status |-> "received", version |-> 0, replans |-> 0,
             reworks |-> 0, results |-> NoResults, sched |-> NoResults,
             archived |-> 0, archive |-> NoResults, slots |-> {}, grants |-> {},
             ready |-> Tooled \ Absent, stopping |-> FALSE, escalated |-> FALSE,
             restored |-> FALSE, provisional |-> FALSE, saved |-> {}, accepted |-> {},
             judged |-> NoResults]
  /\ main = At("refreshing", "first")
  /\ wrap = "waiting"
  /\ watch = IF Watched THEN "watching" ELSE "off"
  /\ output = "none" /\ cancelled = FALSE /\ spent = FALSE /\ resumes = 0
  /\ config \in Config /\ deps \in Graphs

Next ==
  \/ MainStep \/ RunStep \/ WatchdogFires \/ Timeout \/ TaskCancelled
  \/ Cancel \/ Spend \/ StartBackgroundReview \/ ResumeWithGuidance
  \/ Restore \/ DeleteCheckpoint

Spec == Init /\ [][Next]_vars

\* The event loop runs both coroutines; calls to models and tools end.  A
\* coroutine that has not ended can always go on, so that the first conjunct
\* is WF_vars(MainStep), without its ENABLED.
Fairness ==
  /\ []<>(main.at = "ended") \/ []<><<MainStep>>_vars
  /\ WF_vars(RunStep)

FairSpec == Spec /\ Fairness

---------------------------------------------------------------------------
(* Properties *)

\* When run() is left, on whatever way, the gate is stopped and no grant of
\* the task is live; and an output it returns says what the task's status is
\* (workflow.py, the handlers and the finally of run).
ClosedOnReturn ==
  task.mode = "run" /\ wrap \in {"returned", "raised"} =>
    /\ task.stopping /\ task.grants = {}
    /\ wrap = "returned" => output = task.status
    /\ wrap = "raised" => task.status = "cancelled"

\* "completed" is said of a task only when every subtask of the plan has
\* succeeded, and the review that let it pass was about exactly these results;
\* unless the configuration waives that review, or a human had it resumed.
DeliveredIsVerified ==
  output = "completed" /\ resumes = 0 =>
    /\ Good(task.results) = Subtask
    /\ \A s \in Subtask : task.results[s].by = task.version \/ task.results[s].reused
    /\ \/ task.judged = task.results
       \/ config \in {"off", "simple"}
       \/ config = "risk_based" /\ ~History(task)

\* After a stop no plan is requested or adopted, no batch dispatched, no text
\* asked for; grants are only taken back, save those for tools whose creation
\* was under way (PipelineGate).
StopIsFinal ==
  [][task.stopping /\ task'.stopping =>
       /\ task'.version = task.version
       /\ main'.at \in {"requesting", "scheduling", "aggregating"} => main' = main
       /\ main.at # "gap" => task'.grants \subseteq task.grants]_vars

\* Every run, background review and resumption comes to an end.
Terminates == Running ~> ~Running

\* The comment where a plan is adopted says that no result of an older version
\* that was not declared reused remains in the new one.  Stated of successes,
\* and refuted: a checkpoint brings them back.
ResultsOfThisPlan ==
  \A s \in Good(task.results) :
    task.results[s].by = task.version \/ task.results[s].reused
===========================================================================
