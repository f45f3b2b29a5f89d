# A verification development for SO Agent

TLA+ modules of the parts of SO Agent whose correctness depends on interleavings,
crashes and retries; TLC configurations that check them on small instances; and
proofs, checked by TLAPS, of what holds for every instance. Paths are relative to
the repository's `src/so_agent/`.

## 1. The system

SO Agent takes a task from a command line or a web page, lets model calls plan it as
a graph of subtasks, runs the subtasks as agents, has the result reviewed, and may
rework, escalate to a human, or run the task again on a schedule. It is one Python
process per front end, each with one asyncio event loop; the processes share SQLite
files and a sandbox directory.

| Component | State it keeps | Operations | Interacts with | Hard behaviour | What makes it correct |
|---|---|---|---|---|---|
| Subtask scheduler (`runtime/scheduler*.py`, `registry.py`) | results, asyncio tasks, registry slots, replacement counts, issues | `schedule`, one coroutine per subtask, shutdown | execution coordinator (caller, lifecycle notifications), recovery policy, breaker, pipeline gate, token budget | interleaved coroutines, stop and cancellation at any await, slots and quotas at their limit | dependencies first; each result recorded once; slots returned; quota kept; nothing starts after a stop; it ends |
| Recovery policy (`runtime/failure.py`) | streak of identical failures per agent | `classify`, `record`, `decide` | called by the attempts | order of rules, limits | bounded work; replacement only for a fault of the agent |
| Parallelism control (`runtime/parallelism.py`) | breaker counters | static gates, `record`, `collapse_ready` | scheduler | breaker trips while work is under way | serial after the trip |
| Persistent tasks (`persistence.py`, `task_scheduler.py`, `cron.py`, `paths/persistent_task.py`) | rows of tasks and runs, in-flight coroutines, a semaphore | create, poll, claim, run, retry, pause, reschedule, stop | CLI daemon and web process share one store | two pollers, crash between commits, missed triggers, time zones | one execution at a time; a trigger once; retries counted; never due in the past again |
| Notifications (`runtime/notifications.py`, `notification_outbox.py`) | outbox rows with attempts and lease | enqueue, reserve, deliver, mark, drain | workflow and approvals call, workers of both processes drain | crash with claimed rows, lost answers, leases | success is real; attempts bounded; nothing lost |
| Workflow pipeline (`workflow*.py`) | run state, gate, deadline, plan versions | `run`, watchdog, result loop, review, rework, escalation, resume with guidance | everything | races of pipeline, watchdog and timeout; exceptions mapped to terminal states | one terminal state; gate stopped and grants revoked at the end |
| State machine (`state_machine.py`) | phase, audit list | transitions, a shadow machine | pipeline | illegal transitions are swallowed | phases only move along the graph |
| Planning (`planning_*.py`) | plan versions, reuse map | plan, review, reuse | pipeline, gateway | stale results reused by a new version | only equal subtasks reused |
| Execution coordinator (`execution_*.py`) | results of batches, replacements, tool gaps | execute a plan version, answer notifications | scheduler, creator | replacement while the plan changes | every request answered |
| Aggregation and review (`aggregation_coordinator.py`) | draft, verdict | aggregate, review | pipeline | skipped or parallel review | no delivery without a verdict |
| Checkpoints, results (`workflow_checkpoint.py`, `runtime/checkpoints.py`, `result_store.py`) | files per task | save, load, delete | pipeline, web | crash between steps | a resumed run repeats no finished subtask |
| Permission gateway (`runtime/permissions.py`, `planning_grants.py`) | grants | issue, verify, expire, revoke | pipeline, tools | expiry and revocation between check and use | a tool runs only under a live grant |
| Approvals (`runtime/approvals.py`, `approval_gate.py`) | approval rows | request, decide, expire, wait | tools, web | decision against expiry, several waiters | executed only if approved in time |
| Web manager (`web/manager.py`, `store.py`) | tasks, queue, rows | submit, cancel, guidance, resume, retention | pipeline | restart during a run | resumed at most once |
| Token budget (`runtime/budget.py`) | accounts | observe, check, enforce | scheduler, models | concurrent observers | the first violation is reported once |
| Model gateway (`runtime/model_gateway.py`) | provider health | call, fail over, cool down | all model calls | concurrent failures | a healthy provider is tried |
| Audit trail (`runtime/audit_trail.py`) | hash chain | append, verify | all | two writers | one chain |
| Tool registry, script cache (`runtime/tool_*.py`, `script_cache.py`) | files with versions | register, promote, quarantine, prune | creator, executors | several processes, crash between file and index | only verified tools run |
| Routing and simple paths (`router.py`, `paths/`) | one request | classify, answer, schedule, write one file | pipeline (what is left over) | a text taken for something it is not | work for tools is never "completed" by words |
| Streaming (`workflow_streaming.py`, `web/` cards) | phase, pending tools, silence | events of a run, cuts, cards | every agent | outputs that never come, two limits at once | no tool cut early; every card settled |
| Code agent (`tool_packages/code_agent`, `mcp/adapter.py`, `runtime/context_pruner.py`) | ledgers, history of a run | turns, tools, folding, extension | sandbox, subtasks beside it | stale receipts, concurrent calls of a turn | receipts are true; the history stays well formed |
| Subagents (`tool_packages/subagent_creator`) | agents, places in the registry | create, execute | grants, approvals | used across batches | no tool on a dead credential |
| External MCP servers (`mcp/external.py`, `mcp/directory.py`) | manifests, connections with child processes | refresh at the start of a task, discover, call | subtasks side by side, the tool registry | late answers in a shared pipe, restarts, cancelled refreshes | an answer is one's own; greeted first; the tools are those of the directory |
| Sandbox, other tool packages, configuration, logging | processes, connections, texts | | | decided outside the program | |

`PROJECT.json` lists all components with their files and status, and the hazards with
their lines.

## 2. Modules

| Module | Models | Kind |
|---|---|---|
| `RecoveryPolicy`, `FailureClassification` | `runtime/failure.py`: what a failure is taken for, the deduplicator, `decide` | operators |
| `RuntimeBreaker` | `runtime/parallelism.py`: `RuntimeBreaker.record`, `collapse_ready` | operators |
| `SubtaskScheduler` | one call of `schedule()` with its coroutines, the registry and the gate | state |
| `SubtaskPlan` | what `schedule()` promises its caller; implemented by `SubtaskScheduler` | state |
| `SubtaskExecution` | attempts as the execution coordinator makes them: staging, dispatch, acceptance, repair, replacement | state |
| `VerificationRules`, `StatusPhases` | `runtime/verification.py` and `write_scope.py`; `state_machine.py` | operators |
| `PeriodicTaskPoller` | the task store, its creators and the pollers of several processes | state |
| `NotificationOutbox` | the outbox, the callers that announce an event, the workers that drain it | state |
| `WorkflowPipeline` | one task of a `WorkflowEngine`: `run()`, main coroutine, watchdog, deadline, background review, resumption in the process or from a checkpoint | state |
| `PlanReuse` | `planning_reuse.py`: which declared results a new plan may keep | operators |
| `TaskIntake` | composition of `TaskRouting` (router, paths without tools, fast path) and `PlanAdoption` (from the supervisor's proposal to an accepted plan) | state |
| `PlanShape` | `runtime/parallelism.py`: layers, write conflicts, how many subtasks side by side | operators |
| `WebTasks` | the web console's tasks, rows, sandboxes and runners through restarts | state |
| `Delegation` | grants of a batch, subagents, risky calls and their approvals | state |
| `CodeAgentRun`, `ContextCompaction` | one call of the code agent, its ledgers; the folding of its history | state, operators |
| `AgentStream` | one streamed run under its idle windows, and the cards of the page | state |
| `SupervisorCalls` | concurrent calls of the supervisor and reviewer: gate, model gateway, token budget, verdicts | state |
| `ToolRegistry` | generated tools on disk and in the memory of several tasks, from gap to quarantine | state |
| `ExternalMcp` | external MCP servers: their directory, connections and requests | state |
| `MC...` | values of constants, scenes and initial choices for TLC | |
| `...Proofs` | the theorems | |

Modules compose by `EXTENDS` where one is written in terms of another (`SubtaskScheduler`
uses the policy and the breaker; `SubtaskExecution` the rules and phases; `CodeAgentRun`
the folding; `PlanAdoption` the shape of plans), by conjunction of their actions
(`TaskIntake`), and by abstraction where the whole would be too large: the pipeline sees
`schedule()` as `SubtaskPlan` promises it, the web console sees a run of the engine as one
await with any status it may return, the pipeline sees reuse as `Keepable`, which
`MCWorkflowPipeline` justifies against `PlanReuse`.

Definitions whose name ends in an underscore and a phrase (`Permitted_BySlot`) are
faulty variants of the definition after them. No behaviour uses them; exchanged for the
real one they show that a property would notice that fault.

### SubtaskScheduler, RecoveryPolicy, FailureClassification

An action is what the event loop runs between two awaits. `loop` says where `schedule()`
is: `dispatch` (top of the loop up to the wait), `wait` (in `asyncio.wait`), `collect`
(over the finished tasks), `shutdown` (`_shutdown_running`), `done`. Coroutines run only
while it waits, shuts down or is done. `job[s]` is the coroutine of subtask `s`; its `pc`
is the await at which it is suspended: the semaphore (`queued`), the executor
(`executing`), the sleep between attempts (`backoff`), the three notifications
(`requesting`, `announcing`, `reporting`, and `cancelling` for the one sent on
cancellation). `slots` are the agents in the registry; `stopping`, `expired` and
`overspent` the gate, the deadline and the token budget.

`Dispatch` is one round: write-off of what lies below a failure, computation of the ready
subtasks, the breaker, creation of tasks, and the fallback for subtasks that can never be
scheduled. `Collect` takes one task of the batch; a stop, cancellation or budget exception
in it starts the shutdown. `EnterAttempt`, `Conclude` and `Decide` are the loop of
`_run_attempts`: gate, limits, executor, classification, policy, then success, retry,
repair, or the end with or without a replacement.

A failure is a fingerprint `<<type, root>>`; `FailureClassification` says which failures
have which. A text is the set of the keyword rules it hits, so that their order counts.

Left out: texts, metrics and events; the order of a plan's subtasks (any ready one may be
first); how long waits take. A lifecycle notification always returns (its handler's own
errors are caught there).

### SubtaskExecution, VerificationRules, StatusPhases

`disk` is the sandbox: of each file what it contains, as far as a rule can tell, and who
put it there (before the run, an agent, the script cache). `job[s]` is the attempt:
dispatched for the first time or for a repair, waiting for one of the notifications of a
replacement, or done. `calls` is the log of completed tool calls by subtask and number of
the attempt, `index` and `store` the script cache, `view` the status and the graph of
phases, one operator `Moved` per transition. `Accepted` is the chain of checks an answer passes
(what it claims, the write scope, evidence in the log, the rules). The scheduler is
reduced to what the coordinator sees of it.

A tool either checks the write scope (`WriteChecked`: `write_file`, for which an empty scope
allows every path) or does not (`RunUnchecked`: a script in the sandbox, any tool of the
supervisor), and then it may write or delete any file. `spoiled` is history: the successes
one of whose files such a tool has changed since.

`engine` is what the workflow waits for between batches: the end of a batch, a new plan, the
text, the review. `Execute` begins a batch: subtasks without their tools fail at once, and if
none is left to dispatch the status does not become "executing". `batch` counts the batches
and says whether the last one was dispatched. A new plan keeps any of the successes, all of
them perhaps.

Left out: the wording of repair prompts; rounds that repair the contract of an answer and
budgets (both in `SubtaskScheduler`); which results a plan may keep, dependencies, the
delivery before its review, and ends of the task other than those of the loop of plans and
reviews (all in `WorkflowPipeline`); the event log always answers. A dispatch uses one tool,
and a script changes one file: what more of them do is done by the next attempt or subtask.

### PeriodicTaskPoller

Each method of `TaskStore` commits on its own and is an action, so another process may act
or this one die between any two. Within a process, coroutines run one at a time:
`Synchronous` names the one between two commits without an await, and excludes the rest.
`exec[p][t]` is the coroutine of `p` for `t` with what it took from the row when it was
polled: trigger and failure count are snapshots, as in the code.

Time is a number that `Tick` advances. An interval task adds its period; a cron task is
solved on the wall clock of its time zone (`WallClock`, `Moment`), which may be set back by
`FoldBy` at `FoldAt`; a repeated local time stands for its first occurrence, as
`replace(tzinfo=...)` makes it. `Rest` lets the model stop when the clock has reached its
bound. The misfire policy is read when a process starts, so `Policy` is a sequence: one
instance covers a change of the setting. `MaxRestarts` bounds stops and crashes too: a
process that goes down comes up again.

### NotificationOutbox

Rows, the answers of the endpoint, and a client per caller and worker with what it has in
hand. `Reserve` is the update shared by `record_attempt` and `claim_due`: the attempt is
counted and the row leased before anything is sent. There is no clock; a row is due, waits
for a back-off, or is leased, and `Elapse` ends the wait. A lease outlives its delivery
unless the instance allows slow batches or the process has died. `mark_retry` reads
outside its transaction and is therefore two actions.

### WorkflowPipeline, PlanReuse

The engine is one coroutine with a great deal of synchronous code between its awaits, and a
second one (`run()`) that waits for it, the watchdog and the deadline. `main` is the first:
`at` is the await where it is suspended (the refresh of external tools, a request for a
plan, its review, the creation of tools, a batch in `schedule()`, aggregation, result
review, the notification of a human) or `ended`, and `then` says for what, or how it ended.
The same variable is the background review and a resumption, which `task.mode` tells apart:
they never overlap. `wrap` is `run()`.

`task` is what `WorkflowState`, the gateway, the gate and the checkpoint file know of the
task. The synchronous code is written as operators over this record, one per method, which
call each other as the methods do and end in `Suspend` (the next await), `Return` (an
output) or `Raise` (an exception, which `Raise` and `MainEnds` map to a status as the
handlers do). An action is what happens when an await returns. `accepted` and `judged` are
history: the versions that passed review, and the results the last passed review was about.

A batch is handed to the scheduler as `SubtaskPlan` promises it: each subtask gets one
result, after its dependencies; `SubtaskSettled` also writes the checkpoint, as the callback
does. A batch that is interrupted keeps what finishes while it shuts down (`Late`).

Subtasks, names and dependencies are the same in every version of a plan here, and
`Keepable` is the family of sets of old results a new version may keep. Where names change,
`PlanReuse` is the validation itself: `Round` is one pass over the declarations with the
mapping of its beginning, `Reused` the rounds until nothing more passes.

Left out: the statuses of a replacement (`SubtaskExecution`), expiry of grants
(`Delegation`), how a proposal becomes a plan (`PlanAdoption`), the option to aggregate and
review in parallel, failures to write the checkpoint. A task lacks one tool per subtask at
most, and the alignment of the tool registry with candidates on disk is part of the creation
of tools (`ToolRegistry`).

### TaskIntake: TaskRouting, PlanAdoption, PlanShape

`TaskRouting` follows a request from `classify` to an answer, a scheduled task, a written
file or the workflow. A text is a set of clauses; of a clause the regular expressions see
whether it acts, on what, whether it promises an artefact, is negated (by one or both of
the lists of negations), which files it names and what it wants them to contain.

`PlanAdoption` follows one planning request: `Adopted` is the chain of rewriting a proposal
goes through (cleaning, merging of report steps, tools and rules completed), `Decision` the
parallelism, `Structured` the validation; then simple plans skip the review, or models and
the deterministic rule judge, and tools are granted. `steps` is history: the proposed
subtasks whose instructions a subtask of the plan carries. `empty` says which of title, role
and instructions a subtask lacks: the validation does not ask, the findings handed to the
reviewer do, and a merge puts titles and instructions together and keeps the role. Paths are sequences of segments;
`Normalized` and `Overlap` are the code's, `Reach` is what a path really denotes. A path has
one of the forms of `Followed`: `./` in front, a pattern at the end; of others the code sees
less than it should (section 3).

### WebTasks

`mem` are the `WebTask` objects (status, cancellation, whether the manager has the engine,
and the runner's await), `disk` what survives: rows, the order of `finished_at`, sandbox
directories, and what is older than the retention period. `up` is the process: the manager
is `built` by `create_app` before the lifespan takes the lock (`serving`), then `closing`
(workers stop, runners go on) and `draining`. Crashes, graceful stops, a second instance
and a kill in the middle of the clean-up are actions. A runner cancelled before its first
step never runs (`stillborn`), as asyncio does it.

### Delegation

`stage` is the batch window, `grants[s]` every grant the gateway ever issued for a slot
(`plan_grant_map` holds the last), `agent[a]` a subagent with the call it has under way,
`active` the registry, `approval[k]` the row of a risky call in the shared database.
`Permitted` is `verify_grant` plus the binding of the agent to its own credential.
Approvals are modelled by their polls: `Poll` reads, `GiveUp` expires and reads again, a
human's `Decide` may come between. A tick is a poll interval.

### CodeAgentRun, ContextCompaction

`turn` are the tool calls of a turn, which run concurrently; `ledger` the read ledger
(digest of the file and lines told) and the action ledger (fingerprint of the workspace and
repeats); `source` the history, `comp` the folded prefix kept per first item, `sent` what
the model saw last. `OthersWrite` is any other subtask in the same sandbox. `Folded` is
`compact_model_input`: the cut, receipts, dropped messages and pairs, unpaired items.
Sizes are in units of a receipt.

Three limits shape a read, and each may be off: its lines, its characters (`WindowOf` ends
before the line that does not fit, and a first line that alone is too long is cut,
`TooLong`), and the characters of every output, which decides what the ledger records
(`Recordable`). `Width` is the length of a line, `CutNote` that of the mark of a cut.

### AgentStream

`phase`, `pending` and `silent` are the locals of `run_agent_streamed`; `started`,
`running` and `sdk` are what the SDK does, a choice within its protocol (a turn's calls,
then their outputs, which may be lost). `Settled` takes the pending entry an output is for,
`CardEnded` the card of the page an event is for: the two pairings are different code.

### SupervisorCalls

Each call has a `pc` between its awaits; gate, provider health and budget are shared.
`Late` compares the gate's generation with the one of the call's start. `OrderedProviders`
is the gateway's failover with cooldown. A review's output is a record of what
`_coerce_structured_output`, the contradiction check and the single repair look at.

### ToolRegistry

`source[t]` is the file of a tool, `disk` registry.json, `mem[p]` the copy each task holds;
a manifest is a record of hash, review, safety, verification, use, pin and deprecation.
`flow[p]` is `_create_and_approve_tool`. A section under the lock file is one action, or it
times out after ten seconds and nothing is saved; every read of the file before it, and
every await of an agent, is a point where other tasks, the sweep and the console interleave.

### ExternalMcp

`manager` is the `MCPDirectoryManager` with the task it works for; `directory` are the
manifests. A signature is a function of them: which are there, and when each was written, for
a manifest that is written gets a new time. A server that is moved away and back has the old
one, and so has the directory then; the missing root has the signature that never counts as
known. The signature is taken and the manifests are read in two actions, between which a user
may edit (`torn`: history, that this happened). A refresh takes its tools back first, and a
task that is cancelled at the await of a discovery leaves it there (`cut`: history, that no
refresh was completed since). Two contents written with one size within one tick of the
file's clock have one signature in the code; here they do not.
`connection[k]` is an `ExternalMCPServer` with its transport: `holder` is the lock of
`post()`, `child` its process, `greeted` the flag `_initialized`. `child[c].out` is the pipe
with the answers, which a server gives in any order and between other lines; requests that
were given up leave theirs in it. A message is told apart by whose it is (the id) and
whether it greets. A request's `pc` is its await; a discovery is a request of its own.

Servers are discovered in any order (the code sorts them). Left out: `aclose`, which the
engine never calls, the watcher, and what makes a configuration valid.

## 3. Runs

Twelve runs, all of which pass; every property is refuted by at least one faulty variant of
a definition that models code, in the run that checks it.

| Run | Instance | Shows |
|---|---|---|
| `Scheduler` | `a` free, `b` after a subtask of an earlier batch, `c` after `a`; 2 agents, 2 attempts, 1 repair, 1 replacement; each subtask fails in its own ways; stop, cancel, overspending, limits, expiry | attempts stay bounded over retries, repairs and replacements; every behaviour is one of `SubtaskPlan`; every schedule ends |
| `Execution` | two scenes of two subtasks with one file each. "files": one for `code_agent`, one for the supervisor, 2 attempts, 1 repair, 1 replacement, 1 new plan; tools that write or delete any file, a file left over, a cache that may be damaged. "batches": both for the supervisor, 1 attempt, 2 replacements, 2 new plans, 1 rework, tools that cannot be made, plans that keep any results | accepted success stays backed by the sandbox until an unchecked tool changes its files; evidence is of the attempt; what is staged was once recorded; the phase graph follows the status up to a rework, but for a plan that keeps everything |
| `Poller` | two scenes: one process with a cron task and one that runs once; two processes that may crash with the cron task | one execution at a time; open runs have an owner and no trigger runs twice (one process); a task is never due in the past again |
| `Outbox` | two scenes: one process with three callers, two of the same event; two processes, crash, slow, lost, refused, unresolved | success is real; every POST is paid for by a counted attempt; one delivery at a time (one process); every stored notification settles |
| `Pipeline` | 2 subtasks, independent or a chain, one tool missing; all five ways of delivery, 1 replan, 1 network retry, watchdog, deadline, 1 resumption; and `PlanReuse` on all plans of 3 subtasks | at return the gate is closed, grants are revoked and the status told; `completed` only for results that passed; a stop is final; everything ends; only sound results are kept |
| `Intake` | requests of up to two clauses, criteria, constraints; every dependency graph of 3 subtasks for one choice of profiles and seven graphs for all | work for tools is never completed by words; the accepted plan does what was proposed, in its order; the adoption makes no valid plan invalid, and none incomplete but for what was proposed empty; unproven write scopes never run side by side |
| `Web` | 3 tasks, memory for 2, retention of 1, guidance, 2 troubles (crash, stop, second instance) | a task is begun at most twice; the files of a task that may still work stay |
| `Delegation` | 2 slots, 2 subagents, 1 risky call, grants that expire, 2 windows | a risky tool works only on a standing approval; none works on a revoked credential; no call waits for ever |
| `CodeAgent` | two scenes: calls on a sandbox that changes, one of two lines too long for a read, an output or both, or neither; long histories over 2 runs | a receipt stands for text the model has; what is sent is well formed and of this run |
| `AgentStream` | two calls of a plain tool and one of a sandbox tool, three settings, items with and without `call_id` | no tool cut before its window; each call has one settled card; silence ends the run |
| `SupervisorCalls` | a supervisor and a review, 2 providers, budgets, parse retry, repair, 2 stops or resets | late results are dropped; a review passes only if it said so; nothing is returned over budget |
| `ToolRegistry` | four scenes: 2 tasks that need the same or different tools, 2 sources, writes, uses, console, sweep, crash and lock timeout; 2 calls and a discovery over one process that may end and be started again; 2 servers whose manifests are written, moved away and moved back around three connections | whatever is written over what, approval is of the reviewed source; no use is lost; an external tool's answer is its own, its process was greeted, and the tools of a task are those last reported of the directory, unless a refresh was cut off |

### Bounds and why they suffice

Three subtasks are the least in which a dependency, a competitor and a chain occur; two
attempts, one repair and a threshold of two reach every rule of `decide` on both sides of
its limit; one replacement with two candidates reaches the quota. The failures of
`MCSubtaskScheduler` are one per class of decision: an agent that gives up (replaced), a
network error and a refused service (back-off, the breaker), a broken contract (repair,
where a claimed network error must count for nothing) and a permission (no retry).
`MaxTime` covers two missed triggers beyond the grace and three retries; one restart lets
every step be the one a crash interrupts. Two attempts let an outbox row be retried once
and given up. For the pipeline two subtasks suffice for a batch that is partly settled, a
rework of one beside the other, reuse with and without a dependency, and the simple plan.
In `Intake` three subtasks allow a merge, a dependency on what was merged and a writer
beside both; patterns occur as `dir/*` only. Three tasks for a memory of two reach
eviction, retention and a full memory with a running task. Two windows let an agent outlive
the credential it was made with. A code agent's history of two turns with sizes 7, 3 and 4
is folded once and again; a second run with the same payload meets the first one's state.
Two tasks and two sources suffice for every order of overwriting a tool between its review,
its trial and its registration; the quarantine's threshold is one. Two calls beside a discovery put three answers
into one pipe, of which two may be late; two changes of the directory bring it
back to a state it had, around a refresh that is cut off. In "batches" two replacements run at
once, two new plans let one that keeps everything follow one that does not, and files and
answers are reduced to what a success needs; in "files" the replacement is in the first batch,
and the review is left to "batches". A long line of three characters is cut by a limit of
three and longer than an output of three, and is neither under the other settings; two lines are read at most before a call fails.
`CHECK_DEADLOCK FALSE` stands where the system really stops when its work is done.
Symmetry is not used: the values stand for different roles.

### Fairness

The event loop runs every coroutine that can run and `schedule()` itself (weak fairness on
each); executors, sleeps and notifications end because the calls they make have idle
timeouts. For the store: the clock runs, a process that is up polls, an action ends, a
process that is down is started again. For the outbox: a worker drains in every interval,
a POST has a timeout. For the pipeline: the event loop runs both coroutines, and calls to
models and tools end (each has an idle timeout); its `Fairness` states this without
`ENABLED`, which TLC evaluates slowly for operators this deep: a main coroutine that has
not ended takes steps for ever. It always has one (a call returns, an exception or an
interruption), so this is its weak fairness. For `Delegation`: time passes, a notification
has its own timeouts, a waiting call polls. For `AgentStream`: the clock runs, a due cut is
made, closing ends within its grace; nothing is assumed of the model or the tools. `WebTasks`,
`CodeAgentRun`, `SupervisorCalls`, `ToolRegistry`, `ExternalMcp`, `SubtaskExecution` and
`TaskIntake` are checked for safety only. Nothing is assumed of stops, cancellations, failures and crashes.

### What the code does and the repository says otherwise

`findings` in `PROJECT.json` quotes the sentence and says what the code does, with its line.
Where there is a formula, it stands in the module under the name given here, commented as
not true of the code, and no run checks it; TLC refutes each within seconds on the instance
of the module's run or the variation named.

| Formula | Refuted by |
|---|---|
| `TriggerHandledOnce` | two pollers: a stale row is claimed again |
| `RecoverableAcrossProcesses` | a task that ran when its process died keeps its status |
| `NoStorm` with `FoldBy` above 0 | the hour that the clocks repeat |
| `ResultsOfThisPlan` | a checkpoint brings back a success of the version before |
| `BuiltOnKept` without `NamesMeanTheSame` | declarations that exchange names |
| `ResolvedIsReady` | a tool corrected once is not statically checked again |
| `HumanIsGuidable` | a routed run that ends with a human leaves no engine |
| `ReleasedHoldsNoSlot` | `agent_released` is logged, the place stays taken |
| `GrantsEndWithWindow` | grants are renewed for every subtask, revoked for the batch's |
| `RepairKeepsVerdict` | a review that said no is repaired into one that says yes |
| `EvidenceOfThisAgent`, `ProducedByAgents` | evidence of an earlier agent, files of the cache or an earlier attempt |
| `NumbersAreClose` | NaN passes every tolerance |
| `AlwaysBacked` | a script, a tool of the supervisor or a write without a scope changes a file that another success was judged by, which is not judged again |
| `PhaseAlwaysMirrors` | a transition the graph lacks is dropped without a trace: after a rework, and when a plan keeps every result |
| `ReceiptsInFull` | a line that `code_agent_read_max_chars` cuts counts as read where outputs may be longer |
| `ToolsStayReported` | a refresh that was cut off, and a directory put back as it was: the next task gets the old report and no tools |
| `UnorderedWritersApart`, and `UnprovenNeverParallel` for subtasks without declared tools | conflicts are looked for within a layer; undeclared tools count as read-only |
| `AdoptionKeepsValid` with two merges | a merge into a step that is merged itself |
| `OnlyWantedFiles` | a file that is only named is written |
| `ChildrenInUse` | connections that are replaced keep their processes |

The others concern two sides of which one is outside a module: a second web instance is
built before it is refused, usage of failed supervisor runs is never counted, merging looks
at the role while routing looks at the tools, a simple plan with a broad tool skips every
review, and paths that overlap in ways `_paths_overlap` does not see: a pattern within a
path or for parts of names, `.` or a doubled slash between parts; and a path that is only `./`,
which it drops.

The same property may hold in one instance and fail in another: `OneDelivery`,
`OpenRunsOwned` and `TriggerHandledOnce` hold for one process and fail for two, which is
why the runs state them for a scene.

### More behaviour a reader may not expect

The models contain these too, or stop where they begin; no property states the opposite.

- Scheduler. The end of a failed chain of three is reported as a dependency anomaly that
  contradicts the validated graph: the list of subtasks to skip is older than the round's
  results (`runtime/scheduler.py`, 429 against 381). A tripped breaker does not serialise
  coroutines already released (README.md:133, `runtime/scheduler.py:415`). A budget
  exception in the shutdown loses the results after it (498 says they are kept, 519 leaves
  the loop); three more cancellations end the shutdown with coroutines running (507, 510).
  An executor that turns its cancellation into a failed result is attempted again
  (`runtime/scheduler_attempts.py`, 620 against 646).
- Classification. Keywords are substrings ("information" contains "format"); a result is
  classified by `error` or else `output`, its fingerprint by `error` only. A failed
  replacement leaves the status REPLACEMENT_EXECUTING; identical reasons are told once in a
  rework.
- Persistent tasks. Retries are counted against the row the poll has read
  (`task_scheduler.py`, 9 against 326), so two processes retry more often; a crash between
  completion and rescheduling ends a recurring task (6 against 303).
- Outbox. A crash at the last attempt, or a stored target that cannot be prepared once,
  ends a notification undelivered; one whose target does not resolve is never stored
  (`runtime/notifications.py:199`); a caller is told that a row waits for its retry when it
  has been given up (222 against 218).
- Pipeline. "Both timeouts hand the task to a human" (`workflow.py:789`): the watchdog
  stops the gate first (863), and a pipeline that meets it before `run()` wakes up ends as
  cancelled. "Every exit revokes the grants" (README.md:138): `resume_with_guidance` and
  the background review have no such cleanup. A cancellation during the final review is not
  seen after it (`workflow.py`, 1112); `cancel_requested` is never reset, so a task handed
  to a human after a request to cancel it is cancelled again when it is resumed in the same
  engine. A second early delivery announces a background review that is not started
  (`workflow_provisional.py:64` against `workflow.py:1087`). A human who resumes executes
  the current plan, one that the review rejected too, and grants are issued for it
  (`planning_grants.py:67` says only after both reviews); with a choice of subtasks to roll
  back, others stay failed and the task can be completed. A missing tool for one subtask
  fails the whole batch when another depends on it (`execution_coordinator.py:996`). An
  engine restored from a checkpoint has no token budget (`workflow_supervisor.py:121`).
- Planning. The check for overlapping scopes that lets a simple plan skip review compares
  texts only; misspelled dependencies are dropped without a word.
- Web. A `scheduled` task is never pruned, and a hundred of them block `submit`
  (`web/manager.py:275`); a resumed run that returns `completed_provisional` is never
  awaited; a runner cancelled before its first step stays queued; a task waiting for a
  human may be evicted from memory; a recovered row beyond the newest hundred is never run;
  a graceful shutdown cancels what a crash would resume (README.md:151); `_cleanup_orphans`
  with unreadable ids deletes the old directories of living tasks; a crash between creating
  a scheduled task and recording it creates it twice.
- Delegation. An expired or denied approval of one key can never be asked again; an approved
  one is used without limit; a grant may expire during the wait for a human.
- Code agent. With the default limits (12000 characters for a read and for an output) a
  line too long for them is never recorded, and given again at every read. After folding, `read_file` still answers `unchanged` for text the model no
  longer sees in full; two identical scripts of one turn both run; an extended run counts
  its turns from 0.
- Streaming. An output without `call_id` leaves cards running; with two anonymous calls of
  one tool the wrong one may be settled.
- Supervisor. Review calls are neither checked against the gate nor cut for silence; a call
  may start after the budget is exceeded; after a cooldown one failure suffices for the next.
- Tool registry. Stale memory written back ends a quarantine or a pin set in the console;
  an entry that no longer loads hides those after it; a deprecated tool used in its grace is
  archived all the same; a lock that times out loses uses; the version of an approved tool
  cannot be changed; the hash is checked before the sandbox reads the file.

## 4. Theorems

TLAPS proves, for every value of the constants that satisfies the named assumptions:

- `SubtaskSchedulerProofs`: `TypeCorrect` and `WorkOfOneAgentBounded`. `AttemptsBounded`
  is not inductive alone: a coroutine that wakes from a back-off enters another attempt
  without asking the policy again. `BoundedJob` adds that a job in back-off has an attempt
  left. `SchedulerImplementsPlan` is the refinement: every step of the scheduler is a step of
  `SubtaskPlan` or a stutter. What a subtask has come to is kept twice, by its coroutine and
  in the results its dependants look at; `PlanSound` says how far the two agree, and that a
  subtask queues only when all it depends on succeeded. Writing off what lies below a failure
  is a least fixed point; that it stays below needs `WellFoundedInduction` on the acyclic
  plan. Assumptions: `SchedulerAssumption`, `BreakerAssumption`.

  The same module holds the theorems of `FailureClassification`: `ClassifyTyped` (every
  failure has a type the policy knows), `AgentTextTrusted` and `AgentTextHasNoAuthority`:
  whatever an agent reports, in whatever combination of keywords, is taken for one of the four
  types it may claim, so its words alone neither stop the task nor make it wait nor count
  against the provider. They rest on `FirstIndex` and `FirstMatchHits`, that the first rule
  hit exists and is one of the text's.
- `PeriodicTaskPollerProofs`: `TypeCorrect`, `ExclusiveExecution`, `NoStormWithoutFold`,
  `OpenRunsAreOwned` (`OpenRunsOwned`) and `TriggersHandledOnce` (`TriggerHandledOnce`).
  Exclusion follows from `ClaimHeld` (the row of a task with a claimed coroutine is running
  or completed, so nobody else can claim it) and `Unborn` (no coroutine exists for
  a task that was not created). The last is an action property with the hypothesis
  `FoldBy = 0`, without which it is false. For the last two, `OnCourse` says once for all
  twelve actions of a coroutine what a step makes of its state, its history and its row
  (`Course`); what the invariants need of a step is then read off the course. `Owned`: an
  open row is held by a coroutine, and only a stopping process has cancelled ones, so a stop
  drops none; it needs that no process crashes. `Orderly`: the trigger of a coroutine, the
  time it will write and the time of a scheduled row lie after all triggers that were
  completed or skipped; it needs `FoldBy = 0` and one process, for another one may have read
  the row before (the second scene), but it allows crashes. `OpenRunsAreOwnedAlone` and
  `TriggersHandledOnceAlone` state both of the scene "single" that the run checks.
  Assumptions: `PollerAssumption` and `DelayAssumption` (powers of two are numbers).
- `NotificationOutboxProofs`: `TypeCorrect`, `SuccessesAreReal`, `EveryPostPaidFor`,
  `OneDeliveryInOneHost` (`OneDelivery`) and, for the scene the run checks,
  `DeliveredOnceAlone` (`OneDeliveryAlone`). The first two follow from `Inductive`, which ties what a coroutine has in hand to the
  endpoint's answers. The third needs a count: POSTs of an event plus coroutines that hold
  a reservation for it never exceed its attempts (`Paid`), one lemma per kind of step.
  `Leased` carries the last two: what a coroutine has in hand is leased, and between the two
  commits of a caller nobody of its host moves. Both hypotheses, one host and no batch that
  outlives its lease, are needed: the scene "shared" has deliveries that overlap.
  Assumption: `OutboxAssumption` (finitely many events and clients).
- `WorkflowPipelineProofs`: `TypeCorrect`, `RunCloses` (`ClosedOnReturn`), `GateIsFinal`
  (`StopIsFinal`) and `CompletedIsVerified` (`DeliveredIsVerified`). The synchronous code between two awaits is nested some ten operators
  deep, so each has a lemma of its own that says what it leaves behind: `Leaves` for a task
  in any state, `Halts` for one whose gate is stopped. Two facts make the types inductive:
  a version of the plan is adopted once per replan and once before the first (`Paid`), and
  a plan is asked for only with an adoption in hand. `Flow` adds what `ClosedOnReturn` needs:
  what run() waits for when it waits, and that nothing works on a task in the mode "run"
  after run() was left. `CompletedIsVerified` is proved from `Unresumed`: until a human
  resumes the task, `Progress` ties the place where the coroutine waits to what has succeeded
  by then, and every result is of the current version of the plan or was declared reused; a
  task read from a checkpoint rests. A third lemma per operator (`...Verifies`) says what it
  may deliver. Assumption: `PipelineAssumption`; the graphs, the tools, the quotas
  and the configurations are arbitrary.
- `RequestProofs`: of the calls of the supervisor, `TypeCorrect`, `LateIsIsolated`,
  `PassIsSaid` and `BudgetGuardsResults`. A late result is dropped because a call that was under way at a stop
  or reset carries an older generation than the gate, which only grows (`MissedIsLate`,
  with `Flow`: no call is of a later generation than the gate). `Fits` says what a step may
  make of a call, once for all the steps a call has. Of the routing,
  `WorkCompletedByTools` (`CompletedByTools`): what was routed stays what was routed, a file
  is written by a tool of the request alone, and a way to be done names its evidence.
  Of the plan, `PlansAreFaithful` (`PlanIsFaithful`), for any proposals and any number of
  merges. `MergeSound` says what the loop over the report steps keeps: every proposed subtask
  is contained in exactly one that is left, an absorbed one wherever the one it went into is,
  and it depended on nothing else. So a dependency is inside one subtask, or redirected to
  the one that carries it (`LeadKept`), and along chains of them the order stays (`OrderKept`).
  That no subtask waits for itself is what the rounds of the validation show: those that wait
  for each other are never resolved (`NeverResolved`).
  `UnprovenStaysSerial` (`UnprovenNeverParallel`) joins two facts. Of the order: the layer of
  a subtask is its depth, the longest chain before it (`DepthIsLayer`), for a chain has at
  most one member in a layer (`ChainsAreShort`) and one goes back through all of them
  (`ChainThroughLayers`). Of the texts: two paths that reach one file overlap as the code
  compares them (`ReachedByBoth`), by what is left of a path once dots and pattern are taken
  off (`PlainOf`). That the plan is still the one the parallelism was decided for is
  `ParallelKept`.
  `AdoptionKeepsValidity` (`AdoptionKeepsValid`) has two directions. That only valid
  proposals pass holds for any number of merges, and `OnlyValidIsAccepted` states it
  (`NoCycleHidden`): a cycle passes through a subtask that is left, since what is absorbed
  never goes round in a circle (the last part of `MergeScopes`), and such a cycle stays one.
  That valid ones do pass has the hypothesis `MaxMerges <= 1`, the setting's default, without
  which it is false (section 3): then nothing is merged into what is merged itself
  (`MergedFlat`), and the plan orders no more than the proposal did
  (`OrderComesFromProposal`). That what the findings miss was empty in the proposal, in a
  subtask that is still there, is `EmptyWasProposed`: no merge empties a field. That a plan without a cycle passes is `AcyclicIsResolved`:
  every round resolves one more, so as many rounds as there are subtasks suffice.
  Assumptions: `CallsAssumption`, `RoutingAssumption`, `AdoptionAssumption`,
  `ProposalAssumption` (a proposal is a list of subtasks, none of which contains another) and,
  for `UnprovenStaysSerial` alone, `PathAssumption` (the paths are of the forms followed).
- `AgentProofs`: of delegation, `TypeCorrect`, `ToolsApproved` and `RevokedIsDead`. Credentials are
  revoked only when no subtask of the batch runs, and by `Belongs` an agent is used only
  while its subtask runs, so none is in a call then; an approval never loses the status
  "approved" (`Kept`), so it still stands when the tool works. Assumption:
  `DelegationAssumption`.
  Of the execution of a batch, `ExecutionTypeCorrect`, `SuccessHasEvidence`
  (`EvidenceOfThisAttempt`), `StagedAreRecorded` (`StagedWereRecorded`), `PhaseFollowsStatus`
  (`PhaseMirrors`) and `SuccessStaysBacked` (`SuccessBacked`). `JobsSound` says of every
  coroutine what its attempt may have recorded by then, `CallsOfThisBatch` that no call
  is of a batch to come. `ViewSound` goes through the places where the workflow waits and says
  which views each has: a batch that was dispatched mirrors its status, one that was not still
  has the view of its plan and has ended, and only a plan that keeps everything leaves the
  graph behind (`Behind`). Any number of replacements may be under way, for `WorkMirrors`
  looks at the status alone. A rework, where the statement ends, is where the graph has no
  edge. That a success stays backed needs that no subtask declares what another declares or is
  judged by (`ScopesApart`), which the plan of the run satisfies: then a write that is checked
  touches no other success, and one that is not puts it among the `spoiled` (`ToolEffect`).
  Assumption: `ExecutionAssumption`.
  Of the code agent, `RunTypeCorrect`, `ReceiptsAreBacked` (`ReceiptIsBacked`),
  `HistoryStaysPaired` (`Paired`) and `HistoryIsOwn` (`OwnHistory`). `StandsFor` says when a
  list stands for the beginning of a history: it is in order, whatever it holds is of that
  beginning, a call stays with its output, and a call whose output comes later stays. Receipts,
  the removal of messages and of pairs keep it (`ReceiptsStand`, `WithoutMessagesStands`,
  `WithoutPairsStands`), so nothing is left for the last resort of the folding to remove
  (`NothingUnpaired`), and what follows the beginning completes it (`StandsWhole`). The
  boundary lies behind a call or an output (`CutSound`), whose id and run tell later whether
  a state belongs to this history: `StatesSound`. The state of the task alone is the one
  exception, and it stands for the beginning of every history (`StandsForTask`). Receipts rest
  on `ReadsSound`: what the ledger holds was given, of the file with that digest, and no line
  of it was cut if the limit of outputs is the narrower one (`OutputIsNarrower`, as the
  defaults have it), for the window of a cut line is then too long to be recorded. Without
  that hypothesis the second half is false (`ReceiptsInFull`).
  Assumptions: `CodeAgentAssumption`, `CompactionAssumption`.
  Of the stream, `ToolsKeepTheirWindow` (`NoToolCutEarly`) and `CallsSettledOnce`
  (`EveryCallSettledOnce`). An output without a `call_id` may settle the entry of another
  call, so it is not true that each tool at work has its own entry. What is true is that the
  tools at work can be matched, one to one, with entries that last as long (`Matches`): an
  output settles an entry of its call or one that every other entry covers, and the tools
  exchange entries (`SettledSound`, `StillMatches`). That calls are settled once rests on
  `CardsOf`: each call has one card, which is running exactly as long as the call is pending;
  what the loop of the `finally` block leaves is proved by induction on the number of entries
  (`FinalizedIs`, `FinalizedCards`). Assumption: `StreamAssumption`.
- `ToolRegistryProofs`: `TypeCorrect` and `ApprovalsReviewed`. The invariant is said of every
  copy of a manifest there is (`Sound`, `SoundFlow`): on disk, in the memory of a task, in the
  snapshot and in the hands of a flow, for any of them may be written over another. `Backed`
  are the manifests whose approval, if they have one, is of a hash that was reviewed; every
  way of copying, merging or changing manifests stays within it, and overwriting the source
  of a tool changes no manifest. `NoUseLost` (`UsesCounted`) needs the opposite direction:
  no copy counts more uses of a tool than the file (`CopiesKnowLess`), so that merging by the
  greater count loses nothing. Assumption: `ToolRegistryAssumption`.
  For `ExternalMcp`: `McpTypeCorrect` and `ExternalToolsAreSound`. Answers match because only
  the holder of a connection's lock reads its pipe and skips what is not its own
  (`ExchangeSound`). Of the directory, a manifest with the time at which it was read is the one
  that was read (`ReadBefore`), so equal signatures mean equal manifests although signatures
  come back; a signature is taken over only with the whole of a refresh, and one that was cut
  off was of another signature, or of a missing root (`RefreshSound`). So a task that finds the
  directory known has its tools, or a refresh of another state was cut off since. Assumption:
  `McpAssumption`.
- `WebTasksProofs`: `TypeCorrect`, `AtMostTwoStarts` (`ResumedAtMostOnce`) and
  `LivingKeepTheirFiles` (`FilesOfTheLiving`). A row counts every start of its task but the
  first (`RowAhead`); a manager resumes only what it has counted (`RecoveryPaid`) and only
  before it serves, and a runner's row is never one that ended (`RunnerKnown`), so retention,
  which looks at rows, passes it by. Assumption: `WebAssumption`.

Recursive functions (`Resolved`, `Merges`, `Remaining`, `Plain`, `Finalized`) are reasoned about without an
induction theorem: that the function exists, and what holds of it after `n` steps, is shown of
the least number that refutes it (`FirstNumber`).

Only model-checked: liveness, fairness and `ENABLED`, which are out of the prover's reach
(`SettlesShared`, both `Terminates`, `Answered`, `SilenceEnds`). Every other property of the
runs has its theorem, with the hypotheses named above. The operators of `PlanReuse` are
checked against a definition over bounded inputs; of `PlanShape`, layers and conflicts are
proved about, and the thresholds, which only decide how many of what may run side by side do,
stand in no property.

## 5. Plan

Done: everything in the table of section 2. What is left, most important first:

1. The pipeline with three subtasks, and with aggregation and review in parallel.
2. The audit trail.

## 6. Not modelled

What a model, a tool, a container or an MCP server does (its outcome is a choice); the
content of prompts, plans and reviews; views of the web application; configuration,
logging, telemetry and migration of old databases. Quality scores and the result store
compute over finished tasks and feed nothing back. An entry of the audit trail is
appended in one transaction, which serialises its writers; it is left to the plan. The
sandbox and the containers are processes outside the program; what the code assumes of them
stands in the modules that use them. `PROJECT.json` marks them `not_modelled` with the reason, and a
component `partly` where an operation of it is listed as left out above.
