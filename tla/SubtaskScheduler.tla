---------------------------- MODULE SubtaskScheduler ----------------------------
(***************************************************************************)
(* One call of SubtaskDAGScheduler.schedule (runtime/scheduler.py) with the *)
(* coroutines it owns (runtime/scheduler_attempts.py), the agent registry   *)
(* they take slots from (runtime/registry.py), the pipeline gate, and the   *)
(* runtime breaker.                                                         *)
(*                                                                         *)
(* Everything runs on one asyncio event loop, so an action is what happens  *)
(* between two awaits: a coroutine step is atomic, and the synchronous      *)
(* parts of schedule() (loop = "dispatch" and "collect") exclude every      *)
(* coroutine.  An executor call, a back-off sleep and each lifecycle        *)
(* notification are awaits, hence values of pc.                             *)
(***************************************************************************)
EXTENDS RecoveryPolicy, RuntimeBreaker, FiniteSets

CONSTANTS
  Subtask,              \* the subtasks of one batch of one plan version
  Deps,                 \* Deps[s]: the ids s depends on
  Prior,                \* outcomes of dependencies outside the batch
  Concurrency,          \* the semaphore of schedule()
  MaxDynamicAgents,     \* settings.max_dynamic_agents
  MaxReplacements,      \* settings.max_replacement_requests
  EarlierReplacements,  \* requests already made by earlier batches of the task
  MaxAttempts,          \* min(spec.max_attempts, settings.max_agent_attempts)
  RepairMax,            \* settings.recovery_repair_contract_max_attempts
  SuppressThreshold,    \* settings.recovery_retry_suppress_threshold
  Cause,                \* Cause[s]: failure fingerprints the executor of s can produce
  Faults                \* what the environment may do in this instance

External == DOMAIN Prior

ASSUME SchedulerAssumption ==
  /\ IsFiniteSet(Subtask)
  /\ External \cap Subtask = {}
  /\ Prior \in [External -> {"success", "failed"}]
  /\ Deps \in [Subtask -> SUBSET (Subtask \cup External)]
  /\ Concurrency \in Nat \ {0}
  /\ MaxDynamicAgents \in Nat
  /\ MaxReplacements \in Nat
  /\ EarlierReplacements \in 0..MaxReplacements
  /\ MaxAttempts \in Nat \ {0}
  /\ RepairMax \in Nat
  /\ SuppressThreshold \in Nat \ {0}
  /\ Cause \in [Subtask -> SUBSET (FailureType \X Nat)]
  /\ Faults \subseteq {"stop", "expire", "overspend", "cancel", "limits",
                       "swallow_failed"}

\* What _validate_dag leaves through: no set of subtasks waits on itself.
Acyclic == \A S \in SUBSET Subtask : S # {} => \E s \in S : Deps[s] \cap S = {}

ASSUME AcyclicAssumption == Acyclic

VARIABLES
  loop,          \* where schedule() is
  outcome,       \* how schedule() ends
  batch,         \* finished tasks of one asyncio.wait still to be collected
  swallowed,     \* cancellations _shutdown_running has swallowed
  result,        \* results: subtask_id -> what was recorded
  job,           \* the coroutine of each subtask
  slots,         \* AgentRegistry._active
  replacements,  \* _replacement_counts[task_id]
  issues,        \* subtasks with a TaskDecompositionIssue
  breaker,
  stopping,      \* gate.stopping
  expired,       \* gate.remaining() = 0
  overspent      \* the token budget of the task is exceeded

sched  == <<loop, outcome, batch, swallowed, result, breaker>>
work   == <<job, slots, replacements, issues>>
gate   == <<stopping, expired, overspent>>
vars   == <<sched, work, gate>>

----------------------------------------------------------------------------
Kind == {"primary", "replacement"}

\* A failed result carries the failure type its metadata names, if any.
FailedVerdict == FailureType \cup {"unclassified"}
Interrupted   == {"stopped", "cancelled", "exceeded"}
Verdict       == {"none", "success"} \cup FailedVerdict \cup Interrupted

Suspended == {"queued", "executing", "backoff", "requesting", "announcing",
              "reporting", "cancelling"}
Location  == {"pending", "finished", "collected"} \cup Suspended

Fingerprint == (FailureType \X Nat) \cup {<<"none", 0>>}
NoStreak == [cause |-> <<"none", 0>>, n |-> 0]

Job == [pc       : Location,
        kind     : Kind,
        attempt  : Nat,
        repairs  : Nat,
        streak   : [cause : Fingerprint, n : Nat],
        verdict  : Verdict,
        cancel   : {"none", "sent", "consumed"},
        told     : {"nothing", "requested", "executing", "closed"}]

IdleJob == [pc |-> "pending", kind |-> "primary", attempt |-> 0, repairs |-> 0,
            streak |-> NoStreak, verdict |-> "none", cancel |-> "none",
            told |-> "nothing"]

Result == {"none", "success", "failed", "skipped", "unschedulable"}

At(loc)    == {s \in Subtask : job[s].pc \in loc}
Pending    == At({"pending"})
Running    == At(Suspended \cup {"finished"})
Executing  == At({"executing"})

\* Coroutines that hold the semaphore of schedule().
Holding    == At(Suspended \ {"queued"})

\* Coroutines run only while schedule() is suspended, or has ended.
Yielded == loop \in {"wait", "shutdown", "done"}

GateAllows == ~stopping /\ ~expired

DepResult(d) == IF d \in Subtask THEN result[d] ELSE Prior[d]
DepFailed(d) == DepResult(d) \in {"failed", "skipped", "unschedulable"}

----------------------------------------------------------------------------
(***************************************************************************)
(* Steps of one coroutine.  r is the job of s as the running step has       *)
(* changed it so far, held the slots it has taken or given back.            *)
(***************************************************************************)
Suspend(s, r, loc) == job' = [job EXCEPT ![s] = [r EXCEPT !.pc = loc]]

Finish(s, r, v) ==
  job' = [job EXCEPT ![s] = [r EXCEPT !.pc = "finished", !.verdict = v]]

\* _finalize_agent: the status is updated and the registry releases the agent.
GiveBack(held, s, k) == held \ {<<s, k>>}

\* The policy asks, the gate lets it and the quota of the task is not used up.
MayReplace(action) ==
  action = "replace" /\ GateAllows /\ replacements < MaxReplacements

\* The end of _run_attempts on a failed result, and what _execute_subtask
\* does with it up to its next await.
Conclude(s, r, type, action, held) ==
  IF r.kind = "replacement"
  THEN /\ Suspend(s, [r EXCEPT !.verdict = type], "reporting")
       /\ slots' = held
       /\ UNCHANGED <<replacements, issues>>
  ELSE /\ slots' = GiveBack(held, s, "primary")
       /\ IF MayReplace(action)
          THEN /\ Suspend(s, [r EXCEPT !.verdict = type], "requesting")
               /\ replacements' = replacements + 1
               /\ UNCHANGED issues
          ELSE /\ Finish(s, r, type)
               /\ issues' = IF GateAllows THEN issues \cup {s} ELSE issues
               /\ UNCHANGED replacements

\* A contract repair round does not count as an attempt.
CountAttempt_Forgets(r, repairRound) == r
CountAttempt(r, repairRound) ==
  IF repairRound THEN r ELSE [r EXCEPT !.attempt = @ + 1]

\* The top of the loop of _run_attempts: the gate, the remaining budget of the
\* pipeline, the hard limits of the subtask, and then the executor is called.
EnterAttempt(s, r, repairRound, held) ==
  \/ /\ stopping
     /\ Finish(s, r, "stopped")
     /\ slots' = held
     /\ UNCHANGED <<replacements, issues>>
  \/ /\ ~stopping /\ expired
     /\ Conclude(s, r, "unclassified", "none", held)
  \/ /\ GateAllows /\ "limits" \in Faults
     /\ \E type \in {"budget", "timeout"} : Conclude(s, r, type, "stop", held)
  \/ /\ GateAllows
     /\ Suspend(s, CountAttempt(r, repairRound), "executing")
     /\ slots' = held
     /\ UNCHANGED <<replacements, issues>>

\* A fresh agent starts with its own attempts, repairs and dedup scope.
NewAgent(r, k) ==
  [r EXCEPT !.kind = k, !.attempt = 0, !.repairs = 0, !.streak = NoStreak]

Full == Cardinality(slots) >= MaxDynamicAgents

CoroutineStep(s) == Yielded /\ UNCHANGED <<sched, gate>>

\* A coroutine that schedule() has not cancelled, or that swallowed it.
Undisturbed(s) == job[s].cancel # "sent"

----------------------------------------------------------------------------
\* _run_subtask_guarded gets the semaphore; _execute_subtask registers the
\* primary agent and makes its first attempt, unless the registry is full.
AcquireSlot(s) ==
  /\ CoroutineStep(s)
  /\ job[s].pc = "queued" /\ Undisturbed(s)
  /\ Cardinality(Holding) < Concurrency
  /\ IF Full
     THEN /\ Finish(s, job[s], "unclassified")
          /\ issues' = issues \cup {s}
          /\ UNCHANGED <<slots, replacements>>
     ELSE EnterAttempt(s, NewAgent(job[s], "primary"), FALSE,
                       slots \cup {<<s, "primary">>})

\* A cancelled executor may still return a result: it swallowed the
\* CancelledError, which is never delivered a second time.
Swallow(r) == IF r.cancel = "sent" THEN [r EXCEPT !.cancel = "consumed"] ELSE r

ExecutorSucceeds(s) ==
  /\ CoroutineStep(s)
  /\ job[s].pc = "executing"
  /\ LET r == Swallow(job[s])
     IN IF r.kind = "primary"
        THEN /\ Finish(s, r, "success")
             /\ slots' = GiveBack(slots, s, "primary")
        ELSE /\ Suspend(s, [r EXCEPT !.verdict = "success"], "reporting")
             /\ UNCHANGED slots
  /\ UNCHANGED <<replacements, issues>>

\* The executor fails: classify, count the streak, decide, and act on it.
ExecutorFails(s, cause) ==
  /\ CoroutineStep(s)
  /\ job[s].pc = "executing"
  /\ Undisturbed(s) \/ "swallow_failed" \in Faults
  /\ LET type   == cause[1]
         streak == RecordFailure(job[s].streak, cause)
         r      == [Swallow(job[s]) EXCEPT !.streak = streak]
         action == Decide(type, Suppressed(streak, SuppressThreshold),
                          r.attempt, MaxAttempts, r.repairs, RepairMax)
     IN \/ /\ BacksOff(type, action)
           /\ Suspend(s, r, "backoff")
           /\ UNCHANGED <<slots, replacements, issues>>
        \/ /\ action = "retry" /\ ~BacksOff(type, action)
           /\ EnterAttempt(s, r, FALSE, slots)
        \/ /\ action = "repair_contract"
           /\ EnterAttempt(s, [r EXCEPT !.repairs = @ + 1], TRUE, slots)
        \/ /\ IsTerminal(action)
           /\ Conclude(s, r, type, action, slots)

\* A BaseException leaves the executor: a nested gate check, or the token
\* budget enforced after a model call.  No handler gives the slot back.
ExecutorRaises(s) ==
  /\ CoroutineStep(s)
  /\ job[s].pc = "executing"
  /\ \/ stopping  /\ Finish(s, job[s], "stopped")
     \/ overspent /\ Finish(s, job[s], "exceeded")
  /\ UNCHANGED <<slots, replacements, issues>>

BackoffEnds(s) ==
  /\ CoroutineStep(s)
  /\ job[s].pc = "backoff" /\ Undisturbed(s)
  /\ EnterAttempt(s, job[s], FALSE, slots)

\* The registry has no place for the replacement: replacement_failed, and the
\* result of the primary stands.
RejectReplacement(s, r) == Suspend(s, r, "reporting")

\* After replacement_requested is notified the replacement is registered.
RequestNotified(s) ==
  /\ CoroutineStep(s)
  /\ job[s].pc = "requesting" /\ Undisturbed(s)
  /\ LET r == [job[s] EXCEPT !.told = "requested"]
     IN IF Full
        THEN RejectReplacement(s, r) /\ UNCHANGED slots
        ELSE /\ Suspend(s, [r EXCEPT !.kind = "replacement"], "announcing")
             /\ slots' = slots \cup {<<s, "replacement">>}
  /\ UNCHANGED <<replacements, issues>>

ExecutingNotified(s) ==
  /\ CoroutineStep(s)
  /\ job[s].pc = "announcing" /\ Undisturbed(s)
  /\ EnterAttempt(s, [NewAgent(job[s], "replacement") EXCEPT !.told = "executing"],
                  FALSE, slots)

\* replacement_completed or replacement_failed has been notified.
EndNotified(s) ==
  /\ CoroutineStep(s)
  /\ job[s].pc = "reporting" /\ Undisturbed(s)
  /\ Finish(s, [job[s] EXCEPT !.told = "closed"], job[s].verdict)
  /\ slots' = GiveBack(slots, s, "replacement")
  /\ issues' = IF job[s].verdict = "success" THEN issues ELSE issues \cup {s}
  /\ UNCHANGED replacements

\* The CancelledError of _shutdown_running reaches a suspended coroutine.
\* Only the attempts of a replacement have a handler, which notifies first.
CancelArrives(s) ==
  /\ CoroutineStep(s)
  /\ job[s].pc \in Suspended /\ job[s].cancel = "sent"
  /\ LET r == [job[s] EXCEPT !.cancel = "consumed"]
     IN IF r.kind = "replacement" /\ r.pc \in {"executing", "backoff"}
        THEN Suspend(s, r, "cancelling")
        ELSE Finish(s, r, "cancelled")
  /\ UNCHANGED <<slots, replacements, issues>>

CancelNotified(s) ==
  /\ CoroutineStep(s)
  /\ job[s].pc = "cancelling"
  /\ Finish(s, [job[s] EXCEPT !.told = "closed"], "cancelled")
  /\ UNCHANGED <<slots, replacements, issues>>

----------------------------------------------------------------------------
(***************************************************************************)
(* Steps of schedule() itself.  Leaving its loop by an exception enters     *)
(* _shutdown_running, which first cancels every task that is not done.      *)
(***************************************************************************)
Cancelled(j) ==
  [s \in Subtask |-> IF j[s].pc \in Suspended THEN [j[s] EXCEPT !.cancel = "sent"]
                     ELSE j[s]]

Abort(why, j) ==
  /\ loop' = "shutdown"
  /\ outcome' = why
  /\ batch' = {}
  /\ job' = Cancelled(j)
  /\ UNCHANGED swallowed

\* The while condition.
Unfinished == Pending # {} \/ Running # {}

Return ==
  /\ loop = "dispatch" /\ ~Unfinished
  /\ loop' = "done"
  /\ outcome' = "returned"
  /\ UNCHANGED <<batch, swallowed, result, breaker, work, gate>>

\* The gate or the budget check refuses the round.
Refuse ==
  /\ loop = "dispatch" /\ Unfinished
  /\ \/ stopping /\ Abort("stopped", job)
     \/ ~stopping /\ overspent /\ Abort("exceeded", job)
  /\ UNCHANGED <<result, breaker, slots, replacements, issues, gate>>

\* Dependencies are only looked at through their results.
Ready_DepNotFailed == {s \in Pending : \A d \in Deps[s] : ~DepFailed(d)}
Ready == {s \in Pending : \A d \in Deps[s] : DepResult(d) = "success"}

\* One round: skip below failed dependencies, release ready subtasks, and
\* when nothing runs write off whatever is left.
Dispatch ==
  /\ loop = "dispatch" /\ Unfinished
  /\ ~stopping /\ ~overspent
  /\ LET skip == {s \in Pending : \E d \in Deps[s] : DepFailed(d)}
     IN \E go \in Released(breaker, Ready, Running) :
          LET idle == Running = {} /\ go = {}
              left == IF idle THEN Pending \ skip ELSE {}
          IN /\ result' = [s \in Subtask |-> IF s \in skip THEN "skipped"
                                             ELSE IF s \in left THEN "unschedulable"
                                             ELSE result[s]]
             /\ job' = [s \in Subtask |->
                          IF s \in skip \cup left
                          THEN [job[s] EXCEPT !.pc = "collected"]
                          ELSE IF s \in go THEN [job[s] EXCEPT !.pc = "queued"]
                          ELSE job[s]]
             /\ loop' = IF idle THEN "done" ELSE "wait"
             /\ outcome' = IF idle THEN "returned" ELSE outcome
  /\ UNCHANGED <<batch, swallowed, breaker, slots, replacements, issues, gate>>

\* asyncio.wait(FIRST_COMPLETED) returns all tasks finished by now.
WakeUp ==
  /\ loop = "wait"
  /\ At({"finished"}) # {}
  /\ loop' = "collect"
  /\ batch' = At({"finished"})
  /\ UNCHANGED <<outcome, swallowed, result, breaker, work, gate>>

RecordVerdict(v) == IF v = "success" THEN "success" ELSE "failed"

\* One task of the batch is taken out of running: its result is recorded and
\* counted by the breaker, or what it raised ends the schedule.
Collect(s) ==
  /\ loop = "collect"
  /\ s \in batch
  /\ LET popped == [job EXCEPT ![s].pc = "collected"]
         v      == job[s].verdict
     IN \/ /\ v \in Interrupted
           /\ Abort(v, popped)
           /\ UNCHANGED <<result, breaker>>
        \/ /\ v \notin Interrupted
           /\ job' = popped
           /\ result' = [result EXCEPT ![s] = RecordVerdict(v)]
           /\ breaker' = IF v = "success" THEN RecordSuccess(breaker)
                         ELSE RecordFailed(breaker, v)
           /\ batch' = batch \ {s}
           /\ loop' = IF batch = {s} THEN "dispatch" ELSE "collect"
           /\ UNCHANGED <<outcome, swallowed>>
  /\ UNCHANGED <<slots, replacements, issues, gate>>

\* The coroutine that awaits schedule() is cancelled.
ParentCancelled ==
  /\ "cancel" \in Faults
  /\ loop = "wait"
  /\ Abort("cancelled", job)
  /\ UNCHANGED <<result, breaker, slots, replacements, issues, gate>>

\* _shutdown_running swallows at most three more cancellations.
ShutdownCancelled ==
  /\ "cancel" \in Faults
  /\ loop = "shutdown" /\ swallowed < 3
  /\ At(Suspended) # {}
  /\ swallowed' = swallowed + 1
  /\ UNCHANGED <<loop, outcome, batch, result, breaker, work, gate>>

\* asyncio.wait(ALL_COMPLETED) has returned, or was cancelled three times.
ShutdownWaited == At(Suspended) = {} \/ swallowed = 3

\* The results of the tasks in their order of creation (left open here).  A
\* task still running counts as failed, and a TokenBudgetExceeded escapes at
\* its turn, so the tasks after it are not looked at.
ShutdownEnds ==
  /\ loop = "shutdown"
  /\ ShutdownWaited
  /\ LET raising == {s \in At({"finished"}) : job[s].verdict = "exceeded"}
         mute    == {s \in At({"finished"}) : job[s].verdict \in Interrupted}
     IN \E seen \in IF raising = {} THEN {Running} ELSE SUBSET (Running \ raising) :
          result' = [s \in Subtask |->
                       IF s \in seen \ mute
                       THEN IF job[s].pc = "finished"
                            THEN RecordVerdict(job[s].verdict) ELSE "failed"
                       ELSE result[s]]
  /\ loop' = "done"
  /\ outcome' = IF \E s \in At({"finished"}) : job[s].verdict = "exceeded"
                THEN "exceeded" ELSE outcome
  /\ UNCHANGED <<batch, swallowed, breaker, work, gate>>

----------------------------------------------------------------------------
\* The pipeline around the schedule.  Bounds: each flag rises once.
RequestStop ==
  /\ "stop" \in Faults /\ Yielded /\ loop # "done" /\ ~stopping
  /\ stopping' = TRUE
  /\ UNCHANGED <<sched, work, expired, overspent>>

Expire ==
  /\ "expire" \in Faults /\ Yielded /\ loop # "done" /\ ~expired
  /\ expired' = TRUE
  /\ UNCHANGED <<sched, work, stopping, overspent>>

Overspend ==
  /\ "overspend" \in Faults /\ Yielded /\ loop # "done" /\ ~overspent
  /\ overspent' = TRUE
  /\ UNCHANGED <<sched, work, stopping, expired>>

Terminated ==
  /\ loop = "done" /\ At(Suspended) = {}
  /\ UNCHANGED vars

----------------------------------------------------------------------------
TrippedEarlier == [provider |-> ProviderFailureLimit, consecutive |-> 0,
                   tripped |-> TRUE]

Init ==
  /\ loop = "dispatch" /\ outcome = "none" /\ batch = {} /\ swallowed = 0
  /\ result = [s \in Subtask |-> "none"]
  /\ job = [s \in Subtask |-> IdleJob]
  /\ slots = {} /\ replacements = EarlierReplacements /\ issues = {}
  /\ breaker \in {FreshBreaker, TrippedEarlier}
  /\ stopping = FALSE /\ expired = FALSE /\ overspent = FALSE

Coroutine(s) ==
  \/ AcquireSlot(s) \/ ExecutorSucceeds(s) \/ ExecutorRaises(s)
  \/ \E cause \in Cause[s] : ExecutorFails(s, cause)
  \/ BackoffEnds(s) \/ RequestNotified(s) \/ ExecutingNotified(s)
  \/ EndNotified(s) \/ CancelArrives(s) \/ CancelNotified(s)

Schedule ==
  \/ Return \/ Refuse \/ Dispatch \/ WakeUp \/ ShutdownEnds
  \/ \E s \in Subtask : Collect(s)

Environment ==
  ParentCancelled \/ ShutdownCancelled \/ RequestStop \/ Expire \/ Overspend

Next ==
  \/ \E s \in Subtask : Coroutine(s)
  \/ Schedule \/ Environment \/ Terminated

(***************************************************************************)
(* The event loop runs every ready coroutine; an executor call ends (the    *)
(* idle windows of the inner streams see to it), and so do a back-off and a *)
(* notification.  Nothing is assumed of the environment.                    *)
(***************************************************************************)
Fairness == WF_vars(Schedule) /\ \A s \in Subtask : WF_vars(Coroutine(s))

Spec     == Init /\ [][Next]_vars
FairSpec == Spec /\ Fairness

----------------------------------------------------------------------------
(***************************************************************************)
(* Properties.                                                              *)
(***************************************************************************)

\* The type of every variable of a schedule.
TypeOK ==
  /\ loop \in {"dispatch", "wait", "collect", "shutdown", "done"}
  /\ outcome \in {"none", "returned"} \cup Interrupted
  /\ batch \subseteq Subtask
  /\ swallowed \in 0..3
  /\ result \in [Subtask -> Result]
  /\ job \in [Subtask -> Job]
  /\ slots \subseteq Subtask \X Kind
  /\ replacements \in Nat
  /\ issues \subseteq Subtask
  /\ breaker \in Breaker
  /\ stopping \in BOOLEAN /\ expired \in BOOLEAN /\ overspent \in BOOLEAN

\* Retry, repair and suppression together bound the work of one agent: neither
\* counter passes its limit, whatever order the failures come in.
AttemptsBounded ==
  \A s \in Subtask : job[s].attempt <= MaxAttempts /\ job[s].repairs <= RepairMax

\* Every schedule ends: no subtask waits for ever on a slot of the semaphore,
\* a dependency, a retry or a notification.
Terminates == <>(loop = "done")

----------------------------------------------------------------------------
(***************************************************************************)
(* The promise to the coordinator (SubtaskPlan).  A subtask counts as       *)
(* running from the call of its first executor to the return of its         *)
(* coroutine, whatever agents, retries and notifications lie between.       *)
(***************************************************************************)
StatusOf(s) ==
  IF result[s] \in {"skipped", "unschedulable"} THEN "failed"
  ELSE IF job[s].pc \in {"pending", "queued"} THEN "waiting"
  ELSE IF job[s].pc \in Suspended THEN "running"
  ELSE IF job[s].verdict = "success" THEN "succeeded"
  ELSE IF job[s].verdict \in Interrupted THEN "dropped"
  ELSE "failed"

Plan == INSTANCE SubtaskPlan WITH status <- [s \in Subtask |-> StatusOf(s)]

\* The scheduler implements the plan: no interleaving of retries, replacement,
\* cancellation and collection starts a subtask early, twice, or beside too
\* many others.
ImplementsPlan == Plan!Spec
=============================================================================
