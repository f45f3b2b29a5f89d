------------------------- MODULE SubtaskSchedulerProofs -------------------------
(***************************************************************************)
(* Theorems about SubtaskScheduler, for every plan, limit and environment:  *)
(* type correctness, the bound on the work of one agent, and that it        *)
(* implements SubtaskPlan.  The first two follow from one inductive         *)
(* invariant, Inductive, whose jobs carry the fact that makes the bound     *)
(* inductive: an agent that backs off still has an attempt left when it     *)
(* wakes up.  The refinement adds PlanSound: what is dispatched has all it  *)
(* depends on, and what is settled stays so.                                *)
(*                                                                          *)
(* The last part is about FailureClassification, which names the type of a  *)
(* failure for the policy: what an agent only says has no authority.        *)
(***************************************************************************)
EXTENDS SubtaskScheduler, FailureClassification, FiniteSetTheorems, WellFoundedInduction, TLAPS

BoundedJob ==
  {r \in Job : /\ r.attempt <= MaxAttempts /\ r.repairs <= RepairMax
               /\ r.pc = "backoff" => r.attempt < MaxAttempts}

\* What a step of one coroutine may write.
WorkOK == /\ job \in [Subtask -> BoundedJob]
          /\ slots \subseteq Subtask \X Kind
          /\ replacements \in Nat
          /\ issues \subseteq Subtask

\* What only schedule() writes.
SchedOK == /\ loop \in {"dispatch", "wait", "collect", "shutdown", "done"}
           /\ outcome \in {"none", "returned"} \cup Interrupted
           /\ batch \subseteq Subtask
           /\ swallowed \in 0..3
           /\ result \in [Subtask -> Result]
           /\ breaker \in Breaker

GateOK == stopping \in BOOLEAN /\ expired \in BOOLEAN /\ overspent \in BOOLEAN

Inductive == SchedOK /\ WorkOK /\ GateOK

----------------------------------------------------------------------------
\* A job may move to any other place, except to a back-off without an attempt
\* left, and take any verdict.
LEMMA MovedJob ==
  ASSUME NEW r \in BoundedJob, NEW loc \in Location \ {"backoff"},
         NEW v \in Verdict
  PROVE  /\ [r EXCEPT !.pc = loc] \in BoundedJob
         /\ [r EXCEPT !.verdict = v] \in BoundedJob
         /\ [r EXCEPT !.pc = loc, !.verdict = v] \in BoundedJob
<1>1. [r EXCEPT !.pc = loc] \in BoundedJob
  BY DEF BoundedJob, Job
<1>2. [r EXCEPT !.verdict = v] \in BoundedJob
  BY DEF BoundedJob, Job
<1>3. [r EXCEPT !.pc = loc, !.verdict = v] \in BoundedJob
  BY DEF BoundedJob, Job
<1> QED BY <1>1, <1>2, <1>3

\* Nor do the marks of cancellation and notification matter.
LEMMA MarkedJob ==
  ASSUME NEW r \in BoundedJob, NEW t \in {"nothing", "requested", "executing", "closed"},
         NEW c \in {"none", "sent", "consumed"}, NEW k \in Kind
  PROVE  /\ [r EXCEPT !.told = t] \in BoundedJob
         /\ [r EXCEPT !.cancel = c] \in BoundedJob
         /\ [r EXCEPT !.kind = k] \in BoundedJob
BY DEF BoundedJob, Job

\* A new agent has all its attempts before it.
LEMMA NewAgentJob ==
  ASSUME NEW r \in BoundedJob, NEW k \in Kind
  PROVE  NewAgent(r, k) \in BoundedJob /\ NewAgent(r, k).attempt < MaxAttempts
<1>1. NoStreak \in [cause : Fingerprint, n : Nat]
  BY DEF NoStreak, Fingerprint
<1>2. MaxAttempts > 0 /\ RepairMax >= 0
  BY SchedulerAssumption
<1>3. NewAgent(r, k) \in Job
  BY <1>1 DEF NewAgent, BoundedJob, Job
<1>4. NewAgent(r, k).attempt = 0 /\ NewAgent(r, k).repairs = 0
  BY DEF NewAgent, BoundedJob, Job
<1> QED BY <1>2, <1>3, <1>4, SchedulerAssumption DEF BoundedJob

----------------------------------------------------------------------------
\* Finishing or suspending a coroutine with a well-formed job.
LEMMA FinishType ==
  ASSUME job \in [Subtask -> BoundedJob], NEW s \in Subtask, NEW r \in BoundedJob,
         NEW v \in Verdict, Finish(s, r, v)
  PROVE  job' \in [Subtask -> BoundedJob]
<1>1. [r EXCEPT !.pc = "finished", !.verdict = v] \in BoundedJob
  BY MovedJob DEF Location
<1> QED BY <1>1 DEF Finish

LEMMA SuspendType ==
  ASSUME job \in [Subtask -> BoundedJob], NEW s \in Subtask, NEW r \in BoundedJob,
         NEW loc \in Suspended \ {"backoff"}, Suspend(s, r, loc)
  PROVE  job' \in [Subtask -> BoundedJob]
<1>1. [r EXCEPT !.pc = loc] \in BoundedJob
  BY MovedJob, "none" \in Verdict DEF Location, Verdict
<1> QED BY <1>1 DEF Suspend

\* Ending the attempts of an agent keeps the work variables well typed.
LEMMA ConcludeType ==
  ASSUME WorkOK, NEW s \in Subtask, NEW r \in BoundedJob,
         NEW held \in SUBSET (Subtask \X Kind),
         NEW type \in FailedVerdict, NEW action,
         Conclude(s, r, type, action, held)
  PROVE  WorkOK'
<1>1. type \in Verdict
  BY DEF Verdict
<1>2. [r EXCEPT !.verdict = type] \in BoundedJob
  BY <1>1, MovedJob, "finished" \in Location \ {"backoff"} DEF Location
<1>3. job' \in [Subtask -> BoundedJob]
  <2>1. CASE Finish(s, r, type)
    BY <2>1, <1>1, FinishType DEF WorkOK
  <2>2. CASE \E loc \in {"reporting", "requesting"} :
               Suspend(s, [r EXCEPT !.verdict = type], loc)
    BY <2>2, <1>2, SuspendType DEF WorkOK, Suspended
  <2> QED BY <2>1, <2>2 DEF Conclude
<1>4. slots' \subseteq Subtask \X Kind
  BY DEF Conclude, GiveBack
<1>5. replacements' \in Nat /\ issues' \subseteq Subtask
  BY DEF Conclude, WorkOK
<1> QED BY <1>3, <1>4, <1>5 DEF WorkOK

\* So does the top of the attempt loop, entered with an attempt left or for a
\* contract repair.
LEMMA EnterAttemptType ==
  ASSUME WorkOK, NEW s \in Subtask, NEW r \in BoundedJob,
         NEW repairRound \in BOOLEAN, repairRound \/ r.attempt < MaxAttempts,
         NEW held \in SUBSET (Subtask \X Kind),
         EnterAttempt(s, r, repairRound, held)
  PROVE  WorkOK'
<1>1. CASE /\ Finish(s, r, "stopped") /\ slots' = held
           /\ UNCHANGED <<replacements, issues>>
  BY <1>1, FinishType, "stopped" \in Verdict DEF WorkOK, Verdict, Interrupted
<1>2. CASE Conclude(s, r, "unclassified", "none", held)
  BY <1>2, ConcludeType DEF FailedVerdict
<1>3. CASE \E type \in {"budget", "timeout"} : Conclude(s, r, type, "stop", held)
  BY <1>3, ConcludeType DEF FailedVerdict, FailureType, ProviderTypes, NonRetryable
<1>4. CASE /\ Suspend(s, CountAttempt(r, repairRound), "executing")
           /\ slots' = held
           /\ UNCHANGED <<replacements, issues>>
  <2>1. [CountAttempt(r, repairRound) EXCEPT !.pc = "executing"] \in BoundedJob
    BY SchedulerAssumption DEF CountAttempt, BoundedJob, Job, Location, Suspended
  <2> QED BY <1>4, <2>1 DEF Suspend, WorkOK
<1> QED BY <1>1, <1>2, <1>3, <1>4 DEF EnterAttempt

----------------------------------------------------------------------------
\* Every step of a coroutine keeps the work variables well typed.
LEMMA CoroutineType ==
  ASSUME Inductive, NEW s \in Subtask, Coroutine(s)
  PROVE  WorkOK'
<1> DEFINE j == job[s]
<1>1. j \in BoundedJob
  BY DEF Inductive, WorkOK
<1>2. WorkOK
  BY DEF Inductive
<1>3. Swallow(j) \in BoundedJob
  BY <1>1, MarkedJob, "primary" \in Kind DEF Swallow, Kind
<1>4. j.verdict \in Verdict
  BY <1>1 DEF BoundedJob, Job
<1>5. CASE AcquireSlot(s)
  <2>1. CASE Finish(s, j, "unclassified") /\ issues' = issues \cup {s}
             /\ UNCHANGED <<slots, replacements>>
    BY <2>1, <1>1, <1>2, FinishType, "unclassified" \in Verdict
    DEF WorkOK, Verdict, FailedVerdict
  <2>2. CASE EnterAttempt(s, NewAgent(j, "primary"), FALSE,
                          slots \cup {<<s, "primary">>})
    <3>1. slots \cup {<<s, "primary">>} \in SUBSET (Subtask \X Kind)
      BY <1>2 DEF WorkOK, Kind
    <3> QED BY <2>2, <3>1, <1>1, <1>2, NewAgentJob, EnterAttemptType DEF Kind
  <2> QED BY <1>5, <2>1, <2>2 DEF AcquireSlot
<1>6. CASE ExecutorSucceeds(s)
  <2>1. CASE /\ Finish(s, Swallow(j), "success")
             /\ slots' = GiveBack(slots, s, "primary")
             /\ UNCHANGED <<replacements, issues>>
    BY <2>1, <1>2, <1>3, FinishType, "success" \in Verdict DEF WorkOK, Verdict, GiveBack
  <2>2. CASE /\ Suspend(s, [Swallow(j) EXCEPT !.verdict = "success"], "reporting")
             /\ UNCHANGED <<slots, replacements, issues>>
    <3>1. [Swallow(j) EXCEPT !.verdict = "success"] \in BoundedJob
      BY <1>3, MovedJob, "success" \in Verdict, "finished" \in Location \ {"backoff"}
      DEF Verdict, Location
    <3> QED BY <2>2, <3>1, <1>2, SuspendType DEF WorkOK, Suspended
  <2> QED BY <1>6, <2>1, <2>2 DEF ExecutorSucceeds
<1>7. ASSUME NEW cause \in Cause[s], ExecutorFails(s, cause)
      PROVE  WorkOK'
  <2> DEFINE type == cause[1]
             streak == RecordFailure(j.streak, cause)
             r == [Swallow(j) EXCEPT !.streak = streak]
             action == Decide(type, Suppressed(streak, SuppressThreshold),
                              r.attempt, MaxAttempts, r.repairs, RepairMax)
  <2>1. type \in FailureType
    BY SchedulerAssumption
  <2>2. streak \in [cause : Fingerprint, n : Nat]
    BY <1>1, SchedulerAssumption DEF RecordFailure, BoundedJob, Job, Fingerprint
  <2>3. r \in BoundedJob
    BY <1>3, <2>2 DEF BoundedJob, Job
  <2>4. slots \in SUBSET (Subtask \X Kind)
    BY <1>2 DEF WorkOK
  <2>5. action = "retry" => r.attempt < MaxAttempts
    BY <2>3, SchedulerAssumption DEF Decide, Escalate, BoundedJob, Job
  <2>6. action = "repair_contract" => r.repairs < RepairMax
    BY <2>3, SchedulerAssumption DEF Decide, Escalate, BoundedJob, Job
  <2> HIDE DEF type, streak, r, action
  <2>7. CASE /\ BacksOff(type, action) /\ Suspend(s, r, "backoff")
             /\ UNCHANGED <<slots, replacements, issues>>
    <3>1. [r EXCEPT !.pc = "backoff"] \in BoundedJob
      BY <2>3, <2>5, <2>7 DEF BacksOff, BoundedJob, Job, Location, Suspended
    <3> QED BY <2>7, <3>1, <1>2 DEF Suspend, WorkOK
  <2>8. CASE action = "retry" /\ EnterAttempt(s, r, FALSE, slots)
    BY <2>8, <1>2, <2>3, <2>4, <2>5, EnterAttemptType
  <2>9. CASE /\ action = "repair_contract"
             /\ EnterAttempt(s, [r EXCEPT !.repairs = @ + 1], TRUE, slots)
    <3>1. [r EXCEPT !.repairs = @ + 1] \in BoundedJob
      BY <2>3, <2>6, <2>9, SchedulerAssumption DEF BoundedJob, Job
    <3> QED BY <2>9, <3>1, <1>2, <2>4, EnterAttemptType
  <2>10. CASE Conclude(s, r, type, action, slots)
    BY <2>10, <2>1, <2>3, <2>4, <1>2, ConcludeType DEF FailedVerdict
  <2> QED BY <1>7, <2>7, <2>8, <2>9, <2>10
          DEF ExecutorFails, type, streak, r, action
<1>8. CASE ExecutorRaises(s)
  BY <1>8, <1>1, <1>2, FinishType, "stopped" \in Verdict, "exceeded" \in Verdict
  DEF ExecutorRaises, WorkOK, Verdict, Interrupted
<1>9. CASE BackoffEnds(s)
  <2>1. j.attempt < MaxAttempts
    BY <1>1, <1>9 DEF BackoffEnds, BoundedJob
  <2>2. slots \in SUBSET (Subtask \X Kind)
    BY <1>2 DEF WorkOK
  <2> QED BY <1>9, <1>1, <1>2, <2>1, <2>2, EnterAttemptType DEF BackoffEnds
<1>10. CASE RequestNotified(s)
  <2> DEFINE r == [j EXCEPT !.told = "requested"]
  <2>1. r \in BoundedJob
    BY <1>1, MarkedJob, "primary" \in Kind DEF Kind
  <2>2. [r EXCEPT !.kind = "replacement"] \in BoundedJob
    BY <2>1, MarkedJob, "replacement" \in Kind DEF Kind
  <2> HIDE DEF r
  <2>3. CASE Suspend(s, r, "reporting") /\ UNCHANGED <<slots, replacements, issues>>
    BY <2>3, <2>1, <1>2, SuspendType DEF WorkOK, Suspended
  <2>4. CASE /\ Suspend(s, [r EXCEPT !.kind = "replacement"], "announcing")
             /\ slots' = slots \cup {<<s, "replacement">>}
             /\ UNCHANGED <<replacements, issues>>
    BY <2>4, <2>2, <1>2, SuspendType DEF WorkOK, Suspended, Kind
  <2> QED BY <1>10, <2>3, <2>4 DEF RequestNotified, RejectReplacement, r
<1>11. CASE ExecutingNotified(s)
  <2> DEFINE r == [NewAgent(j, "replacement") EXCEPT !.told = "executing"]
  <2>1. NewAgent(j, "replacement") \in BoundedJob
        /\ NewAgent(j, "replacement").attempt < MaxAttempts
    BY <1>1, NewAgentJob, "replacement" \in Kind DEF Kind
  <2>2. r \in BoundedJob /\ r.attempt < MaxAttempts
    BY <2>1 DEF BoundedJob, Job
  <2>3. slots \in SUBSET (Subtask \X Kind)
    BY <1>2 DEF WorkOK
  <2> QED BY <1>11, <1>2, <2>2, <2>3, EnterAttemptType DEF ExecutingNotified
<1>12. CASE EndNotified(s)
  <2>1. [j EXCEPT !.told = "closed"] \in BoundedJob
    BY <1>1, MarkedJob, "primary" \in Kind DEF Kind
  <2> QED BY <1>12, <2>1, <1>2, <1>4, FinishType DEF EndNotified, WorkOK, GiveBack
<1>13. CASE CancelArrives(s)
  <2>1. [j EXCEPT !.cancel = "consumed"] \in BoundedJob
    BY <1>1, MarkedJob, "primary" \in Kind DEF Kind
  <2> QED BY <1>13, <2>1, <1>2, FinishType, SuspendType, "cancelled" \in Verdict
          DEF CancelArrives, WorkOK, Verdict, Interrupted, Suspended
<1>14. CASE CancelNotified(s)
  <2>1. [j EXCEPT !.told = "closed"] \in BoundedJob
    BY <1>1, MarkedJob, "primary" \in Kind DEF Kind
  <2> QED BY <1>14, <2>1, <1>2, FinishType, "cancelled" \in Verdict
          DEF CancelNotified, WorkOK, Verdict, Interrupted
<1> QED BY <1>5, <1>6, <1>7, <1>8, <1>9, <1>10, <1>11, <1>12, <1>13, <1>14
        DEF Coroutine

----------------------------------------------------------------------------
\* Leaving the loop of schedule() by an exception.
LEMMA AbortType ==
  ASSUME NEW why \in Interrupted, NEW j \in [Subtask -> BoundedJob], SchedOK,
         Abort(why, j), UNCHANGED <<result, breaker>>
  PROVE  SchedOK' /\ job' \in [Subtask -> BoundedJob]
<1>1. Cancelled(j) \in [Subtask -> BoundedJob]
  <2>1. \A s \in Subtask : [j[s] EXCEPT !.cancel = "sent"] \in BoundedJob
    BY MarkedJob, "primary" \in Kind DEF Kind
  <2> QED BY <2>1 DEF Cancelled
<1> QED BY <1>1 DEF Abort, SchedOK

\* Every step of schedule() keeps all variables well typed.
LEMMA ScheduleType ==
  ASSUME Inductive, Schedule
  PROVE  Inductive'
<1>1. \A s \in Subtask : /\ [job[s] EXCEPT !.pc = "collected"] \in BoundedJob
                         /\ [job[s] EXCEPT !.pc = "queued"] \in BoundedJob
  BY MovedJob, "none" \in Verdict
  DEF Inductive, WorkOK, Verdict, Location, Suspended
<1>2. CASE Return
  BY <1>2 DEF Return, Inductive, SchedOK, WorkOK, GateOK, work, gate
<1>3. CASE Refuse
  BY <1>3, AbortType, "stopped" \in Interrupted, "exceeded" \in Interrupted
  DEF Refuse, Inductive, WorkOK, GateOK, gate, Interrupted
<1>4. CASE Dispatch
  <2>1. result' \in [Subtask -> Result]
    BY <1>4 DEF Dispatch, Inductive, SchedOK, Result
  <2>2. job' \in [Subtask -> BoundedJob]
    BY <1>4, <1>1 DEF Dispatch, Inductive, WorkOK
  <2>3. loop' \in {"wait", "done"} /\ outcome' \in {"returned", outcome}
    BY <1>4 DEF Dispatch
  <2> QED BY <1>4, <2>1, <2>2, <2>3
          DEF Dispatch, Inductive, SchedOK, WorkOK, GateOK, gate
<1>5. CASE WakeUp
  BY <1>5 DEF WakeUp, At, Inductive, SchedOK, WorkOK, GateOK, work, gate
<1>6. CASE ShutdownEnds
  <2>1. result' \in [Subtask -> Result]
    BY <1>6 DEF ShutdownEnds, RecordVerdict, Inductive, SchedOK, Result
  <2>2. loop' = "done" /\ outcome' \in {"exceeded", outcome}
    BY <1>6 DEF ShutdownEnds
  <2> QED BY <1>6, <2>1, <2>2
          DEF ShutdownEnds, Inductive, SchedOK, WorkOK, GateOK, work, gate, Interrupted
<1>7. ASSUME NEW s \in Subtask, Collect(s)
      PROVE  Inductive'
  <2> DEFINE popped == [job EXCEPT ![s].pc = "collected"]
             v == job[s].verdict
  <2>1. popped \in [Subtask -> BoundedJob]
    BY <1>1 DEF Inductive, WorkOK
  <2>2. CASE v \in Interrupted /\ Abort(v, popped) /\ UNCHANGED <<result, breaker>>
    BY <1>7, <2>1, <2>2, AbortType DEF Collect, Inductive, WorkOK, GateOK, gate
  <2>3. CASE /\ v \notin Interrupted
             /\ job' = popped
             /\ result' = [result EXCEPT ![s] = RecordVerdict(v)]
             /\ breaker' = IF v = "success" THEN RecordSuccess(breaker)
                           ELSE RecordFailed(breaker, v)
             /\ batch' = batch \ {s}
             /\ loop' = IF batch = {s} THEN "dispatch" ELSE "collect"
             /\ UNCHANGED <<outcome, swallowed>>
    <3>1. result' \in [Subtask -> Result]
      BY <2>3 DEF RecordVerdict, Inductive, SchedOK, Result
    <3>2. breaker' \in Breaker
      BY <2>3 DEF RecordSuccess, RecordFailed, Breaker, Inductive, SchedOK
    <3> QED BY <1>7, <2>1, <2>3, <3>1, <3>2
            DEF Collect, Inductive, SchedOK, WorkOK, GateOK, gate
  <2> QED BY <1>7, <2>2, <2>3 DEF Collect
<1> QED BY <1>2, <1>3, <1>4, <1>5, <1>6, <1>7 DEF Schedule

\* So does every step of the pipeline around it.
LEMMA EnvironmentType ==
  ASSUME Inductive, Environment
  PROVE  Inductive'
<1>1. CASE ParentCancelled
  BY <1>1, AbortType, "cancelled" \in Interrupted
  DEF ParentCancelled, Inductive, WorkOK, GateOK, gate, Interrupted
<1>2. CASE ShutdownCancelled
  BY <1>2 DEF ShutdownCancelled, Inductive, SchedOK, WorkOK, GateOK, work, gate
<1>3. CASE RequestStop \/ Expire \/ Overspend
  BY <1>3 DEF RequestStop, Expire, Overspend, Inductive, SchedOK, WorkOK, GateOK,
              sched, work
<1> QED BY <1>1, <1>2, <1>3 DEF Environment

----------------------------------------------------------------------------
LEMMA InductiveInit ==
  ASSUME Init
  PROVE  Inductive
<1>1. IdleJob \in BoundedJob
  <2>1. NoStreak \in [cause : Fingerprint, n : Nat]
    BY DEF NoStreak, Fingerprint
  <2>2. IdleJob \in Job
    BY <2>1 DEF IdleJob, Job, Location, Suspended, Kind, Verdict
  <2> QED BY <2>2, SchedulerAssumption DEF IdleJob, BoundedJob
<1>2. FreshBreaker \in Breaker /\ TrippedEarlier \in Breaker
  BY BreakerAssumption DEF FreshBreaker, TrippedEarlier, Breaker
<1>3. EarlierReplacements \in Nat
  BY SchedulerAssumption
<1>4. WorkOK
  BY <1>1, <1>3 DEF Init, WorkOK
<1>5. SchedOK
  BY <1>2 DEF Init, SchedOK, Result
<1>6. GateOK
  BY DEF Init, GateOK
<1> QED BY <1>4, <1>5, <1>6 DEF Inductive

LEMMA InductiveStep ==
  ASSUME Inductive, [Next]_vars
  PROVE  Inductive'
<1>1. ASSUME NEW s \in Subtask, Coroutine(s) PROVE Inductive'
  <2>1. UNCHANGED <<sched, gate>>
    BY <1>1 DEF Coroutine, CoroutineStep, AcquireSlot, ExecutorSucceeds,
                ExecutorFails, ExecutorRaises, BackoffEnds, RequestNotified,
                ExecutingNotified, EndNotified, CancelArrives, CancelNotified
  <2> QED BY <1>1, <2>1, CoroutineType
          DEF Inductive, SchedOK, GateOK, sched, gate
<1>2. CASE UNCHANGED vars
  BY <1>2 DEF Inductive, SchedOK, WorkOK, GateOK, vars, sched, work, gate
<1>3. CASE Terminated
  BY <1>2, <1>3 DEF Terminated
<1> QED BY <1>1, <1>2, <1>3, ScheduleType, EnvironmentType DEF Next

\* The invariant holds in every reachable state.
THEOREM InductiveInvariant == Spec => []Inductive
<1>1. Init => Inductive
  BY InductiveInit
<1>2. Inductive /\ [Next]_vars => Inductive'
  BY InductiveStep
<1> QED BY <1>1, <1>2, PTL DEF Spec

\* Every variable of a schedule keeps its type, whatever the plan, the limits
\* and the failures: no step of a coroutine, of schedule() or of the pipeline
\* leaves a job, a result or the breaker in a state the code has no case for.
THEOREM TypeCorrect == Spec => []TypeOK
<1>1. Inductive => TypeOK
  BY DEF Inductive, SchedOK, WorkOK, GateOK, TypeOK, BoundedJob
<1> QED BY <1>1, InductiveInvariant, PTL

\* No agent makes more attempts or contract repairs than it is allowed, for
\* any limits and any order of failures (_run_attempts with RecoveryPolicy).
THEOREM WorkOfOneAgentBounded == Spec => []AttemptsBounded
<1>1. Inductive => AttemptsBounded
  BY DEF Inductive, WorkOK, AttemptsBounded, BoundedJob
<1> QED BY <1>1, InductiveInvariant, PTL

----------------------------------------------------------------------------
(***************************************************************************)
(* The schedule implements SubtaskPlan.  What a subtask has come to is said *)
(* twice, by its coroutine and by the results that dependants look at:      *)
(* PlanSound says how far the two agree, and that a subtask only queues     *)
(* when all it depends on succeeded.  After the shutdown results of         *)
(* coroutines that still run are guesses that nobody schedules by.          *)
(***************************************************************************)
PlanSound(s) ==
  /\ result[s] \in {"skipped", "unschedulable"} => job[s].pc = "collected"
  /\ result[s] = "success" => job[s].pc \in {"finished", "collected"} /\ job[s].verdict = "success"
  /\ result[s] = "failed" /\ loop # "done" =>
       job[s].verdict # "success" /\ job[s].verdict \notin Interrupted
  /\ result[s] # "none" /\ loop # "done" => job[s].pc = "collected"
  /\ job[s].pc = "collected" /\ loop \in {"dispatch", "wait", "collect"} => result[s] # "none"
  /\ job[s].pc = "queued" => \A d \in Deps[s] : DepResult(d) = "success"
  /\ s \in batch => job[s].pc = "finished" /\ loop = "collect"

PlanInductive == Inductive /\ \A s \in Subtask : PlanSound(s)

\* The mapped status, and a step of the plan.
Mapped == [s \in Subtask |-> StatusOf(s)]
PlanStep == Plan!Next \/ UNCHANGED Mapped

LEMMA Dependencies ==
  ASSUME NEW s \in Subtask, NEW d \in Deps[s]
  PROVE  d \in Subtask \/ (d \in External /\ d \notin Subtask /\ Prior[d] \in {"success", "failed"})
BY SchedulerAssumption DEF External

\* A dependency whose result is a success succeeded, and one whose result is
\* of another kind failed, as long as the schedule runs.
LEMMA DependencyOutcomes ==
  ASSUME \A t \in Subtask : PlanSound(t), NEW s \in Subtask, NEW d \in Deps[s]
  PROVE  /\ DepResult(d) = "success" => Plan!Outcome(d) = "succeeded"
         /\ DepFailed(d) /\ loop # "done" => Plan!Outcome(d) = "failed"
<1>1. CASE d \in Subtask
  <2>1. PlanSound(d) /\ DepResult(d) = result[d] /\ Plan!Outcome(d) = StatusOf(d)
    BY <1>1 DEF DepResult, Plan!Outcome
  <2>2. ASSUME result[d] = "success" PROVE StatusOf(d) = "succeeded"
    BY <2>1, <2>2 DEF PlanSound, StatusOf, Suspended
  <2>3. ASSUME result[d] \in {"failed", "skipped", "unschedulable"}, loop # "done"
        PROVE  StatusOf(d) = "failed"
    BY <2>1, <2>3 DEF PlanSound, StatusOf, Suspended
  <2> QED BY <2>1, <2>2, <2>3 DEF DepFailed
<1>2. CASE d \notin Subtask
  BY <1>2, Dependencies DEF DepResult, DepFailed, Plan!Outcome
<1> QED BY <1>1, <1>2

\* A step of a coroutine moves one job that was suspended; from the queue it
\* gets to its first executor with a place of the semaphore, or ends without
\* a success.
CoroutineMove(s, r) ==
  /\ job' = [job EXCEPT ![s] = r]
  /\ job[s].pc \in Suspended
  /\ r.pc \in (Suspended \ {"queued"}) \cup {"finished"}
  /\ job[s].pc = "queued" =>
       \/ r.pc = "executing" /\ Cardinality(Holding) < Concurrency
       \/ r.pc = "finished" /\ r.verdict # "success"

LEMMA FinishMove ==
  ASSUME NEW s \in Subtask, NEW r \in Job, NEW v, Finish(s, r, v), job[s].pc \in Suspended,
         job[s].pc = "queued" => v # "success"
  PROVE  \E q : CoroutineMove(s, q)
<1> DEFINE q == [r EXCEPT !.pc = "finished", !.verdict = v]
<1>1. q.pc = "finished" /\ q.verdict = v
  BY DEF Job
<1>2. job' = [job EXCEPT ![s] = q]
  BY DEF Finish
<1> HIDE DEF q
<1>3. CoroutineMove(s, q)
  BY <1>1, <1>2 DEF CoroutineMove
<1> QED BY <1>3

LEMMA SuspendMove ==
  ASSUME NEW s \in Subtask, NEW r \in Job, NEW loc \in Suspended \ {"queued"}, Suspend(s, r, loc),
         job[s].pc \in Suspended,
         job[s].pc = "queued" => loc = "executing" /\ Cardinality(Holding) < Concurrency
  PROVE  \E q : CoroutineMove(s, q)
<1> DEFINE q == [r EXCEPT !.pc = loc]
<1>1. q.pc = loc
  BY DEF Job
<1>2. job' = [job EXCEPT ![s] = q]
  BY DEF Suspend
<1> HIDE DEF q
<1>3. CoroutineMove(s, q)
  BY <1>1, <1>2 DEF CoroutineMove
<1> QED BY <1>3

LEMMA ConcludeMove ==
  ASSUME NEW s \in Subtask, NEW r \in Job, NEW type \in FailedVerdict, NEW action, NEW held,
         Conclude(s, r, type, action, held), job[s].pc \in Suspended,
         job[s].pc = "queued" => r.kind = "primary" /\ action # "replace"
  PROVE  \E q : CoroutineMove(s, q)
<1>1. type # "success" /\ type \in Verdict
  BY DEF FailedVerdict, FailureType, ProviderTypes, Replaceable, ContractTypes, NonRetryable, Verdict
<1>2. CASE Finish(s, r, type)
  BY <1>1, <1>2, FinishMove
<1>3. CASE ~ Finish(s, r, type)
  <2> DEFINE q == [r EXCEPT !.verdict = type]
  <2>1. q \in Job
    BY <1>1 DEF Job
  <2>2. PICK loc \in {"reporting", "requesting"} : Suspend(s, q, loc)
    BY <1>3 DEF Conclude
  <2>3. job[s].pc # "queued"
    BY <1>3 DEF Conclude, MayReplace
  <2> HIDE DEF q
  <2> QED BY <2>1, <2>2, <2>3, SuspendMove DEF Suspended
<1> QED BY <1>2, <1>3

LEMMA EnterMove ==
  ASSUME NEW s \in Subtask, NEW r \in Job, NEW repairRound, NEW held,
         EnterAttempt(s, r, repairRound, held), job[s].pc \in Suspended,
         job[s].pc = "queued" => r.kind = "primary" /\ Cardinality(Holding) < Concurrency
  PROVE  \E q : CoroutineMove(s, q)
<1>1. CASE Finish(s, r, "stopped")
  BY <1>1, FinishMove
<1>2. CASE Conclude(s, r, "unclassified", "none", held)
  BY <1>2, ConcludeMove DEF FailedVerdict
<1>3. CASE \E type \in {"budget", "timeout"} : Conclude(s, r, type, "stop", held)
  BY <1>3, ConcludeMove DEF FailedVerdict, FailureType, ProviderTypes, NonRetryable
<1>4. CASE Suspend(s, CountAttempt(r, repairRound), "executing")
  <2>1. CountAttempt(r, repairRound) \in Job
    BY DEF CountAttempt, Job
  <2> QED BY <1>4, <2>1, SuspendMove DEF Suspended
<1> QED BY <1>1, <1>2, <1>3, <1>4 DEF EnterAttempt

LEMMA CoroutineMoves ==
  ASSUME job \in [Subtask -> Job], NEW s \in Subtask, Coroutine(s)
  PROVE  \E q : CoroutineMove(s, q)
<1> DEFINE j == job[s]
<1>1. j \in Job
  OBVIOUS
<1>2. Swallow(j) \in Job
  BY <1>1 DEF Swallow, Job
<1>3. CASE AcquireSlot(s)
  <2>1. j.pc = "queued" /\ Cardinality(Holding) < Concurrency
    BY <1>3 DEF AcquireSlot
  <2>2. CASE Finish(s, j, "unclassified")
    BY <1>1, <2>1, <2>2, FinishMove DEF Suspended
  <2>3. CASE EnterAttempt(s, NewAgent(j, "primary"), FALSE, slots \cup {<<s, "primary">>})
    <3>1. NewAgent(j, "primary") \in Job /\ NewAgent(j, "primary").kind = "primary"
      BY <1>1 DEF NewAgent, Job, Kind, NoStreak, Fingerprint
    <3> QED BY <2>1, <2>3, <3>1, EnterMove DEF Suspended
  <2> QED BY <1>3, <2>2, <2>3 DEF AcquireSlot
<1>4. CASE ExecutorSucceeds(s)
  <2>1. j.pc = "executing"
    BY <1>4 DEF ExecutorSucceeds
  <2>2. CASE Finish(s, Swallow(j), "success")
    BY <1>2, <2>1, <2>2, FinishMove DEF Suspended
  <2>3. CASE Suspend(s, [Swallow(j) EXCEPT !.verdict = "success"], "reporting")
    <3>1. [Swallow(j) EXCEPT !.verdict = "success"] \in Job
      BY <1>2 DEF Job, Verdict
    <3> QED BY <2>1, <2>3, <3>1, SuspendMove DEF Suspended
  <2> QED BY <1>4, <2>2, <2>3 DEF ExecutorSucceeds
<1>5. ASSUME NEW cause \in Cause[s], ExecutorFails(s, cause)
      PROVE  \E q : CoroutineMove(s, q)
  <2> DEFINE type == cause[1]
             streak == RecordFailure(j.streak, cause)
             r == [Swallow(j) EXCEPT !.streak = streak]
             action == Decide(type, Suppressed(streak, SuppressThreshold),
                              r.attempt, MaxAttempts, r.repairs, RepairMax)
             again == [r EXCEPT !.repairs = @ + 1]
  <2>1. type \in FailedVerdict
    BY SchedulerAssumption DEF FailedVerdict
  <2>2. streak \in [cause : Fingerprint, n : Nat]
    BY <1>1, SchedulerAssumption DEF RecordFailure, Job, Fingerprint
  <2>3. r \in Job
    BY <1>2, <2>2 DEF Job
  <2>4. again \in Job
    <3> DEFINE n == r.repairs + 1
    <3>1. n \in Nat
      BY <2>3 DEF Job
    <3> HIDE DEF n, r
    <3>2. [r EXCEPT !.repairs = n] \in Job
      BY <2>3, <3>1 DEF Job
    <3> QED BY <3>2 DEF n
  <2>5. j.pc = "executing"
    BY <1>5 DEF ExecutorFails
  <2>6. \/ Suspend(s, r, "backoff") \/ EnterAttempt(s, r, FALSE, slots)
        \/ EnterAttempt(s, again, TRUE, slots) \/ Conclude(s, r, type, action, slots)
    BY <1>5 DEF ExecutorFails
  <2> HIDE DEF type, streak, r, action, again
  <2> QED BY <2>1, <2>3, <2>4, <2>5, <2>6, SuspendMove, EnterMove, ConcludeMove DEF Suspended
<1>6. CASE ExecutorRaises(s)
  BY <1>1, <1>6, FinishMove DEF ExecutorRaises, Suspended
<1>7. CASE BackoffEnds(s)
  BY <1>1, <1>7, EnterMove DEF BackoffEnds, Suspended
<1>8. CASE RequestNotified(s)
  <2> DEFINE r == [j EXCEPT !.told = "requested"]
             fresh == [r EXCEPT !.kind = "replacement"]
  <2>1. r \in Job /\ fresh \in Job /\ j.pc = "requesting"
    BY <1>1, <1>8 DEF RequestNotified, Job, Kind
  <2>2. Suspend(s, r, "reporting") \/ Suspend(s, fresh, "announcing")
    BY <1>8 DEF RequestNotified, RejectReplacement
  <2> HIDE DEF r, fresh
  <2> QED BY <2>1, <2>2, SuspendMove DEF Suspended
<1>9. CASE ExecutingNotified(s)
  <2> DEFINE r == [NewAgent(j, "replacement") EXCEPT !.told = "executing"]
  <2>1. NewAgent(j, "replacement") \in Job
    BY <1>1 DEF NewAgent, Job, Kind, NoStreak, Fingerprint
  <2>2. r \in Job
    BY <2>1 DEF Job
  <2>3. j.pc = "announcing" /\ EnterAttempt(s, r, FALSE, slots)
    BY <1>9 DEF ExecutingNotified
  <2> HIDE DEF r
  <2> QED BY <2>2, <2>3, EnterMove DEF Suspended
<1>10. CASE EndNotified(s)
  <2>1. [j EXCEPT !.told = "closed"] \in Job
    BY <1>1 DEF Job
  <2> QED BY <1>10, <2>1, FinishMove DEF EndNotified, Suspended
<1>11. CASE CancelArrives(s)
  <2> DEFINE r == [j EXCEPT !.cancel = "consumed"]
  <2>1. r \in Job /\ r.pc = j.pc
    BY <1>1 DEF Job
  <2>2. j.pc \in Suspended
    BY <1>11 DEF CancelArrives
  <2>3. \/ Suspend(s, r, "cancelling") /\ j.pc # "queued"
        \/ Finish(s, r, "cancelled")
    BY <1>11, <2>1 DEF CancelArrives
  <2> HIDE DEF r
  <2> QED BY <2>1, <2>2, <2>3, SuspendMove, FinishMove DEF Suspended
<1>12. CASE CancelNotified(s)
  <2>1. [j EXCEPT !.told = "closed"] \in Job
    BY <1>1 DEF Job
  <2> QED BY <1>12, <2>1, FinishMove DEF CancelNotified, Suspended
<1> QED BY <1>3, <1>4, <1>5, <1>6, <1>7, <1>8, <1>9, <1>10, <1>11, <1>12 DEF Coroutine

\* The plan counts with the same operator.
LEMMA PlanCounts ==
  ASSUME NEW S
  PROVE  Plan!Cardinality(S) = Cardinality(S)
BY DEF Plan!Cardinality, Cardinality

LEMMA PlanMoved ==
  ASSUME NEW s \in Subtask, NEW v, StatusOf(s)' = v,
         \A t \in Subtask \ {s} : StatusOf(t)' = StatusOf(t)
  PROVE  Plan!Move(s, v)
BY DEF Plan!Move

\* The plan sees a subtask that gets its slot start, or be rejected, and one
\* that has started end at most once.
LEMMA CoroutinePlan ==
  ASSUME PlanInductive, NEW s \in Subtask, Coroutine(s), UNCHANGED sched
  PROVE  (\A t \in Subtask : PlanSound(t)') /\ PlanStep
<1>1. job \in [Subtask -> Job] /\ Yielded
  BY DEF PlanInductive, Inductive, WorkOK, BoundedJob, Coroutine, CoroutineStep, AcquireSlot,
         ExecutorSucceeds, ExecutorFails, ExecutorRaises, BackoffEnds, RequestNotified,
         ExecutingNotified, EndNotified, CancelArrives, CancelNotified
<1>2. PICK r : CoroutineMove(s, r)
  BY <1>1, CoroutineMoves
<1>3. /\ job'[s] = r /\ \A t \in Subtask \ {s} : job'[t] = job[t]
      /\ job[s].pc \in Suspended /\ r.pc \in (Suspended \ {"queued"}) \cup {"finished"}
  BY <1>1, <1>2 DEF CoroutineMove
<1>4. loop' = loop /\ result' = result /\ batch' = batch
  BY DEF sched
<1>5. PlanSound(s)'
  BY <1>3, <1>4 DEF PlanInductive, PlanSound, Suspended
<1>6. ASSUME NEW t \in Subtask \ {s} PROVE PlanSound(t)'
  BY <1>3, <1>4, <1>6 DEF PlanInductive, PlanSound, DepResult
<1>7. \A t \in Subtask \ {s} : StatusOf(t)' = StatusOf(t)
  BY <1>3, <1>4 DEF StatusOf
<1>8. result[s] \notin {"skipped", "unschedulable"}
  BY <1>3 DEF PlanInductive, PlanSound, Suspended
<1>9. \A t \in Subtask : Mapped[t] = StatusOf(t)
  BY DEF Mapped
<1>10. ASSUME job[s].pc = "queued" PROVE PlanStep
  <2>1. StatusOf(s) = "waiting"
    BY <1>8, <1>10 DEF StatusOf
  <2>2. \A d \in Deps[s] : Plan!Outcome(d) = "succeeded"
    BY <1>10, DependencyOutcomes DEF PlanInductive, PlanSound
  <2>3. Plan!Enabled(s)
    BY <2>2 DEF Plan!Enabled
  <2>4. CASE r.pc = "executing" /\ Cardinality(Holding) < Concurrency
    <3>1. StatusOf(s)' = "running"
      BY <1>3, <1>4, <1>8, <2>4 DEF StatusOf, Suspended
    <3>2. Cardinality({t \in Subtask : Mapped[t] = "running"}) < Concurrency
      <4> DEFINE started == {t \in Subtask : Mapped[t] = "running"}
      <4>1. started \subseteq Holding
        BY DEF Mapped, StatusOf, Holding, At
      <4>2. IsFiniteSet(Holding)
        BY SchedulerAssumption, FS_Subset, Holding \subseteq Subtask DEF Holding, At
      <4> HIDE DEF started
      <4>3. Cardinality(started) <= Cardinality(Holding) /\ Cardinality(started) \in Nat
            /\ Cardinality(Holding) \in Nat
        BY <4>1, <4>2, FS_Subset, FS_CardinalityType
      <4> QED BY <2>4, <4>3, SchedulerAssumption DEF started
    <3>3. Plan!Start(s)
      <4>1. Plan!Move(s, "running")
        BY <1>7, <3>1, PlanMoved
      <4>2. Plan!Cardinality({t \in Subtask : Mapped[t] = "running"}) < Concurrency
        BY <3>2, PlanCounts
      <4> QED BY <2>1, <2>3, <4>1, <4>2 DEF Plan!Start, Mapped
    <3> QED BY <3>3 DEF PlanStep, Plan!Next
  <2>5. CASE r.pc = "finished" /\ r.verdict # "success"
    <3>1. StatusOf(s)' \in {"failed", "dropped"}
      BY <1>3, <1>4, <1>8, <2>5 DEF StatusOf, Suspended
    <3>2. Plan!Reject(s) \/ Plan!Drop(s)
      <4>1. Plan!Move(s, "failed") \/ Plan!Move(s, "dropped")
        BY <1>7, <3>1, PlanMoved
      <4> QED BY <2>1, <2>3, <4>1 DEF Plan!Reject, Plan!Drop
    <3> QED BY <3>2 DEF PlanStep, Plan!Next
  <2> QED BY <1>2, <1>10, <2>4, <2>5 DEF CoroutineMove
<1>11. ASSUME job[s].pc # "queued" PROVE PlanStep
  <2>1. StatusOf(s) = "running"
    BY <1>3, <1>8, <1>11 DEF StatusOf, Suspended
  <2>2. StatusOf(s)' \in {"running", "succeeded", "failed", "dropped"}
    BY <1>3, <1>4, <1>8 DEF StatusOf, Suspended
  <2>3. CASE StatusOf(s)' = "running"
    BY <1>7, <2>1, <2>3 DEF PlanStep, Mapped
  <2>4. CASE StatusOf(s)' # "running"
    <3>1. Plan!End(s)
      <4>1. \E v \in {"succeeded", "failed", "dropped"} : Plan!Move(s, v)
        BY <1>7, <2>2, <2>4, PlanMoved
      <4> QED BY <2>1, <4>1 DEF Plan!End
    <3> QED BY <3>1 DEF PlanStep, Plan!Next
  <2> QED BY <2>3, <2>4
<1> QED BY <1>5, <1>6, <1>10, <1>11

\* A step that moves no status is no step of the plan.
LEMMA PlanStutters ==
  ASSUME \A t \in Subtask : StatusOf(t)' = StatusOf(t)
  PROVE  PlanStep
BY DEF PlanStep, Mapped

\* Leaving the loop by an exception: only cancellation marks change, and the
\* task that raised is no longer among the running.
LEMMA AbortPlan ==
  ASSUME PlanInductive, NEW why, NEW j \in [Subtask -> BoundedJob], Abort(why, j), result' = result,
         loop # "done",
         \A t \in Subtask : /\ j[t].verdict = job[t].verdict
                           /\ \/ j[t].pc = job[t].pc
                              \/ job[t].pc = "finished" /\ j[t].pc = "collected"
  PROVE  (\A t \in Subtask : PlanSound(t)') /\ PlanStep
<1>1. \A t \in Subtask : job'[t].pc = j[t].pc /\ job'[t].verdict = j[t].verdict
  <2>1. job' = [t \in Subtask |-> IF j[t].pc \in Suspended THEN [j[t] EXCEPT !.cancel = "sent"] ELSE j[t]]
    BY DEF Abort, Cancelled
  <2>2. \A t \in Subtask : /\ [j[t] EXCEPT !.cancel = "sent"].pc = j[t].pc
                          /\ [j[t] EXCEPT !.cancel = "sent"].verdict = j[t].verdict
    BY DEF BoundedJob, Job
  <2> QED BY <2>1, <2>2
<1>2. loop' = "shutdown" /\ batch' = {}
  BY DEF Abort
<1>3. ASSUME NEW t \in Subtask PROVE PlanSound(t)'
  BY <1>1, <1>2 DEF PlanInductive, PlanSound, DepResult
<1>4. ASSUME NEW t \in Subtask PROVE StatusOf(t)' = StatusOf(t)
  BY <1>1 DEF StatusOf, Suspended
<1> QED BY <1>3, <1>4, PlanStutters

\* What the breaker lets go is ready, and something is let go when nothing runs.
LEMMA ReleasedReady ==
  ASSUME NEW b, NEW ready, NEW running, NEW go \in Released(b, ready, running)
  PROVE  go \subseteq ready /\ (go = {} /\ running = {} => ready = {})
BY DEF Released

\* A round of the scheduler: what is skipped, and what is left when nothing
\* runs, is written off together.
LEMMA DispatchPlan ==
  ASSUME PlanInductive, Dispatch
  PROVE  (\A t \in Subtask : PlanSound(t)') /\ PlanStep
<1> DEFINE skip == {s \in Pending : \E d \in Deps[s] : DepFailed(d)}
<1>1. PICK go \in Released(breaker, Ready, Running) :
        LET idle == Running = {} /\ go = {}
            left == IF idle THEN Pending \ skip ELSE {}
        IN /\ result' = [s \in Subtask |-> IF s \in skip THEN "skipped"
                                           ELSE IF s \in left THEN "unschedulable"
                                           ELSE result[s]]
           /\ job' = [s \in Subtask |->
                        IF s \in skip \cup left
                        THEN [job[s] EXCEPT !.pc = "collected"]
                        ELSE IF s \in go THEN [job[s] EXCEPT !.pc = "queued"]
                        ELSE job[s]]
           /\ loop' = IF idle THEN "done" ELSE "wait"
  BY DEF Dispatch
<1> DEFINE idle == Running = {} /\ go = {}
           left == IF idle THEN Pending \ skip ELSE {}
           off == skip \cup left
<1>2. /\ job \in [Subtask -> Job] /\ loop = "dispatch" /\ batch' = batch
      /\ \A t \in Subtask : PlanSound(t)
  BY DEF PlanInductive, Inductive, WorkOK, BoundedJob, Dispatch
<1>3. Pending \subseteq Subtask /\ \A t \in Pending : job[t].pc = "pending"
  BY DEF Pending, At
<1>4. go \subseteq Ready /\ (idle => Ready = {})
  BY ReleasedReady
<1>5. \A t \in Ready : t \in Pending /\ \A d \in Deps[t] : DepResult(d) = "success"
  BY DEF Ready
<1>6. \A t \in go : t \notin skip
  BY <1>4, <1>5 DEF DepFailed
<1>7. ASSUME NEW t \in Subtask
      PROVE  /\ t \in off => /\ result'[t] \in {"skipped", "unschedulable"}
                              /\ job'[t].pc = "collected"
             /\ t \notin off => /\ result'[t] = result[t] /\ job'[t].verdict = job[t].verdict
                                 /\ job'[t].pc = IF t \in go THEN "queued" ELSE job[t].pc
  BY <1>1, <1>2 DEF Job
<1>8. loop' = IF idle THEN "done" ELSE "wait"
  BY <1>1
<1>9. \A t \in off : t \in Pending
  OBVIOUS
<1>10. \A t \in Pending : result[t] = "none"
  BY <1>2, <1>3 DEF PlanSound, Inductive, PlanInductive, SchedOK, Result
<1>11. ASSUME NEW t \in off, t \notin skip
       PROVE  \E d \in Deps[t] : d \in off
  <2>1. idle /\ t \in Pending /\ t \notin Ready
    BY <1>4, <1>11
  <2>2. PICK d \in Deps[t] : DepResult(d) # "success"
    BY <2>1 DEF Ready
  <2>3. ~ DepFailed(d)
    BY <1>11, <2>1
  <2>4. t \in Subtask
    BY <1>3, <2>1
  <2>5. d \in Subtask /\ result[d] = "none"
    BY <1>2, <2>2, <2>3, <2>4, Dependencies
    DEF DepFailed, DepResult, PlanInductive, Inductive, SchedOK, Result
  <2>6. job[d].pc # "collected"
    BY <1>2, <2>5 DEF PlanSound
  <2>7. job[d].pc = "pending"
    <3>1. d \notin Running /\ job[d].pc \in Location
      BY <1>2, <2>1, <2>5 DEF Job
    <3> QED BY <2>5, <2>6, <3>1 DEF Running, At, Location
  <2> QED BY <2>1, <2>5, <2>7 DEF Pending, At
<1>12. ASSUME NEW t \in skip
       PROVE  \E d \in Deps[t] : Plan!Outcome(d) = "failed"
  BY <1>2, <1>3, DependencyOutcomes
<1> HIDE DEF off, skip, idle
<1>13. ASSUME NEW t \in Subtask PROVE PlanSound(t)'
  <2>1. CASE t \in off
    <3>1. /\ result'[t] \in {"skipped", "unschedulable"} /\ job'[t].pc = "collected"
          /\ t \notin batch'
      BY <1>2, <1>3, <1>7, <1>9, <2>1 DEF PlanSound
    <3> QED BY <3>1 DEF PlanSound
  <2>2. CASE t \notin off
    <3>1. PlanSound(t) /\ result'[t] = result[t] /\ job'[t].verdict = job[t].verdict /\ batch' = batch
          /\ job'[t].pc = IF t \in go THEN "queued" ELSE job[t].pc
      BY <1>2, <1>7, <2>2
    <3>2. t \in go => result[t] = "none" /\ job[t].pc = "pending"
      BY <1>3, <1>4, <1>5, <1>10
    <3>3. \A d \in Deps[t] : DepResult(d) = "success" => DepResult(d)' = "success"
      <4>1. ASSUME NEW d \in Deps[t], DepResult(d) = "success", d \in Subtask
            PROVE  result'[d] = "success"
        BY <1>7, <1>9, <1>10, <4>1 DEF DepResult
      <4> QED BY <4>1 DEF DepResult
    <3>4. job'[t].pc = "queued" => \A d \in Deps[t] : DepResult(d)' = "success"
      BY <1>4, <1>5, <3>1, <3>3 DEF PlanSound
    <3>5. t \notin batch'
      BY <1>2, <3>1 DEF PlanSound
    <3>6. /\ result'[t] \in {"skipped", "unschedulable"} => job'[t].pc = "collected"
          /\ result'[t] = "success" => job'[t].pc \in {"finished", "collected"} /\ job'[t].verdict = "success"
          /\ result'[t] = "failed" /\ loop' # "done" =>
               job'[t].verdict # "success" /\ job'[t].verdict \notin Interrupted
          /\ result'[t] # "none" /\ loop' # "done" => job'[t].pc = "collected"
          /\ job'[t].pc = "collected" /\ loop' \in {"dispatch", "wait", "collect"} => result'[t] # "none"
      BY <1>2, <3>1, <3>2 DEF PlanSound
    <3> QED BY <3>4, <3>5, <3>6 DEF PlanSound
  <2> QED BY <2>1, <2>2
<1>14. ASSUME NEW t \in Subtask
       PROVE  StatusOf(t)' = IF t \in off THEN "failed" ELSE StatusOf(t)
  <2>1. CASE t \in off
    BY <1>7, <2>1 DEF StatusOf
  <2>2. CASE t \notin off /\ t \in go
    <3>1. job[t].pc = "pending" /\ job'[t].pc = "queued" /\ result'[t] = "none" /\ result[t] = "none"
      BY <1>3, <1>4, <1>5, <1>7, <1>10, <2>2
    <3> QED BY <2>2, <3>1 DEF StatusOf
  <2>3. CASE t \notin off /\ t \notin go
    BY <1>7, <2>3 DEF StatusOf
  <2> QED BY <2>1, <2>2, <2>3
<1>15. PlanStep
  <2>1. CASE off = {}
    BY <1>14, <2>1, PlanStutters
  <2>2. CASE off # {}
    <3>1. \A t \in off : t \in Subtask /\ StatusOf(t) = "waiting"
      BY <1>3, <1>9, <1>10 DEF StatusOf
    <3>2. \A t \in off : \E d \in Deps[t] : d \in off \/ Plan!Outcome(d) = "failed"
      BY <1>11, <1>12
    <3>3. [t \in Subtask |-> StatusOf(t)]' =
            [t \in Subtask |-> IF t \in off THEN "failed" ELSE [u \in Subtask |-> StatusOf(u)][t]]
      BY <1>14
    <3>4. Plan!WriteOff(off)
      BY <2>2, <3>1, <3>2, <3>3 DEF Plan!WriteOff
    <3> QED BY <3>1, <3>4 DEF PlanStep, Plan!Next
  <2> QED BY <2>1, <2>2
<1> QED BY <1>13, <1>15

\* The other steps of schedule() record what has happened already.
LEMMA SchedulePlan ==
  ASSUME PlanInductive, Schedule \/ Environment
  PROVE  (\A t \in Subtask : PlanSound(t)') /\ PlanStep
<1>1. /\ job \in [Subtask -> BoundedJob] /\ result \in [Subtask -> Result]
      /\ \A t \in Subtask : PlanSound(t)
  BY DEF PlanInductive, Inductive, WorkOK, SchedOK
<1>2. CASE /\ UNCHANGED <<result, job>>
           /\ \/ loop' = loop /\ batch' = batch
              \/ loop = "dispatch" /\ loop' = "done" /\ batch' = batch
              \/ loop = "wait" /\ loop' = "collect" /\ batch' = At({"finished"})
  <2>1. ASSUME NEW t \in Subtask PROVE PlanSound(t)'
    BY <1>1, <1>2 DEF PlanSound, DepResult, At
  <2>2. ASSUME NEW t \in Subtask PROVE StatusOf(t)' = StatusOf(t)
    BY <1>2 DEF StatusOf
  <2> QED BY <2>1, <2>2, PlanStutters
<1>3. CASE Return \/ WakeUp \/ ShutdownCancelled \/ RequestStop \/ Expire \/ Overspend
  BY <1>2, <1>3 DEF Return, WakeUp, ShutdownCancelled, RequestStop, Expire, Overspend, work, sched
<1>4. CASE Refuse \/ ParentCancelled
  <2>1. loop # "done" /\ result' = result /\ \E why \in Interrupted : Abort(why, job)
    BY <1>4 DEF Refuse, ParentCancelled, Interrupted
  <2> QED BY <1>1, <2>1, AbortPlan
<1>5. CASE ShutdownEnds
  <2> DEFINE mute == {s \in At({"finished"}) : job[s].verdict \in Interrupted}
  <2>1. PICK seen \in SUBSET Running :
          result' = [s \in Subtask |->
                       IF s \in seen \ mute
                       THEN IF job[s].pc = "finished"
                            THEN RecordVerdict(job[s].verdict) ELSE "failed"
                       ELSE result[s]]
    BY <1>5 DEF ShutdownEnds
  <2>2. loop = "shutdown" /\ loop' = "done" /\ UNCHANGED <<job, batch>>
    BY <1>5 DEF ShutdownEnds, work
  <2>3. ASSUME NEW t \in Subtask
        PROVE  \/ result'[t] = result[t]
               \/ /\ job[t].pc \in Suspended \cup {"finished"}
                  /\ result'[t] \in {"success", "failed"}
                  /\ result'[t] = "success" => job[t].pc = "finished" /\ job[t].verdict = "success"
    BY <2>1 DEF Running, At, RecordVerdict
  <2>4. ASSUME NEW t \in Subtask, result[t] # "none" PROVE result'[t] = result[t]
    BY <1>1, <2>2, <2>3, <2>4 DEF PlanSound, Suspended
  <2>5. ASSUME NEW t \in Subtask PROVE PlanSound(t)'
    <3>1. \A d \in Deps[t] : DepResult(d) = "success" => DepResult(d)' = "success"
      BY <2>4 DEF DepResult
    <3>2. PlanSound(t) /\ job'[t] = job[t] /\ batch' = batch
      BY <1>1, <2>2
    <3>3. job'[t].pc = "queued" => \A d \in Deps[t] : DepResult(d)' = "success"
      BY <3>1, <3>2 DEF PlanSound
    <3>4. t \notin batch'
      BY <2>2, <3>2 DEF PlanSound
    <3>5. /\ result'[t] \in {"skipped", "unschedulable"} => job'[t].pc = "collected"
          /\ result'[t] = "success" => job'[t].pc \in {"finished", "collected"} /\ job'[t].verdict = "success"
      BY <2>3, <3>2 DEF PlanSound
    <3> QED BY <2>2, <3>3, <3>4, <3>5 DEF PlanSound
  <2>6. ASSUME NEW t \in Subtask PROVE StatusOf(t)' = StatusOf(t)
    <3>1. result[t] \in {"skipped", "unschedulable"} <=> result'[t] \in {"skipped", "unschedulable"}
      BY <2>3, <2>4
    <3> QED BY <2>2, <3>1 DEF StatusOf
  <2> QED BY <2>5, <2>6, PlanStutters
<1>6. ASSUME NEW s \in Subtask, Collect(s)
      PROVE  (\A t \in Subtask : PlanSound(t)') /\ PlanStep
  <2> DEFINE popped == [job EXCEPT ![s].pc = "collected"]
             v == job[s].verdict
  <2>1. loop = "collect" /\ s \in batch /\ job[s].pc = "finished"
    BY <1>1, <1>6 DEF Collect, PlanSound
  <2>2. /\ popped \in [Subtask -> BoundedJob]
        /\ \A t \in Subtask : /\ popped[t].verdict = job[t].verdict
                              /\ popped[t].pc = IF t = s THEN "collected" ELSE job[t].pc
    <3> DEFINE r == [job[s] EXCEPT !.pc = "collected"]
    <3>1. r \in BoundedJob /\ r.pc = "collected" /\ r.verdict = job[s].verdict
      BY <1>1 DEF BoundedJob, Job, Location
    <3>2. popped = [job EXCEPT ![s] = r]
      OBVIOUS
    <3> HIDE DEF r, popped
    <3> QED BY <1>1, <3>1, <3>2
  <2> HIDE DEF popped
  <2>3. CASE v \in Interrupted
    <3>1. Abort(v, popped) /\ result' = result
      BY <1>6, <2>3 DEF Collect, popped
    <3> QED BY <2>1, <2>2, <3>1, AbortPlan
  <2>4. CASE v \notin Interrupted
    <3>1. /\ job' = popped /\ result' = [result EXCEPT ![s] = RecordVerdict(v)]
          /\ batch' = batch \ {s} /\ loop' = IF batch = {s} THEN "dispatch" ELSE "collect"
      BY <1>6, <2>4 DEF Collect, popped
    <3>2. result'[s] = IF v = "success" THEN "success" ELSE "failed"
      BY <1>1, <3>1 DEF RecordVerdict
    <3>3. result[s] = "none"
      BY <1>1, <2>1 DEF PlanSound
    <3>4. PlanSound(s)'
      <4>1. job'[s].pc = "collected" /\ job'[s].verdict = v /\ s \notin batch'
        BY <2>2, <3>1
      <4> QED BY <2>4, <3>2, <4>1 DEF PlanSound
    <3>5. ASSUME NEW t \in Subtask \ {s} PROVE PlanSound(t)'
      <4>1. /\ PlanSound(t) /\ result'[t] = result[t] /\ job'[t].pc = job[t].pc
            /\ job'[t].verdict = job[t].verdict
            /\ t \in batch' => t \in batch /\ batch # {s}
        BY <1>1, <2>1, <2>2, <3>1
      <4>2. \A d \in Deps[t] : DepResult(d) = "success" => DepResult(d)' = "success"
        BY <1>1, <3>1, <3>3 DEF DepResult
      <4>3. job'[t].pc = "queued" => \A d \in Deps[t] : DepResult(d)' = "success"
        BY <4>1, <4>2 DEF PlanSound
      <4>4. loop' # "done" /\ (t \in batch' => job'[t].pc = "finished" /\ loop' = "collect")
        BY <2>1, <3>1, <4>1 DEF PlanSound
      <4>5. /\ result'[t] \in {"skipped", "unschedulable"} => job'[t].pc = "collected"
            /\ result'[t] = "success" => job'[t].pc \in {"finished", "collected"} /\ job'[t].verdict = "success"
            /\ result'[t] = "failed" => job'[t].verdict # "success" /\ job'[t].verdict \notin Interrupted
            /\ result'[t] # "none" => job'[t].pc = "collected"
            /\ job'[t].pc = "collected" => result'[t] # "none"
        BY <2>1, <4>1 DEF PlanSound
      <4> QED BY <4>3, <4>4, <4>5 DEF PlanSound
    <3>6. ASSUME NEW t \in Subtask PROVE StatusOf(t)' = StatusOf(t)
      <4>1. CASE t = s
        <5>1. job'[s].pc = "collected" /\ job'[s].verdict = v /\ result'[s] \in {"success", "failed"}
          BY <2>2, <3>1, <3>2
        <5> QED BY <2>1, <3>3, <4>1, <5>1 DEF StatusOf, Suspended
      <4>2. CASE t # s
        BY <1>1, <2>2, <3>1, <4>2 DEF StatusOf
      <4> QED BY <4>1, <4>2
    <3> QED BY <3>4, <3>5, <3>6, PlanStutters
  <2> QED BY <2>3, <2>4
<1> QED BY <1>3, <1>4, <1>5, <1>6, DispatchPlan DEF Schedule, Environment

\* The invariant of the refinement, and the refinement itself.
LEMMA PlanNext ==
  ASSUME PlanInductive, [Next]_vars
  PROVE  PlanInductive' /\ PlanStep
<1>1. Inductive'
  BY InductiveStep DEF PlanInductive
<1>2. ASSUME NEW s \in Subtask, Coroutine(s) PROVE (\A t \in Subtask : PlanSound(t)') /\ PlanStep
  <2>1. UNCHANGED sched
    BY <1>2 DEF Coroutine, CoroutineStep, AcquireSlot, ExecutorSucceeds,
                ExecutorFails, ExecutorRaises, BackoffEnds, RequestNotified,
                ExecutingNotified, EndNotified, CancelArrives, CancelNotified
  <2> QED BY <1>2, <2>1, CoroutinePlan
<1>3. CASE UNCHANGED vars
  <2>1. ASSUME NEW t \in Subtask PROVE PlanSound(t)'
    BY <1>3 DEF PlanInductive, PlanSound, DepResult, vars, sched, work
  <2>2. ASSUME NEW t \in Subtask PROVE StatusOf(t)' = StatusOf(t)
    BY <1>3 DEF StatusOf, vars, sched, work
  <2> QED BY <1>1, <2>1, <2>2, PlanStutters DEF PlanInductive
<1> QED BY <1>1, <1>2, <1>3, SchedulePlan DEF Next, Terminated, PlanInductive

\* The scheduler implements SubtaskPlan, for every plan, limit and
\* environment: whatever retries, replacements, refusals, cancellations and
\* shutdowns happen in between, a subtask starts at most once, after all it
\* depends on succeeded and beside no more than the agreed number of others,
\* ends once, and is written off only below a failure.
THEOREM SchedulerImplementsPlan == Spec => ImplementsPlan
<1>1. Init => PlanInductive /\ Plan!Init
  <2> SUFFICES ASSUME Init PROVE PlanInductive /\ Plan!Init
    OBVIOUS
  <2>1. ASSUME NEW t \in Subtask PROVE PlanSound(t) /\ StatusOf(t) = "waiting"
    BY DEF Init, IdleJob, PlanSound, StatusOf
  <2>2. Plan!Init
    BY <2>1 DEF Plan!Init
  <2> QED BY <2>1, <2>2, InductiveInit DEF PlanInductive
<1>2. PlanInductive /\ [Next]_vars => PlanInductive'
  BY PlanNext
<1>3. PlanInductive /\ [Next]_vars => [Plan!Next]_([s \in Subtask |-> StatusOf(s)])
  BY PlanNext DEF PlanStep, Mapped
<1> QED BY <1>1, <1>2, <1>3, PTL DEF Spec, ImplementsPlan, Plan!Spec

----------------------------------------------------------------------------
(***************************************************************************)
(* FailureClassification: what the words of an agent can bring about, for   *)
(* every text.                                                              *)
(***************************************************************************)
\* A set of indices that is not empty has a first one.
LEMMA FirstIndex ==
  ASSUME NEW hits \in SUBSET Nat, hits # {}
  PROVE  \E i \in hits : \A j \in hits : i <= j
<1>1. PICK i \in hits : \A j \in hits : ~ (<<j, i>> \in OpToRel(<, Nat))
  BY WFMin, NatLessThanWellFounded
<1>2. ASSUME NEW j \in hits PROVE i <= j
  <2>1. j \in Nat /\ i \in Nat /\ <<j, i>> \in Nat \X Nat
    OBVIOUS
  <2>2. ~ (j < i)
    BY <1>1, <2>1 DEF OpToRel
  <2> QED BY <2>1, <2>2
<1> QED BY <1>2

\* _match_rules returns the default, or the type of a rule the text hits.
LEMMA FirstMatchHits ==
  ASSUME NEW n \in Nat, NEW T, NEW rules \in [1..n -> T], NEW text, NEW default
  PROVE  \/ FirstMatch(rules, text, default) = default
         \/ FirstMatch(rules, text, default) \in text \cap T
<1> DEFINE hits == {i \in DOMAIN rules : rules[i] \in text}
<1>1. CASE hits = {}
  BY <1>1 DEF FirstMatch
<1>2. CASE hits # {}
  <2>1. hits \in SUBSET Nat /\ hits \subseteq 1..n
    OBVIOUS
  <2>2. \E i \in hits : \A j \in hits : i <= j
    BY <2>1, <1>2, FirstIndex
  <2>3. (CHOOSE i \in hits : \A j \in hits : i <= j) \in hits
    BY <2>2
  <2>4. FirstMatch(rules, text, default) = rules[CHOOSE i \in hits : \A j \in hits : i <= j]
    BY <1>2 DEF FirstMatch
  <2> QED BY <2>1, <2>3, <2>4
<1> QED BY <1>1, <1>2

LEMMA TablesTyped ==
  TextRules \in [1..10 -> FailureType] /\ NameRules \in [1..6 -> FailureType]
BY DEF TextRules, NameRules, FailureType, ProviderTypes, Replaceable, ContractTypes, NonRetryable

\* The status of a failed request names a type of the enumeration.
LEMMA StatusTyped == \A code \in 400..599 : StatusType(code) \in FailureType
BY DEF StatusType, FailureType, ProviderTypes, Replaceable, ContractTypes, NonRetryable

\* An agent's words make its failure one of the types of an agent (the trust
\* boundary the docstring of FailureClassifier states).
THEOREM AgentTextTrusted == \A text : ClassifyResult(text) \in AgentTrusted
<1> SUFFICES ASSUME NEW text PROVE ClassifyResult(text) \in AgentTrusted
  OBVIOUS
<1>1. \/ ClassifyResult(text) = "quality"
      \/ ClassifyResult(text) \in (text \cap AgentTrusted) \cap FailureType
  BY FirstMatchHits, TablesTyped DEF ClassifyResult
<1> QED BY <1>1 DEF AgentTrusted

\* Whatever a failed agent writes, its words alone neither stop the task nor
\* make it wait, nor count as a failure of the provider: the decision is to try
\* again, to repair, to replace the agent or to plan anew.
THEOREM AgentTextHasNoAuthority ==
  ASSUME NEW text, NEW suppressed \in BOOLEAN,
         NEW attempt \in Nat, NEW maxAttempts \in Nat, NEW repairUsed \in Nat, NEW repairMax \in Nat
  PROVE  LET type   == ClassifyResult(text)
             action == Decide(type, suppressed, attempt, maxAttempts, repairUsed, repairMax)
         IN  /\ action \in {"retry", "repair_contract", "replace", "replan"}
             /\ ~ BacksOff(type, action)
             /\ type \notin ProviderTypes
<1>1. ClassifyResult(text) \in {"quality", "format", "tool", "sandbox"}
  BY AgentTextTrusted DEF AgentTrusted
<1> QED BY <1>1 DEF Decide, Escalate, BacksOff, BackoffTypes, ProviderTypes, NonRetryable,
                    Replaceable, ContractTypes

\* Every failure that reaches the policy has a type of the enumeration.
THEOREM ClassifyTyped ==
  ASSUME NEW failure, failure.from \in {"result", "exception", "illegal"}
  PROVE  Classify(failure) \in FailureType
<1>1. CASE failure.from = "result"
  <2>1. Classify(failure) \in AgentTrusted
    BY <1>1, AgentTextTrusted DEF Classify
  <2> QED BY <2>1 DEF AgentTrusted, FailureType, Replaceable, ContractTypes
<1>2. CASE failure.from = "illegal"
  BY <1>2 DEF Classify, FailureType, NonRetryable
<1>3. CASE failure.from = "exception"
  <2> DEFINE name == failure.name  status == failure.status  text == failure.text
  <2>1. Classify(failure) = ClassifyException(name, status, text)
    BY <1>3 DEF Classify
  <2>2. "internal" \in FailureType
    BY DEF FailureType, NonRetryable
  <2>3. FirstMatch(NameRules, name, "internal") \in FailureType
    BY <2>2, FirstMatchHits, TablesTyped
  <2>4. FirstMatch(TextRules, text, "internal") \in FailureType
    BY <2>2, FirstMatchHits, TablesTyped
  <2> QED BY <2>1, <2>3, <2>4, StatusTyped DEF ClassifyException
<1> QED BY <1>1, <1>2, <1>3
=============================================================================
