---------------------------- MODULE PeriodicTaskPoller ----------------------------
(***************************************************************************)
(* Persistent tasks: the rows of TaskStore (persistence.py), the pollers    *)
(* that execute them when due (task_scheduler.py), one per process of the   *)
(* CLI daemon or the web application, and the path that creates them        *)
(* (paths/persistent_task.py).  All processes share one SQLite file.        *)
(*                                                                         *)
(* Every operation of TaskStore commits on its own, so it is an action:     *)
(* another process may act, or this one may crash, between any two.  Within *)
(* a process only one coroutine runs, up to its next await; Synchronous     *)
(* says which one that is.                                                  *)
(***************************************************************************)
EXTENDS Integers, Sequences, FiniteSets

CONSTANTS
  Process,        \* processes that run a poller on the store
  Task,           \* persistent tasks
  Trigger,        \* ScheduleSpec.trigger of each task
  Period,         \* interval_seconds, or the distance of the cron times
  FoldAt,         \* when the wall clock of the time zone is set back
  FoldBy,         \* and by how much; 0 without a time zone
  Policy,         \* settings.scheduler_misfire_policy, as a process reads it at
                  \* its start: Policy[n + 1] after n restarts
  Grace,          \* settings.scheduler_misfire_grace_seconds
  MaxCatchUp,     \* settings.scheduler_max_catch_up_runs
  MaxRetries,     \* settings.scheduler_task_max_retries
  BackoffBase,    \* settings.scheduler_task_retry_backoff_seconds
  BackoffCap,     \* one hour
  MaxConcurrent,  \* settings.scheduler_max_concurrent_tasks
  MaxTime,        \* bound: the clock stops there
  MaxRestarts,    \* bound: stops, crashes and restarts of each process
  Faults          \* what may go wrong in this instance

ASSUME PollerAssumption ==
  /\ Trigger \in [Task -> {"once", "interval", "cron"}]
  /\ Period \in [Task -> Nat \ {0}]
  /\ FoldAt \in Nat /\ FoldBy \in 0..FoldAt
  /\ Policy \in [1..(MaxRestarts + 1) -> {"coalesce", "catch_up", "skip"}]
  /\ Grace \in Nat /\ MaxCatchUp \in Nat \ {0}
  /\ MaxRetries \in Nat /\ BackoffBase \in Nat /\ BackoffCap \in Nat
  /\ MaxConcurrent \in Nat \ {0}
  /\ MaxTime \in Nat /\ MaxRestarts \in Nat
  /\ Faults \subseteq {"fail", "stop", "crash"}

\* Powers of two are numbers, as far as retries go.
ASSUME DelayAssumption == \A n \in 0..MaxRetries : 2 ^ n \in Nat

VARIABLES
  now,       \* the clock all processes read
  creator,   \* how far PersistentTaskPath.run has come with a task
  task,      \* the row of each task
  runs,      \* its rows in task_runs, in order of insertion
  mode,      \* of each process
  restarts,  \* of each process so far
  exec       \* exec[p][t]: the coroutine of p for t, idle if not in _inflight

store == <<task, runs>>
procs == <<mode, restarts>>
vars  == <<now, creator, store, procs, exec>>

----------------------------------------------------------------------------
Unset == -1      \* NULL in a time column

\* Where a coroutine waits; at any other place it is about to write.
Waiting == {"idle", "queued", "acting", "cancelled"}
Writing == {"skip", "start", "closeMissed", "creditMissed", "complete", "credit",
            "close", "renew", "checkpoint", "closeFailed", "retry", "pause"}

\* A coroutine that has claimed its task.
Claimed == (Waiting \ {"idle", "queued"}) \cup Writing

Row  == [status : {"absent", "scheduled", "running", "completed", "paused"},
         next : Nat \cup {Unset}, failures : Nat, checkpoint : BOOLEAN]
Run  == [trigger : Nat,
         status : {"running", "completed", "failed", "cancelled", "skipped"}]
Exec == [pc : Waiting \cup Writing, trigger : Nat, failures : Nat,
         done : Nat, run : Nat, next : Nat \cup {Unset}]

Idle == [pc |-> "idle", trigger |-> 0, failures |-> 0, done |-> 0, run |-> 0,
         next |-> Unset]

Recurring(t) == Trigger[t] # "once"

\* The wall clock of a task's time zone, and the moment a wall time stands for:
\* of the two moments of a repeated wall time, the first (fold = 0).
WallClock(moment) == IF moment < FoldAt THEN moment ELSE moment - FoldBy
Moment(wall)      == IF wall < FoldAt THEN wall ELSE wall + FoldBy

\* CronExpression.next_after, on wall times.
NextAfter(t, wall) == (wall \div Period[t] + 1) * Period[t]

\* _compute_next_run: an interval counts from base; a cron expression is solved
\* on the wall clock and its solution taken back to a moment.
NextRun_NotAfter(t, base) ==
  IF Trigger[t] = "interval" THEN base + Period[t] - 1
  ELSE Moment((WallClock(base) \div Period[t]) * Period[t])

NextRun(t, base) ==
  IF Trigger[t] = "interval" THEN base + Period[t]
  ELSE Moment(NextAfter(t, WallClock(base)))

\* _retry_backoff_seconds
Backoff(n) ==
  LET raw == BackoffBase * 2 ^ (n - 1) IN IF raw < BackoffCap THEN raw ELSE BackoffCap

Due(t) == task[t].status = "scheduled" /\ task[t].next # Unset /\ task[t].next <= now

\* No coroutine of p is between two awaits.
Synchronous(p) == {t \in Task : exec[p][t].pc \in Writing}

At(p, t, loc) == exec[p][t].pc = loc /\ Synchronous(p) \subseteq {t}

Goto(p, t, e, loc) == exec' = [exec EXCEPT ![p][t] = [e EXCEPT !.pc = loc]]

Leave(p, t) == exec' = [exec EXCEPT ![p][t] = Idle]

----------------------------------------------------------------------------
(***************************************************************************)
(* Creation: the row is inserted as scheduled but without a time, and the   *)
(* time follows in a second commit.                                         *)
(***************************************************************************)
CreateTask(t) ==
  /\ creator[t] = "none"
  /\ creator' = [creator EXCEPT ![t] = "created"]
  /\ task' = [task EXCEPT ![t].status = "scheduled"]
  /\ UNCHANGED <<now, runs, procs, exec>>

RegisterTask(t) ==
  /\ creator[t] = "created"
  /\ creator' = [creator EXCEPT ![t] = "done"]
  /\ task' = [task EXCEPT ![t].status = "scheduled",
                          ![t].next = IF Recurring(t) THEN NextRun(t, now) ELSE now]
  /\ UNCHANGED <<now, runs, procs, exec>>

CreatorCrashes(t) ==
  /\ "crash" \in Faults
  /\ creator[t] = "created"
  /\ creator' = [creator EXCEPT ![t] = "crashed"]
  /\ UNCHANGED <<now, store, procs, exec>>

----------------------------------------------------------------------------
(***************************************************************************)
(* The poll loop.                                                           *)
(***************************************************************************)

\* _dispatch_due_tasks reads all due rows and starts a coroutine, with the row
\* as it is now, for each task this process does not have in flight.
Fresh(p, t) == Due(t) /\ exec[p][t].pc = "idle"

Poll(p) ==
  /\ mode[p] = "up" /\ Synchronous(p) = {}
  /\ \E t \in Task : Fresh(p, t)
  /\ exec' = [exec EXCEPT ![p] =
       [t \in Task |->
          IF Fresh(p, t)
          THEN [Idle EXCEPT !.pc = "queued", !.trigger = task[t].next,
                            !.failures = task[t].failures]
          ELSE exec[p][t]]]
  /\ UNCHANGED <<now, creator, store, procs>>

\* A coroutine gets the semaphore and claims its task by a conditional update,
\* whatever has become of the row since it was read, as long as the status is
\* scheduled.  Then it decides whether the trigger was missed.
Claimable_Always(t) == TRUE
Claimable(t) == task[t].status = "scheduled"

PolicyOf(p) == Policy[restarts[p] + 1]

Missed(p, t, trigger) ==
  PolicyOf(p) = "skip" /\ Recurring(t) /\ now - trigger > Grace

Claim(p, t) ==
  /\ At(p, t, "queued") /\ Synchronous(p) = {}
  /\ Cardinality({u \in Task : exec[p][u].pc \in Claimed}) < MaxConcurrent
  /\ IF Claimable(t)
     THEN /\ task' = [task EXCEPT ![t].status = "running"]
          /\ LET e == exec[p][t]
             IN IF Missed(p, t, e.trigger)
                THEN Goto(p, t, [e EXCEPT !.next = NextRun(t, now)], "skip")
                ELSE Goto(p, t, e, "start")
     ELSE Leave(p, t) /\ UNCHANGED task
  /\ UNCHANGED <<now, creator, runs, procs>>

\* record_skipped_run
RecordSkippedRun(p, t) ==
  /\ At(p, t, "skip")
  /\ runs' = [runs EXCEPT ![t] = Append(@, [trigger |-> exec[p][t].trigger,
                                            status  |-> "skipped"])]
  /\ Goto(p, t, exec[p][t], "renew")
  /\ UNCHANGED <<now, creator, task, procs>>

\* start_run, after which the action of the task is awaited.
StartRun(p, t) ==
  /\ At(p, t, "start")
  /\ runs' = [runs EXCEPT ![t] = Append(@, [trigger |-> exec[p][t].trigger,
                                            status  |-> "running"])]
  /\ Goto(p, t, [exec[p][t] EXCEPT !.run = Len(runs[t]) + 1], "acting")
  /\ UNCHANGED <<now, creator, task, procs>>

----------------------------------------------------------------------------
\* The time after this run, never one that has passed already.
Following_MayBePast(t, candidate) == candidate
Following(t, candidate) == IF candidate <= now THEN NextRun(t, now) ELSE candidate

CountRun(e) == [e EXCEPT !.done = @ + 1]

\* The action succeeds: catch_up runs the next missed trigger at once as long
\* as its budget lasts; otherwise the run is booked and the task rescheduled.
ActionReturns(p, t) ==
  /\ At(p, t, "acting") /\ Synchronous(p) = {}
  /\ LET e         == CountRun(exec[p][t])
         catchUp   == PolicyOf(p) = "catch_up" /\ Recurring(t)
         candidate == NextRun(t, IF catchUp THEN e.trigger ELSE now)
     IN IF catchUp /\ candidate <= now /\ e.done < MaxCatchUp
        THEN Goto(p, t, [e EXCEPT !.trigger = candidate], "closeMissed")
        ELSE Goto(p, t, [e EXCEPT !.next = IF Recurring(t)
                                           THEN Following(t, candidate) ELSE Unset],
                  "complete")
  /\ UNCHANGED <<now, creator, store, procs>>

ActionFails(p, t) ==
  /\ "fail" \in Faults
  /\ At(p, t, "acting") /\ Synchronous(p) = {}
  /\ Goto(p, t, exec[p][t], "checkpoint")
  /\ UNCHANGED <<now, creator, store, procs>>

\* finish_run.  After a failure the number of retries is compared with the
\* count of failures the poll has read.
CloseRun(t, run, status) == runs' = [runs EXCEPT ![t][run].status = status]

Retries(failures) == MaxRetries > 0 /\ failures + 1 <= MaxRetries

FinishRun(p, t) ==
  /\ LET e == exec[p][t]
     IN \/ /\ At(p, t, "closeMissed")
           /\ CloseRun(t, e.run, "completed")
           /\ Goto(p, t, e, "creditMissed")
        \/ /\ At(p, t, "close")
           /\ CloseRun(t, e.run, "completed")
           /\ IF e.next = Unset THEN Leave(p, t) ELSE Goto(p, t, e, "renew")
        \/ /\ At(p, t, "closeFailed")
           /\ CloseRun(t, e.run, "failed")
           /\ IF Retries(e.failures)
              THEN Goto(p, t, [e EXCEPT !.next = now + Backoff(e.failures + 1)], "retry")
              ELSE Goto(p, t, e, "pause")
        \/ /\ At(p, t, "cancelled") /\ Synchronous(p) = {}
           /\ CloseRun(t, e.run, "cancelled")
           /\ Goto(p, t, e, "pause")
  /\ UNCHANGED <<now, creator, task, procs>>

\* update_status("completed"): a recurring task is completed until "renew".
UpdateStatus(p, t) ==
  /\ At(p, t, "complete")
  /\ task' = [task EXCEPT ![t].status = "completed"]
  /\ Goto(p, t, exec[p][t], "credit")
  /\ UNCHANGED <<now, creator, runs, procs>>

\* record_success resets the count of consecutive failures.
RecordSuccess(p, t) ==
  /\ \/ At(p, t, "credit") /\ Goto(p, t, exec[p][t], "close")
     \/ At(p, t, "creditMissed") /\ Goto(p, t, exec[p][t], "start")
  /\ task' = [task EXCEPT ![t].failures = 0]
  /\ UNCHANGED <<now, creator, runs, procs>>

Reschedule(p, t) ==
  /\ At(p, t, "renew")
  /\ task' = [task EXCEPT ![t].status = "scheduled", ![t].next = exec[p][t].next]
  /\ Leave(p, t)
  /\ UNCHANGED <<now, creator, runs, procs>>

SaveCheckpoint(p, t) ==
  /\ At(p, t, "checkpoint")
  /\ task' = [task EXCEPT ![t].checkpoint = TRUE]
  /\ Goto(p, t, exec[p][t], "closeFailed")
  /\ UNCHANGED <<now, creator, runs, procs>>

ScheduleRetry(p, t) ==
  /\ At(p, t, "retry")
  /\ task' = [task EXCEPT ![t].status = "scheduled", ![t].next = exec[p][t].next,
                          ![t].failures = @ + 1]
  /\ Leave(p, t)
  /\ UNCHANGED <<now, creator, runs, procs>>

Pause(p, t) ==
  /\ At(p, t, "pause")
  /\ task' = [task EXCEPT ![t].status = "paused", ![t].next = Unset]
  /\ Leave(p, t)
  /\ UNCHANGED <<now, creator, runs, procs>>

----------------------------------------------------------------------------
\* stop() cancels every coroutine in flight: one that waits for the semaphore
\* ends, one whose action runs has to close its run and pause the task.
Interrupt_Drops(p, t) == Idle
Interrupt(p, t) == IF exec[p][t].pc = "acting"
                   THEN [exec[p][t] EXCEPT !.pc = "cancelled"] ELSE Idle

Stop(p) ==
  /\ "stop" \in Faults
  /\ mode[p] = "up" /\ Synchronous(p) = {} /\ restarts[p] < MaxRestarts
  /\ mode' = [mode EXCEPT ![p] = "stopping"]
  /\ exec' = [exec EXCEPT ![p] = [t \in Task |-> Interrupt(p, t)]]
  /\ UNCHANGED <<now, creator, store, restarts>>

Drained(p) ==
  /\ mode[p] = "stopping"
  /\ \A t \in Task : exec[p][t].pc = "idle"
  /\ mode' = [mode EXCEPT ![p] = "down"]
  /\ UNCHANGED <<now, creator, store, restarts, exec>>

\* The process dies at any point; only the committed rows remain.
Crash(p) ==
  /\ "crash" \in Faults
  /\ mode[p] # "down" /\ restarts[p] < MaxRestarts
  /\ mode' = [mode EXCEPT ![p] = "down"]
  /\ exec' = [exec EXCEPT ![p] = [t \in Task |-> Idle]]
  /\ UNCHANGED <<now, creator, store, restarts>>

Restart(p) ==
  /\ mode[p] = "down" /\ restarts[p] < MaxRestarts
  /\ mode' = [mode EXCEPT ![p] = "up"]
  /\ restarts' = [restarts EXCEPT ![p] = @ + 1]
  /\ UNCHANGED <<now, creator, store, exec>>

Tick ==
  /\ now < MaxTime
  /\ now' = now + 1
  /\ UNCHANGED <<creator, store, procs, exec>>

\* The clock has reached its bound and every coroutine its end.
Rest ==
  /\ now = MaxTime /\ \A p \in Process, t \in Task : exec[p][t].pc = "idle"
  /\ UNCHANGED vars

----------------------------------------------------------------------------
Init ==
  /\ now = 0
  /\ creator = [t \in Task |-> "none"]
  /\ task = [t \in Task |-> [status |-> "absent", next |-> Unset, failures |-> 0,
                             checkpoint |-> FALSE]]
  /\ runs = [t \in Task |-> <<>>]
  /\ mode = [p \in Process |-> "up"]
  /\ restarts = [p \in Process |-> 0]
  /\ exec = [p \in Process |-> [t \in Task |-> Idle]]

Execute(p, t) ==
  \/ Claim(p, t) \/ RecordSkippedRun(p, t) \/ StartRun(p, t)
  \/ ActionReturns(p, t) \/ ActionFails(p, t) \/ FinishRun(p, t)
  \/ UpdateStatus(p, t) \/ RecordSuccess(p, t) \/ Reschedule(p, t)
  \/ SaveCheckpoint(p, t) \/ ScheduleRetry(p, t) \/ Pause(p, t)

Create(t) == CreateTask(t) \/ RegisterTask(t)

Next ==
  \/ \E t \in Task : Create(t) \/ CreatorCrashes(t)
  \/ \E p \in Process : \/ Poll(p) \/ Stop(p) \/ Drained(p) \/ Crash(p) \/ Restart(p)
                        \/ \E t \in Task : Execute(p, t)
  \/ Tick \/ Rest

(***************************************************************************)
(* Time passes, a process that is up polls and runs its coroutines, an      *)
(* action ends (the pipeline has timeouts), and an operator restarts what   *)
(* is down (MaxRestarts bounds the stops and crashes, too).  Nobody has to   *)
(* stop or crash.                                                           *)
(***************************************************************************)
Fairness ==
  /\ WF_vars(Tick)
  /\ \A t \in Task : WF_vars(Create(t))
  /\ \A p \in Process :
       /\ WF_vars(Poll(p)) /\ WF_vars(Drained(p)) /\ WF_vars(Restart(p))
       /\ \A t \in Task : WF_vars(Execute(p, t))

Spec     == Init /\ [][Next]_vars
FairSpec == Spec /\ Fairness

----------------------------------------------------------------------------
(***************************************************************************)
(* Properties.                                                              *)
(***************************************************************************)

\* The type of every variable.
TypeOK ==
  /\ now \in Nat
  /\ creator \in [Task -> {"none", "created", "done", "crashed"}]
  /\ task \in [Task -> Row]
  /\ runs \in [Task -> Seq(Run)]
  /\ mode \in [Process -> {"up", "stopping", "down"}]
  /\ restarts \in [Process -> Nat]
  /\ exec \in [Process -> [Task -> Exec]]

\* At any time at most one coroutine of one process executes a task, from its
\* claim to its last write, however many processes poll the store.
OneExecution ==
  \A p, q \in Process, t \in Task :
    exec[p][t].pc \in Claimed /\ exec[q][t].pc \in Claimed => p = q

\* A run recorded as running is the run of a live coroutine, and no other row
\* of the history stays open: a stop, a failure or a skip closes what it found.
OpenRunsOwned ==
  \A t \in Task : \A i \in DOMAIN runs[t] :
    runs[t][i].status = "running" =>
      \E p \in Process : exec[p][t].pc \in Claimed /\ exec[p][t].run = i

\* A trigger that was completed or skipped is never run again, and the history
\* of a task is in the order of its triggers from there on.
TriggerHandledOnce ==
  \A t \in Task : \A j \in DOMAIN runs[t] : \A i \in 1..(j - 1) :
    runs[t][i].status \in {"completed", "skipped"} =>
      runs[t][i].trigger < runs[t][j].trigger

\* A success or a skip moves a recurring task past the moment it is booked: it
\* is not due again at once, however many triggers it has missed ("rescheduled
\* from the current time", config.py).  Where the wall clock of the time zone is
\* set back it does not hold.
NoStorm ==
  [][\A p \in Process, t \in Task :
       /\ exec[p][t].pc \in {"queued", "acting"}
       /\ exec'[p][t].pc \in {"skip", "complete"}
       /\ Recurring(t)
       => exec'[p][t].next > now]_vars

----------------------------------------------------------------------------
(***************************************************************************)
(* What the documentation says and the code does not do.                    *)
(***************************************************************************)

\* "Persisted in SQLite, recoverable across processes": a task that a process
\* has claimed comes to an end in that process or another.
RecoverableAcrossProcesses ==
  \A t \in Task : task[t].status = "running" ~> task[t].status # "running"
=============================================================================
