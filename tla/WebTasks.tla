------------------------------- MODULE WebTasks -------------------------------
(***************************************************************************)
(* The tasks of the web console: the manager's memory, the rows that        *)
(* survive it, the runners, and the process that is started, stopped or     *)
(* killed.  web/manager.py, web/store.py, web/app.py, instance_lock.py.     *)
(*                                                                          *)
(* An action is what the event loop runs between two awaits.  A run of the  *)
(* engine and a routed path are one await each, with any status that they   *)
(* return.  A task's number is also its order of creation.                  *)
(***************************************************************************)
EXTENDS Integers, FiniteSets, Sequences

CONSTANTS
  MaxTasks,          \* bound: tasks submitted
  MaxInMemory,       \* MAX_TASKS_IN_MEMORY
  LowWater,          \* what a full memory is pruned to
  Concurrency,       \* web_max_concurrent_tasks
  Resume,            \* web_resume_interrupted_tasks
  KeepHistory,       \* web_keep_history
  MaxRetained,       \* web_max_retained_tasks, 0 for no limit
  MaxAges,           \* bound: how often web_task_retention_days pass; 0 for no such limit
  EngineStatus,      \* statuses the engine returns
  MaxGuidance,       \* bound: guidance given
  MaxTroubles,       \* bound: crashes, stops and second instances together
  MaxSecond          \* bound: starts of a second instance

Task == 1..MaxTasks

Terminal == {"completed", "failed", "cancelled", "human_required"}
Prunable == {"completed", "failed", "cancelled"}
Open == {"queued", "running"}
Status == Terminal \cup Open \cup {"completed_provisional", "scheduled"}

ASSUME WebAssumption ==
  /\ MaxTasks \in Nat /\ MaxInMemory \in Nat \ {0} /\ LowWater \in 0..(MaxInMemory - 1)
  /\ Concurrency \in Nat \ {0} /\ MaxRetained \in Nat /\ MaxAges \in Nat
  /\ Resume \in BOOLEAN /\ KeepHistory \in BOOLEAN
  /\ EngineStatus \subseteq Terminal \cup {"completed_provisional"}
  /\ MaxGuidance \in Nat /\ MaxTroubles \in Nat /\ MaxSecond \in Nat

VARIABLES
  up,        \* "down", "built", "serving", "closing" or "draining"
  mem,       \* the WebTask objects of the process
  pending,   \* _pending_recovery
  disk,      \* the rows, their order by finished_at, the sandboxes, and what has
             \* not been written to for as long as the retention lasts
  starts,    \* history: how often _execute began to work on a task
  used       \* how much of each bound is used up

vars == <<up, mem, pending, disk, starts, used>>

NoTask == [status |-> "none", cancel |-> FALSE, engine |-> FALSE,
           pc |-> "none", job |-> "execute", doomed |-> FALSE]
NoRow  == [status |-> "none", resumes |-> 0]

\* Where a runner is: made but not begun, at the semaphore, in classify, in a
\* routed path, in the engine, waiting for the background review.
Working == {"routing", "answering", "running", "reviewing"}
Active  == {"created", "waiting"} \cup Working
\* "stillborn" was cancelled before its first step, which asyncio then skips.
Idle    == {"none", "done", "stillborn"}

Held(m)   == {t \in Task : m[t].status # "none"}
Stored(d) == {t \in Task : d.row[t].status # "none"}
SlotFree  == Cardinality({t \in Task : mem[t].pc \in Working}) < Concurrency
Trouble   == used.crashes + used.second < MaxTroubles
Closing   == up \in {"closing", "draining"}

------------------------------------------------------------------------------
(* The store. *)

Stamp(aged, t) == Append(SelectSeq(aged, LAMBDA u : u # t), t)
After(aged, t) == {aged[i] : i \in {j \in 1..Len(aged) : \E k \in 1..(j - 1) : aged[k] = t}}

\* _persist_task_record: save, or create when no row was updated.
Persist(d, t, s) ==
  [d EXCEPT !.row[t].status = s,
            !.aged = IF s \in Prunable THEN Stamp(@, t) ELSE @,
            !.old  = IF s \in Prunable THEN @ \ {t} ELSE @]

\* prune: the oldest terminal rows over the limit, and those that ended too long ago.
Surplus_Terminal(d) ==
  {t \in Task :
     /\ MaxRetained > 0
     /\ d.row[t].status \in Terminal
     /\ Cardinality({u \in Task \ {t} : d.row[u].status \in Terminal}) >= MaxRetained}
Surplus(d) ==
  {t \in Task :
     /\ MaxRetained > 0
     /\ d.row[t].status \in Prunable
     /\ Cardinality({u \in After(d.aged, t) : d.row[u].status \in Prunable}) >= MaxRetained}

Expired(d) == {t \in d.old : d.row[t].status \in Prunable}

DeleteRows(d, gone) == [d EXCEPT !.row = [t \in Task |-> IF t \in gone THEN NoRow ELSE @[t]]]

\* _delete_task_files
Delete(d, gone) == [DeleteRows(d, gone) EXCEPT !.files = @ \ gone]

\* _cleanup_orphans: what no row knows goes when it is old.
Orphans(d) == {t \in d.files \cap d.old : t \notin Stored(d)}

\* _cleanup_retention, and the rows alone when it is killed after its commit.
Dropped(d) == Surplus(d) \cup Expired(d)
Pruned(d) == DeleteRows(d, Dropped(d))
Retain(d) ==
  LET kept == Delete(d, Dropped(d))
  IN  [kept EXCEPT !.files = @ \ Orphans(kept)]

Exhausted(d, t) == d.row[t].status \in Open /\ (Resume => d.row[t].resumes >= 1)

\* mark_interrupted: finished_at is the same for all that it ends.
Ended(d) == {t \in Task : \/ Exhausted(d, t)
                          \/ d.row[t].status \in {"human_required", "completed_provisional"}}

MarkInterrupted(d) ==
  [d EXCEPT !.row  = [t \in Task |-> IF t \in Ended(d) THEN [@[t] EXCEPT !.status = "failed"]
                                                       ELSE @[t]],
            !.aged = SelectSeq(@, LAMBDA u : u \notin Ended(d))
                     \o SelectSeq([i \in 1..MaxTasks |-> i], LAMBDA u : u \in Ended(d)),
            !.old  = @ \ Ended(d)]

Recoverable(d) == {t \in Task : Resume /\ d.row[t].status \in Open /\ d.row[t].resumes < 1}

RecoverInterrupted_Uncounted(d) ==
  [d EXCEPT !.row = [t \in Task |-> IF t \in Recoverable(d)
                                      THEN [@[t] EXCEPT !.status = "queued"] ELSE @[t]]]
RecoverInterrupted(d) ==
  [d EXCEPT !.row = [t \in Task |-> IF t \in Recoverable(d)
                                      THEN [status |-> "queued", resumes |-> @[t].resumes + 1]
                                      ELSE @[t]]]

\* TaskManager.__init__ on the files.
Recovered(d) == RecoverInterrupted(MarkInterrupted(d))
Construct(d) == Retain(Recovered(d))

\* list_recent: the newest rows.
Newest(d, n) == {t \in Stored(d) : Cardinality({u \in Stored(d) : u > t}) < n}

Loaded(d) == [t \in Task |-> IF t \in Newest(d, MaxInMemory)
                               THEN [NoTask EXCEPT !.status = d.row[t].status] ELSE NoTask]

------------------------------------------------------------------------------
(* The process. *)

\* Made by create_app, before the lifespan takes the lock.
Build ==
  /\ up = "down"
  /\ up' = "built"
  /\ disk' = Construct(disk)
  /\ pending' = Recoverable(MarkInterrupted(disk))
  /\ mem' = Loaded(Construct(disk))
  /\ UNCHANGED <<starts, used>>

\* The lifespan after acquire(): resume_interrupted.
Serve ==
  /\ up = "built"
  /\ up' = "serving"
  /\ mem' = [t \in Task |-> IF t \in pending \cap Held(mem)
                              THEN [NoTask EXCEPT !.status = "queued", !.pc = "created"]
                              ELSE mem[t]]
  /\ pending' = {}
  /\ UNCHANGED <<disk, starts, used>>

\* A second instance: its manager is built before the lock refuses it.
SecondInstance ==
  /\ up \in {"serving", "closing", "draining"}
  /\ Trouble /\ used.second < MaxSecond
  /\ used' = [used EXCEPT !.second = @ + 1]
  /\ disk' = Construct(disk)
  /\ UNCHANGED <<up, mem, pending, starts>>

Crash ==
  /\ up # "down"
  /\ Trouble
  /\ used' = [used EXCEPT !.crashes = @ + 1]
  /\ up' = "down"
  /\ mem' = [t \in Task |-> NoTask]
  /\ pending' = {}
  /\ UNCHANGED <<disk, starts>>

\* Killed while retention cleans up, after a task or at the start.
CrashInCleanup ==
  /\ Trouble
  /\ used' = [used EXCEPT !.crashes = @ + 1]
  /\ \/ /\ up = "down" /\ Dropped(Recovered(disk)) # {}
        /\ disk' = Pruned(Recovered(disk))
     \/ \E t \in Task, s \in Prunable :
          /\ up # "down" /\ mem[t].pc \in Working /\ mem[t].job = "execute"
          /\ Dropped(Persist(disk, t, s)) # {}
          /\ disk' = Pruned(Persist(disk, t, s))
  /\ up' = "down"
  /\ mem' = [t \in Task |-> NoTask]
  /\ pending' = {}
  /\ UNCHANGED starts

\* The time of the retention passes without a write.
Age ==
  /\ used.ages < MaxAges
  /\ used' = [used EXCEPT !.ages = @ + 1]
  /\ disk' = [disk EXCEPT !.old = Task]
  /\ UNCHANGED <<up, mem, pending, starts>>

\* CancelledError at the next await, or before the first step.
CancelRunner(m) ==
  CASE m.pc = "created" -> [m EXCEPT !.pc = "stillborn"]
    [] m.pc \in Active \ {"created"} -> [m EXCEPT !.doomed = TRUE]
    [] OTHER -> m

\* shutdown: while the outbox and the scheduler are being stopped, runners go on.
Close ==
  /\ up = "serving"
  /\ Trouble
  /\ used' = [used EXCEPT !.crashes = @ + 1]
  /\ up' = "closing"
  /\ UNCHANGED <<mem, pending, disk, starts>>

Drain ==
  /\ up = "closing"
  /\ up' = "draining"
  /\ mem' = [t \in Task |-> CancelRunner(mem[t])]
  /\ UNCHANGED <<pending, disk, starts, used>>

Leave ==
  /\ up = "draining"
  /\ \A t \in Task : mem[t].pc \in Idle
  /\ up' = "down"
  /\ disk' = Retain(disk)
  /\ mem' = [t \in Task |-> NoTask]
  /\ UNCHANGED <<pending, starts, used>>

------------------------------------------------------------------------------
(* The handlers of the web application. *)

Without(m, gone) == [t \in Task |-> IF t \in gone THEN NoTask ELSE m[t]]

\* _prune_finished: the oldest that are terminal, human_required among them.
Evicted(m) ==
  LET removable == {t \in Held(m) : m[t].status \in Terminal /\ m[t].pc \in Idle}
      excess    == Cardinality(Held(m)) - LowWater
  IN  IF Cardinality(Held(m)) < MaxInMemory THEN {}
      ELSE {t \in removable : Cardinality({u \in removable : u < t}) < excess}

\* _prepare_new_run, of the memory that is left.
Finished(m) ==
  IF KeepHistory THEN {}
  ELSE {t \in Held(m) : m[t].status \in Prunable /\ m[t].pc \in Idle}

Swept(m) == LET kept == Without(m, Evicted(m)) IN Without(kept, Finished(kept))
Tidied(m, d) == Delete(d, Finished(Without(m, Evicted(m))))

\* submit, with room for the task or refused after the sweep.
Submit ==
  /\ up = "serving"
  /\ used.tasks < MaxTasks
  /\ LET t == used.tasks + 1
         room == Cardinality(Held(Swept(mem))) < MaxInMemory
     IN  IF room
         THEN /\ mem' = [Swept(mem) EXCEPT ![t] = [NoTask EXCEPT !.status = "queued", !.pc = "created"]]
              /\ disk' = [Tidied(mem, disk) EXCEPT !.row[t] = [status |-> "queued", resumes |-> 0],
                                                   !.files = @ \cup {t}, !.old = @ \ {t}]
              /\ used' = [used EXCEPT !.tasks = t]
         ELSE /\ mem' = Swept(mem)
              /\ disk' = Tidied(mem, disk)
              /\ UNCHANGED used
  /\ UNCHANGED <<up, pending, starts>>

Cancel(t) ==
  /\ up = "serving"
  /\ t \in Held(mem)
  /\ mem[t].status \notin Terminal
  /\ mem' = [mem EXCEPT ![t] = CancelRunner([@ EXCEPT !.cancel = TRUE])]
  /\ UNCHANGED <<up, pending, disk, starts, used>>

SubmitGuidance(t) ==
  /\ up = "serving"
  /\ used.guidance < MaxGuidance
  /\ t \in Held(mem)
  /\ mem[t].status = "human_required" /\ mem[t].engine
  /\ mem[t].pc \in Idle
  /\ mem' = [mem EXCEPT ![t].status = "running", ![t].cancel = FALSE,
                        ![t].pc = "created", ![t].job = "resume"]
  /\ disk' = Persist(disk, t, "running")
  /\ used' = [used EXCEPT !.guidance = @ + 1]
  /\ UNCHANGED <<up, pending, starts>>

------------------------------------------------------------------------------
(* A runner: _execute or _resume_with_guidance. *)

Moves(t) == up \in {"serving", "closing", "draining"} /\ ~mem[t].doomed

\* The finally clause; only _execute cleans up what retention drops.
Finish(t, s) ==
  /\ mem' = [mem EXCEPT ![t].status = s, ![t].pc = "done", ![t].doomed = FALSE,
                        ![t].cancel = @ \/ mem[t].doomed]
  /\ disk' = IF mem[t].job = "execute" THEN Retain(Persist(disk, t, s)) ELSE Persist(disk, t, s)
  /\ UNCHANGED <<up, pending, starts, used>>

AwaitSlot(t) ==
  /\ Moves(t)
  /\ mem[t].pc = "created" /\ ~SlotFree
  /\ mem' = [mem EXCEPT ![t].pc = "waiting"]
  /\ UNCHANGED <<up, pending, disk, starts, used>>

\* With the semaphore: a cancelled task has been given the exception instead.
Begin(t) ==
  /\ Moves(t)
  /\ mem[t].pc \in {"created", "waiting"} /\ SlotFree
  /\ \/ /\ mem[t].job = "execute"
        /\ mem' = [mem EXCEPT ![t].status = "running", ![t].pc = "routing"]
        /\ disk' = Persist(disk, t, "running")
        /\ starts' = [starts EXCEPT ![t] = @ + 1]
     \/ /\ mem[t].job = "resume"
        /\ mem' = [mem EXCEPT ![t].pc = "running"]
        /\ UNCHANGED <<disk, starts>>
  /\ UNCHANGED <<up, pending, used>>

\* The class is known: the manager's own engine, or a path of the router.
Classified(t) ==
  /\ Moves(t)
  /\ mem[t].pc = "routing"
  /\ \/ mem' = [mem EXCEPT ![t].pc = "running", ![t].engine = TRUE]
     \/ mem' = [mem EXCEPT ![t].pc = "answering"]
  /\ UNCHANGED <<up, pending, disk, starts, used>>

\* A bad configuration, any other exception, or the fast path for one file.
EndsEarly(t) ==
  /\ Moves(t)
  /\ mem[t].pc \in {"routing", "running"}
  /\ \/ Finish(t, "failed")
     \/ mem[t].pc = "routing" /\ Finish(t, "completed")

\* route(): an answer, a scheduled task, or, when the answer pretends to call a
\* tool, an engine that the manager never sees and whose review it awaits.
Answered(t) ==
  /\ Moves(t)
  /\ mem[t].pc = "answering"
  /\ \E s \in {"completed", "failed", "scheduled"} \cup (EngineStatus \cap Terminal) : Finish(t, s)

RunEnds(t) ==
  /\ Moves(t)
  /\ mem[t].pc = "running" /\ mem[t].job = "execute"
  /\ \E s \in EngineStatus :
       IF s = "completed_provisional"
       THEN /\ mem' = [mem EXCEPT ![t].status = s, ![t].pc = "reviewing"]
            /\ disk' = Persist(disk, t, s)
            /\ UNCHANGED <<up, pending, starts, used>>
       ELSE Finish(t, s)

\* wait_for_provisional; a process that closes keeps the early status.
Reviewed(t) ==
  /\ Moves(t)
  /\ mem[t].pc = "reviewing"
  /\ \E s \in EngineStatus \cap Terminal :
       Finish(t, IF Closing \/ mem[t].cancel THEN mem[t].status ELSE s)

\* resume_with_guidance; guidance it refuses leaves the task with the human.
ResumeEnds(t) ==
  /\ Moves(t)
  /\ mem[t].pc = "running" /\ mem[t].job = "resume"
  /\ \E s \in EngineStatus \cup {"human_required"} : Finish(t, s)

Interrupted(t) ==
  /\ up \in {"serving", "closing", "draining"}
  /\ mem[t].doomed
  /\ Finish(t, "cancelled")

------------------------------------------------------------------------------
Init ==
  /\ up = "down"
  /\ mem = [t \in Task |-> NoTask]
  /\ pending = {}
  /\ disk = [row |-> [t \in Task |-> NoRow], aged |-> <<>>, files |-> {}, old |-> {}]
  /\ starts = [t \in Task |-> 0]
  /\ used = [tasks |-> 0, guidance |-> 0, crashes |-> 0, second |-> 0, ages |-> 0]

Runner(t) ==
  \/ AwaitSlot(t) \/ Begin(t) \/ Classified(t) \/ EndsEarly(t) \/ Answered(t)
  \/ RunEnds(t) \/ Reviewed(t) \/ ResumeEnds(t) \/ Interrupted(t)

Process == Build \/ Serve \/ Drain \/ Leave

Next ==
  \/ Process \/ Close \/ Crash \/ CrashInCleanup \/ Age \/ SecondInstance \/ Submit
  \/ \E t \in Task : Cancel(t) \/ SubmitGuidance(t) \/ Runner(t)

Spec == Init /\ [][Next]_vars

------------------------------------------------------------------------------
(* Properties. *)

\* Whatever crashes and restarts, the console begins to execute a task at most
\* twice (README.md:392); guidance from a human is not counted.
ResumedAtMostOnce == used.second = 0 => \A t \in Task : starts[t] <= 2

\* The files of a task are there as long as it may still work: neither
\* retention nor a new submission deletes the sandbox under a runner or
\* under a human's decision, and a restart finds what it resumes.
FilesOfTheLiving ==
  used.second = 0 =>
    \A t \in Task : \/ mem[t].pc \in Active
                     \/ disk.row[t].status \in Open \cup {"human_required", "completed_provisional"}
                     => t \in disk.files

\* A task that waits for a human can be given guidance, or is not waited for.
HumanIsGuidable ==
  \A t \in Held(mem) : mem[t].status = "human_required" /\ mem[t].pc \in Idle => mem[t].engine
==============================================================================
