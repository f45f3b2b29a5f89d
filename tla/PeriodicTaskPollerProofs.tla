------------------------ MODULE PeriodicTaskPollerProofs ------------------------
(***************************************************************************)
(* Theorems about PeriodicTaskPoller, for any number of processes and tasks *)
(* and every policy: type correctness; that a task is never executed by two *)
(* processes at once; that without crashes every open run is in the hands   *)
(* of a coroutine; and that one process handles a trigger once.             *)
(***************************************************************************)
EXTENDS MCPollerScenes, SequenceTheorems, TLAPS

(***************************************************************************)
(* What makes OneExecution inductive: a claimed task is not scheduled, so   *)
(* nobody can claim it again, and a task that is still being created has no *)
(* coroutine that the second commit of its creator could interfere with.    *)
(***************************************************************************)
ClaimHeld ==
  \A p \in Process, t \in Task :
    exec[p][t].pc \in Claimed => task[t].status \in {"running", "completed"}

Unborn ==
  \A t \in Task : creator[t] \in {"none", "created"} =>
    task[t].next = Unset /\ \A p \in Process : exec[p][t].pc = "idle"

Inductive == TypeOK /\ OneExecution /\ ClaimHeld /\ Unborn

----------------------------------------------------------------------------
\* The next time of a task is a time.
LEMMA NextRunType ==
  ASSUME NEW t \in Task, NEW base \in Nat
  PROVE  NextRun(t, base) \in Nat
<1>1. Period[t] \in Nat \ {0}
  BY PollerAssumption
<1>2. WallClock(base) \in Nat
  BY PollerAssumption DEF WallClock
<1>3. WallClock(base) \div Period[t] \in Nat
  BY <1>1, <1>2
<1>4. NextAfter(t, WallClock(base)) \in Nat
  BY <1>1, <1>3 DEF NextAfter
<1>5. Moment(NextAfter(t, WallClock(base))) \in Nat
  BY <1>4, PollerAssumption DEF Moment
<1> QED BY <1>1, <1>5 DEF NextRun

\* The wait before a retry that is allowed is a time, too.
LEMMA BackoffType ==
  ASSUME NEW failures \in Nat, Retries(failures)
  PROVE  Backoff(failures + 1) \in Nat
<1>1. (failures + 1) - 1 \in 0..MaxRetries
  BY PollerAssumption DEF Retries
<1>2. 2 ^ ((failures + 1) - 1) \in Nat
  BY <1>1, DelayAssumption
<1>3. BackoffBase * 2 ^ ((failures + 1) - 1) \in Nat
  BY <1>2, PollerAssumption
<1> QED BY <1>3, PollerAssumption DEF Backoff

\* Closing a row of the history leaves a history.
LEMMA CloseRunType ==
  ASSUME runs \in [Task -> Seq(Run)], NEW t \in Task, NEW run \in Nat,
         NEW status \in {"running", "completed", "failed", "cancelled", "skipped"},
         CloseRun(t, run, status)
  PROVE  runs' \in [Task -> Seq(Run)]
<1> DEFINE h == runs[t]
           closed == [h EXCEPT ![run].status = status]
<1>1. h \in [1..Len(h) -> Run] /\ Len(h) \in Nat
  OBVIOUS
<1>2. closed \in [1..Len(h) -> Run]
  BY <1>1 DEF Run
<1>3. closed \in Seq(Run)
  BY <1>1, <1>2, SeqDef
<1> QED BY <1>3 DEF CloseRun

----------------------------------------------------------------------------
\* A step of one coroutine that neither claims nor creates: the task leaves
\* scheduled only by the claim, and a coroutine that stays claimed leaves the
\* status at running or completed.
LEMMA OwnerStep ==
  ASSUME Inductive, UNCHANGED creator,
         NEW p \in Process, NEW t \in Task,
         exec[p][t].pc \in Claimed,
         \A q \in Process, u \in Task : (q = p /\ u = t) \/ exec'[q][u] = exec[q][u],
         \A u \in Task : u = t \/ task'[u] = task[u],
         exec'[p][t].pc \in Claimed => task'[t].status \in {"running", "completed"}
  PROVE  OneExecution' /\ ClaimHeld' /\ Unborn'
<1> USE DEF Inductive
<1>1. creator[t] \notin {"none", "created"}
  BY DEF Unborn, Claimed, Waiting, Writing
<1>2. \A q \in Process : q # p => exec[q][t].pc \notin Claimed
  BY DEF OneExecution
<1>3. OneExecution'
  BY <1>2 DEF OneExecution
<1>4. ClaimHeld'
  BY <1>2 DEF ClaimHeld
<1>5. Unborn'
  BY <1>1 DEF Unborn
<1> QED BY <1>3, <1>4, <1>5

\* A step that claims nothing, writes no row and lets no coroutine begin.
LEMMA QuietStep ==
  ASSUME Inductive, UNCHANGED <<task, creator>>,
         \A q \in Process, u \in Task :
           \/ exec'[q][u].pc = "idle"
           \/ exec[q][u].pc \in Claimed /\ exec'[q][u].pc \in Claimed
           \/ exec'[q][u].pc = exec[q][u].pc
           \/ Due(u) /\ exec'[q][u].pc = "queued"
  PROVE  OneExecution' /\ ClaimHeld' /\ Unborn'
<1> USE DEF Inductive
<1>1. "idle" \notin Claimed /\ "queued" \notin Claimed
  BY DEF Claimed, Waiting, Writing
<1>2. OneExecution'
  BY <1>1 DEF OneExecution
<1>3. ClaimHeld'
  BY <1>1 DEF ClaimHeld
<1>4. Unborn'
  BY <1>1 DEF Unborn, Due
<1> QED BY <1>2, <1>3, <1>4

\* The coroutine of one task, moved to another place, is still a coroutine.
LEMMA ExecType ==
  ASSUME TypeOK, NEW p \in Process, NEW t \in Task, NEW e \in Exec,
         exec' = [exec EXCEPT ![p][t] = e]
  PROVE  exec' \in [Process -> [Task -> Exec]]
BY DEF TypeOK

LEMMA RowType ==
  ASSUME TypeOK, NEW t \in Task, NEW row \in Row,
         task' = [task EXCEPT ![t] = row]
  PROVE  task' \in [Task -> Row]
BY DEF TypeOK

LEMMA IdleType == Idle \in Exec
BY DEF Idle, Exec, Waiting

----------------------------------------------------------------------------
\* The claim.
LEMMA ClaimStep ==
  ASSUME Inductive, NEW p \in Process, NEW t \in Task, Claim(p, t)
  PROVE  Inductive'
<1> USE DEF Inductive
<1>1. exec[p][t] \in Exec /\ task[t] \in Row /\ now \in Nat
  BY DEF TypeOK
<1>2. CASE ~Claimable(t)
  <2>1. exec' = [exec EXCEPT ![p][t] = Idle] /\ UNCHANGED <<now, creator, task, runs, procs>>
    BY <1>2 DEF Claim, Leave
  <2>2. TypeOK'
    BY <2>1, IdleType, ExecType DEF TypeOK, procs
  <2>3. \A q \in Process, u \in Task : exec'[q][u] = exec[q][u] \/ exec'[q][u].pc = "idle"
    BY <2>1 DEF TypeOK, Idle
  <2> QED BY <2>1, <2>2, <2>3, QuietStep
<1>3. CASE Claimable(t)
  <2> DEFINE row == [task[t] EXCEPT !.status = "running"]
  <2>1. task' = [task EXCEPT ![t] = row] /\ UNCHANGED <<now, creator, runs, procs>>
    BY <1>3, <1>1 DEF Claim, TypeOK
  <2>2. row \in Row
    BY <1>1 DEF Row
  <2>3. PICK e \in Exec : e.pc \in Claimed /\ exec' = [exec EXCEPT ![p][t] = e]
    <3>1. NextRun(t, now) \in Nat
      BY <1>1, NextRunType
    <3>2. [[exec[p][t] EXCEPT !.next = NextRun(t, now)] EXCEPT !.pc = "skip"] \in Exec
      BY <1>1, <3>1 DEF Exec, Writing
    <3>3. [exec[p][t] EXCEPT !.pc = "start"] \in Exec
      BY <1>1 DEF Exec, Writing
    <3>4. /\ [[exec[p][t] EXCEPT !.next = NextRun(t, now)] EXCEPT !.pc = "skip"].pc \in Claimed
          /\ [exec[p][t] EXCEPT !.pc = "start"].pc \in Claimed
      BY <1>1 DEF Exec, Claimed, Writing
    <3> QED BY <1>3, <3>2, <3>3, <3>4 DEF Claim, Goto
  <2> HIDE DEF row
  <2>4. TypeOK'
    BY <2>1, <2>2, <2>3, ExecType, RowType DEF TypeOK, procs
  <2>5. \A q \in Process : exec[q][t].pc \notin Claimed
    BY <1>3 DEF Claimable, ClaimHeld
  <2>6. \A q \in Process, u \in Task :
          exec'[q][u] = IF q = p /\ u = t THEN e ELSE exec[q][u]
    BY <2>3 DEF TypeOK
  <2>7. \A u \in Task : task'[u] = IF u = t THEN row ELSE task[u]
    BY <2>1 DEF TypeOK
  <2>8. exec[p][t].pc = "queued"
    BY DEF Claim, At
  <2>9. OneExecution'
    BY <2>5, <2>6 DEF OneExecution
  <2>10. ClaimHeld'
    BY <2>5, <2>6, <2>7, <1>1 DEF ClaimHeld, row, Row
  <2>11. Unborn'
    BY <2>1, <2>6, <2>7, <2>8 DEF Unborn
  <2> QED BY <2>4, <2>9, <2>10, <2>11
<1> QED BY <1>2, <1>3

\* A step of a claimed coroutine that does not touch the row of its task.
LEMMA OwnerMoves ==
  ASSUME Inductive, NEW p \in Process, NEW t \in Task,
         exec[p][t].pc \in Claimed,
         NEW e \in Exec, e.pc = "idle" \/ e.pc \in Claimed,
         exec' = [exec EXCEPT ![p][t] = e],
         runs' \in [Task -> Seq(Run)],
         UNCHANGED <<now, creator, task, procs>>
  PROVE  Inductive'
<1> USE DEF Inductive
<1>1. TypeOK'
  BY ExecType DEF TypeOK, procs
<1>2. \A q \in Process, u \in Task : exec'[q][u] = IF q = p /\ u = t THEN e ELSE exec[q][u]
  BY DEF TypeOK
<1>3. OneExecution' /\ ClaimHeld' /\ Unborn'
  BY <1>2, QuietStep
<1> QED BY <1>1, <1>3

\* One that writes the row, leaving it running or completed, or as its last step.
LEMMA OwnerWrites ==
  ASSUME Inductive, NEW p \in Process, NEW t \in Task,
         exec[p][t].pc \in Claimed,
         NEW e \in Exec, NEW row \in Row,
         e.pc = "idle" \/ (e.pc \in Claimed /\ row.status \in {"running", "completed"}),
         exec' = [exec EXCEPT ![p][t] = e],
         task' = [task EXCEPT ![t] = row],
         UNCHANGED <<now, creator, runs, procs>>
  PROVE  Inductive'
<1> USE DEF Inductive
<1>1. TypeOK'
  BY ExecType, RowType DEF TypeOK, procs
<1>2. /\ \A q \in Process, u \in Task :
           exec'[q][u] = IF q = p /\ u = t THEN e ELSE exec[q][u]
      /\ \A u \in Task : task'[u] = IF u = t THEN row ELSE task[u]
  BY DEF TypeOK
<1>3. "idle" \notin Claimed
  BY DEF Claimed, Waiting, Writing
<1> QED BY <1>1, <1>2, <1>3, OwnerStep

----------------------------------------------------------------------------
\* The same for a coroutine that goes on at another place.
LEMMA OwnerGoes ==
  ASSUME Inductive, NEW p \in Process, NEW t \in Task,
         exec[p][t].pc \in Claimed,
         NEW e \in Exec, NEW loc \in Writing \cup {"acting"}, Goto(p, t, e, loc),
         UNCHANGED <<now, creator, procs>>
  PROVE  /\ runs' \in [Task -> Seq(Run)] /\ UNCHANGED task => Inductive'
         /\ \A row \in Row :
              /\ row.status \in {"running", "completed"}
              /\ task' = [task EXCEPT ![t] = row]
              /\ UNCHANGED runs
              => Inductive'
<1> DEFINE f == [e EXCEPT !.pc = loc]
<1>1. f \in Exec /\ f.pc = loc
  BY DEF Exec, Waiting
<1>2. loc \in Claimed
  BY DEF Claimed, Waiting
<1>3. exec' = [exec EXCEPT ![p][t] = f]
  BY DEF Goto
<1> HIDE DEF f
<1>4. runs' \in [Task -> Seq(Run)] /\ UNCHANGED task => Inductive'
  BY <1>1, <1>2, <1>3, OwnerMoves
<1>5. ASSUME NEW row \in Row, row.status \in {"running", "completed"},
             task' = [task EXCEPT ![t] = row], UNCHANGED runs
      PROVE  Inductive'
  BY <1>1, <1>2, <1>3, <1>5, OwnerWrites
<1> QED BY <1>4, <1>5

----------------------------------------------------------------------------
\* Every step of a coroutine keeps the invariant.
LEMMA ExecuteStep ==
  ASSUME Inductive, NEW p \in Process, NEW t \in Task, Execute(p, t)
  PROVE  Inductive'
<1> DEFINE e == exec[p][t]
<1>1. /\ e \in Exec /\ task[t] \in Row /\ now \in Nat
      /\ runs \in [Task -> Seq(Run)] /\ runs[t] \in Seq(Run)
      /\ Len(runs[t]) \in Nat
  BY DEF Inductive, TypeOK
<1>2. e.pc \in Claimed => task[t].status \in {"running", "completed"}
  BY DEF Inductive, ClaimHeld
<1>3. /\ {"acting", "cancelled"} \subseteq Claimed /\ Writing \subseteq Claimed
      /\ Idle.pc = "idle" /\ Idle \in Exec
  BY IdleType DEF Claimed, Waiting, Idle
<1>4. \A status \in {"running", "skipped"} :
        [runs EXCEPT ![t] = Append(@, [trigger |-> e.trigger, status |-> status])]
          \in [Task -> Seq(Run)]
  BY <1>1 DEF Exec, Run
<1>5. CASE Claim(p, t)
  BY <1>5, ClaimStep
<1>6. CASE RecordSkippedRun(p, t)
  <2>1. e.pc \in Claimed /\ Goto(p, t, e, "renew") /\ UNCHANGED <<now, creator, task, procs>>
    BY <1>6, <1>3 DEF RecordSkippedRun, At, Writing
  <2>2. runs' \in [Task -> Seq(Run)]
    BY <1>6, <1>4 DEF RecordSkippedRun
  <2> QED BY <2>1, <2>2, <1>1, OwnerGoes, "renew" \in Writing DEF Writing
<1>7. CASE StartRun(p, t)
  <2>1. [e EXCEPT !.run = Len(runs[t]) + 1] \in Exec
    <3>1. Len(runs[t]) + 1 \in Nat
      BY <1>1
    <3> QED BY <3>1, <1>1 DEF Exec
  <2>2. /\ e.pc \in Claimed /\ UNCHANGED <<now, creator, task, procs>>
        /\ Goto(p, t, [e EXCEPT !.run = Len(runs[t]) + 1], "acting")
    BY <1>7, <1>3 DEF StartRun, At, Writing
  <2>3. runs' \in [Task -> Seq(Run)]
    BY <1>7, <1>4 DEF StartRun
  <2> QED BY <2>1, <2>2, <2>3, OwnerGoes
<1>8. CASE ActionReturns(p, t)
  <2> DEFINE c == CountRun(e)
             candidate == NextRun(t, IF PolicyOf(p) = "catch_up" /\ Recurring(t)
                                     THEN c.trigger ELSE now)
  <2>1. c \in Exec
    <3>1. e.done + 1 \in Nat
      BY <1>1 DEF Exec
    <3> QED BY <3>1, <1>1 DEF CountRun, Exec
  <2>2. candidate \in Nat
    BY <1>1, <2>1, NextRunType DEF Exec
  <2>3. Following(t, candidate) \in Nat
    BY <1>1, <2>2, NextRunType DEF Following
  <2>4. /\ \A n \in Nat \cup {Unset} : [c EXCEPT !.next = n] \in Exec
        /\ [c EXCEPT !.trigger = candidate] \in Exec
    BY <2>1, <2>2 DEF Exec
  <2>5. PICK f \in Exec, loc \in Writing : Goto(p, t, f, loc)
    BY <1>8, <2>2, <2>3, <2>4 DEF ActionReturns, Writing
  <2>6. e.pc \in Claimed /\ UNCHANGED <<now, creator, task, runs, procs>>
    BY <1>8, <1>3 DEF ActionReturns, At, store
  <2> QED BY <2>5, <2>6, <1>1, OwnerGoes
<1>9. CASE ActionFails(p, t)
  <2>1. /\ e.pc \in Claimed /\ UNCHANGED <<now, creator, task, runs, procs>>
        /\ Goto(p, t, e, "checkpoint")
    BY <1>9, <1>3 DEF ActionFails, At, store
  <2> QED BY <2>1, <1>1, OwnerGoes, "checkpoint" \in Writing DEF Writing
<1>10. CASE FinishRun(p, t)
  <2>1. PICK status \in {"completed", "failed", "cancelled"} : CloseRun(t, e.run, status)
    BY <1>10 DEF FinishRun
  <2>2. runs' \in [Task -> Seq(Run)]
    <3>1. e.run \in Nat
      BY <1>1 DEF Exec
    <3> QED BY <1>1, <2>1, <3>1, CloseRunType
  <2>3. e.pc \in Claimed /\ UNCHANGED <<now, creator, task, procs>>
    BY <1>10, <1>3 DEF FinishRun, At, Writing
  <2>4. CASE Leave(p, t)
    BY <2>2, <2>3, <2>4, <1>3, OwnerMoves DEF Leave
  <2>5. CASE \E loc \in Writing : Goto(p, t, e, loc)
    BY <2>2, <2>3, <2>5, <1>1, OwnerGoes
  <2>6. CASE Retries(e.failures) /\
             Goto(p, t, [e EXCEPT !.next = now + Backoff(e.failures + 1)], "retry")
    <3>1. now + Backoff(e.failures + 1) \in Nat
      BY <1>1, <2>6, BackoffType DEF Exec
    <3>2. [e EXCEPT !.next = now + Backoff(e.failures + 1)] \in Exec
      BY <1>1, <3>1 DEF Exec
    <3> QED BY <2>2, <2>3, <2>6, <3>2, OwnerGoes, "retry" \in Writing DEF Writing
  <2> QED BY <1>10, <2>4, <2>5, <2>6 DEF FinishRun, Writing
<1>11. CASE UpdateStatus(p, t)
  <2> DEFINE row == [task[t] EXCEPT !.status = "completed"]
  <2>1. row \in Row /\ row.status = "completed"
    BY <1>1 DEF Row
  <2>2. /\ task' = [task EXCEPT ![t] = row] /\ UNCHANGED <<now, creator, runs, procs>>
        /\ e.pc \in Claimed /\ Goto(p, t, e, "credit")
    BY <1>11, <1>3 DEF UpdateStatus, At, Writing
  <2> HIDE DEF row
  <2> QED BY <2>1, <2>2, <1>1, OwnerGoes, "credit" \in Writing DEF Writing
<1>12. CASE RecordSuccess(p, t)
  <2> DEFINE row == [task[t] EXCEPT !.failures = 0]
  <2>1. row \in Row /\ row.status = task[t].status
    BY <1>1 DEF Row
  <2>2. task' = [task EXCEPT ![t] = row] /\ UNCHANGED <<now, creator, runs, procs>>
    BY <1>12 DEF RecordSuccess
  <2>3. e.pc \in Claimed /\ \E loc \in Writing : Goto(p, t, e, loc)
    BY <1>12, <1>3 DEF RecordSuccess, At, Writing
  <2> HIDE DEF row
  <2> QED BY <2>1, <2>2, <2>3, <1>1, <1>2, OwnerGoes
<1>13. CASE Reschedule(p, t) \/ ScheduleRetry(p, t) \/ Pause(p, t) \/ SaveCheckpoint(p, t)
  <2>1. PICK row \in Row : task' = [task EXCEPT ![t] = row]
                           /\ (SaveCheckpoint(p, t) => row.status = task[t].status)
    <3>1. CASE Reschedule(p, t)
      <4>1. [task[t] EXCEPT !.status = "scheduled", !.next = e.next] \in Row
        BY <1>1 DEF Row, Exec
      <4> QED BY <3>1, <4>1, <1>1 DEF Reschedule, SaveCheckpoint, At
    <3>2. CASE ScheduleRetry(p, t)
      <4>1. e.next \in Nat \cup {Unset} /\ task[t].failures + 1 \in Nat
        BY <1>1 DEF Row, Exec
      <4> DEFINE row == [task[t] EXCEPT !.status = "scheduled", !.next = e.next,
                                        !.failures = task[t].failures + 1]
      <4>2. row \in Row
        BY <1>1, <4>1 DEF Row
      <4>3. task' = [task EXCEPT ![t] = row]
        BY <3>2, <1>1 DEF ScheduleRetry, Inductive, TypeOK
      <4>4. ~SaveCheckpoint(p, t)
        BY <3>2 DEF ScheduleRetry, SaveCheckpoint, At
      <4> HIDE DEF row
      <4> QED BY <4>2, <4>3, <4>4
    <3>3. CASE Pause(p, t)
      <4>1. [task[t] EXCEPT !.status = "paused", !.next = Unset] \in Row
        BY <1>1 DEF Row
      <4> QED BY <3>3, <4>1 DEF Pause, SaveCheckpoint, At
    <3>4. CASE SaveCheckpoint(p, t)
      <4>1. /\ [task[t] EXCEPT !.checkpoint = TRUE] \in Row
            /\ [task[t] EXCEPT !.checkpoint = TRUE].status = task[t].status
        BY <1>1 DEF Row
      <4> QED BY <3>4, <4>1 DEF SaveCheckpoint
    <3> QED BY <1>13, <3>1, <3>2, <3>3, <3>4
  <2>2. e.pc \in Claimed /\ UNCHANGED <<now, creator, runs, procs>>
    BY <1>13, <1>3 DEF Reschedule, ScheduleRetry, Pause, SaveCheckpoint, At, Writing
  <2>3. CASE Leave(p, t)
    <3>1. TypeOK'
      BY <2>1, <2>2, <2>3, <1>3, ExecType, RowType DEF Leave, Inductive, TypeOK, procs
    <3>2. /\ \A q \in Process, u \in Task : (q = p /\ u = t) \/ exec'[q][u] = exec[q][u]
          /\ exec'[p][t] = Idle
      BY <2>3 DEF Leave, Inductive, TypeOK
    <3>3. \A u \in Task : u = t \/ task'[u] = task[u]
      BY <2>1 DEF Inductive, TypeOK
    <3>4. exec[p][t].pc \in Claimed /\ UNCHANGED creator /\ exec'[p][t].pc \notin Claimed
      BY <2>2, <3>2, <1>3 DEF Claimed, Waiting, Writing
    <3>5. OneExecution' /\ ClaimHeld' /\ Unborn'
      BY <3>2, <3>3, <3>4, OwnerStep
    <3> QED BY <3>1, <3>5 DEF Inductive
  <2>4. CASE SaveCheckpoint(p, t)
    BY <2>1, <2>2, <2>4, <1>1, <1>2, OwnerGoes, "closeFailed" \in Writing
    DEF SaveCheckpoint, Writing
  <2> QED BY <1>13, <2>3, <2>4 DEF Reschedule, ScheduleRetry, Pause
<1> QED BY <1>5, <1>6, <1>7, <1>8, <1>9, <1>10, <1>11, <1>12, <1>13 DEF Execute
----------------------------------------------------------------------------
\* Every step of a creator keeps it: until its second commit the row has no
\* time, so no poll has begun a coroutine for it.
LEMMA CreateStep ==
  ASSUME Inductive, NEW t \in Task, Create(t) \/ CreatorCrashes(t)
  PROVE  Inductive'
<1> USE DEF Inductive
<1>1. task[t] \in Row /\ now \in Nat
  BY DEF TypeOK
<1>2. UNCHANGED <<now, runs, procs, exec>>
  BY DEF Create, CreateTask, RegisterTask, CreatorCrashes, store
<1>3. PICK c \in {"created", "done", "crashed"} : creator' = [creator EXCEPT ![t] = c]
  BY DEF Create, CreateTask, RegisterTask, CreatorCrashes
<1>4. CASE CreatorCrashes(t)
  <2>1. UNCHANGED task /\ creator[t] = "created" /\ creator' = [creator EXCEPT ![t] = "crashed"]
    BY <1>4 DEF CreatorCrashes, store
  <2>2. TypeOK'
    BY <1>2, <2>1 DEF TypeOK, procs
  <2>3. OneExecution' /\ ClaimHeld'
    BY <1>2, <2>1 DEF OneExecution, ClaimHeld
  <2>4. Unborn'
    BY <1>2, <2>1 DEF Unborn, TypeOK
  <2> QED BY <2>2, <2>3, <2>4
<1>5. CASE Create(t)
  <2>1. creator[t] \in {"none", "created"}
    BY <1>5 DEF Create, CreateTask, RegisterTask
  <2>2. \A p \in Process : exec[p][t].pc \notin Claimed
    BY <2>1 DEF Unborn, Claimed, Waiting, Writing
  <2>3. (IF Recurring(t) THEN NextRun(t, now) ELSE now) \in Nat
    BY <1>1, NextRunType
  <2>4. PICK row \in Row : /\ task' = [task EXCEPT ![t] = row]
                           /\ row.next = task[t].next \/ creator'[t] = "done"
    <3>1. CASE CreateTask(t)
      <4>1. [task[t] EXCEPT !.status = "scheduled"] \in Row
        BY <1>1 DEF Row
      <4> QED BY <3>1, <4>1, <1>1 DEF CreateTask, Row
    <3>2. CASE RegisterTask(t)
      <4> DEFINE at == IF Recurring(t) THEN NextRun(t, now) ELSE now
                 row == [task[t] EXCEPT !.status = "scheduled", !.next = at]
      <4>1. task' = [task EXCEPT ![t] = row]
        BY <3>2, <1>1 DEF RegisterTask, TypeOK
      <4> HIDE DEF at
      <4>2. at \in Nat
        BY <2>3 DEF at
      <4>3. row \in Row
        BY <1>1, <4>2 DEF Row
      <4>4. creator'[t] = "done"
        BY <3>2 DEF RegisterTask, TypeOK
      <4> HIDE DEF row
      <4> QED BY <4>1, <4>3, <4>4
    <3> QED BY <1>5, <3>1, <3>2 DEF Create
  <2>5. TypeOK'
    BY <1>2, <1>3, <2>4 DEF TypeOK, procs
  <2>6. \A u \in Task : u # t => task'[u] = task[u] /\ creator'[u] = creator[u]
    BY <1>3, <2>4 DEF TypeOK
  <2>7. task'[t] = row
    BY <2>4 DEF TypeOK
  <2>8. OneExecution' /\ ClaimHeld'
    BY <1>2, <2>2, <2>6 DEF OneExecution, ClaimHeld
  <2>9. Unborn'
    BY <1>2, <2>1, <2>4, <2>6, <2>7 DEF Unborn
  <2> QED BY <2>5, <2>8, <2>9
<1> QED BY <1>4, <1>5

\* Every step of a process as a whole keeps it: a poll begins coroutines that
\* have claimed nothing, a stop leaves the claimed ones claimed or ends them.
LEMMA ProcessStep ==
  ASSUME Inductive, NEW p \in Process,
         Poll(p) \/ Stop(p) \/ Drained(p) \/ Crash(p) \/ Restart(p)
  PROVE  Inductive'
<1> USE DEF Inductive
<1>1. Idle \in Exec /\ Idle.pc = "idle"
  BY IdleType DEF Idle
<1>2. UNCHANGED <<now, creator, task, runs>>
  BY DEF Poll, Stop, Drained, Crash, Restart, store
<1>3. mode' \in [Process -> {"up", "stopping", "down"}] /\ restarts' \in [Process -> Nat]
  <2>1. CASE Poll(p)
    BY <2>1 DEF Poll, procs, TypeOK
  <2>2. CASE Stop(p) \/ Drained(p) \/ Crash(p)
    BY <2>2 DEF Stop, Drained, Crash, TypeOK
  <2>3. CASE Restart(p)
    <3>1. restarts[p] + 1 \in Nat
      BY DEF TypeOK
    <3> QED BY <2>3, <3>1 DEF Restart, TypeOK
  <2> QED BY <2>1, <2>2, <2>3
<1>4. PICK row \in [Task -> Exec] :
        /\ exec' = [exec EXCEPT ![p] = row]
        /\ \A u \in Task :
             \/ row[u].pc = "idle"
             \/ exec[p][u].pc \in Claimed /\ row[u].pc \in Claimed
             \/ row[u].pc = exec[p][u].pc
             \/ Due(u) /\ row[u].pc = "queued"
  <2>1. CASE Poll(p)
    <3> DEFINE begun(u) == [Idle EXCEPT !.pc = "queued", !.trigger = task[u].next,
                                        !.failures = task[u].failures]
               row == [u \in Task |-> IF Fresh(p, u) THEN begun(u) ELSE exec[p][u]]
    <3>1. ASSUME NEW u \in Task, Fresh(p, u)
          PROVE  begun(u) \in Exec /\ begun(u).pc = "queued" /\ Due(u)
      <4>1. task[u].next \in Nat /\ task[u].failures \in Nat
        BY <3>1 DEF Fresh, Due, TypeOK, Row
      <4> QED BY <3>1, <4>1, <1>1 DEF Fresh, Exec, Waiting
    <3>2. exec' = [exec EXCEPT ![p] = row]
      BY <2>1 DEF Poll
    <3> HIDE DEF begun
    <3>3. row \in [Task -> Exec]
      BY <3>1 DEF TypeOK
    <3> QED BY <3>1, <3>2, <3>3
  <2>2. CASE Stop(p)
    <3> DEFINE row == [u \in Task |-> Interrupt(p, u)]
    <3>1. ASSUME NEW u \in Task
          PROVE  /\ Interrupt(p, u) \in Exec
                 /\ \/ Interrupt(p, u).pc = "idle"
                    \/ exec[p][u].pc \in Claimed /\ Interrupt(p, u).pc \in Claimed
      <4>1. exec[p][u] \in Exec
        BY DEF TypeOK
      <4>2. CASE exec[p][u].pc = "acting"
        BY <4>1, <4>2 DEF Interrupt, Exec, Waiting, Claimed
      <4>3. CASE exec[p][u].pc # "acting"
        <5>1. Interrupt(p, u) = Idle
          BY <4>3 DEF Interrupt
        <5> QED BY <5>1, <1>1
      <4> QED BY <4>2, <4>3
    <3>2. exec' = [exec EXCEPT ![p] = row]
      BY <2>2 DEF Stop
    <3>3. row \in [Task -> Exec] /\ \A u \in Task : row[u] = Interrupt(p, u)
      BY <3>1
    <3> HIDE DEF row
    <3> QED BY <3>1, <3>2, <3>3
  <2>3. CASE Crash(p)
    <3>1. [u \in Task |-> Idle] \in [Task -> Exec]
      BY <1>1
    <3> QED BY <2>3, <3>1, <1>1 DEF Crash
  <2>4. CASE Drained(p) \/ Restart(p)
    <3>1. exec' = exec /\ exec[p] \in [Task -> Exec]
      BY <2>4 DEF Drained, Restart, TypeOK
    <3>2. exec = [exec EXCEPT ![p] = exec[p]]
      BY DEF TypeOK
    <3> QED BY <3>1, <3>2
  <2> QED BY <2>1, <2>2, <2>3, <2>4
<1>5. \A q \in Process : exec'[q] = IF q = p THEN row ELSE exec[q]
  BY <1>4 DEF TypeOK
<1>6. TypeOK'
  BY <1>2, <1>3, <1>4 DEF TypeOK
<1>7. \A q \in Process, u \in Task :
        \/ exec'[q][u].pc = "idle"
        \/ exec[q][u].pc \in Claimed /\ exec'[q][u].pc \in Claimed
        \/ exec'[q][u].pc = exec[q][u].pc
        \/ Due(u) /\ exec'[q][u].pc = "queued"
  BY <1>4, <1>5
<1>8. OneExecution' /\ ClaimHeld' /\ Unborn'
  BY <1>2, <1>7, QuietStep
<1> QED BY <1>6, <1>8

\* The clock, the end of the instance and stuttering touch none of it.
LEMMA OtherStep ==
  ASSUME Inductive, Tick \/ Rest \/ UNCHANGED vars
  PROVE  Inductive'
<1>1. now' \in Nat /\ UNCHANGED <<creator, task, runs, mode, restarts, exec>>
  BY DEF Inductive, TypeOK, Tick, Rest, vars, store, procs
<1> QED BY <1>1 DEF Inductive, TypeOK, OneExecution, ClaimHeld, Unborn

----------------------------------------------------------------------------
\* Initially no task exists and no process executes one.
LEMMA InitInductive == Init => Inductive
<1> SUFFICES ASSUME Init PROVE Inductive
  OBVIOUS
<1>1. Idle \in Exec /\ Idle.pc = "idle" /\ "idle" \notin Claimed
  BY IdleType DEF Idle, Claimed, Waiting, Writing
<1>2. \A p \in Process, t \in Task : exec[p][t] = Idle
  BY DEF Init
<1>3. [status |-> "absent", next |-> Unset, failures |-> 0, checkpoint |-> FALSE] \in Row
  BY DEF Row
<1>4. <<>> \in Seq(Run)
  OBVIOUS
<1>5. TypeOK
  BY <1>1, <1>3, <1>4 DEF Init, TypeOK
<1>6. OneExecution /\ ClaimHeld /\ Unborn
  BY <1>1, <1>2 DEF Init, OneExecution, ClaimHeld, Unborn
<1> QED BY <1>5, <1>6 DEF Inductive

\* The strengthened invariant of the poller (_run_claimed_task and its callees):
\* the claim is held from claim_task to the last write of the coroutine.
THEOREM InductiveInvariant == Spec => []Inductive
<1>1. Inductive /\ [Next]_vars => Inductive'
  BY CreateStep, ProcessStep, ExecuteStep, OtherStep DEF Next
<1> QED BY InitInductive, <1>1, PTL DEF Spec

\* Every row, run and coroutine keeps its type, whatever the policy, the number
\* of processes and the faults.
THEOREM TypeCorrect == Spec => []TypeOK
<1>1. Inductive => TypeOK
  BY DEF Inductive
<1> QED BY InductiveInvariant, <1>1, PTL

\* claim_task makes execution exclusive: two processes that share the store
\* never execute one task at the same time.
THEOREM ExclusiveExecution == Spec => []OneExecution
<1>1. Inductive => OneExecution
  BY DEF Inductive
<1> QED BY InductiveInvariant, <1>1, PTL
----------------------------------------------------------------------------
\* Without a wall clock that is set back, the next time lies after its base.
LEMMA NextRunLater ==
  ASSUME FoldBy = 0, NEW t \in Task, NEW base \in Nat
  PROVE  NextRun(t, base) \in Nat /\ NextRun(t, base) > base
<1> DEFINE d == Period[t]
           q == base \div d
<1>1. d \in Nat \ {0}
  BY PollerAssumption
<1>2. q \in Nat
  BY <1>1
<1>3. \A n \in Nat, b \in Nat \ {0} : (n \div b + 1) * b > n
  OBVIOUS
<1>4. (q + 1) * d > base
  BY <1>1, <1>3
<1>5. WallClock(base) = base
  BY PollerAssumption DEF WallClock
<1>6. (q + 1) * d \in Nat
  BY <1>1, <1>2
<1>7. NextAfter(t, WallClock(base)) = (q + 1) * d
  BY <1>5 DEF NextAfter
<1>8. Moment((q + 1) * d) = (q + 1) * d
  BY <1>6 DEF Moment
<1>9. base + d \in Nat /\ base + d > base
  BY <1>1
<1> QED BY <1>4, <1>6, <1>7, <1>8, <1>9 DEF NextRun

\* ActionReturns and Claim choose a time after now, in every reachable state.
LEMMA BookedLater ==
  ASSUME FoldBy = 0, Inductive, [Next]_vars,
         NEW p \in Process, NEW t \in Task,
         exec[p][t].pc \in {"queued", "acting"},
         exec'[p][t].pc \in {"skip", "complete"}, Recurring(t)
  PROVE  exec'[p][t].next > now
<1>1. now \in Nat /\ exec \in [Process -> [Task -> Exec]] /\ exec[p][t] \in Exec
  BY DEF Inductive, TypeOK
<1>2. NextRun(t, now) > now
  BY <1>1, NextRunLater
<1>3. \A e, loc : Goto(p, t, e, loc) /\ e \in Exec =>
                 exec'[p][t].pc = loc /\ exec'[p][t].next = e.next
  BY <1>1 DEF Goto, Exec
<1>4. CASE Claim(p, t)
  <2>1. Goto(p, t, [exec[p][t] EXCEPT !.next = NextRun(t, now)], "skip")
    <3>1. ~Leave(p, t)
      BY <1>1 DEF Leave, Idle
    <3>2. ~Goto(p, t, exec[p][t], "start")
      BY <1>1, <1>3
    <3> QED BY <1>4, <3>1, <3>2 DEF Claim
  <2>2. NextRun(t, now) \in Nat
    BY <1>1, NextRunLater
  <2>3. [exec[p][t] EXCEPT !.next = NextRun(t, now)] \in Exec
    BY <1>1, <2>2 DEF Exec
  <2> QED BY <1>2, <2>1, <2>3, <1>1, <1>3 DEF Exec
<1>5. CASE ActionReturns(p, t)
  <2> DEFINE c == CountRun(exec[p][t])
             candidate == NextRun(t, IF PolicyOf(p) = "catch_up" /\ Recurring(t)
                                     THEN c.trigger ELSE now)
  <2>1. c \in Exec
    <3>1. exec[p][t].done + 1 \in Nat
      BY <1>1 DEF Exec
    <3> QED BY <3>1, <1>1 DEF CountRun, Exec
  <2>2. candidate \in Nat
    BY <1>1, <2>1, NextRunLater DEF Exec
  <2>3. Following(t, candidate) \in Nat /\ Following(t, candidate) > now
    BY <1>1, <1>2, <2>2, NextRunLater DEF Following
  <2>4. [c EXCEPT !.trigger = candidate] \in Exec
    BY <2>1, <2>2 DEF Exec
  <2>5. ~Goto(p, t, [c EXCEPT !.trigger = candidate], "closeMissed")
    BY <2>4, <1>3
  <2>6. Goto(p, t, [c EXCEPT !.next = Following(t, candidate)], "complete")
    BY <1>5, <2>5 DEF ActionReturns
  <2>7. /\ [c EXCEPT !.next = Following(t, candidate)] \in Exec
        /\ [c EXCEPT !.next = Following(t, candidate)].next = Following(t, candidate)
    BY <2>1, <2>3 DEF Exec
  <2> QED BY <2>3, <2>6, <2>7, <1>3
<1>6. CASE exec'[p][t] = exec[p][t]
  BY <1>6
<1>7. CASE UNCHANGED vars \/ Tick \/ Rest \/ \E u \in Task : Create(u) \/ CreatorCrashes(u)
  <2>1. exec' = exec
    BY <1>7 DEF vars, Tick, Rest, Create, CreateTask, RegisterTask, CreatorCrashes
  <2> QED BY <2>1, <1>6
<1>8. CASE \E q \in Process : Poll(q) \/ Stop(q) \/ Drained(q) \/ Crash(q) \/ Restart(q)
  <2>1. PICK q \in Process : Poll(q) \/ Stop(q) \/ Drained(q) \/ Crash(q) \/ Restart(q)
    BY <1>8
  <2>2. CASE q # p \/ Drained(q) \/ Restart(q)
    <3>1. exec'[p] = exec[p]
      BY <2>1, <2>2, <1>1 DEF Poll, Stop, Drained, Crash, Restart
    <3> QED BY <3>1, <1>6
  <2>3. CASE Poll(p)
    <3>1. exec'[p][t] = exec[p][t]
      BY <2>3, <1>1 DEF Poll, Fresh
    <3> QED BY <3>1, <1>6
  <2>4. CASE Stop(p)
    <3>1. exec'[p][t] = Interrupt(p, t)
      BY <2>4, <1>1 DEF Stop
    <3>2. exec'[p][t].pc \in {"cancelled", "idle"}
      BY <3>1, <1>1 DEF Interrupt, Idle, Exec
    <3> QED BY <3>2
  <2>5. CASE Crash(p)
    <3>1. exec'[p][t].pc = "idle"
      BY <2>5, <1>1 DEF Crash, Idle
    <3> QED BY <3>1
  <2> QED BY <2>1, <2>2, <2>3, <2>4, <2>5
<1>9. CASE \E q \in Process, u \in Task : Execute(q, u)
  <2>1. PICK q \in Process, u \in Task : Execute(q, u)
    BY <1>9
  <2>2. PICK e : exec' = [exec EXCEPT ![q][u] = e]
    BY <2>1 DEF Execute, Claim, RecordSkippedRun, StartRun, ActionReturns, ActionFails,
                FinishRun, UpdateStatus, RecordSuccess, Reschedule, SaveCheckpoint,
                ScheduleRetry, Pause, Goto, Leave
  <2>3. CASE q # p \/ u # t
    <3>1. exec'[p][t] = exec[p][t]
      BY <2>2, <2>3, <1>1
    <3> QED BY <3>1, <1>6
  <2>4. CASE Execute(p, t)
    <3>1. CASE ActionFails(p, t)
      <4>1. exec'[p][t].pc = "checkpoint"
        BY <3>1, <1>1, <1>3 DEF ActionFails
      <4> QED BY <4>1
    <3>2. ~(\/ RecordSkippedRun(p, t) \/ StartRun(p, t) \/ FinishRun(p, t)
            \/ UpdateStatus(p, t) \/ RecordSuccess(p, t) \/ Reschedule(p, t)
            \/ SaveCheckpoint(p, t) \/ ScheduleRetry(p, t) \/ Pause(p, t))
      BY DEF RecordSkippedRun, StartRun, FinishRun, UpdateStatus, RecordSuccess,
             Reschedule, SaveCheckpoint, ScheduleRetry, Pause, At
    <3> QED BY <2>4, <3>1, <3>2, <1>4, <1>5 DEF Execute
  <2> QED BY <2>1, <2>3, <2>4
<1> QED BY <1>7, <1>8, <1>9 DEF Next

\* Without a fold of the wall clock a booked run or skip never leaves its task
\* due at once, whatever it has missed (_compute_next_run, _execute_task).
THEOREM NoStormWithoutFold ==
  ASSUME FoldBy = 0
  PROVE  Spec => NoStorm
<1>1. Inductive /\ [Next]_vars =>
        [\A p \in Process, t \in Task :
           /\ exec[p][t].pc \in {"queued", "acting"}
           /\ exec'[p][t].pc \in {"skip", "complete"}
           /\ Recurring(t)
           => exec'[p][t].next > now]_vars
  BY BookedLater
<1> QED BY InductiveInvariant, <1>1, PTL DEF Spec, NoStorm

----------------------------------------------------------------------------
(***************************************************************************)
(* The history of a task.  A coroutine is followed on its own course: what  *)
(* it is (e, then f), the history it writes (h, then k) and the row of its  *)
(* task (row, then new).                                                    *)
(***************************************************************************)

\* Where a coroutine has a run open.
Holding == {"acting", "closeMissed", "complete", "credit", "close", "checkpoint",
            "closeFailed", "cancelled"}

Appended(h, k, trigger, status) ==
  /\ Len(k) = Len(h) + 1 /\ k[Len(k)].trigger = trigger /\ k[Len(k)].status = status
  /\ \A i \in 1..Len(h) : k[i] = h[i]

Closed(h, k, run, status) ==
  /\ Len(k) = Len(h)
  /\ \A i \in 1..Len(h) : /\ k[i].trigger = h[i].trigger
                          /\ k[i].status = IF i = run THEN status ELSE h[i].status

\* A later time, as far as the wall clock is not set back.
Later(x, y) == FoldBy = 0 => x > y

Course(e, f, h, k, row, new) ==
  \/ /\ e.pc = "queued" /\ k = h
     /\ \/ f = Idle /\ new = row
        \/ f.pc = "start" /\ f.trigger = e.trigger /\ new.status = "running"
        \/ /\ f.pc = "skip" /\ f.trigger = e.trigger /\ Later(f.next, now)
           /\ new.status = "running"
  \/ /\ e.pc = "skip" /\ f = [e EXCEPT !.pc = "renew"] /\ new = row
     /\ Appended(h, k, e.trigger, "skipped")
  \/ /\ e.pc = "start" /\ f.pc = "acting" /\ f.trigger = e.trigger /\ f.run = Len(k)
     /\ Appended(h, k, e.trigger, "running") /\ new = row
  \/ /\ e.pc = "acting" /\ k = h /\ new = row /\ f.run = e.run
     /\ \/ f.pc = "closeMissed" /\ Later(f.trigger, e.trigger) /\ f.trigger <= now
        \/ /\ f.pc = "complete" /\ f.trigger = e.trigger
           /\ f.next = Unset \/ Later(f.next, now)
        \/ f.pc = "checkpoint" /\ f.trigger = e.trigger
  \/ /\ e.pc = "closeMissed" /\ f.pc = "creditMissed" /\ f.trigger = e.trigger
     /\ Closed(h, k, e.run, "completed") /\ new = row
  \/ /\ e.pc = "close" /\ Closed(h, k, e.run, "completed") /\ new = row
     /\ f = Idle \/ (f = [e EXCEPT !.pc = "renew"] /\ e.next # Unset)
  \/ /\ e.pc = "closeFailed" /\ Closed(h, k, e.run, "failed") /\ new = row
     /\ f.pc = "pause" \/ (f.pc = "retry" /\ f.next >= now)
     /\ f.trigger = e.trigger
  \/ /\ e.pc = "cancelled" /\ f.pc = "pause" /\ f.trigger = e.trigger
     /\ Closed(h, k, e.run, "cancelled") /\ new = row
  \/ /\ e.pc = "complete" /\ f = [e EXCEPT !.pc = "credit"] /\ k = h
     /\ new.status = "completed"
  \/ /\ \/ e.pc = "credit" /\ f = [e EXCEPT !.pc = "close"]
        \/ e.pc = "creditMissed" /\ f = [e EXCEPT !.pc = "start"]
        \/ e.pc = "checkpoint" /\ f = [e EXCEPT !.pc = "closeFailed"]
     /\ k = h /\ new.status = row.status /\ new.next = row.next
  \/ /\ e.pc \in {"renew", "retry"} /\ f = Idle /\ k = h
     /\ new.status = "scheduled" /\ new.next = e.next
  \/ e.pc = "pause" /\ f = Idle /\ k = h /\ new.status = "paused"

\* A step of the coroutine of p for t changes nothing of any other.
Alone(p, t) ==
  /\ \A q \in Process, u \in Task : (q = p /\ u = t) \/ exec'[q][u] = exec[q][u]
  /\ \A u \in Task \ {t} : runs'[u] = runs[u] /\ task'[u] = task[u]
  /\ UNCHANGED <<now, creator, procs>>

LEMMA ExecuteAlone ==
  ASSUME TypeOK, NEW p \in Process, NEW t \in Task, Execute(p, t)
  PROVE  Alone(p, t)
<1>1. PICK e : exec' = [exec EXCEPT ![p][t] = e]
  BY DEF Execute, Claim, RecordSkippedRun, StartRun, ActionReturns, ActionFails,
         FinishRun, UpdateStatus, RecordSuccess, Reschedule, SaveCheckpoint,
         ScheduleRetry, Pause, Goto, Leave
<1>2. \A q \in Process, u \in Task : (q = p /\ u = t) \/ exec'[q][u] = exec[q][u]
  BY <1>1 DEF TypeOK
<1>3. UNCHANGED <<now, creator, procs>>
  BY DEF Execute, Claim, RecordSkippedRun, StartRun, ActionReturns, ActionFails,
         FinishRun, UpdateStatus, RecordSuccess, Reschedule, SaveCheckpoint,
         ScheduleRetry, Pause, store
<1>4. runs' = runs \/ \E h : runs' = [runs EXCEPT ![t] = h]
  BY DEF Execute, Claim, RecordSkippedRun, StartRun, ActionReturns, ActionFails,
         FinishRun, UpdateStatus, RecordSuccess, Reschedule, SaveCheckpoint,
         ScheduleRetry, Pause, store, CloseRun
<1>5. task' = task \/ \E row : task' = [task EXCEPT ![t] = row]
  BY DEF Execute, Claim, RecordSkippedRun, StartRun, ActionReturns, ActionFails,
         FinishRun, UpdateStatus, RecordSuccess, Reschedule, SaveCheckpoint,
         ScheduleRetry, Pause, store
<1>6. \A u \in Task \ {t} : runs'[u] = runs[u] /\ task'[u] = task[u]
  BY <1>4, <1>5 DEF TypeOK
<1> QED BY <1>2, <1>3, <1>6 DEF Alone

LEMMA HistoryAppended ==
  ASSUME NEW h \in Seq(Run), NEW run \in Run
  PROVE  Appended(h, Append(h, run), run.trigger, run.status)
BY DEF Appended

LEMMA HistoryClosed ==
  ASSUME TypeOK, NEW t \in Task, NEW run, NEW status, CloseRun(t, run, status)
  PROVE  Closed(runs[t], runs'[t], run, status)
<1> DEFINE h == runs[t]
<1>1. h \in [1..Len(h) -> Run] /\ Len(h) \in Nat
  BY DEF TypeOK
<1>2. runs'[t] = [h EXCEPT ![run].status = status]
  BY DEF CloseRun, TypeOK
<1>3. runs'[t] = [i \in 1..Len(h) |-> IF i = run THEN [h[i] EXCEPT !.status = status] ELSE h[i]]
  BY <1>1, <1>2
<1>4. Len(runs'[t]) = Len(h)
  BY <1>1, <1>3
<1>5. \A i \in 1..Len(h) : /\ runs'[t][i].trigger = h[i].trigger
                           /\ runs'[t][i].status = IF i = run THEN status ELSE h[i].status
  BY <1>1, <1>3 DEF Run
<1> QED BY <1>4, <1>5 DEF Closed

\* Every step of a coroutine is on its course.
LEMMA OnCourse ==
  ASSUME Inductive, NEW p \in Process, NEW t \in Task, Execute(p, t)
  PROVE  Course(exec[p][t], exec'[p][t], runs[t], runs'[t], task[t], task'[t])
<1> DEFINE e == exec[p][t]
           f == exec'[p][t]
           h == runs[t]
<1>1. /\ e \in Exec /\ task[t] \in Row /\ now \in Nat /\ h \in Seq(Run)
      /\ exec \in [Process -> [Task -> Exec]] /\ task \in [Task -> Row]
      /\ runs \in [Task -> Seq(Run)] /\ Len(h) \in Nat
  BY DEF Inductive, TypeOK
<1>2. \A c \in Exec : \A loc : Goto(p, t, c, loc) => f = [c EXCEPT !.pc = loc] /\ f.pc = loc
  BY <1>1 DEF Goto, Exec
<1>3. Leave(p, t) => f = Idle
  BY <1>1 DEF Leave
<1>4. CASE Claim(p, t)
  <2>1. e.pc = "queued" /\ runs'[t] = h
    BY <1>4 DEF Claim, At
  <2>2. CASE ~Claimable(t)
    BY <1>4, <2>1, <2>2, <1>3 DEF Claim, Course
  <2>3. CASE Claimable(t) /\ ~Missed(p, t, e.trigger)
    <3>1. f = [e EXCEPT !.pc = "start"] /\ task'[t].status = "running"
      BY <1>4, <2>3, <1>1, <1>2 DEF Claim, Row
    <3>2. f.pc = "start" /\ f.trigger = e.trigger
      BY <3>1, <1>1 DEF Exec
    <3> QED BY <2>1, <3>1, <3>2 DEF Course
  <2>4. CASE Claimable(t) /\ Missed(p, t, e.trigger)
    <3> DEFINE next == NextRun(t, now)
    <3>1. next \in Nat /\ Later(next, now)
      BY <1>1, NextRunType, NextRunLater DEF Later
    <3> HIDE DEF next
    <3>2. [e EXCEPT !.next = next] \in Exec
      BY <1>1, <3>1 DEF Exec
    <3>3. f = [[e EXCEPT !.next = next] EXCEPT !.pc = "skip"] /\ task'[t].status = "running"
      <4>1. Goto(p, t, [e EXCEPT !.next = next], "skip")
        BY <1>4, <2>4 DEF Claim, next
      <4>2. task' = [task EXCEPT ![t].status = "running"]
        BY <1>4, <2>4 DEF Claim
      <4>3. task'[t].status = "running"
        BY <4>2, <1>1 DEF Row
      <4>4. f = [[e EXCEPT !.next = next] EXCEPT !.pc = "skip"]
        BY <4>1, <3>2, <1>2
      <4> QED BY <4>3, <4>4
    <3>4. f.pc = "skip" /\ f.trigger = e.trigger /\ f.next = next
      BY <3>3, <1>1 DEF Exec
    <3> QED BY <2>1, <3>1, <3>3, <3>4 DEF Course
  <2> QED BY <2>2, <2>3, <2>4
<1>5. CASE RecordSkippedRun(p, t)
  <2> DEFINE run == [trigger |-> e.trigger, status |-> "skipped"]
  <2>1. run \in Run /\ runs'[t] = Append(h, run)
    BY <1>5, <1>1 DEF RecordSkippedRun, Run, Exec
  <2>2. Appended(h, runs'[t], e.trigger, "skipped")
    BY <2>1, <1>1, HistoryAppended
  <2>3. e.pc = "skip" /\ f = [e EXCEPT !.pc = "renew"] /\ task'[t] = task[t]
    BY <1>5, <1>1, <1>2 DEF RecordSkippedRun, At
  <2> QED BY <2>2, <2>3 DEF Course
<1>6. CASE StartRun(p, t)
  <2> DEFINE run == [trigger |-> e.trigger, status |-> "running"]
             n == Len(h) + 1
  <2>1. run \in Run /\ runs'[t] = Append(h, run) /\ n \in Nat
    BY <1>6, <1>1 DEF StartRun, Run, Exec
  <2>2. Appended(h, runs'[t], e.trigger, "running") /\ Len(runs'[t]) = n
    BY <2>1, <1>1, HistoryAppended DEF Appended
  <2> HIDE DEF n
  <2>3. [e EXCEPT !.run = n] \in Exec
    BY <1>1, <2>1 DEF Exec
  <2>4. /\ e.pc = "start" /\ f = [[e EXCEPT !.run = n] EXCEPT !.pc = "acting"]
        /\ task'[t] = task[t]
    BY <1>6, <2>3, <1>1, <1>2 DEF StartRun, At, n
  <2>5. f.pc = "acting" /\ f.trigger = e.trigger /\ f.run = n
    BY <2>4, <1>1 DEF Exec
  <2> QED BY <2>2, <2>4, <2>5 DEF Course
<1>7. CASE ActionReturns(p, t)
  <2> DEFINE c == CountRun(e)
             catchUp == PolicyOf(p) = "catch_up" /\ Recurring(t)
             candidate == NextRun(t, IF catchUp THEN c.trigger ELSE now)
             next == IF Recurring(t) THEN Following(t, candidate) ELSE Unset
  <2>1. c \in Exec /\ c.trigger = e.trigger /\ c.run = e.run
    <3>1. e.done + 1 \in Nat
      BY <1>1 DEF Exec
    <3> QED BY <3>1, <1>1 DEF CountRun, Exec
  <2>2. /\ candidate \in Nat /\ Later(candidate, IF catchUp THEN c.trigger ELSE now)
        /\ NextRun(t, now) \in Nat /\ Later(NextRun(t, now), now)
    BY <1>1, <2>1, NextRunType, NextRunLater DEF Exec, Later
  <2>3. next \in Nat \cup {Unset} /\ (next = Unset \/ Later(next, now))
    BY <1>1, <2>2 DEF Following, Later
  <2>4. e.pc = "acting" /\ runs'[t] = h /\ task'[t] = task[t]
    BY <1>7 DEF ActionReturns, At, store
  <2>5. \/ catchUp /\ candidate <= now /\ Goto(p, t, [c EXCEPT !.trigger = candidate], "closeMissed")
        \/ Goto(p, t, [c EXCEPT !.next = next], "complete")
    BY <1>7 DEF ActionReturns
  <2> HIDE DEF c, candidate, next
  <2>6. CASE catchUp /\ candidate <= now /\ Goto(p, t, [c EXCEPT !.trigger = candidate], "closeMissed")
    <3>1. [c EXCEPT !.trigger = candidate] \in Exec
      BY <2>1, <2>2 DEF Exec
    <3>2. f = [[c EXCEPT !.trigger = candidate] EXCEPT !.pc = "closeMissed"]
      BY <2>6, <3>1, <1>2
    <3>3. f.pc = "closeMissed" /\ f.trigger = candidate /\ f.run = c.run
      BY <3>2, <2>1 DEF Exec
    <3>4. Later(candidate, e.trigger)
      BY <2>1, <2>2, <2>6
    <3> QED BY <2>1, <2>4, <2>6, <3>3, <3>4 DEF Course
  <2>7. CASE Goto(p, t, [c EXCEPT !.next = next], "complete")
    <3>1. [c EXCEPT !.next = next] \in Exec
      BY <2>1, <2>3 DEF Exec
    <3>2. f = [[c EXCEPT !.next = next] EXCEPT !.pc = "complete"]
      BY <2>7, <3>1, <1>2
    <3>3. f.pc = "complete" /\ f.trigger = c.trigger /\ f.run = c.run /\ f.next = next
      BY <3>2, <2>1 DEF Exec
    <3> QED BY <2>1, <2>3, <2>4, <3>3 DEF Course
  <2> QED BY <2>5, <2>6, <2>7
<1>8. CASE ActionFails(p, t)
  <2>1. /\ e.pc = "acting" /\ runs'[t] = h /\ task'[t] = task[t]
        /\ f = [e EXCEPT !.pc = "checkpoint"]
    BY <1>8, <1>1, <1>2 DEF ActionFails, At, store
  <2>2. f.pc = "checkpoint" /\ f.trigger = e.trigger /\ f.run = e.run
    BY <2>1, <1>1 DEF Exec
  <2> QED BY <2>1, <2>2 DEF Course
<1>9. CASE FinishRun(p, t)
  <2>1. task'[t] = task[t]
    BY <1>9 DEF FinishRun
  <2>2. \A status : CloseRun(t, e.run, status) => Closed(h, runs'[t], e.run, status)
    BY HistoryClosed DEF Inductive
  <2>3. \A loc : Goto(p, t, e, loc) =>
          f = [e EXCEPT !.pc = loc] /\ f.pc = loc /\ f.trigger = e.trigger
    BY <1>1, <1>2 DEF Exec
  <2>4. CASE e.pc = "closeMissed"
    BY <1>9, <2>1, <2>2, <2>3, <2>4 DEF FinishRun, At, Course
  <2>5. CASE e.pc = "close"
    <3>1. Closed(h, runs'[t], e.run, "completed")
      BY <1>9, <2>2, <2>5 DEF FinishRun, At
    <3>2. f = Idle \/ (f = [e EXCEPT !.pc = "renew"] /\ e.next # Unset)
      BY <1>9, <2>3, <2>5, <1>3 DEF FinishRun, At
    <3> QED BY <2>1, <2>5, <3>1, <3>2 DEF Course
  <2>6. CASE e.pc = "cancelled"
    BY <1>9, <2>1, <2>2, <2>3, <2>6 DEF FinishRun, At, Course
  <2>7. CASE e.pc = "closeFailed"
    <3>1. Closed(h, runs'[t], e.run, "failed")
      BY <1>9, <2>2, <2>7 DEF FinishRun, At
    <3>2. CASE Retries(e.failures)
      <4> DEFINE next == now + Backoff(e.failures + 1)
      <4>1. next \in Nat /\ next >= now
        BY <1>1, <3>2, BackoffType DEF Exec
      <4>2. Goto(p, t, [e EXCEPT !.next = next], "retry")
        BY <1>9, <2>7, <3>2 DEF FinishRun, At
      <4> HIDE DEF next
      <4>3. [e EXCEPT !.next = next] \in Exec
        BY <1>1, <4>1 DEF Exec
      <4>4. f = [[e EXCEPT !.next = next] EXCEPT !.pc = "retry"]
        BY <4>2, <4>3, <1>2
      <4>5. f.pc = "retry" /\ f.next = next /\ f.trigger = e.trigger
        BY <4>4, <1>1 DEF Exec
      <4> QED BY <2>1, <2>7, <3>1, <4>1, <4>5 DEF Course
    <3>3. CASE ~Retries(e.failures)
      <4>1. f.pc = "pause" /\ f.trigger = e.trigger
        BY <1>9, <2>7, <3>3, <2>3 DEF FinishRun, At
      <4> QED BY <2>1, <2>7, <3>1, <4>1 DEF Course
    <3> QED BY <3>2, <3>3
  <2> QED BY <1>9, <2>4, <2>5, <2>6, <2>7 DEF FinishRun, At
<1>10. CASE UpdateStatus(p, t)
  <2>1. /\ e.pc = "complete" /\ f = [e EXCEPT !.pc = "credit"] /\ runs'[t] = h
        /\ task'[t].status = "completed"
    BY <1>10, <1>1, <1>2 DEF UpdateStatus, At, Row
  <2> QED BY <2>1 DEF Course
<1>11. CASE RecordSuccess(p, t)
  <2>1. \/ e.pc = "credit" /\ f = [e EXCEPT !.pc = "close"]
        \/ e.pc = "creditMissed" /\ f = [e EXCEPT !.pc = "start"]
    BY <1>11, <1>1, <1>2 DEF RecordSuccess, At
  <2>2. task'[t].status = task[t].status /\ task'[t].next = task[t].next /\ runs'[t] = h
    BY <1>11, <1>1 DEF RecordSuccess, Row
  <2> QED BY <2>1, <2>2 DEF Course
<1>12. CASE SaveCheckpoint(p, t)
  <2>1. /\ e.pc = "checkpoint" /\ f = [e EXCEPT !.pc = "closeFailed"] /\ runs'[t] = h
        /\ task'[t].status = task[t].status /\ task'[t].next = task[t].next
    BY <1>12, <1>1, <1>2 DEF SaveCheckpoint, At, Row
  <2> QED BY <2>1 DEF Course
<1>13. CASE Reschedule(p, t)
  <2>1. /\ e.pc = "renew" /\ f = Idle /\ runs'[t] = h
        /\ task'[t].status = "scheduled" /\ task'[t].next = e.next
    BY <1>13, <1>1, <1>3 DEF Reschedule, At, Row
  <2> QED BY <2>1 DEF Course
<1>14. CASE ScheduleRetry(p, t)
  <2> DEFINE n == task[t].failures + 1
             row == [task[t] EXCEPT !.status = "scheduled", !.next = e.next, !.failures = n]
  <2>1. /\ e.pc = "retry" /\ f = Idle /\ runs'[t] = h
        /\ task'[t] = row
    BY <1>14, <1>1, <1>3 DEF ScheduleRetry, At
  <2>2. row.status = "scheduled" /\ row.next = e.next
    <3> HIDE DEF n
    <3> QED BY <1>1 DEF Row
  <2> HIDE DEF row
  <2> QED BY <2>1, <2>2 DEF Course
<1>15. CASE Pause(p, t)
  <2>1. e.pc = "pause" /\ f = Idle /\ runs'[t] = h /\ task'[t].status = "paused"
    BY <1>15, <1>1, <1>3 DEF Pause, At, Row
  <2> QED BY <2>1 DEF Course
<1> QED BY <1>4, <1>5, <1>6, <1>7, <1>8, <1>9, <1>10, <1>11, <1>12, <1>13, <1>14, <1>15
        DEF Execute

----------------------------------------------------------------------------
(***************************************************************************)
(* Open runs.  As long as no process crashes, a row of the history that is  *)
(* open is the run in the hands of a coroutine; and only a process that is  *)
(* stopping has cancelled coroutines, so a stop drops none of them.         *)
(***************************************************************************)
OpenHeld ==
  \A t \in Task : \A i \in 1..Len(runs[t]) :
    runs[t][i].status = "running" =>
      \E p \in Process : exec[p][t].pc \in Holding /\ exec[p][t].run = i

CancelledStops ==
  \A p \in Process, t \in Task : exec[p][t].pc = "cancelled" => mode[p] = "stopping"

Owned == OpenHeld /\ CancelledStops

\* On its course a coroutine opens a run that it holds and lets go of none that
\* is open.
Keeps(e, f, h, k) ==
  \A i \in 1..Len(k) : k[i].status = "running" =>
    \/ f.pc \in Holding /\ f.run = i
    \/ i \in 1..Len(h) /\ h[i].status = "running" /\ ~(e.pc \in Holding /\ e.run = i)

LEMMA CourseKeeps ==
  ASSUME NEW e \in Exec, NEW f \in Exec, NEW h \in Seq(Run), NEW k \in Seq(Run),
         NEW row, NEW new, Course(e, f, h, k, row, new)
  PROVE  Keeps(e, f, h, k) /\ (f.pc = "cancelled" => e.pc = "cancelled")
<1>1. Len(h) \in Nat /\ Len(k) \in Nat /\ Idle.pc = "idle"
  BY DEF Idle
<1>2. \A loc : [e EXCEPT !.pc = loc].pc = loc /\ [e EXCEPT !.pc = loc].run = e.run
  BY DEF Exec
<1>3. CASE Appended(h, k, e.trigger, "skipped") /\ e.pc = "skip" /\ f = [e EXCEPT !.pc = "renew"]
  BY <1>1, <1>2, <1>3 DEF Appended, Keeps, Holding
<1>4. CASE Appended(h, k, e.trigger, "running") /\ e.pc = "start" /\ f.pc = "acting" /\ f.run = Len(k)
  BY <1>1, <1>2, <1>4 DEF Appended, Keeps, Holding
<1>5. CASE /\ e.pc \in Holding
           /\ \E status \in {"completed", "failed", "cancelled"} : Closed(h, k, e.run, status)
           /\ f.pc # "cancelled"
  BY <1>1, <1>5 DEF Closed, Keeps
<1>6. CASE /\ k = h /\ f.pc # "cancelled"
           /\ e.pc \in Holding => f.pc \in Holding /\ f.run = e.run
  BY <1>1, <1>6 DEF Keeps
<1>7. CASE e.pc \in {"closeMissed", "close", "closeFailed", "cancelled"}
  <2>1. \E status \in {"completed", "failed", "cancelled"} : Closed(h, k, e.run, status)
    BY <1>7 DEF Course
  <2>2. f.pc # "cancelled"
    BY <1>1, <1>2, <1>7 DEF Course
  <2> QED BY <1>5, <1>7, <2>1, <2>2 DEF Holding
<1>8. CASE e.pc \in {"acting", "complete", "credit", "checkpoint"}
  <2>1. k = h /\ f.run = e.run
    BY <1>2, <1>8 DEF Course
  <2>2. f.pc \in {"closeMissed", "complete", "checkpoint", "credit", "close", "closeFailed"}
    BY <1>2, <1>8 DEF Course
  <2> QED BY <1>6, <2>1, <2>2 DEF Holding
<1>9. CASE e.pc \in {"queued", "creditMissed", "renew", "retry", "pause"}
  <2>1. k = h /\ f.pc # "cancelled"
    BY <1>1, <1>2, <1>9 DEF Course
  <2> QED BY <1>6, <1>9, <2>1 DEF Holding
<1>10. CASE e.pc \in {"skip", "start"}
  BY <1>3, <1>4, <1>10 DEF Course
<1>11. e.pc \in {"queued", "skip", "start", "acting", "closeMissed", "close", "closeFailed",
                "cancelled", "complete", "credit", "creditMissed", "checkpoint", "renew",
                "retry", "pause"}
  BY DEF Course
<1> QED BY <1>7, <1>8, <1>9, <1>10, <1>11

LEMMA ExecuteOwned ==
  ASSUME Inductive, Owned, NEW p \in Process, NEW t \in Task, Execute(p, t)
  PROVE  Owned'
<1>1. Inductive' /\ Alone(p, t)
  BY ExecuteStep, ExecuteAlone DEF Inductive
<1>2. /\ exec[p][t] \in Exec /\ exec'[p][t] \in Exec
      /\ runs[t] \in Seq(Run) /\ runs'[t] \in Seq(Run)
  BY <1>1 DEF Inductive, TypeOK
<1>3. /\ Keeps(exec[p][t], exec'[p][t], runs[t], runs'[t])
      /\ exec'[p][t].pc = "cancelled" => exec[p][t].pc = "cancelled"
  BY <1>2, OnCourse, CourseKeeps
<1>4. CancelledStops'
  BY <1>1, <1>3 DEF Alone, Owned, CancelledStops, procs
<1>5. ASSUME NEW u \in Task, NEW i \in 1..Len(runs'[u]), runs'[u][i].status = "running"
      PROVE  \E q \in Process : exec'[q][u].pc \in Holding /\ exec'[q][u].run = i
  <2>1. CASE u # t
    BY <1>1, <1>5, <2>1 DEF Alone, Owned, OpenHeld
  <2>2. CASE u = t
    <3>1. CASE exec'[p][t].pc \in Holding /\ exec'[p][t].run = i
      BY <2>2, <3>1
    <3>2. CASE /\ i \in 1..Len(runs[t]) /\ runs[t][i].status = "running"
               /\ ~(exec[p][t].pc \in Holding /\ exec[p][t].run = i)
      <4>1. PICK q \in Process : exec[q][t].pc \in Holding /\ exec[q][t].run = i
        BY <3>2 DEF Owned, OpenHeld
      <4>2. exec'[q][t] = exec[q][t]
        BY <1>1, <3>2, <4>1 DEF Alone
      <4> QED BY <2>2, <4>1, <4>2
    <3> QED BY <1>3, <1>5, <2>2, <3>1, <3>2 DEF Keeps
  <2> QED BY <2>1, <2>2
<1> QED BY <1>4, <1>5 DEF Owned, OpenHeld

\* Every step but a crash leaves open runs owned.
LEMMA OwnedStep ==
  ASSUME Inductive, Owned,
         \/ UNCHANGED vars \/ Tick \/ Rest
         \/ \E t \in Task : Create(t) \/ CreatorCrashes(t)
         \/ \E p \in Process : \/ Poll(p) \/ Stop(p) \/ Drained(p) \/ Restart(p)
                               \/ \E t \in Task : Execute(p, t)
  PROVE  Owned'
<1>1. exec \in [Process -> [Task -> Exec]] /\ mode \in [Process -> {"up", "stopping", "down"}]
  BY DEF Inductive, TypeOK
<1>2. CASE UNCHANGED <<runs, exec, mode>>
  BY <1>2 DEF Owned, OpenHeld, CancelledStops
<1>3. CASE UNCHANGED vars \/ Tick \/ Rest \/ \E t \in Task : Create(t) \/ CreatorCrashes(t)
  BY <1>2, <1>3 DEF vars, store, procs, Tick, Rest, Create, CreateTask, RegisterTask,
                    CreatorCrashes
<1>4. ASSUME NEW p \in Process, NEW t \in Task, Execute(p, t)
      PROVE  Owned'
  BY <1>4, ExecuteOwned
<1>5. ASSUME NEW p \in Process, Poll(p)
      PROVE  Owned'
  <2>1. \A q \in Process, t \in Task :
          \/ exec'[q][t] = exec[q][t]
          \/ exec[q][t].pc = "idle" /\ exec'[q][t].pc = "queued"
    BY <1>1, <1>5 DEF Poll, Fresh, Idle
  <2>2. UNCHANGED <<runs, mode>>
    BY <1>5 DEF Poll, store, procs
  <2> QED BY <2>1, <2>2 DEF Owned, OpenHeld, CancelledStops, Holding
<1>6. ASSUME NEW p \in Process, Stop(p)
      PROVE  Owned'
  <2>1. /\ UNCHANGED runs /\ mode[p] = "up"
        /\ mode'[p] = "stopping" /\ \A q \in Process \ {p} : mode'[q] = mode[q]
    BY <1>1, <1>6 DEF Stop, store
  <2>2. /\ \A t \in Task : exec'[p][t] = Interrupt(p, t)
        /\ \A q \in Process \ {p} : exec'[q] = exec[q]
    BY <1>1, <1>6 DEF Stop
  <2>3. \A t \in Task : exec[p][t].pc \in Holding => exec[p][t].pc = "acting"
    BY <1>6, <2>1 DEF Stop, Synchronous, Owned, CancelledStops, Holding, Writing
  <2>4. \A t \in Task : exec[p][t].pc = "acting" =>
          exec'[p][t].pc = "cancelled" /\ exec'[p][t].run = exec[p][t].run
    <3>1. ASSUME NEW t \in Task, exec[p][t].pc = "acting"
          PROVE  exec'[p][t].pc = "cancelled" /\ exec'[p][t].run = exec[p][t].run
      <4>1. exec[p][t] \in Exec /\ exec'[p][t] = [exec[p][t] EXCEPT !.pc = "cancelled"]
        BY <1>1, <2>2, <3>1 DEF Interrupt
      <4> QED BY <4>1 DEF Exec
    <3> QED BY <3>1
  <2>5. OpenHeld'
    BY <2>1, <2>2, <2>3, <2>4 DEF Owned, OpenHeld, Holding
  <2>6. CancelledStops'
    BY <2>1, <2>2 DEF Owned, CancelledStops
  <2> QED BY <2>5, <2>6 DEF Owned
<1>7. ASSUME NEW p \in Process, Drained(p) \/ Restart(p)
      PROVE  Owned'
  <2>1. UNCHANGED <<runs, exec>> /\ \A q \in Process \ {p} : mode'[q] = mode[q]
    BY <1>1, <1>7 DEF Drained, Restart, store
  <2>2. \A t \in Task : exec[p][t].pc # "cancelled"
    BY <1>7 DEF Drained, Restart, Owned, CancelledStops
  <2> QED BY <2>1, <2>2 DEF Owned, OpenHeld, CancelledStops
<1> QED BY <1>3, <1>4, <1>5, <1>6, <1>7

LEMMA InitOwned == Init => Owned
  BY DEF Init, Owned, OpenHeld, CancelledStops, Idle

LEMMA OwnedOpens == Inductive /\ Owned => OpenRunsOwned
<1>1. \A t \in Task : DOMAIN runs[t] = 1..Len(runs[t]) \/ ~Inductive
  BY DEF Inductive, TypeOK
<1>2. Holding \subseteq Claimed
  BY DEF Holding, Claimed, Waiting, Writing
<1> QED BY <1>1, <1>2 DEF Owned, OpenHeld, OpenRunsOwned

\* Where no process crashes a run recorded as running is always in the hands of
\* a coroutine, for any number of processes: stops, failures and skips close
\* what they find (_run_claimed_task, stop).
THEOREM OpenRunsAreOwned ==
  ASSUME "crash" \notin Faults
  PROVE  Spec => []OpenRunsOwned
<1>1. Inductive /\ Owned /\ [Next]_vars => Owned'
  BY OwnedStep DEF Next, Crash
<1> QED BY InitOwned, <1>1, OwnedOpens, InductiveInvariant, PTL DEF Spec

----------------------------------------------------------------------------
(***************************************************************************)
(* Triggers.  With one process, d, a coroutine and the row of its task have *)
(* a trigger no older than those in the history, and a coroutine works on   *)
(* the youngest row.                                                        *)
(***************************************************************************)
Handled(h) == {i \in 1..Len(h) : h[i].status \in {"completed", "skipped"}}

Before(h, time) == \A i \in Handled(h) : h[i].trigger < time

InOrder(h) == \A j \in 1..Len(h), i \in Handled(h) : i < j => h[i].trigger < h[j].trigger

Orderly(e, h, row, made) ==
  /\ InOrder(h)
  /\ made \in {"none", "created"} => h = <<>>
  /\ row.status = "scheduled" => row.next = Unset \/ Before(h, row.next)
  /\ e.pc # "idle" => e.trigger <= now
  /\ e.pc \notin {"idle", "renew", "pause"} => Before(h, e.trigger)
  /\ e.pc = "skip" => e.trigger < e.next
  /\ e.pc \in {"complete", "credit", "close"} => e.next = Unset \/ e.trigger < e.next
  /\ e.pc \in {"renew", "retry"} => Before(h, e.next)
  /\ e.pc \in Holding => e.run = Len(h) /\ e.run > 0 /\ h[e.run].trigger <= e.trigger
  /\ e.pc = "closeMissed" => h[e.run].trigger < e.trigger

Solitary(d) ==
  /\ \A t \in Task : Orderly(exec[d][t], runs[t], task[t], creator[t])
  /\ \A p \in Process \ {d}, t \in Task : exec[p][t].pc = "idle"

\* What is later than all handled triggers stays so, at a later time too; a new
\* row after them keeps the order; and so does closing the last.
LEMMA RunTriggers ==
  ASSUME NEW h \in Seq(Run)
  PROVE  /\ Len(h) \in Nat /\ \A i \in 1..Len(h) : h[i].trigger \in Nat
         /\ Handled(h) \subseteq 1..Len(h)
<1>1. \A i \in 1..Len(h) : h[i] \in Run
  OBVIOUS
<1> QED BY <1>1 DEF Run, Handled

LEMMA BeforeLater ==
  ASSUME NEW h \in Seq(Run), NEW x \in Int, NEW y \in Int, x <= y, Before(h, x)
  PROVE  Before(h, y)
BY RunTriggers DEF Before

LEMMA AppendedOrder ==
  ASSUME NEW h \in Seq(Run), NEW k \in Seq(Run), NEW x \in Nat, NEW status,
         InOrder(h), Before(h, x), Appended(h, k, x, status)
  PROVE  /\ InOrder(k)
         /\ status \notin {"completed", "skipped"} => Before(k, x)
         /\ \A y \in Int : x < y => Before(k, y)
         /\ Len(k) > 0 /\ k[Len(k)].trigger = x
<1>1. /\ Len(h) \in Nat /\ Len(k) = Len(h) + 1
      /\ k[Len(k)].trigger = x /\ k[Len(k)].status = status
      /\ \A i \in 1..Len(h) : k[i] = h[i]
      /\ \A i \in 1..Len(h) : h[i].trigger \in Nat
  BY RunTriggers DEF Appended
<1>2. \A i \in Handled(k) : i \in Handled(h) \/ i = Len(k)
  BY <1>1 DEF Handled
<1>3. InOrder(k)
  BY <1>1, <1>2 DEF InOrder, Before, Handled
<1>4. status \notin {"completed", "skipped"} => Handled(k) \subseteq Handled(h)
  BY <1>1, <1>2 DEF Handled
<1>5. Handled(h) \subseteq 1..Len(h)
  BY DEF Handled
<1>6. status \notin {"completed", "skipped"} => Before(k, x)
  BY <1>1, <1>4, <1>5 DEF Before
<1>7. \A y \in Int : x < y => Before(k, y)
  BY <1>1, <1>2, <1>5 DEF Before
<1> QED BY <1>1, <1>3, <1>6, <1>7

LEMMA ClosedOrder ==
  ASSUME NEW h \in Seq(Run), NEW k \in Seq(Run), NEW status,
         InOrder(h), Len(h) > 0, Closed(h, k, Len(h), status)
  PROVE  /\ InOrder(k) /\ Len(k) = Len(h)
         /\ status \notin {"completed", "skipped"} => \A y \in Int : Before(h, y) => Before(k, y)
         /\ \A y \in Int : Before(h, y) /\ h[Len(h)].trigger < y => Before(k, y)
<1>1. /\ Len(h) \in Nat /\ Len(k) = Len(h) /\ Len(h) \in 1..Len(h)
      /\ \A i \in 1..Len(h) : k[i].trigger = h[i].trigger
      /\ \A i \in 1..Len(h) : k[i].status = IF i = Len(h) THEN status ELSE h[i].status
      /\ \A i \in 1..Len(h) : h[i].trigger \in Nat
  BY RunTriggers DEF Closed
<1>2. \A i \in Handled(k) : i \in 1..Len(h) /\ (i \in Handled(h) \/ i = Len(h))
  BY <1>1 DEF Handled
<1>3. InOrder(k)
  BY <1>1, <1>2 DEF InOrder
<1>4. status \notin {"completed", "skipped"} => Handled(k) \subseteq Handled(h)
  BY <1>1 DEF Handled
<1>5. status \notin {"completed", "skipped"} => \A y \in Int : Before(h, y) => Before(k, y)
  BY <1>1, <1>2, <1>4 DEF Before
<1>6. \A y \in Int : Before(h, y) /\ h[Len(h)].trigger < y => Before(k, y)
  BY <1>1, <1>2 DEF Before
<1> QED BY <1>1, <1>3, <1>5, <1>6

LEMMA CourseOrderly ==
  ASSUME FoldBy = 0, now \in Nat,
         NEW e \in Exec, NEW f \in Exec, NEW h \in Seq(Run), NEW k \in Seq(Run),
         NEW row \in Row, NEW new \in Row, NEW made, made \notin {"none", "created"},
         e.pc \in Claimed => row.status # "scheduled",
         Orderly(e, h, row, made), Course(e, f, h, k, row, new)
  PROVE  Orderly(f, k, new, made)
<1>1. /\ e.trigger \in Nat /\ e.next \in Nat \cup {Unset} /\ e.run \in Nat
      /\ f.trigger \in Nat /\ f.next \in Nat \cup {Unset} /\ f.run \in Nat
      /\ row.next \in Nat \cup {Unset} /\ Unset \in Int /\ Unset \notin Nat
      /\ Idle.pc = "idle"
  BY DEF Exec, Row, Unset, Idle
<1>2. \A loc : /\ [e EXCEPT !.pc = loc].pc = loc /\ [e EXCEPT !.pc = loc].run = e.run
               /\ [e EXCEPT !.pc = loc].trigger = e.trigger
               /\ [e EXCEPT !.pc = loc].next = e.next
  BY DEF Exec
<1>3. InOrder(h) /\ \A i \in 1..Len(h) : h[i].trigger \in Nat
  BY RunTriggers DEF Orderly
<1>4. CASE e.pc = "queued"
  <2>1. k = h /\ Before(h, e.trigger) /\ e.trigger <= now
    BY <1>4 DEF Course, Orderly
  <2>2. CASE f = Idle /\ new = row
    BY <1>1, <2>1, <2>2 DEF Orderly, Holding
  <2>3. CASE f.pc \in {"start", "skip"} /\ f.trigger = e.trigger /\ new.status = "running"
             /\ (f.pc = "skip" => Later(f.next, now))
    <3>1. f.pc = "skip" => e.trigger < f.next
      BY <1>1, <2>1, <2>3 DEF Later
    <3> QED BY <1>3, <2>1, <2>3, <3>1 DEF Orderly, Holding
  <2> QED BY <1>4, <2>2, <2>3 DEF Course
<1>5. CASE e.pc = "skip"
  <2>1. /\ Appended(h, k, e.trigger, "skipped") /\ new.status # "scheduled"
        /\ f.pc = "renew" /\ f.next = e.next /\ f.trigger = e.trigger
    BY <1>2, <1>5 DEF Course, Claimed, Writing
  <2>2. Before(h, e.trigger) /\ e.trigger <= now /\ e.trigger < e.next
    BY <1>5 DEF Orderly
  <2>3. InOrder(k) /\ Before(k, e.next)
    BY <1>1, <1>3, <2>1, <2>2, AppendedOrder
  <2> QED BY <2>1, <2>2, <2>3 DEF Orderly, Holding
<1>6. CASE e.pc = "start"
  <2>1. /\ Appended(h, k, e.trigger, "running") /\ new.status # "scheduled"
        /\ f.pc = "acting" /\ f.trigger = e.trigger /\ f.run = Len(k)
    BY <1>6 DEF Course, Claimed, Writing
  <2>2. Before(h, e.trigger) /\ e.trigger <= now
    BY <1>6 DEF Orderly
  <2>3. InOrder(k) /\ Before(k, e.trigger) /\ Len(k) > 0 /\ k[Len(k)].trigger = e.trigger
    BY <1>1, <1>3, <2>1, <2>2, AppendedOrder
  <2> QED BY <1>1, <2>1, <2>2, <2>3 DEF Orderly, Holding
<1>7. CASE e.pc = "acting"
  <2>1. /\ k = h /\ new.status # "scheduled" /\ f.run = e.run
        /\ \/ f.pc = "closeMissed" /\ Later(f.trigger, e.trigger) /\ f.trigger <= now
           \/ /\ f.pc = "complete" /\ f.trigger = e.trigger
              /\ f.next = Unset \/ Later(f.next, now)
           \/ f.pc = "checkpoint" /\ f.trigger = e.trigger
    BY <1>7 DEF Course, Claimed, Waiting
  <2>2. /\ Before(h, e.trigger) /\ e.trigger <= now
        /\ e.run = Len(h) /\ e.run > 0 /\ h[e.run].trigger <= e.trigger
    BY <1>7 DEF Orderly, Holding
  <2>3. h[e.run].trigger \in Nat
    BY <1>1, <1>3, <2>2
  <2>4. CASE f.pc = "closeMissed"
    <3>1. e.trigger < f.trigger /\ h[e.run].trigger < f.trigger
      BY <1>1, <2>1, <2>2, <2>3, <2>4 DEF Later
    <3>2. Before(h, f.trigger)
      BY <1>1, <2>2, <3>1, BeforeLater
    <3> QED BY <1>1, <1>3, <2>1, <2>2, <2>3, <2>4, <3>1, <3>2 DEF Orderly
  <2>5. CASE f.pc = "complete"
    <3>1. f.next = Unset \/ e.trigger < f.next
      BY <1>1, <2>1, <2>2, <2>5 DEF Later
    <3> QED BY <1>3, <2>1, <2>2, <2>5, <3>1 DEF Orderly
  <2>6. CASE f.pc = "checkpoint"
    BY <1>3, <2>1, <2>2, <2>6 DEF Orderly
  <2> QED BY <2>1, <2>4, <2>5, <2>6
<1>8. CASE e.pc \in {"closeMissed", "close", "closeFailed", "cancelled"}
  <2>1. /\ new.status # "scheduled"
        /\ \E status : /\ Closed(h, k, e.run, status)
                       /\ e.pc \in {"closeFailed", "cancelled"} => status \in {"failed", "cancelled"}
    BY <1>8 DEF Course, Claimed, Waiting, Writing
  <2>2. PICK status : /\ Closed(h, k, e.run, status)
                      /\ e.pc \in {"closeFailed", "cancelled"} => status \in {"failed", "cancelled"}
    BY <2>1
  <2>3. /\ Before(h, e.trigger) /\ e.trigger <= now /\ e.run = Len(h) /\ Len(h) > 0
        /\ h[Len(h)].trigger <= e.trigger
    BY <1>8 DEF Orderly, Holding
  <2>4. h[Len(h)].trigger \in Nat
    BY <1>1, <1>3, <2>3
  <2>5. InOrder(k)
    BY <1>3, <2>2, <2>3, ClosedOrder
  <2>6. CASE e.pc = "closeMissed"
    <3>1. f.pc = "creditMissed" /\ f.trigger = e.trigger
      BY <2>6 DEF Course
    <3>2. h[Len(h)].trigger < e.trigger
      BY <2>3, <2>6 DEF Orderly
    <3>3. Before(k, e.trigger)
      BY <1>1, <1>3, <2>2, <2>3, <3>2, ClosedOrder
    <3> QED BY <2>1, <2>3, <2>5, <3>1, <3>3 DEF Orderly, Holding
  <2>7. CASE e.pc = "close"
    <3>1. f = Idle \/ (f.pc = "renew" /\ f.next = e.next /\ f.trigger = e.trigger /\ e.next # Unset)
      BY <1>2, <2>7 DEF Course
    <3>2. e.next # Unset => e.trigger < e.next
      BY <2>7 DEF Orderly
    <3>3. e.next # Unset => Before(k, e.next)
      <4>1. e.next # Unset => Before(h, e.next) /\ h[Len(h)].trigger < e.next
        BY <1>1, <2>3, <2>4, <3>2, BeforeLater
      <4> QED BY <1>1, <1>3, <2>2, <2>3, <4>1, ClosedOrder
    <3> QED BY <1>1, <2>1, <2>3, <2>5, <3>1, <3>3 DEF Orderly, Holding
  <2>8. CASE e.pc \in {"closeFailed", "cancelled"}
    <3>1. f.trigger = e.trigger /\ (f.pc = "pause" \/ (f.pc = "retry" /\ f.next >= now))
      BY <2>8 DEF Course
    <3>2. \A y \in Int : Before(h, y) => Before(k, y)
      BY <1>3, <2>2, <2>3, <2>8, ClosedOrder
    <3>3. Before(k, e.trigger)
      BY <1>1, <2>3, <3>2
    <3>4. f.pc = "retry" => Before(k, f.next)
      <4>1. f.pc = "retry" => e.trigger <= f.next
        BY <1>1, <2>3, <3>1
      <4> QED BY <1>1, <3>3, <4>1, BeforeLater
    <3> QED BY <2>1, <2>3, <2>5, <3>1, <3>3, <3>4 DEF Orderly, Holding
  <2> QED BY <1>8, <2>6, <2>7, <2>8
<1>9. CASE e.pc \in {"complete", "credit", "creditMissed", "checkpoint"}
  <2>1. e.pc \in Claimed
    BY <1>9 DEF Claimed, Writing
  <2>2. k = h /\ new.status # "scheduled"
    BY <1>9, <2>1 DEF Course
  <2>3. /\ e.pc = "complete" => f = [e EXCEPT !.pc = "credit"]
        /\ e.pc = "credit" => f = [e EXCEPT !.pc = "close"]
        /\ e.pc = "creditMissed" => f = [e EXCEPT !.pc = "start"]
        /\ e.pc = "checkpoint" => f = [e EXCEPT !.pc = "closeFailed"]
    BY <1>9 DEF Course
  <2>4. f.trigger = e.trigger /\ f.next = e.next /\ f.run = e.run
    <3>1. PICK loc : f = [e EXCEPT !.pc = loc]
      BY <1>9, <2>3
    <3> QED BY <3>1 DEF Exec
  <2>5. \/ e.pc = "complete" /\ f.pc = "credit"
        \/ e.pc = "credit" /\ f.pc = "close"
        \/ e.pc = "creditMissed" /\ f.pc = "start"
        \/ e.pc = "checkpoint" /\ f.pc = "closeFailed"
    BY <1>2, <1>9, <2>3
  <2> QED BY <1>9, <2>2, <2>4, <2>5 DEF Orderly, Holding
<1>10. CASE e.pc \in {"renew", "retry", "pause"}
  <2>1. /\ f.pc = "idle" /\ k = h
        /\ new.status = "paused" \/ (new.next = e.next /\ e.pc \in {"renew", "retry"})
    BY <1>1, <1>10 DEF Course
  <2> QED BY <1>3, <1>10, <2>1 DEF Orderly, Holding
<1>11. e.pc \in {"queued", "skip", "start", "acting", "closeMissed", "close", "closeFailed",
                "cancelled", "complete", "credit", "creditMissed", "checkpoint", "renew",
                "retry", "pause"}
  BY DEF Course
<1> QED BY <1>4, <1>5, <1>6, <1>7, <1>8, <1>9, <1>10, <1>11

\* Every step in which no process but d acts keeps the histories orderly.
LEMMA SolitaryStep ==
  ASSUME FoldBy = 0, Inductive, NEW d \in Process, Solitary(d),
         \/ UNCHANGED vars \/ Tick \/ Rest
         \/ \E t \in Task : Create(t) \/ CreatorCrashes(t) \/ Execute(d, t)
         \/ Poll(d) \/ Stop(d) \/ Drained(d) \/ Crash(d) \/ Restart(d)
  PROVE  Solitary(d)'
<1>1. /\ exec \in [Process -> [Task -> Exec]] /\ now \in Nat /\ task \in [Task -> Row]
      /\ creator \in [Task -> {"none", "created", "done", "crashed"}]
      /\ \A t \in Task : exec[d][t] \in Exec /\ runs[t] \in Seq(Run) /\ task[t] \in Row
  BY DEF Inductive, TypeOK
<1>2. \A t \in Task : Orderly(exec[d][t], runs[t], task[t], creator[t])
  BY DEF Solitary
<1>3. CASE /\ UNCHANGED <<task, runs, creator>>
           /\ \A p \in Process \ {d} : exec'[p] = exec[p]
           /\ now' \in Nat /\ now <= now'
           /\ \A t \in Task :
                \/ exec'[d][t] = exec[d][t]
                \/ exec'[d][t].pc = "idle"
                \/ /\ exec[d][t].pc = "acting"
                   /\ exec'[d][t] = [exec[d][t] EXCEPT !.pc = "cancelled"]
                \/ /\ Due(t) /\ now' = now
                   /\ exec'[d][t].pc = "queued" /\ exec'[d][t].trigger = task[t].next
  <2>1. ASSUME NEW t \in Task
        PROVE  Orderly(exec[d][t], runs[t], task[t], creator[t])'
    <3> DEFINE e == exec[d][t]
    <3>0. now \in Nat /\ now' \in Nat /\ now <= now'
      BY <1>1, <1>3
    <3>1. /\ e.trigger \in Nat
          /\ e.pc # "idle" => e.trigger <= now
          /\ task[t].status = "scheduled" => task[t].next = Unset \/ Before(runs[t], task[t].next)
      <4>1. e.trigger \in Nat
        BY <1>1 DEF Exec
      <4>2. Orderly(e, runs[t], task[t], creator[t])
        BY <1>2
      <4> QED BY <4>1, <4>2 DEF Orderly
    <3>2. CASE exec'[d][t] = e
      <4>1. e.pc # "idle" => e.trigger <= now'
        BY <3>0, <3>1
      <4> QED BY <1>2, <1>3, <3>2, <4>1 DEF Orderly
    <3>3. CASE exec'[d][t].pc = "idle"
      BY <1>2, <1>3, <3>3 DEF Orderly, Holding
    <3>4. CASE e.pc = "acting" /\ exec'[d][t] = [e EXCEPT !.pc = "cancelled"]
      <4>1. /\ exec'[d][t].pc = "cancelled" /\ exec'[d][t].trigger = e.trigger
            /\ exec'[d][t].run = e.run
        BY <1>1, <3>4 DEF Exec
      <4>2. e.trigger <= now'
        BY <3>0, <3>1, <3>4
      <4> QED BY <1>2, <1>3, <3>4, <4>1, <4>2 DEF Orderly, Holding
    <3>5. CASE /\ Due(t) /\ now' = now
               /\ exec'[d][t].pc = "queued" /\ exec'[d][t].trigger = task[t].next
      <4>1. /\ task[t].status = "scheduled" /\ task[t].next # Unset
            /\ task[t].next <= now
        BY <3>5 DEF Due
      <4>2. Before(runs[t], task[t].next)
        BY <3>1, <4>1
      <4> QED BY <1>2, <1>3, <3>5, <4>1, <4>2 DEF Orderly, Holding
    <3> QED BY <1>3, <3>2, <3>3, <3>4, <3>5
  <2> QED BY <1>3, <2>1 DEF Solitary
<1>4. CASE UNCHANGED vars \/ Tick \/ Rest
  <2>1. UNCHANGED <<task, runs, creator, exec>> /\ now' \in Nat /\ now <= now'
    BY <1>1, <1>4 DEF vars, store, Tick, Rest
  <2> QED BY <1>3, <2>1
<1>5. CASE Poll(d)
  <2>1. UNCHANGED <<task, runs, creator, now>> /\ \A p \in Process \ {d} : exec'[p] = exec[p]
    BY <1>1, <1>5 DEF Poll, store
  <2>2. \A t \in Task : exec'[d][t] =
          IF Fresh(d, t)
          THEN [Idle EXCEPT !.pc = "queued", !.trigger = task[t].next,
                            !.failures = task[t].failures]
          ELSE exec[d][t]
    BY <1>1, <1>5 DEF Poll
  <2>3. \A t \in Task : \/ exec'[d][t] = exec[d][t]
                        \/ /\ Due(t) /\ exec'[d][t].pc = "queued"
                           /\ exec'[d][t].trigger = task[t].next
    BY <2>2 DEF Fresh, Idle
  <2> QED BY <1>1, <1>3, <2>1, <2>3
<1>6. CASE Stop(d) \/ Crash(d)
  <2>1. UNCHANGED <<task, runs, creator, now>> /\ \A p \in Process \ {d} : exec'[p] = exec[p]
    BY <1>1, <1>6 DEF Stop, Crash, store
  <2>2. \A t \in Task : \/ exec'[d][t] = Idle
                        \/ /\ exec[d][t].pc = "acting"
                           /\ exec'[d][t] = [exec[d][t] EXCEPT !.pc = "cancelled"]
    BY <1>1, <1>6 DEF Stop, Crash, Interrupt
  <2>3. Idle.pc = "idle"
    BY DEF Idle
  <2> QED BY <1>1, <1>3, <2>1, <2>2, <2>3
<1>7. CASE Drained(d) \/ Restart(d)
  <2>1. UNCHANGED <<task, runs, creator, now, exec>>
    BY <1>7 DEF Drained, Restart, store
  <2> QED BY <1>1, <1>3, <2>1
<1>8. ASSUME NEW t \in Task, Execute(d, t)
      PROVE  Solitary(d)'
  <2>1. Inductive' /\ Alone(d, t)
    BY <1>8, ExecuteStep, ExecuteAlone DEF Inductive
  <2>2. /\ exec'[d][t] \in Exec /\ runs'[t] \in Seq(Run) /\ task'[t] \in Row
        /\ now' = now /\ creator' = creator
    BY <2>1 DEF Inductive, TypeOK, Alone
  <2>3. Course(exec[d][t], exec'[d][t], runs[t], runs'[t], task[t], task'[t])
    BY <1>8, OnCourse
  <2>4. /\ creator[t] \notin {"none", "created"}
        /\ exec[d][t].pc \in Claimed => task[t].status # "scheduled"
    <3>1. exec[d][t].pc # "idle"
      BY <2>3 DEF Course
    <3> QED BY <3>1 DEF Inductive, Unborn, ClaimHeld
  <2>5. Orderly(exec'[d][t], runs'[t], task'[t], creator[t])
    BY <1>1, <1>2, <2>2, <2>3, <2>4, CourseOrderly
  <2>6. Orderly(exec[d][t], runs[t], task[t], creator[t])'
    BY <2>2, <2>5 DEF Orderly
  <2>7. ASSUME NEW u \in Task, u # t
        PROVE  Orderly(exec[d][u], runs[u], task[u], creator[u])'
    <3>1. /\ exec'[d][u] = exec[d][u] /\ runs'[u] = runs[u] /\ task'[u] = task[u]
          /\ creator'[u] = creator[u]
      BY <2>1, <2>2, <2>7 DEF Alone
    <3> QED BY <1>2, <2>2, <3>1 DEF Orderly
  <2>8. \A p \in Process \ {d}, u \in Task : exec'[p][u].pc = "idle"
    BY <2>1 DEF Alone, Solitary
  <2> QED BY <2>6, <2>7, <2>8 DEF Solitary
<1>9. ASSUME NEW t \in Task, Create(t) \/ CreatorCrashes(t)
      PROVE  Solitary(d)'
  <2>1. UNCHANGED <<runs, exec, now>>
    BY <1>9 DEF Create, CreateTask, RegisterTask, CreatorCrashes, store
  <2>2. /\ creator[t] \in {"none", "created"} /\ runs[t] = <<>>
        /\ task[t].next = Unset /\ exec[d][t].pc = "idle"
    BY <1>2, <1>9 DEF Create, CreateTask, RegisterTask, CreatorCrashes, Orderly, Inductive,
                      Unborn
  <2>3. \A u \in Task : u # t => task'[u] = task[u] /\ creator'[u] = creator[u]
    BY <1>1, <1>9 DEF Create, CreateTask, RegisterTask, CreatorCrashes, store
  <2>4. \A time : Before(runs[t], time)
    BY <2>2 DEF Before, Handled
  <2>5. Orderly(exec[d][t], runs[t], task[t], creator[t])'
    <3>1. InOrder(runs[t])
      BY <1>2 DEF Orderly
    <3> QED BY <2>1, <2>2, <2>4, <3>1 DEF Orderly, Holding
  <2>6. \A u \in Task : u # t => Orderly(exec[d][u], runs[u], task[u], creator[u])'
    BY <1>2, <2>1, <2>3 DEF Orderly
  <2> QED BY <2>1, <2>5, <2>6 DEF Solitary
<1> QED BY <1>4, <1>5, <1>6, <1>7, <1>8, <1>9

LEMMA InitSolitary == \A d \in Process : Init => Solitary(d)
<1> SUFFICES ASSUME NEW d \in Process, Init PROVE Solitary(d)
  OBVIOUS
<1>1. \A p \in Process, t \in Task : exec[p][t] = Idle /\ runs[t] = <<>> /\ task[t].status = "absent"
  BY DEF Init
<1>2. Idle.pc = "idle" /\ Handled(<<>>) = {} /\ InOrder(<<>>)
  BY DEF Idle, Handled, InOrder
<1> QED BY <1>1, <1>2 DEF Solitary, Orderly, Holding

LEMMA SolitaryHandles ==
  ASSUME Inductive, NEW d \in Process, Solitary(d)
  PROVE  TriggerHandledOnce
<1> SUFFICES ASSUME NEW t \in Task, NEW j \in DOMAIN runs[t], NEW i \in 1..(j - 1),
                    runs[t][i].status \in {"completed", "skipped"}
             PROVE  runs[t][i].trigger < runs[t][j].trigger
  BY DEF TriggerHandledOnce
<1>1. DOMAIN runs[t] = 1..Len(runs[t]) /\ Len(runs[t]) \in Nat
  BY DEF Inductive, TypeOK
<1>2. i \in Handled(runs[t]) /\ j \in 1..Len(runs[t]) /\ i < j
  BY <1>1 DEF Handled
<1>3. InOrder(runs[t])
  BY DEF Solitary, Orderly
<1> QED BY <1>2, <1>3 DEF InOrder

\* One process never runs a trigger again that it has completed or skipped,
\* whatever its policies, and although it may be stopped, crash and be started
\* again, as long as the wall clock is not set back (_execute_task, _catch_up).
THEOREM TriggersHandledOnce ==
  ASSUME FoldBy = 0, NEW d, Process = {d}
  PROVE  Spec => []TriggerHandledOnce
<1>1. d \in Process /\ \A p \in Process : p = d
  OBVIOUS
<1>2. Inductive /\ Solitary(d) /\ [Next]_vars => Solitary(d)'
  BY <1>1, SolitaryStep DEF Next
<1>3. Init => Solitary(d)
  BY <1>1, InitSolitary
<1>4. Inductive /\ Solitary(d) => TriggerHandledOnce
  BY <1>1, SolitaryHandles
<1> QED BY <1>2, <1>3, <1>4, InductiveInvariant, PTL DEF Spec

(***************************************************************************)
(* The scene of MCPollerScenes with one process that may be stopped but     *)
(* does not crash.                                                          *)
(***************************************************************************)
SceneInductive ==
  Inductive /\ (scene = "single" => Owned /\ (FoldBy = 0 => Solitary(daemon)))

LEMMA SceneStep ==
  ASSUME daemon \in Process, SceneInductive, [MCNext]_<<vars, scene>>
  PROVE  SceneInductive'
<1>1. [Next]_vars
  BY DEF MCNext, Single, Shared, Next, vars
<1>2. Inductive'
  BY <1>1, CreateStep, ProcessStep, ExecuteStep, OtherStep DEF Next, SceneInductive
<1>3. ASSUME scene' = "single" PROVE Owned' /\ (FoldBy = 0 => Solitary(daemon)')
  <2>1. scene = "single" /\ (Single \/ UNCHANGED vars)
    BY <1>3 DEF MCNext
  <2>2. Inductive /\ Owned /\ (FoldBy = 0 => Solitary(daemon))
    BY <2>1 DEF SceneInductive
  <2>3. FoldBy = 0 => Solitary(daemon)'
    BY <2>1, <2>2, SolitaryStep DEF Single
  <2>4. Owned'
    BY <2>1, <2>2, OwnedStep DEF Single
  <2> QED BY <2>3, <2>4
<1> QED BY <1>2, <1>3 DEF SceneInductive

LEMMA SceneAlways ==
  ASSUME daemon \in Process
  PROVE  MCSpec => []SceneInductive
<1>1. MCInit => SceneInductive
  BY InitInductive, InitOwned, InitSolitary DEF MCInit, SceneInductive
<1>2. SceneInductive /\ [MCNext]_<<vars, scene>> => SceneInductive'
  BY SceneStep
<1> QED BY <1>1, <1>2, PTL DEF MCSpec

\* In the scene with one process that may be stopped, every open run is in the
\* hands of a coroutine: stop() and _run_claimed_task close what they leave.
THEOREM OpenRunsAreOwnedAlone ==
  ASSUME daemon \in Process
  PROVE  MCSpec => []OpenRunsOwnedAlone
<1>1. SceneInductive => OpenRunsOwnedAlone
  BY OwnedOpens DEF SceneInductive, OpenRunsOwnedAlone
<1> QED BY <1>1, SceneAlways, PTL

\* In the same scene no trigger that was completed or skipped runs again, although
\* the process may catch up before a restart and skip after it (_execute_task).
THEOREM TriggersHandledOnceAlone ==
  ASSUME FoldBy = 0, daemon \in Process
  PROVE  MCSpec => []TriggerHandledOnceAlone
<1>1. SceneInductive => TriggerHandledOnceAlone
  BY SolitaryHandles DEF SceneInductive, TriggerHandledOnceAlone
<1> QED BY <1>1, SceneAlways, PTL
=============================================================================
