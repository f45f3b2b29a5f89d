---------------------------- MODULE WebTasksProofs ----------------------------
(***************************************************************************)
(* Theorems about WebTasks, for any number of tasks, limits and bounds of   *)
(* the console: type correctness, that a task is begun at most twice over   *)
(* all crashes and restarts, and that the files of a task that may still    *)
(* work are there.                                                          *)
(*                                                                          *)
(* What survives a process is the row, so the argument is about rows: the   *)
(* count of resumptions in a row stays ahead of the starts, a runner has a  *)
(* row that retention does not drop, and what waits to be resumed has paid  *)
(* for the start that is to come.  The order in which rows ended (aged)     *)
(* decides which of them are dropped, and the proofs need nothing of it.    *)
(***************************************************************************)
EXTENDS WebTasks, TLAPS

Row == [status : Status \cup {"none"}, resumes : {0, 1}]

TaskState ==
  [status : Status \cup {"none"}, cancel : BOOLEAN, engine : BOOLEAN,
   pc : Active \cup Idle, job : {"execute", "resume"}, doomed : BOOLEAN]

Used == [tasks : Nat, guidance : Nat, crashes : Nat, second : Nat, ages : Nat]

\* The files of the console: rows, sandboxes, and what is old.
IsDisk(d) ==
  /\ d = [row |-> d.row, aged |-> d.aged, files |-> d.files, old |-> d.old]
  /\ d.row \in [Task -> Row] /\ d.files \subseteq Task /\ d.old \subseteq Task

TypeOK ==
  /\ up \in {"down", "built", "serving", "closing", "draining"}
  /\ mem \in [Task -> TaskState] /\ pending \subseteq Task
  /\ IsDisk(disk)
  /\ starts \in [Task -> Nat] /\ used \in Used

----------------------------------------------------------------------------
(* The parts of the invariant, for one task. *)

\* Statuses of which something may still come.
Living == Open \cup {"human_required", "completed_provisional"}

\* The row has counted every start but the first, and has its files.
RowAhead(t) ==
  /\ disk.row[t].status # "none" => starts[t] <= disk.row[t].resumes + 1
  /\ disk.row[t].status \in Living => t \in disk.files
  /\ starts[t] <= 2

\* The row of a runner, or of a task that waits for a human, is not one that ended.
RunnerKnown(t) ==
  /\ mem[t].pc \in Active => disk.row[t].status \in Open \cup {"completed_provisional"}
  /\ mem[t].pc \in {"created", "waiting"} /\ mem[t].job = "execute" =>
       starts[t] <= disk.row[t].resumes
  /\ mem[t].status = "human_required" => disk.row[t].status = "human_required"
  /\ mem[t].doomed => mem[t].pc \in Active \ {"created"}
  /\ mem[t].pc = "reviewing" => mem[t].status = "completed_provisional"

\* Only a manager that was built and does not serve has tasks to resume, and
\* their rows have counted it.
RecoveryPaid(t) ==
  /\ t \in pending => /\ up = "built" /\ disk.row[t].status \in Open
                      /\ starts[t] <= disk.row[t].resumes
  /\ up \in {"down", "built"} => mem[t].pc = "none"
  /\ up = "down" => mem[t] = NoTask

Unsubmitted(t) == t > used.tasks => mem[t] = NoTask /\ disk.row[t] = NoRow /\ starts[t] = 0

TaskSound(t) == RowAhead(t) /\ RunnerKnown(t) /\ RecoveryPaid(t) /\ Unsubmitted(t)

Inductive == TypeOK /\ (used.second = 0 => \A t \in Task : TaskSound(t))

LEMMA Statuses ==
  /\ NoRow \in Row /\ NoTask \in TaskState /\ NoRow.status = "none" /\ NoRow.resumes = 0
  /\ NoTask.status = "none" /\ NoTask.pc = "none" /\ ~ NoTask.doomed
  /\ Prunable \cap Living = {} /\ Prunable \subseteq Status /\ Living \subseteq Status
  /\ "none" \notin Status /\ Open \subseteq Living /\ "human_required" \in Living
  /\ "completed_provisional" \in Living /\ EngineStatus \subseteq Status
  /\ Active \cap Idle = {} /\ Task \subseteq Nat
BY WebAssumption
   DEF NoRow, NoTask, Row, TaskState, Prunable, Living, Open, Status, Terminal, Active, Idle,
       Working, Task

----------------------------------------------------------------------------
(***************************************************************************)
(* The store.  Cleaned(d, e): e is d without some rows that ended and some  *)
(* files that no row knows.                                                 *)
(***************************************************************************)
Cleaned(d, e) ==
  /\ IsDisk(e)
  /\ \A t \in Task :
       /\ e.row[t] = d.row[t] \/ (e.row[t] = NoRow /\ d.row[t].status \in Prunable)
       /\ t \in d.files /\ e.row[t].status # "none" => t \in e.files

LEMMA Persisted ==
  ASSUME NEW d, IsDisk(d), NEW t \in Task, NEW s \in Status \cup {"none"}
  PROVE  /\ IsDisk(Persist(d, t, s)) /\ Persist(d, t, s).files = d.files
         /\ \A u \in Task : Persist(d, t, s).row[u] =
                             IF u = t THEN [status |-> s, resumes |-> d.row[t].resumes] ELSE d.row[u]
<1> DEFINE mine == [d.row[t] EXCEPT !.status = s]
           row == [d.row EXCEPT ![t] = mine]
           aged == IF s \in Prunable THEN Stamp(d.aged, t) ELSE d.aged
           old == IF s \in Prunable THEN d.old \ {t} ELSE d.old
<1>1. d.row[t] \in Row /\ d.row \in [Task -> Row]
  BY DEF IsDisk
<1>2. mine \in Row /\ mine = [status |-> s, resumes |-> d.row[t].resumes]
  BY <1>1 DEF Row
<1>3. Persist(d, t, s) = [d EXCEPT !.row = row, !.aged = aged, !.old = old]
  BY DEF Persist
<1>4. old \subseteq Task
  BY DEF IsDisk
<1> HIDE DEF mine
<1>5. /\ row \in [Task -> Row]
      /\ \A u \in Task : row[u] = IF u = t THEN mine ELSE d.row[u]
  BY <1>1, <1>2
<1> HIDE DEF row, aged, old
<1>6. Persist(d, t, s) = [row |-> row, aged |-> aged, files |-> d.files, old |-> old]
  BY <1>3 DEF IsDisk
<1> QED BY <1>2, <1>4, <1>5, <1>6 DEF IsDisk

LEMMA Deleted ==
  ASSUME NEW d, IsDisk(d), NEW gone
  PROVE  /\ IsDisk(DeleteRows(d, gone)) /\ IsDisk(Delete(d, gone))
         /\ DeleteRows(d, gone).files = d.files /\ Delete(d, gone).files = d.files \ gone
         /\ DeleteRows(d, gone).old = d.old /\ Delete(d, gone).old = d.old
         /\ \A t \in Task : /\ DeleteRows(d, gone).row[t] = IF t \in gone THEN NoRow ELSE d.row[t]
                            /\ Delete(d, gone).row[t] = IF t \in gone THEN NoRow ELSE d.row[t]
<1> DEFINE row == [t \in Task |-> IF t \in gone THEN NoRow ELSE d.row[t]]
<1>1. row \in [Task -> Row] /\ \A t \in Task : row[t] = IF t \in gone THEN NoRow ELSE d.row[t]
  BY Statuses DEF IsDisk
<1>2. DeleteRows(d, gone) = [row |-> row, aged |-> d.aged, files |-> d.files, old |-> d.old]
  BY DEF DeleteRows, IsDisk
<1> HIDE DEF row
<1>3. Delete(d, gone) = [row |-> row, aged |-> d.aged, files |-> d.files \ gone, old |-> d.old]
  BY <1>2 DEF Delete
<1> QED BY <1>1, <1>2, <1>3 DEF IsDisk

LEMMA DroppedEnded ==
  ASSUME NEW d, IsDisk(d)
  PROVE  \A t \in Dropped(d) : t \in Task /\ d.row[t].status \in Prunable
BY DEF Dropped, Surplus, Expired, IsDisk

LEMMA PrunedCleaned ==
  ASSUME NEW d, IsDisk(d)
  PROVE  Cleaned(d, Pruned(d))
BY Deleted, DroppedEnded DEF Pruned, Cleaned

LEMMA RetainCleaned ==
  ASSUME NEW d, IsDisk(d)
  PROVE  Cleaned(d, Retain(d))
<1> DEFINE kept == Delete(d, Dropped(d))
           e == [kept EXCEPT !.files = @ \ Orphans(kept)]
<1>1. /\ IsDisk(kept) /\ kept.files = d.files \ Dropped(d)
      /\ \A t \in Task : kept.row[t] = IF t \in Dropped(d) THEN NoRow ELSE d.row[t]
  BY Deleted
<1> HIDE DEF kept
<1>2. /\ IsDisk(e) /\ e.row = kept.row /\ e.files = kept.files \ Orphans(kept)
  BY <1>1 DEF IsDisk
<1>3. \A t \in Task : kept.row[t].status # "none" => t \notin Orphans(kept)
  BY DEF Orphans, Stored
<1> HIDE DEF e
<1>4. Retain(d) = e
  BY DEF Retain, e, kept
<1>5. ASSUME NEW t \in Task
      PROVE  /\ e.row[t] = d.row[t] \/ (e.row[t] = NoRow /\ d.row[t].status \in Prunable)
             /\ t \in d.files /\ e.row[t].status # "none" => t \in e.files
  <2>1. CASE t \in Dropped(d)
    BY <1>1, <1>2, <2>1, DroppedEnded, Statuses
  <2>2. CASE t \notin Dropped(d)
    BY <1>1, <1>2, <1>3, <2>2
  <2> QED BY <2>1, <2>2
<1> QED BY <1>2, <1>4, <1>5 DEF Cleaned

LEMMA SameCleaned ==
  ASSUME NEW d, IsDisk(d)
  PROVE  Cleaned(d, d)
BY DEF Cleaned

\* What a manager makes of the rows when it is built.
LEMMA RecoveredRows ==
  ASSUME NEW d, IsDisk(d)
  PROVE  /\ IsDisk(Recovered(d)) /\ Recovered(d).files = d.files
         /\ Recoverable(MarkInterrupted(d)) \subseteq Task
         /\ \A t \in Task :
              \/ /\ t \in Recoverable(MarkInterrupted(d))
                 /\ d.row[t].status \in Open /\ d.row[t].resumes = 0
                 /\ Recovered(d).row[t] = [status |-> "queued", resumes |-> 1]
              \/ /\ t \notin Recoverable(MarkInterrupted(d)) /\ d.row[t].status \in Living
                 /\ Recovered(d).row[t] = [d.row[t] EXCEPT !.status = "failed"]
              \/ /\ t \notin Recoverable(MarkInterrupted(d)) /\ d.row[t].status \notin Living
                 /\ Recovered(d).row[t] = d.row[t]
<1> DEFINE ended == Ended(d)
           mark == MarkInterrupted(d)
           rows == [t \in Task |-> IF t \in ended THEN [d.row[t] EXCEPT !.status = "failed"]
                                                  ELSE d.row[t]]
           aged == SelectSeq(d.aged, LAMBDA u : u \notin ended)
                     \o SelectSeq([i \in 1..MaxTasks |-> i], LAMBDA u : u \in ended)
<1>1. \A t \in Task : d.row[t] \in Row
  BY DEF IsDisk
<1>2. rows \in [Task -> Row]
  <2>1. "failed" \in Status \cup {"none"}
    BY DEF Status, Terminal
  <2>2. \A t \in Task : [d.row[t] EXCEPT !.status = "failed"] \in Row
    BY <1>1, <2>1 DEF Row
  <2> QED BY <1>1, <2>2
<1>3. mark = [row |-> rows, aged |-> aged, files |-> d.files, old |-> d.old \ ended]
  <2> DEFINE e == [row |-> d.row, aged |-> d.aged, files |-> d.files, old |-> d.old]
  <2>1. d = e
    BY DEF IsDisk
  <2>2. MarkInterrupted(d) = [e EXCEPT !.row = rows, !.aged = aged, !.old = d.old \ ended]
    BY <2>1 DEF MarkInterrupted
  <2> HIDE DEF rows, aged, ended
  <2> QED BY <2>2
<1> HIDE DEF aged, mark
<1>4. IsDisk(mark) /\ mark.files = d.files /\ mark.row = rows
  BY <1>2, <1>3 DEF IsDisk
<1>5. \A t \in Task : mark.row[t] = IF t \in ended THEN [d.row[t] EXCEPT !.status = "failed"]
                                                   ELSE d.row[t]
  BY <1>4
<1> HIDE DEF rows
<1> DEFINE open == Recoverable(mark)
           again == [t \in Task |-> IF t \in open
                                      THEN [status |-> "queued", resumes |-> mark.row[t].resumes + 1]
                                      ELSE mark.row[t]]
<1>6. open \subseteq Task /\ \A t \in open : mark.row[t].status \in Open /\ mark.row[t].resumes < 1 /\ Resume
  BY DEF Recoverable
<1>7. \A t \in Task : mark.row[t] \in Row /\ mark.row[t].resumes \in {0, 1}
  BY <1>4 DEF IsDisk, Row
<1>8. \A t \in open : mark.row[t].resumes = 0 /\ mark.row[t].resumes + 1 = 1
  BY <1>6, <1>7
<1>9. again \in [Task -> Row]
  BY <1>7, <1>8 DEF Row, Status, Open
<1>10. Recovered(d) = [row |-> again, aged |-> mark.aged, files |-> mark.files, old |-> mark.old]
  BY <1>4 DEF Recovered, RecoverInterrupted, mark, IsDisk
<1>11. \A t \in Task : again[t] = IF t \in open THEN [status |-> "queued", resumes |-> 1]
                                                ELSE mark.row[t]
  BY <1>8
<1>12. ASSUME NEW t \in Task
       PROVE  /\ t \in ended => t \notin open /\ d.row[t].status \in Living
              /\ t \notin ended /\ t \notin open => d.row[t].status \notin Living
              /\ t \notin ended => mark.row[t] = d.row[t]
  <2>1. t \in ended => mark.row[t].status = "failed"
    BY <1>1, <1>5 DEF Row
  <2>2. "failed" \notin Open
    BY DEF Open
  <2>3. t \in ended => d.row[t].status \in Living
    BY DEF Ended, Exhausted, Living
  <2>4. t \notin ended => mark.row[t] = d.row[t]
    BY <1>5
  <2>5. d.row[t].resumes \in {0, 1}
    BY <1>1 DEF Row
  <2>6. CASE t \notin ended /\ t \notin open
    <3>1. ~ (d.row[t].status \in Open /\ Resume /\ d.row[t].resumes < 1)
      BY <2>4, <2>6 DEF Recoverable
    <3>2. ~ Exhausted(d, t) /\ d.row[t].status \notin {"human_required", "completed_provisional"}
      BY <2>6 DEF Ended
    <3> QED BY <2>4, <2>5, <2>6, <3>1, <3>2 DEF Exhausted, Living
  <2> QED BY <1>6, <2>1, <2>2, <2>3, <2>4, <2>6
<1> HIDE DEF again
<1>13. IsDisk(Recovered(d)) /\ Recovered(d).files = d.files /\ Recovered(d).row = again
  BY <1>4, <1>9, <1>10 DEF IsDisk
<1> HIDE DEF open, ended
<1>14. ASSUME NEW t \in Task
       PROVE  \/ /\ t \in open /\ d.row[t].status \in Open /\ d.row[t].resumes = 0
                 /\ Recovered(d).row[t] = [status |-> "queued", resumes |-> 1]
              \/ /\ t \notin open /\ d.row[t].status \in Living
                 /\ Recovered(d).row[t] = [d.row[t] EXCEPT !.status = "failed"]
              \/ /\ t \notin open /\ d.row[t].status \notin Living
                 /\ Recovered(d).row[t] = d.row[t]
  BY <1>5, <1>6, <1>8, <1>11, <1>12, <1>13
<1> QED BY <1>6, <1>13, <1>14 DEF open, mark

----------------------------------------------------------------------------
(***************************************************************************)
(* Steps of the running process.                                            *)
(***************************************************************************)
Serving == up \in {"serving", "closing", "draining"}

\* A task that a step of another leaves as it is, but for a row that ended.
LEMMA KeptSound ==
  ASSUME TypeOK, NEW t \in Task, TaskSound(t), up' = up, pending' \subseteq pending,
         used'.tasks = used.tasks, mem'[t] = mem[t], starts'[t] = starts[t],
         Cleaned(disk, disk')
  PROVE  TaskSound(t)'
<1>1. /\ disk'.row[t] = disk.row[t] \/ (disk'.row[t] = NoRow /\ disk.row[t].status \in Prunable)
      /\ t \in disk.files /\ disk'.row[t].status # "none" => t \in disk'.files
  BY DEF Cleaned
<1>2. \A s \in Open \cup {"human_required", "completed_provisional"} : s \notin Prunable /\ s # "none"
  BY DEF Open, Prunable
<1>3. RowAhead(t)'
  <2>1. CASE disk'.row[t] = disk.row[t]
    BY <1>1, <2>1, Statuses DEF TaskSound, RowAhead
  <2>2. CASE disk'.row[t] = NoRow
    BY <2>2, Statuses DEF TaskSound, RowAhead
  <2> QED BY <1>1, <2>1, <2>2
<1>4. RunnerKnown(t)'
  <2>1. CASE disk'.row[t] = disk.row[t]
    BY <2>1 DEF TaskSound, RunnerKnown
  <2>2. CASE disk'.row[t] = NoRow /\ disk.row[t].status \in Prunable
    BY <1>2, <2>2, Statuses DEF TaskSound, RunnerKnown, Active, Working
  <2> QED BY <1>1, <2>1, <2>2
<1>5. RecoveryPaid(t)'
  BY <1>1, <1>2 DEF TaskSound, RecoveryPaid
<1>6. Unsubmitted(t)'
  BY <1>1 DEF TaskSound, Unsubmitted
<1> QED BY <1>3, <1>4, <1>5, <1>6 DEF TaskSound

\* Rows of others after task t wrote status s to its own.
LEMMA PersistOthers ==
  ASSUME IsDisk(disk), NEW t \in Task, NEW s \in Status \cup {"none"}, NEW e, Cleaned(Persist(disk, t, s), e),
         NEW u \in Task, u # t
  PROVE  /\ e.row[u] = disk.row[u] \/ (e.row[u] = NoRow /\ disk.row[u].status \in Prunable)
         /\ u \in disk.files /\ e.row[u].status # "none" => u \in e.files
<1>1. Persist(disk, t, s).row[u] = disk.row[u] /\ Persist(disk, t, s).files = disk.files
  BY Persisted
<1> QED BY <1>1 DEF Cleaned

\* ... and its own.
LEMMA PersistOwn ==
  ASSUME IsDisk(disk), NEW t \in Task, NEW s \in Status \cup {"none"}, NEW e, Cleaned(Persist(disk, t, s), e)
  PROVE  /\ IsDisk(e)
         /\ \/ e.row[t].status = s /\ e.row[t].resumes = disk.row[t].resumes
            \/ e.row[t] = NoRow /\ s \in Prunable
         /\ t \in disk.files /\ e.row[t].status # "none" => t \in e.files
<1>1. /\ Persist(disk, t, s).row[t] = [status |-> s, resumes |-> disk.row[t].resumes]
      /\ Persist(disk, t, s).files = disk.files
  BY Persisted
<1>2. Persist(disk, t, s).row[t].status = s /\ Persist(disk, t, s).row[t].resumes = disk.row[t].resumes
  BY <1>1
<1> QED BY <1>1, <1>2 DEF Cleaned

\* A step that changes one task t, and may write a status of it.
LEMMA OwnStep ==
  ASSUME Inductive, NEW t \in Task, NEW m \in TaskState, mem' = [mem EXCEPT ![t] = m],
         up' = up, pending' = pending, used' \in Used, used'.tasks = used.tasks,
         used'.second = used.second, starts' \in [Task -> Nat],
         \A u \in Task \ {t} : starts'[u] = starts[u],
         Cleaned(disk, disk') \/ \E s \in Status \cup {"none"} : Cleaned(Persist(disk, t, s), disk'),
         used.second = 0 => TaskSound(t)'
  PROVE  Inductive'
<1>1. TypeOK'
  BY DEF Inductive, TypeOK, Cleaned
<1>2. ASSUME NEW u \in Task, u # t, used.second = 0
      PROVE  TaskSound(u)'
  <2>1. mem'[u] = mem[u] /\ starts'[u] = starts[u] /\ TaskSound(u)
    BY <1>2 DEF Inductive, TypeOK
  <2>2. /\ disk'.row[u] = disk.row[u] \/ (disk'.row[u] = NoRow /\ disk.row[u].status \in Prunable)
        /\ u \in disk.files /\ disk'.row[u].status # "none" => u \in disk'.files
    BY <1>2, PersistOthers DEF Inductive, TypeOK, Cleaned
  <2>3. \A s \in Open \cup {"human_required", "completed_provisional"} : s \notin Prunable /\ s # "none"
    BY DEF Open, Prunable
  <2>4. RowAhead(u)'
    <3>1. CASE disk'.row[u] = disk.row[u]
      BY <2>1, <2>2, <3>1, Statuses DEF TaskSound, RowAhead
    <3>2. CASE disk'.row[u] = NoRow
      BY <2>1, <3>2, Statuses DEF TaskSound, RowAhead
    <3> QED BY <2>2, <3>1, <3>2
  <2>5. RunnerKnown(u)'
    <3>1. CASE disk'.row[u] = disk.row[u]
      BY <2>1, <3>1 DEF TaskSound, RunnerKnown
    <3>2. CASE disk'.row[u] = NoRow /\ disk.row[u].status \in Prunable
      BY <2>1, <2>3, <3>2, Statuses DEF TaskSound, RunnerKnown, Active, Working
    <3> QED BY <2>2, <3>1, <3>2
  <2>6. RecoveryPaid(u)'
    BY <2>1, <2>2, <2>3 DEF TaskSound, RecoveryPaid
  <2>7. Unsubmitted(u)'
    BY <2>1, <2>2 DEF TaskSound, Unsubmitted
  <2> QED BY <2>4, <2>5, <2>6, <2>7 DEF TaskSound
<1> QED BY <1>1, <1>2 DEF Inductive

\* What a runner that may move knows, without a second instance.
LEMMA RunnerGiven ==
  ASSUME Inductive, NEW t \in Task, Serving, used.second = 0 => mem[t].pc \in Active
  PROVE  /\ mem[t] \in TaskState /\ IsDisk(disk) /\ starts[t] \in Nat /\ used \in Used
         /\ disk.row[t] \in Row
         /\ used.second = 0 =>
              /\ TaskSound(t) /\ t \notin pending /\ ~ (t > used.tasks)
              /\ disk.row[t].status \in Living /\ t \in disk.files
              /\ disk.row[t].status # "none" /\ starts[t] <= disk.row[t].resumes + 1
<1>1. mem[t] \in TaskState /\ IsDisk(disk) /\ starts[t] \in Nat /\ used \in Used /\ disk.row[t] \in Row
  BY DEF Inductive, TypeOK, IsDisk
<1>2. ASSUME used.second = 0
      PROVE  /\ TaskSound(t) /\ t \notin pending /\ ~ (t > used.tasks)
             /\ disk.row[t].status \in Living /\ t \in disk.files
             /\ disk.row[t].status # "none" /\ starts[t] <= disk.row[t].resumes + 1
  <2>1. TaskSound(t)
    BY <1>2 DEF Inductive
  <2>2. t \notin pending
    BY <2>1 DEF TaskSound, RecoveryPaid, Serving
  <2>3. ~ (t > used.tasks)
    BY <1>2, <2>1, Statuses DEF TaskSound, Unsubmitted, Idle
  <2>4. disk.row[t].status \in Living /\ disk.row[t].status # "none"
    BY <1>2, <2>1, Statuses DEF TaskSound, RunnerKnown, Living
  <2> QED BY <2>1, <2>2, <2>3, <2>4 DEF TaskSound, RowAhead
<1> QED BY <1>1, <1>2

\* The finally clause of a runner.
LEMMA FinishStep ==
  ASSUME Inductive, NEW t \in Task, Serving, used.second = 0 => mem[t].pc \in Active,
         NEW s \in Status \cup {"none"}, Finish(t, s)
  PROVE  Inductive'
<1> DEFINE m == [mem[t] EXCEPT !.status = s, !.pc = "done", !.doomed = FALSE,
                               !.cancel = @ \/ mem[t].doomed]
<1>1. mem[t] \in TaskState /\ IsDisk(disk) /\ used \in Used
  BY RunnerGiven
<1>2. mem' = [mem EXCEPT ![t] = m] /\ UNCHANGED <<up, pending, starts, used>>
  BY <1>1 DEF Finish, Inductive, TypeOK
<1>3. /\ m \in TaskState /\ m.status = s /\ m.pc = "done" /\ ~ m.doomed
  BY <1>1, Statuses DEF TaskState, Idle
<1> HIDE DEF m
<1>4. Cleaned(Persist(disk, t, s), disk')
  BY <1>1, Persisted, RetainCleaned, SameCleaned DEF Finish
<1>5. mem'[t] = m
  BY <1>2 DEF Inductive, TypeOK
<1>6. ASSUME used.second = 0
      PROVE  TaskSound(t)'
  <2>1. /\ \/ disk'.row[t].status = s /\ disk'.row[t].resumes = disk.row[t].resumes
           \/ disk'.row[t] = NoRow /\ s \in Prunable
        /\ t \in disk.files /\ disk'.row[t].status # "none" => t \in disk'.files
    BY <1>1, <1>4, PersistOwn
  <2>2. RowAhead(t)'
    BY <1>2, <1>6, <2>1, RunnerGiven, Statuses DEF TaskSound, RowAhead
  <2>3. RunnerKnown(t)'
    BY <1>3, <1>5, <2>1, Statuses DEF RunnerKnown, Prunable, Active, Working
  <2>4. RecoveryPaid(t)' /\ Unsubmitted(t)'
    BY <1>2, <1>6, RunnerGiven DEF RecoveryPaid, Unsubmitted, Serving
  <2> QED BY <2>2, <2>3, <2>4 DEF TaskSound
<1> QED BY <1>1, <1>2, <1>3, <1>4, <1>6, OwnStep DEF Inductive, TypeOK

\* A runner that goes on, and writes at most that it does.
LEMMA GoesOnStep ==
  ASSUME Inductive, NEW t \in Task, mem[t].pc \in Active, Serving, ~ mem[t].doomed,
         NEW m \in TaskState, m.pc \in Active, ~ m.doomed,
         mem' = [mem EXCEPT ![t] = m], UNCHANGED <<up, pending, used>>,
         \/ disk' = disk
         \/ \E s \in Open \cup {"completed_provisional"} : disk' = Persist(disk, t, s),
         \/ starts' = starts
         \/ /\ starts' = [starts EXCEPT ![t] = @ + 1]
            /\ mem[t].pc \in {"created", "waiting"} /\ mem[t].job = "execute",
         \/ m.pc \notin {"created", "waiting"} \/ m.job # "execute"
         \/ mem[t].pc \in {"created", "waiting"} /\ mem[t].job = "execute"
            /\ UNCHANGED <<starts, disk>>,
         m.status = "human_required" => mem[t].status = "human_required" /\ disk' = disk,
         m.pc = "reviewing" => m.status = "completed_provisional"
  PROVE  Inductive'
<1>1. /\ mem[t] \in TaskState /\ IsDisk(disk) /\ starts[t] \in Nat /\ used \in Used
      /\ disk.row[t] \in Row /\ starts \in [Task -> Nat]
  BY RunnerGiven DEF Inductive, TypeOK
<1>2. PICK s \in Open \cup {"completed_provisional"} :
        (Cleaned(disk, disk') /\ disk' = disk) \/ Cleaned(Persist(disk, t, s), disk')
  <2>1. /\ \A s \in Open \cup {"completed_provisional"} : s \in Status
        /\ "running" \in Open \cup {"completed_provisional"}
    BY DEF Open, Status
  <2>2. CASE disk' = disk
    BY <1>1, <2>1, <2>2, SameCleaned
  <2>3. ASSUME NEW s \in Open \cup {"completed_provisional"}, disk' = Persist(disk, t, s)
        PROVE  Cleaned(Persist(disk, t, s), disk')
    BY <1>1, <2>1, <2>3, Persisted, SameCleaned
  <2> QED BY <2>2, <2>3
<1>3. s \in Status /\ s \notin Prunable /\ s \in Living
  BY Statuses DEF Living, Prunable, Open
<1>4. starts' \in [Task -> Nat] /\ \A u \in Task \ {t} : starts'[u] = starts[u]
  BY <1>1
<1>5. ASSUME used.second = 0
      PROVE  TaskSound(t)'
  <2>1. /\ disk' = disk \/ (disk'.row[t].status = s /\ disk'.row[t].resumes = disk.row[t].resumes)
        /\ t \in disk'.files
    BY <1>1, <1>2, <1>3, <1>5, PersistOwn, RunnerGiven, Statuses
  <2>2. /\ mem[t].pc \in {"created", "waiting"} /\ mem[t].job = "execute" =>
             starts[t] <= disk.row[t].resumes
        /\ disk.row[t].status \in Open \cup {"completed_provisional"}
        /\ starts[t] <= disk.row[t].resumes + 1 /\ starts[t] <= 2
        /\ mem[t].status = "human_required" => disk.row[t].status = "human_required"
    BY <1>5, RunnerGiven DEF TaskSound, RowAhead, RunnerKnown
  <2>3. disk.row[t].resumes \in {0, 1}
    BY <1>1 DEF Row
  <2>4. \/ starts'[t] = starts[t]
        \/ starts'[t] = starts[t] + 1 /\ starts[t] <= disk.row[t].resumes
    BY <1>1, <2>2
  <2>5. mem'[t] = m
    BY DEF Inductive, TypeOK
  <2>6. RowAhead(t)'
    BY <1>1, <2>1, <2>2, <2>3, <2>4 DEF RowAhead
  <2>7. RunnerKnown(t)'
    BY <1>2, <2>1, <2>2, <2>5 DEF RunnerKnown
  <2>8. RecoveryPaid(t)' /\ Unsubmitted(t)'
    BY <1>5, RunnerGiven DEF RecoveryPaid, Unsubmitted, Serving
  <2> QED BY <2>6, <2>7, <2>8 DEF TaskSound
<1> QED BY <1>1, <1>2, <1>3, <1>4, <1>5, OwnStep

\* The steps of a runner that goes on.
LEMMA RunnerGoesOn ==
  ASSUME Inductive, NEW t \in Task, AwaitSlot(t) \/ Begin(t) \/ Classified(t)
  PROVE  Inductive'
<1>1. mem[t] \in TaskState /\ Serving /\ ~ mem[t].doomed
  BY DEF AwaitSlot, Begin, Classified, Moves, Serving, Inductive, TypeOK
<1>2. CASE AwaitSlot(t)
  <2> DEFINE m == [mem[t] EXCEPT !.pc = "waiting"]
  <2>1. m \in TaskState /\ m.pc = "waiting" /\ ~ m.doomed /\ m.job = mem[t].job
        /\ m.status = mem[t].status
    BY <1>1 DEF TaskState, Active
  <2>2. mem' = [mem EXCEPT ![t] = m] /\ mem[t].pc = "created" /\ UNCHANGED <<up, pending, disk, starts, used>>
    BY <1>2 DEF AwaitSlot
  <2> HIDE DEF m
  <2> QED BY <1>1, <2>1, <2>2, GoesOnStep DEF Active
<1>3. CASE Begin(t)
  <2>1. mem[t].pc \in {"created", "waiting"} /\ UNCHANGED <<up, pending, used>>
    BY <1>3 DEF Begin
  <2>2. CASE mem[t].job = "execute"
    <3> DEFINE m == [mem[t] EXCEPT !.status = "running", !.pc = "routing"]
    <3>1. m \in TaskState /\ m.pc = "routing" /\ ~ m.doomed /\ m.status = "running"
      BY <1>1 DEF TaskState, Active, Working, Status, Open
    <3>2. /\ mem' = [mem EXCEPT ![t] = m] /\ disk' = Persist(disk, t, "running")
          /\ starts' = [starts EXCEPT ![t] = @ + 1]
      BY <1>3, <2>2 DEF Begin
    <3> HIDE DEF m
    <3> QED BY <1>1, <2>1, <2>2, <3>1, <3>2, GoesOnStep DEF Active, Working, Open
  <2>3. CASE mem[t].job # "execute"
    <3> DEFINE m == [mem[t] EXCEPT !.pc = "running"]
    <3>1. m \in TaskState /\ m.pc = "running" /\ ~ m.doomed /\ m.status = mem[t].status
      BY <1>1 DEF TaskState, Active, Working
    <3>2. mem' = [mem EXCEPT ![t] = m] /\ UNCHANGED <<disk, starts>>
      BY <1>3, <2>3 DEF Begin
    <3> HIDE DEF m
    <3> QED BY <1>1, <2>1, <3>1, <3>2, GoesOnStep DEF Active, Working
  <2> QED BY <2>2, <2>3
<1>4. CASE Classified(t)
  <2>1. PICK m \in {[mem[t] EXCEPT !.pc = "running", !.engine = TRUE], [mem[t] EXCEPT !.pc = "answering"]} :
          mem' = [mem EXCEPT ![t] = m]
    BY <1>4 DEF Classified
  <2>2. m \in TaskState /\ m.pc \in {"running", "answering"} /\ ~ m.doomed /\ m.status = mem[t].status
    BY <1>1, <2>1 DEF TaskState, Active, Working
  <2>3. mem[t].pc = "routing" /\ UNCHANGED <<up, pending, disk, starts, used>>
    BY <1>4 DEF Classified
  <2> QED BY <1>1, <2>1, <2>2, <2>3, GoesOnStep DEF Active, Working
<1> QED BY <1>2, <1>3, <1>4

\* The steps of a runner that ends, and of one that leaves its review to the background.
LEMMA RunnerEnds ==
  ASSUME Inductive, NEW t \in Task,
         EndsEarly(t) \/ Answered(t) \/ RunEnds(t) \/ Reviewed(t) \/ ResumeEnds(t) \/ Interrupted(t)
  PROVE  Inductive'
<1>1. mem[t] \in TaskState /\ Serving /\ (used.second = 0 => mem[t].pc \in Active)
  BY DEF EndsEarly, Answered, RunEnds, Reviewed, ResumeEnds, Interrupted, Moves, Serving, Inductive,
         TypeOK, TaskSound, RunnerKnown, Active, Working
<1>2. CASE \E s \in Status \cup {"none"} : Finish(t, s)
  BY <1>1, <1>2, FinishStep
<1>3. {"completed", "failed", "scheduled", "cancelled", "human_required"} \cup EngineStatus \subseteq Status
  BY Statuses DEF Status, Terminal
<1>4. CASE EndsEarly(t) \/ Answered(t) \/ ResumeEnds(t) \/ Interrupted(t)
  BY <1>2, <1>3, <1>4 DEF EndsEarly, Answered, ResumeEnds, Interrupted
<1>5. CASE Reviewed(t)
  <2>1. mem[t].status \in Status \cup {"none"}
    BY <1>1 DEF TaskState
  <2>2. PICK s \in EngineStatus \cap Terminal :
          Finish(t, IF Closing \/ mem[t].cancel THEN mem[t].status ELSE s)
    BY <1>5 DEF Reviewed
  <2> QED BY <1>2, <1>3, <2>1, <2>2
<1>6. CASE RunEnds(t)
  <2>1. /\ mem[t].pc = "running" /\ mem[t].job = "execute" /\ ~ mem[t].doomed
        /\ \E s \in EngineStatus :
             IF s = "completed_provisional"
             THEN /\ mem' = [mem EXCEPT ![t].status = s, ![t].pc = "reviewing"]
                  /\ disk' = Persist(disk, t, s)
                  /\ UNCHANGED <<up, pending, starts, used>>
             ELSE Finish(t, s)
    BY <1>6 DEF RunEnds, Moves
  <2>2. CASE \E s \in EngineStatus : Finish(t, s)
    BY <1>2, <1>3, <2>2
  <2>3. CASE /\ mem' = [mem EXCEPT ![t].status = "completed_provisional", ![t].pc = "reviewing"]
             /\ disk' = Persist(disk, t, "completed_provisional")
             /\ UNCHANGED <<up, pending, starts, used>>
    <3> DEFINE m == [mem[t] EXCEPT !.status = "completed_provisional", !.pc = "reviewing"]
    <3>1. m \in TaskState /\ m.pc = "reviewing" /\ ~ m.doomed /\ m.status = "completed_provisional"
      BY <1>1, <2>1 DEF TaskState, Active, Working, Status
    <3>2. mem' = [mem EXCEPT ![t] = m]
      BY <2>3
    <3> HIDE DEF m
    <3> QED BY <1>1, <2>1, <2>3, <3>1, <3>2, GoesOnStep DEF Active, Working
  <2> QED BY <2>1, <2>2, <2>3
<1> QED BY <1>4, <1>5, <1>6

----------------------------------------------------------------------------
(***************************************************************************)
(* The handlers of the web application.                                     *)
(***************************************************************************)
LEMMA CancelledRunner ==
  ASSUME NEW m \in TaskState
  PROVE  /\ CancelRunner(m) \in TaskState /\ CancelRunner(m).status = m.status
         /\ CancelRunner(m).job = m.job
         /\ CancelRunner(m).pc = m.pc \/ CancelRunner(m).pc = "stillborn"
         /\ m.pc = "created" => CancelRunner(m).pc = "stillborn"
         /\ m.pc = "none" => CancelRunner(m) = m
         /\ CancelRunner(m).doomed => CancelRunner(m).pc \in Active \/ (m.doomed /\ m.pc \notin Active \ {"created"})
<1>1. CASE m.pc = "created"
  BY <1>1 DEF CancelRunner, TaskState, Active, Idle, Working
<1>2. CASE m.pc \in Active \ {"created"}
  BY <1>2 DEF CancelRunner, TaskState, Active, Idle, Working
<1>3. CASE m.pc \notin Active
  BY <1>3, CancelRunner(m) = m DEF CancelRunner, TaskState, Active, Idle, Working
<1> QED BY <1>1, <1>2, <1>3

LEMMA CancelStep ==
  ASSUME Inductive, NEW t \in Task, Cancel(t)
  PROVE  Inductive'
<1> DEFINE n == [mem[t] EXCEPT !.cancel = TRUE]
           m == CancelRunner(n)
<1>1. mem[t] \in TaskState /\ IsDisk(disk) /\ starts \in [Task -> Nat] /\ used \in Used
  BY DEF Inductive, TypeOK
<1>2. /\ n \in TaskState /\ n.status = mem[t].status /\ n.job = mem[t].job /\ n.pc = mem[t].pc
      /\ n.doomed = mem[t].doomed
  BY <1>1 DEF TaskState
<1>3. /\ mem' = [mem EXCEPT ![t] = m] /\ UNCHANGED <<up, pending, disk, starts, used>>
      /\ up = "serving" /\ mem[t].status # "none"
  BY DEF Cancel, Held
<1> HIDE DEF n
<1>4. /\ m \in TaskState /\ m.status = mem[t].status /\ m.job = mem[t].job
      /\ m.pc = mem[t].pc \/ m.pc = "stillborn"
      /\ m.doomed => m.pc \in Active \/ (mem[t].doomed /\ mem[t].pc \notin Active \ {"created"})
      /\ mem[t].pc = "created" => m.pc = "stillborn"
  BY <1>2, CancelledRunner
<1> HIDE DEF m
<1>5. mem'[t] = m
  BY <1>3 DEF Inductive, TypeOK
<1>6. ASSUME used.second = 0
      PROVE  TaskSound(t)'
  <2>1. TaskSound(t)
    BY <1>6 DEF Inductive
  <2>2. RowAhead(t)' /\ RecoveryPaid(t)'
    BY <1>3, <2>1 DEF TaskSound, RowAhead, RecoveryPaid
  <2>5. ~ (t > used.tasks)
    BY <1>3, <2>1, Statuses DEF TaskSound, Unsubmitted
  <2>4. Unsubmitted(t)'
    <3>1. ~ (t > used'.tasks)
      BY <1>3, <2>5
    <3> QED BY <3>1 DEF Unsubmitted
  <2>3. RunnerKnown(t)'
    BY <1>3, <1>4, <1>5, <2>1 DEF TaskSound, RunnerKnown, Active, Working
  <2> QED BY <2>2, <2>3, <2>4 DEF TaskSound
<1> QED BY <1>1, <1>3, <1>4, <1>6, SameCleaned, OwnStep

LEMMA GuidanceStep ==
  ASSUME Inductive, NEW t \in Task, SubmitGuidance(t)
  PROVE  Inductive'
<1> DEFINE m == [mem[t] EXCEPT !.status = "running", !.cancel = FALSE, !.pc = "created", !.job = "resume"]
<1>1. mem[t] \in TaskState /\ IsDisk(disk) /\ starts \in [Task -> Nat] /\ used \in Used
  BY DEF Inductive, TypeOK
<1>2. m \in TaskState /\ m.status = "running" /\ m.pc = "created" /\ m.job = "resume" /\ m.doomed = mem[t].doomed
  BY <1>1 DEF TaskState, Active, Status, Open
<1>3. /\ mem' = [mem EXCEPT ![t] = m] /\ UNCHANGED <<up, pending, starts>> /\ up = "serving"
      /\ mem[t].status = "human_required" /\ disk' = Persist(disk, t, "running")
      /\ mem[t].pc \in Idle
      /\ used' = [used EXCEPT !.guidance = @ + 1]
  BY DEF SubmitGuidance
<1> HIDE DEF m
<1>4. mem'[t] = m
  BY <1>3 DEF Inductive, TypeOK
<1>5. "running" \in Status /\ "running" \in Open /\ "running" \notin Prunable /\ "human_required" # "none"
  BY DEF Status, Open, Prunable
<1>6. Cleaned(Persist(disk, t, "running"), disk')
  BY <1>1, <1>3, <1>5, Persisted, SameCleaned
<1>7. used' \in Used /\ used'.tasks = used.tasks /\ used'.second = used.second
  <2> DEFINE n == used.guidance + 1
  <2>1. n \in Nat
    BY <1>1 DEF Used
  <2> HIDE DEF n
  <2>2. used' = [used EXCEPT !.guidance = n]
    BY <1>3 DEF n
  <2> QED BY <1>1, <2>1, <2>2 DEF Used
<1>8. ASSUME used.second = 0
      PROVE  TaskSound(t)'
  <2>1. TaskSound(t) /\ disk.row[t].status = "human_required" /\ ~ mem[t].doomed
    BY <1>3, <1>8, Statuses DEF Inductive, TaskSound, RunnerKnown
  <2>2. t \in disk.files /\ starts[t] <= disk.row[t].resumes + 1 /\ starts[t] <= 2
    BY <2>1, <1>5, Statuses DEF TaskSound, RowAhead
  <2>3. disk'.row[t].status = "running" /\ disk'.row[t].resumes = disk.row[t].resumes /\ t \in disk'.files
    BY <1>1, <1>5, <1>6, <2>2, PersistOwn
  <2>4. RowAhead(t)'
    BY <1>3, <2>2, <2>3 DEF RowAhead
  <2>5. RunnerKnown(t)'
    BY <1>2, <1>4, <1>5, <2>1, <2>3 DEF RunnerKnown, Active
  <2>6. ~ (t > used.tasks)
    BY <1>3, <1>5, <2>1, Statuses DEF TaskSound, Unsubmitted
  <2>7. RecoveryPaid(t)' /\ Unsubmitted(t)'
    BY <1>3, <1>7, <2>1, <2>6 DEF TaskSound, RecoveryPaid, Unsubmitted
  <2> QED BY <2>4, <2>5, <2>7 DEF TaskSound
<1>9. used' \in Used /\ starts' \in [Task -> Nat] /\ \A u \in Task \ {t} : starts'[u] = starts[u]
  BY <1>1, <1>3, <1>7
<1> QED BY <1>2, <1>3, <1>5, <1>6, <1>7, <1>8, <1>9, OwnStep

\* What a submission leaves of the others.
LEMMA SweptTasks ==
  ASSUME mem \in [Task -> TaskState], IsDisk(disk)
  PROVE  /\ Swept(mem) \in [Task -> TaskState] /\ IsDisk(Tidied(mem, disk))
         /\ \A u \in Task :
              /\ Swept(mem)[u] \in {mem[u], NoTask}
              /\ \/ Tidied(mem, disk).row[u] = disk.row[u] /\ (u \in disk.files => u \in Tidied(mem, disk).files)
                 \/ Tidied(mem, disk).row[u] = NoRow /\ Swept(mem)[u] = NoTask
<1> DEFINE kept == Without(mem, Evicted(mem))
           gone == Finished(kept)
<1>1. kept \in [Task -> TaskState] /\ \A u \in Task : kept[u] \in {mem[u], NoTask}
  BY Statuses DEF Without
<1> HIDE DEF kept
<1>2. Swept(mem) = Without(kept, gone) /\ Tidied(mem, disk) = Delete(disk, gone)
  BY DEF Swept, Tidied, kept
<1> HIDE DEF gone
<1>3. /\ Without(kept, gone) \in [Task -> TaskState]
      /\ \A u \in Task : Without(kept, gone)[u] = IF u \in gone THEN NoTask ELSE kept[u]
  BY <1>1, Statuses DEF Without
<1>4. /\ IsDisk(Delete(disk, gone)) /\ Delete(disk, gone).files = disk.files \ gone
      /\ \A u \in Task : Delete(disk, gone).row[u] = IF u \in gone THEN NoRow ELSE disk.row[u]
  BY Deleted
<1> QED BY <1>1, <1>2, <1>3, <1>4

\* The row and the files that a submission makes.
Created(d, t) == [d EXCEPT !.row[t] = [status |-> "queued", resumes |-> 0],
                           !.files = @ \cup {t}, !.old = @ \ {t}]

LEMMA CreatedRow ==
  ASSUME NEW d, IsDisk(d), NEW t \in Task
  PROVE  /\ IsDisk(Created(d, t)) /\ Created(d, t).files = d.files \cup {t}
         /\ \A u \in Task : Created(d, t).row[u] = IF u = t THEN [status |-> "queued", resumes |-> 0] ELSE d.row[u]
<1> DEFINE mine == [status |-> "queued", resumes |-> 0]
           row == [d.row EXCEPT ![t] = mine]
           e == Created(d, t)
<1>1. mine \in Row /\ d.row \in [Task -> Row]
  BY DEF Row, Status, Open, IsDisk
<1>2. e = [d EXCEPT !.row = row, !.files = d.files \cup {t}, !.old = d.old \ {t}]
  BY DEF Created
<1> HIDE DEF mine, e
<1>3. /\ row \in [Task -> Row]
      /\ \A u \in Task : row[u] = IF u = t THEN mine ELSE d.row[u]
  BY <1>1
<1> HIDE DEF row
<1>4. e = [row |-> row, aged |-> d.aged, files |-> d.files \cup {t}, old |-> d.old \ {t}]
  BY <1>2 DEF IsDisk
<1> QED BY <1>3, <1>4 DEF IsDisk, mine, e

LEMMA SubmitStep ==
  ASSUME Inductive, Submit
  PROVE  Inductive'
<1> DEFINE t == used.tasks + 1
           mine == [NoTask EXCEPT !.status = "queued", !.pc = "created"]
           room == Cardinality(Held(Swept(mem))) < MaxInMemory
           m == Swept(mem)
           d == Tidied(mem, disk)
<1>1. /\ mem \in [Task -> TaskState] /\ IsDisk(disk) /\ starts \in [Task -> Nat] /\ used \in Used
      /\ pending \subseteq Task
  BY DEF Inductive, TypeOK
<1>2. used.tasks \in Nat /\ t \in Task
  <2>1. used.tasks \in Nat /\ used.tasks < MaxTasks
    BY <1>1 DEF Used, Submit
  <2> QED BY <2>1, WebAssumption DEF Task
<1>3. up = "serving" /\ UNCHANGED <<up, pending, starts>>
  BY DEF Submit
<1>4. /\ m \in [Task -> TaskState] /\ IsDisk(d)
      /\ \A u \in Task :
           /\ m[u] \in {mem[u], NoTask}
           /\ \/ d.row[u] = disk.row[u] /\ (u \in disk.files => u \in d.files)
              \/ d.row[u] = NoRow /\ m[u] = NoTask
  BY <1>1, SweptTasks
<1>5. CASE room
  <2>1. /\ mem' = [m EXCEPT ![t] = mine] /\ used' = [used EXCEPT !.tasks = t]
        /\ disk' = Created(d, t)
    BY <1>5 DEF Submit, Created
  <2>2. /\ mine \in TaskState /\ mine.status = "queued" /\ mine.pc = "created" /\ ~ mine.doomed
    BY DEF NoTask, TaskState, Active, Status, Open
  <2> HIDE DEF t, mine, m, d
  <2>3. used' \in Used /\ used'.tasks = t /\ used'.second = used.second
    BY <1>1, <1>2, <2>1 DEF Used, t
  <2>4. /\ IsDisk(disk') /\ disk'.files = d.files \cup {t}
        /\ \A u \in Task : disk'.row[u] = IF u = t THEN [status |-> "queued", resumes |-> 0] ELSE d.row[u]
    BY <1>2, <1>4, <2>1, CreatedRow
  <2>5. /\ mem' \in [Task -> TaskState] /\ mem'[t] = mine
        /\ \A u \in Task : u # t => mem'[u] = m[u]
    BY <1>2, <1>4, <2>1, <2>2
  <2>6. ASSUME used.second = 0, NEW u \in Task
        PROVE  TaskSound(u)'
    <3>1. TaskSound(u)
      BY <2>6 DEF Inductive
    <3>2. u > t => u > used.tasks
      BY <1>2, Statuses DEF t
    <3>3. RecoveryPaid(u)'
      BY <1>3, <3>1 DEF TaskSound, RecoveryPaid
    <3>4. CASE u = t
      <4>1. starts[u] = 0
        BY <1>2, <3>1, <3>4 DEF TaskSound, Unsubmitted, t
      <4>2. disk'.row[u].status = "queued" /\ disk'.row[u].resumes = 0 /\ u \in disk'.files
        BY <1>2, <2>4, <3>4
      <4>3. RowAhead(u)'
        BY <1>3, <4>1, <4>2 DEF RowAhead
      <4>4. RunnerKnown(u)'
        BY <1>3, <2>2, <2>5, <3>4, <4>1, <4>2 DEF RunnerKnown, Active, Open
      <4>5. Unsubmitted(u)'
        BY <1>2, <2>3, <3>4, Statuses DEF Unsubmitted
      <4> QED BY <3>3, <4>3, <4>4, <4>5 DEF TaskSound
    <3>5. CASE u # t
      <4>1. /\ mem'[u] \in {mem[u], NoTask}
            /\ \/ disk'.row[u] = disk.row[u] /\ (u \in disk.files => u \in disk'.files)
               \/ disk'.row[u] = NoRow /\ mem'[u] = NoTask
        BY <1>4, <2>4, <2>5, <3>5
      <4>2. RowAhead(u)'
        BY <1>3, <3>1, <4>1, Statuses DEF TaskSound, RowAhead
      <4>3. RunnerKnown(u)'
        BY <1>3, <3>1, <4>1, Statuses DEF TaskSound, RunnerKnown, Active, Working
      <4>4. Unsubmitted(u)'
        BY <1>3, <2>3, <3>1, <3>2, <4>1 DEF TaskSound, Unsubmitted
      <4> QED BY <3>3, <4>2, <4>3, <4>4 DEF TaskSound
    <3> QED BY <3>4, <3>5
  <2> QED BY <1>1, <1>3, <2>3, <2>4, <2>5, <2>6 DEF Inductive, TypeOK
<1>6. CASE ~ room
  <2>1. mem' = m /\ used' = used /\ disk' = d
    BY <1>6 DEF Submit
  <2> HIDE DEF m, d
  <2>2. ASSUME used.second = 0, NEW u \in Task
        PROVE  TaskSound(u)'
    <3>1. TaskSound(u)
      BY <2>2 DEF Inductive
    <3>2. /\ mem'[u] \in {mem[u], NoTask}
          /\ \/ disk'.row[u] = disk.row[u] /\ (u \in disk.files => u \in disk'.files)
             \/ disk'.row[u] = NoRow /\ mem'[u] = NoTask
      BY <1>4, <2>1
    <3>3. RowAhead(u)'
      BY <1>3, <3>1, <3>2, Statuses DEF TaskSound, RowAhead
    <3>4. RunnerKnown(u)'
      BY <1>3, <3>1, <3>2, Statuses DEF TaskSound, RunnerKnown, Active, Working
    <3>5. RecoveryPaid(u)' /\ Unsubmitted(u)'
      BY <1>3, <2>1, <3>1, <3>2 DEF TaskSound, RecoveryPaid, Unsubmitted
    <3> QED BY <3>3, <3>4, <3>5 DEF TaskSound
  <2> QED BY <1>1, <1>3, <1>4, <2>1, <2>2 DEF Inductive, TypeOK
<1> QED BY <1>5, <1>6

----------------------------------------------------------------------------
(***************************************************************************)
(* The process: built, serving, stopped, killed.                            *)
(***************************************************************************)
\* Only a manager that was built has something to resume.
LEMMA NothingPending ==
  ASSUME Inductive, used.second = 0, up # "built"
  PROVE  pending = {}
BY DEF Inductive, TypeOK, TaskSound, RecoveryPaid

\* The rows as the next manager finds them, after it recovered and cleaned up.
LEMMA RecoveredAhead ==
  ASSUME Inductive, used.second = 0, NEW t \in Task, Cleaned(Recovered(disk), disk'),
         starts' = starts
  PROVE  /\ RowAhead(t)'
         /\ t > used.tasks => disk'.row[t] = NoRow
         /\ t \in Recoverable(MarkInterrupted(disk)) =>
              disk'.row[t].status \in Open /\ starts[t] <= disk'.row[t].resumes
<1> DEFINE rec == Recovered(disk)
           open == Recoverable(MarkInterrupted(disk))
<1>1. IsDisk(disk) /\ TaskSound(t) /\ disk.row[t] \in Row /\ starts[t] \in Nat
  BY DEF Inductive, TypeOK, IsDisk
<1>2. /\ rec.files = disk.files
      /\ \/ t \in open /\ disk.row[t].status \in Open /\ disk.row[t].resumes = 0
            /\ rec.row[t] = [status |-> "queued", resumes |-> 1]
         \/ t \notin open /\ disk.row[t].status \in Living
            /\ rec.row[t] = [disk.row[t] EXCEPT !.status = "failed"]
         \/ t \notin open /\ disk.row[t].status \notin Living /\ rec.row[t] = disk.row[t]
  BY <1>1, RecoveredRows
<1> HIDE DEF rec, open
<1>3. /\ disk'.row[t] = rec.row[t] \/ (disk'.row[t] = NoRow /\ rec.row[t].status \in Prunable)
      /\ t \in rec.files /\ disk'.row[t].status # "none" => t \in disk'.files
  BY DEF Cleaned, rec
<1>4. /\ disk.row[t].status # "none" => starts[t] <= disk.row[t].resumes + 1
      /\ disk.row[t].status \in Living => t \in disk.files
      /\ starts[t] <= 2
      /\ t > used.tasks => disk.row[t] = NoRow
  BY <1>1 DEF TaskSound, RowAhead, Unsubmitted
<1>5. /\ \A s \in Living : s # "none" /\ s \notin Prunable
      /\ \A s \in Open : s \in Living
      /\ "queued" \in Open /\ "failed" \notin Living /\ NoRow.status = "none" /\ "none" \notin Living
  BY Statuses DEF Living, Open, Prunable
<1>6. CASE t \in open
  <2>1. /\ disk.row[t].status \in Open /\ disk.row[t].resumes = 0
        /\ rec.row[t].status = "queued" /\ rec.row[t].resumes = 1
    BY <1>2, <1>6
  <2>2. disk'.row[t].status = "queued" /\ disk'.row[t].resumes = 1 /\ starts[t] <= 1
    BY <1>1, <1>3, <1>4, <1>5, <2>1
  <2>3. t \in disk'.files /\ ~ (t > used.tasks)
    BY <1>2, <1>3, <1>4, <1>5, <2>1, <2>2
  <2>4. RowAhead(t)'
    BY <1>1, <2>2, <2>3 DEF RowAhead
  <2> QED BY <1>5, <2>2, <2>3, <2>4 DEF open
<1>7. CASE t \notin open /\ disk.row[t].status \in Living
  <2>1. rec.row[t].status = "failed" /\ rec.row[t].resumes = disk.row[t].resumes
    <3>1. rec.row[t] = [disk.row[t] EXCEPT !.status = "failed"]
      BY <1>2, <1>7
    <3> QED BY <1>1, <3>1 DEF Row
  <2>2. /\ disk'.row[t].status \notin Living
        /\ disk'.row[t].status # "none" => disk'.row[t].resumes = disk.row[t].resumes
    BY <1>3, <1>5, <2>1
  <2>3. RowAhead(t)'
    BY <1>4, <1>5, <1>7, <2>2 DEF RowAhead
  <2> QED BY <1>4, <1>5, <1>7, <2>3 DEF open
<1>8. CASE t \notin open /\ disk.row[t].status \notin Living
  <2>1. rec.row[t] = disk.row[t]
    BY <1>2, <1>8
  <2>2. disk'.row[t] = disk.row[t] \/ disk'.row[t] = NoRow
    BY <1>3, <2>1
  <2>3. RowAhead(t)'
    <3>1. CASE disk'.row[t] = disk.row[t]
      BY <1>4, <1>8, <3>1 DEF RowAhead
    <3>2. CASE disk'.row[t] = NoRow
      BY <1>4, <1>5, <3>2 DEF RowAhead
    <3> QED BY <2>2, <3>1, <3>2
  <2> QED BY <1>4, <1>8, <2>2, <2>3 DEF open
<1> QED BY <1>6, <1>7, <1>8

LEMMA LoadedTasks ==
  ASSUME NEW d, IsDisk(d)
  PROVE  /\ Loaded(d) \in [Task -> TaskState]
         /\ \A t \in Task : \/ Loaded(d)[t] = NoTask
                           \/ /\ Loaded(d)[t] = [NoTask EXCEPT !.status = d.row[t].status]
                              /\ d.row[t].status # "none"
<1>1. \A t \in Task : d.row[t].status \in Status \cup {"none"}
  BY DEF IsDisk, Row
<1>2. \A s \in Status \cup {"none"} : [NoTask EXCEPT !.status = s] \in TaskState
  BY Statuses DEF TaskState
<1>3. \A t \in Newest(d, MaxInMemory) : t \in Task /\ d.row[t].status # "none"
  BY DEF Newest, Stored
<1> DEFINE some(t) == [NoTask EXCEPT !.status = d.row[t].status]
           newest == Newest(d, MaxInMemory)
<1>4. \A t \in Task : some(t) \in TaskState
  BY <1>1, <1>2
<1>5. Loaded(d) = [t \in Task |-> IF t \in newest THEN some(t) ELSE NoTask]
  BY DEF Loaded
<1> HIDE DEF newest, some
<1>6. /\ Loaded(d) \in [Task -> TaskState]
      /\ \A t \in Task : Loaded(d)[t] = IF t \in newest THEN some(t) ELSE NoTask
  BY <1>4, <1>5, Statuses
<1>7. \A t \in Task : t \in newest => d.row[t].status # "none"
  BY <1>3 DEF newest
<1> QED BY <1>6, <1>7 DEF some

LEMMA BuildStep ==
  ASSUME Inductive, Build
  PROVE  Inductive'
<1>1. IsDisk(disk) /\ starts \in [Task -> Nat] /\ used \in Used
  BY DEF Inductive, TypeOK
<1>2. /\ up' = "built" /\ disk' = Retain(Recovered(disk)) /\ mem' = Loaded(disk')
      /\ pending' = Recoverable(MarkInterrupted(disk)) /\ UNCHANGED <<starts, used>>
  BY DEF Build, Construct
<1>3. Cleaned(Recovered(disk), disk') /\ pending' \subseteq Task
  BY <1>1, <1>2, RecoveredRows, RetainCleaned
<1>4. IsDisk(disk')
  BY <1>3 DEF Cleaned
<1>5. /\ mem' \in [Task -> TaskState]
      /\ \A t \in Task : \/ mem'[t] = NoTask
                        \/ /\ mem'[t] = [NoTask EXCEPT !.status = disk'.row[t].status]
                           /\ disk'.row[t].status # "none"
  BY <1>2, <1>4, LoadedTasks
<1>6. ASSUME used.second = 0, NEW t \in Task
      PROVE  TaskSound(t)'
  <2>1. /\ RowAhead(t)'
        /\ t > used.tasks => disk'.row[t] = NoRow
        /\ t \in pending' => disk'.row[t].status \in Open /\ starts[t] <= disk'.row[t].resumes
    BY <1>2, <1>3, <1>6, RecoveredAhead
  <2>2. /\ mem'[t].pc = "none" /\ ~ mem'[t].doomed
        /\ mem'[t].status = "none" \/ mem'[t].status = disk'.row[t].status
    BY <1>5, Statuses DEF NoTask
  <2>3. RunnerKnown(t)'
    BY <2>2 DEF RunnerKnown, Active, Working
  <2>4. RecoveryPaid(t)'
    BY <1>2, <2>1, <2>2 DEF RecoveryPaid
  <2>5. TaskSound(t) /\ t > used.tasks => starts[t] = 0
    BY DEF TaskSound, Unsubmitted
  <2>6. t > used.tasks => mem'[t] = NoTask
    BY <1>5, <2>1, Statuses
  <2>7. Unsubmitted(t)'
    BY <1>2, <1>6, <2>1, <2>5, <2>6 DEF Unsubmitted, Inductive
  <2> QED BY <2>1, <2>3, <2>4, <2>7 DEF TaskSound
<1>7. TypeOK'
  BY <1>1, <1>2, <1>3, <1>4, <1>5 DEF TypeOK
<1> QED BY <1>2, <1>6, <1>7 DEF Inductive

LEMMA ServeStep ==
  ASSUME Inductive, Serve
  PROVE  Inductive'
<1> DEFINE resumed == [NoTask EXCEPT !.status = "queued", !.pc = "created"]
<1>1. mem \in [Task -> TaskState] /\ IsDisk(disk) /\ starts \in [Task -> Nat] /\ used \in Used
  BY DEF Inductive, TypeOK
<1>2. /\ up = "built" /\ up' = "serving" /\ pending' = {} /\ UNCHANGED <<disk, starts, used>>
      /\ mem' = [t \in Task |-> IF t \in pending \cap Held(mem) THEN resumed ELSE mem[t]]
  BY DEF Serve
<1>3. /\ resumed \in TaskState /\ resumed.status = "queued" /\ resumed.pc = "created"
      /\ ~ resumed.doomed
  BY DEF NoTask, TaskState, Active, Status, Open
<1> HIDE DEF resumed
<1>4. /\ mem' \in [Task -> TaskState]
      /\ \A t \in Task : mem'[t] = IF t \in pending \cap Held(mem) THEN resumed ELSE mem[t]
  BY <1>1, <1>2, <1>3
<1>5. ASSUME used.second = 0, NEW t \in Task
      PROVE  TaskSound(t)'
  <2>1. TaskSound(t)
    BY <1>5 DEF Inductive
  <2>2. RowAhead(t)' /\ RecoveryPaid(t)'
    BY <1>2, <2>1 DEF TaskSound, RowAhead, RecoveryPaid
  <2>3. CASE t \in pending \cap Held(mem)
    <3>1. disk.row[t].status \in Open /\ starts[t] <= disk.row[t].resumes /\ mem[t].status # "none"
      BY <2>1, <2>3 DEF TaskSound, RecoveryPaid, Held
    <3>2. ~ (t > used.tasks)
      BY <2>1, <3>1, Statuses DEF TaskSound, Unsubmitted
    <3>3. mem'[t] = resumed
      BY <1>4, <2>3
    <3>4. RunnerKnown(t)'
      BY <1>2, <1>3, <3>1, <3>3 DEF RunnerKnown, Active
    <3>5. ~ (t > used'.tasks)
      BY <1>2, <3>2
    <3> QED BY <2>2, <3>4, <3>5 DEF TaskSound, Unsubmitted
  <2>4. CASE t \notin pending \cap Held(mem)
    <3>1. mem'[t] = mem[t]
      BY <1>4, <2>4
    <3>2. RunnerKnown(t)' /\ Unsubmitted(t)'
      BY <1>2, <2>1, <3>1 DEF TaskSound, RunnerKnown, Unsubmitted
    <3> QED BY <2>2, <3>2 DEF TaskSound
  <2> QED BY <2>3, <2>4
<1>6. TypeOK'
  BY <1>1, <1>2, <1>4 DEF TypeOK
<1> QED BY <1>2, <1>5, <1>6 DEF Inductive

LEMMA TroubleCounted ==
  ASSUME used \in Used, used' = [used EXCEPT !.crashes = @ + 1]
  PROVE  used' \in Used /\ used'.tasks = used.tasks /\ used'.second = used.second
<1> DEFINE n == used.crashes + 1
<1>1. n \in Nat
  BY DEF Used
<1> HIDE DEF n
<1>2. used' = [used EXCEPT !.crashes = n]
  BY DEF n
<1> QED BY <1>1, <1>2 DEF Used

\* The end of a process, with the rows as it or a clean-up leaves them.
LEMMA StoppedStep ==
  ASSUME Inductive, up' = "down", mem' = [t \in Task |-> NoTask], pending' \subseteq Task,
         used.second = 0 => pending' = {}, IsDisk(disk'),
         used' \in Used, used'.tasks = used.tasks, used'.second = used.second, starts' = starts,
         \A t \in Task : used.second = 0 => RowAhead(t)' /\ (t > used.tasks => disk'.row[t] = NoRow)
  PROVE  Inductive'
<1>1. TypeOK'
  BY Statuses DEF Inductive, TypeOK
<1>2. ASSUME used.second = 0, NEW t \in Task
      PROVE  TaskSound(t)'
  <2>1. mem'[t] = NoTask /\ NoTask.pc = "none" /\ NoTask.status = "none" /\ ~ NoTask.doomed
    BY Statuses
  <2>2. RunnerKnown(t)' /\ RecoveryPaid(t)'
    BY <1>2, <2>1 DEF RunnerKnown, RecoveryPaid, Active, Working
  <2>3. t > used.tasks => starts[t] = 0
    BY <1>2 DEF Inductive, TaskSound, Unsubmitted
  <2>4. RowAhead(t)' /\ (t > used'.tasks => disk'.row[t] = NoRow /\ starts'[t] = 0)
    <3>1. RowAhead(t)' /\ (t > used.tasks => disk'.row[t] = NoRow)
      BY <1>2, Zenon
    <3> QED BY <2>3, <3>1
  <2>5. Unsubmitted(t)'
    BY <2>1, <2>4 DEF Unsubmitted
  <2> QED BY <2>2, <2>4, <2>5 DEF TaskSound
<1> QED BY <1>1, <1>2 DEF Inductive

\* What a clean-up that ends the process leaves ahead of the starts.
LEMMA CleanedAhead ==
  ASSUME Inductive, used.second = 0, NEW t \in Task, starts' = starts,
         \/ Cleaned(disk, disk')
         \/ \E u \in Task, s \in Prunable : mem[u].pc \in Working /\ Cleaned(Persist(disk, u, s), disk')
  PROVE  RowAhead(t)' /\ (t > used.tasks => disk'.row[t] = NoRow)
<1>1. IsDisk(disk) /\ TaskSound(t) /\ Prunable \subseteq Status
  BY Statuses DEF Inductive, TypeOK
<1> DEFINE Left == \/ disk'.row[t] = NoRow
                   \/ /\ disk'.row[t] = disk.row[t]
                      /\ t \in disk.files /\ disk.row[t].status # "none" => t \in disk'.files
                   \/ /\ disk'.row[t].status \in Prunable /\ disk'.row[t].resumes = disk.row[t].resumes
                      /\ mem[t].pc \in Working
<1>2. Left
  <2>1. CASE Cleaned(disk, disk')
    BY <2>1, Statuses DEF Cleaned
  <2>2. ASSUME NEW u \in Task, NEW s \in Prunable, mem[u].pc \in Working, Cleaned(Persist(disk, u, s), disk')
        PROVE  Left
    <3>1. s \in Status \cup {"none"}
      BY <1>1
    <3>2. CASE u = t
      <4>1. \/ disk'.row[t].status = s /\ disk'.row[t].resumes = disk.row[t].resumes
            \/ disk'.row[t] = NoRow
        BY <1>1, <2>2, <3>1, <3>2, PersistOwn
      <4> QED BY <2>2, <3>2, <4>1
    <3>3. CASE u # t
      <4>1. /\ disk'.row[t] = disk.row[t] \/ disk'.row[t] = NoRow
            /\ t \in disk.files /\ disk'.row[t].status # "none" => t \in disk'.files
        BY <1>1, <2>2, <3>1, <3>3, PersistOthers
      <4> QED BY <4>1
    <3> QED BY <3>2, <3>3
  <2> QED BY <2>1, <2>2
<1>3. /\ disk.row[t].status # "none" => starts[t] <= disk.row[t].resumes + 1
      /\ disk.row[t].status \in Living => t \in disk.files
      /\ starts[t] <= 2
      /\ t > used.tasks => disk.row[t] = NoRow /\ mem[t] = NoTask
      /\ mem[t].pc \in Working => disk.row[t].status # "none"
  BY <1>1, Statuses DEF TaskSound, RowAhead, Unsubmitted, RunnerKnown, Active, Open
<1>4. /\ \A s \in Living : s # "none" /\ s \notin Prunable
      /\ NoRow.status = "none" /\ NoTask.pc = "none" /\ "none" \notin Working /\ "none" \notin Living
  BY Statuses DEF Living, Open, Prunable, Working
<1>5. CASE disk'.row[t] = NoRow
  BY <1>3, <1>4, <1>5 DEF RowAhead
<1>6. CASE disk'.row[t] = disk.row[t]
           /\ (t \in disk.files /\ disk.row[t].status # "none" => t \in disk'.files)
  BY <1>3, <1>4, <1>6 DEF RowAhead
<1>7. CASE disk'.row[t].status \in Prunable /\ disk'.row[t].resumes = disk.row[t].resumes
           /\ mem[t].pc \in Working
  BY <1>3, <1>4, <1>7 DEF RowAhead
<1> QED BY <1>2, <1>5, <1>6, <1>7

LEMMA StopSteps ==
  ASSUME Inductive, Leave \/ Crash \/ CrashInCleanup
  PROVE  Inductive'
<1>1. IsDisk(disk) /\ used \in Used /\ pending \subseteq Task /\ disk.row \in [Task -> Row]
  BY DEF Inductive, TypeOK, IsDisk
<1>2. up' = "down" /\ mem' = [t \in Task |-> NoTask] /\ starts' = starts
  BY DEF Leave, Crash, CrashInCleanup
<1>3. CASE Leave
  <2>1. up # "built" /\ pending' = pending /\ used' = used /\ disk' = Retain(disk)
    BY <1>3 DEF Leave
  <2>2. Cleaned(disk, disk')
    BY <1>1, <2>1, RetainCleaned
  <2>3. used.second = 0 => pending' = {}
    BY <2>1, NothingPending
  <2> QED BY <1>1, <1>2, <2>1, <2>2, <2>3, CleanedAhead, StoppedStep DEF Cleaned
<1>4. CASE Crash
  <2>1. used' = [used EXCEPT !.crashes = @ + 1] /\ pending' = {} /\ disk' = disk
    BY <1>4 DEF Crash
  <2>2. used' \in Used /\ used'.tasks = used.tasks /\ used'.second = used.second
    BY <1>1, <2>1, TroubleCounted
  <2>3. Cleaned(disk, disk')
    BY <1>1, <2>1, SameCleaned
  <2> QED BY <1>1, <1>2, <2>1, <2>2, <2>3, CleanedAhead, StoppedStep
<1>5. CASE CrashInCleanup
  <2>1. used' = [used EXCEPT !.crashes = @ + 1] /\ pending' = {}
    BY <1>5 DEF CrashInCleanup
  <2>2. used' \in Used /\ used'.tasks = used.tasks /\ used'.second = used.second
    BY <1>1, <2>1, TroubleCounted
  <2>3. CASE disk' = Pruned(Recovered(disk))
    <3>1. IsDisk(Recovered(disk))
      BY <1>1, RecoveredRows
    <3>2. Cleaned(Recovered(disk), disk')
      BY <2>3, <3>1, PrunedCleaned
    <3> QED BY <1>2, <2>1, <2>2, <3>2, RecoveredAhead, StoppedStep DEF Cleaned
  <2>4. ASSUME NEW t \in Task, NEW s \in Prunable, mem[t].pc \in Working,
               disk' = Pruned(Persist(disk, t, s))
        PROVE  Inductive'
    <3>1. IsDisk(Persist(disk, t, s))
      BY <1>1, Persisted, Statuses
    <3>2. Cleaned(Persist(disk, t, s), disk')
      BY <2>4, <3>1, PrunedCleaned
    <3> QED BY <1>2, <2>1, <2>2, <2>4, <3>2, CleanedAhead, StoppedStep DEF Cleaned
  <2> QED BY <1>5, <2>3, <2>4 DEF CrashInCleanup
<1> QED BY <1>3, <1>4, <1>5

LEMMA CloseStep ==
  ASSUME Inductive, Close
  PROVE  Inductive'
<1>1. /\ up = "serving" /\ up' = "closing" /\ UNCHANGED <<mem, pending, disk, starts>>
      /\ used' = [used EXCEPT !.crashes = @ + 1] /\ used \in Used
  BY DEF Close, Inductive, TypeOK
<1>2. used' \in Used /\ used'.tasks = used.tasks /\ used'.second = used.second
  BY <1>1, TroubleCounted
<1>3. ASSUME used.second = 0, NEW t \in Task
      PROVE  TaskSound(t)'
  BY <1>1, <1>2, <1>3 DEF Inductive, TaskSound, RowAhead, RunnerKnown, RecoveryPaid, Unsubmitted
<1> QED BY <1>1, <1>2, <1>3 DEF Inductive, TypeOK

LEMMA DrainStep ==
  ASSUME Inductive, Drain
  PROVE  Inductive'
<1>1. /\ up = "closing" /\ up' = "draining" /\ UNCHANGED <<pending, disk, starts, used>>
      /\ mem' = [t \in Task |-> CancelRunner(mem[t])] /\ mem \in [Task -> TaskState]
  BY DEF Drain, Inductive, TypeOK
<1>2. mem' \in [Task -> TaskState] /\ \A t \in Task : mem'[t] = CancelRunner(mem[t])
  BY <1>1, CancelledRunner
<1>3. ASSUME used.second = 0, NEW t \in Task
      PROVE  TaskSound(t)'
  <2> DEFINE m == CancelRunner(mem[t])
  <2>1. TaskSound(t)
    BY <1>3 DEF Inductive
  <2>2. /\ m \in TaskState /\ m.status = mem[t].status /\ m.job = mem[t].job
        /\ m.pc = mem[t].pc \/ m.pc = "stillborn"
        /\ m.doomed => m.pc \in Active \/ (mem[t].doomed /\ mem[t].pc \notin Active \ {"created"})
        /\ mem[t].pc = "created" => m.pc = "stillborn"
        /\ mem[t].pc = "none" => m = mem[t]
    BY <1>1, CancelledRunner
  <2>3. mem'[t] = m
    BY <1>2
  <2> HIDE DEF m
  <2>4. RowAhead(t)' /\ RecoveryPaid(t)'
    BY <1>1, <2>1 DEF TaskSound, RowAhead, RecoveryPaid
  <2>5. RunnerKnown(t)'
    BY <1>1, <2>1, <2>2, <2>3 DEF TaskSound, RunnerKnown, Active, Working
  <2>6. Unsubmitted(t)'
    BY <1>1, <2>1, <2>2, <2>3, Statuses DEF TaskSound, Unsubmitted
  <2> QED BY <2>4, <2>5, <2>6 DEF TaskSound
<1> QED BY <1>1, <1>2, <1>3 DEF Inductive, TypeOK

LEMMA AgeStep ==
  ASSUME Inductive, Age
  PROVE  Inductive'
<1> DEFINE n == used.ages + 1
<1>1. /\ used' = [used EXCEPT !.ages = n] /\ disk' = [disk EXCEPT !.old = Task]
      /\ UNCHANGED <<up, mem, pending, starts>> /\ IsDisk(disk) /\ used \in Used
  BY DEF Age, Inductive, TypeOK
<1>2. n \in Nat
  BY <1>1 DEF Used
<1> HIDE DEF n
<1>3. used' \in Used /\ used'.tasks = used.tasks /\ used'.second = used.second
  BY <1>1, <1>2 DEF Used
<1>4. IsDisk(disk') /\ disk'.row = disk.row /\ disk'.files = disk.files
  BY <1>1 DEF IsDisk
<1>5. ASSUME used.second = 0, NEW t \in Task
      PROVE  TaskSound(t)'
  BY <1>1, <1>3, <1>4, <1>5 DEF Inductive, TaskSound, RowAhead, RunnerKnown, RecoveryPaid, Unsubmitted
<1> QED BY <1>1, <1>3, <1>4, <1>5 DEF Inductive, TypeOK

\* A second instance recovers the rows of the first: only the types are left.
LEMMA SecondStep ==
  ASSUME Inductive, SecondInstance
  PROVE  Inductive'
<1> DEFINE n == used.second + 1
<1>1. /\ used' = [used EXCEPT !.second = n] /\ disk' = Retain(Recovered(disk))
      /\ UNCHANGED <<up, mem, pending, starts>> /\ IsDisk(disk) /\ used \in Used
  BY DEF SecondInstance, Construct, Inductive, TypeOK
<1>2. n \in Nat /\ n # 0
  BY <1>1 DEF Used
<1> HIDE DEF n
<1>3. used' \in Used /\ used'.second # 0
  BY <1>1, <1>2 DEF Used
<1>4. IsDisk(disk')
  BY <1>1, RecoveredRows, RetainCleaned DEF Cleaned
<1> QED BY <1>1, <1>3, <1>4 DEF Inductive, TypeOK

----------------------------------------------------------------------------
LEMMA InitInductive ==
  ASSUME Init
  PROVE  Inductive
<1>1. used \in Used /\ used.tasks = 0
  BY DEF Init, Used
<1>2. IsDisk(disk) /\ disk.row = [t \in Task |-> NoRow]
  BY Statuses DEF Init, IsDisk
<1>3. TypeOK
  BY <1>1, <1>2, Statuses DEF Init, TypeOK
<1>4. ASSUME NEW t \in Task
      PROVE  TaskSound(t)
  <2>1. /\ mem[t] = NoTask /\ disk.row[t] = NoRow /\ starts[t] = 0 /\ pending = {} /\ up = "down"
    BY <1>2 DEF Init
  <2>2. "none" \notin Living /\ "none" \notin Active
    BY DEF Living, Open, Active, Working
  <2> QED BY <2>1, <2>2, Statuses DEF TaskSound, RowAhead, RunnerKnown, RecoveryPaid, Unsubmitted
<1> QED BY <1>3, <1>4 DEF Inductive

LEMMA NextInductive ==
  ASSUME Inductive, [Next]_vars
  PROVE  Inductive'
<1>1. CASE Process
  BY <1>1, BuildStep, ServeStep, DrainStep, StopSteps DEF Process
<1>2. CASE Close \/ Crash \/ CrashInCleanup \/ Age \/ SecondInstance \/ Submit
  BY <1>2, CloseStep, StopSteps, AgeStep, SecondStep, SubmitStep
<1>3. ASSUME NEW t \in Task, Cancel(t) \/ SubmitGuidance(t) \/ Runner(t)
      PROVE  Inductive'
  BY <1>3, CancelStep, GuidanceStep, RunnerGoesOn, RunnerEnds DEF Runner
<1>4. CASE UNCHANGED vars
  BY <1>4 DEF vars, Inductive, TypeOK, TaskSound, RowAhead, RunnerKnown, RecoveryPaid, Unsubmitted
<1> QED BY <1>1, <1>2, <1>3, <1>4 DEF Next

\* The rows, the runners and what is to be resumed agree in every reachable
\* state of a console without a second instance, and all states are typed.
THEOREM InductiveInvariant == Spec => []Inductive
<1>1. Init => Inductive
  BY InitInductive
<1>2. Inductive /\ [Next]_vars => Inductive'
  BY NextInductive
<1> QED BY <1>1, <1>2, PTL DEF Spec

\* Type correctness: memory, rows, sandboxes and counts are what the manager
\* and the store keep, with a second instance too.
THEOREM TypeCorrect == Spec => []TypeOK
<1>1. Inductive => TypeOK
  BY DEF Inductive
<1> QED BY <1>1, InductiveInvariant, PTL

\* Over all crashes, stops and restarts of the console, a task is begun at most
\* twice: mark_interrupted and recover_interrupted let a row be resumed once.
THEOREM AtMostTwoStarts == Spec => []ResumedAtMostOnce
<1>1. Inductive => ResumedAtMostOnce
  BY DEF Inductive, TaskSound, RowAhead, ResumedAtMostOnce
<1> QED BY <1>1, InductiveInvariant, PTL

\* Neither retention, nor a submission, nor a restart deletes the sandbox of a
\* task that may still work.
THEOREM LivingKeepTheirFiles == Spec => []FilesOfTheLiving
<1>1. Inductive => FilesOfTheLiving
  BY DEF Inductive, TaskSound, RowAhead, RunnerKnown, FilesOfTheLiving, Living
<1> QED BY <1>1, InductiveInvariant, PTL
=============================================================================
