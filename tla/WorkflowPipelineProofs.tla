----------------------- MODULE WorkflowPipelineProofs -----------------------
(***************************************************************************)
(* Every state of a task is well-formed; run() never leaves a task with    *)
(* its gate open, a grant live, or a status other than the one it          *)
(* returned; a stopped gate is final; and "completed" is said only of what *)
(* was verified.  The synchronous code between two awaits is an operator   *)
(* on the state w of the task: one lemma about each says what it leaves    *)
(* behind (Leaves), another what it leaves of a task whose gate is stopped *)
(* (Halts), a third what it delivers (Verifies); the actions follow from   *)
(* these.                                                                  *)
(***************************************************************************)
EXTENDS WorkflowPipeline, TLAPS

\* A plan is adopted once for each change of the split that was paid for, and
\* once before the first.
Paid(w) == w.version <= w.replans + 1

Sane(w) ==
  /\ w \in Task /\ Paid(w)
  /\ \A c, d \in w.saved : c = d
  /\ \A c \in w.saved : Paid(c)

\* What a piece of the coroutine leaves behind of a task in mode m whose gate is
\* stopped or not.
Leaves(m, stopped) ==
  /\ Sane(task') /\ task'.mode = m /\ task'.stopping = stopped
  /\ main' \in Coroutine /\ output' \in Status \cup {"none"}
  /\ main'.at \in {"refreshing", "requesting"} => task'.version <= task'.replans
  /\ main'.at \in {"requesting", "planreview"} => main'.then \in {"first", "again"}
  /\ main'.at = "ended" /\ main'.then = "output" => output' = task'.status
  /\ main'.at = "escalating" => task'.status = "human_required"

\* v differs from w only in fields that mode and quota do not depend on.
Like(v, w) ==
  /\ Sane(v) /\ v.mode = w.mode /\ v.stopping = w.stopping
  /\ v.version = w.version /\ v.replans = w.replans

---------------------------------------------------------------------------

LEMMA NoneIsResult == None \in Result /\ NoResults \in [Subtask -> Result]
  BY PipelineAssumption DEF None, NoResults, Result, Version

LEMMA LikeStatus ==
  ASSUME NEW w, Sane(w), NEW s \in Status
  PROVE  Like([w EXCEPT !.status = s], w) /\ [w EXCEPT !.status = s].status = s
  BY DEF Sane, Like, Task, Paid

LEMMA LikeGrants ==
  ASSUME NEW w, Sane(w), NEW G \in SUBSET (Subtask \X Version), NEW S \in SUBSET Subtask
  PROVE  /\ Like([w EXCEPT !.grants = G], w)
         /\ Like([w EXCEPT !.slots = S, !.grants = G], w)
  BY DEF Sane, Like, Task, Paid

LEMMA LikeResults ==
  ASSUME NEW w, Sane(w), NEW R \in [Subtask -> Result]
  PROVE  Like([w EXCEPT !.results = R], w) /\ Like([w EXCEPT !.sched = R], w)
  BY DEF Sane, Like, Task, Paid

LEMMA MergedIsResults ==
  ASSUME NEW w, Sane(w) PROVE Merged(w) \in [Subtask -> Result]
  BY DEF Sane, Task, Merged

LEMMA LikeSave == ASSUME NEW w, Sane(w) PROVE Like(Save(w), w) /\ Save(w).status = w.status
<1> DEFINE c == [status |-> w.status, version |-> w.version, replans |-> w.replans,
                 reworks |-> w.reworks, results |-> Merged(w), slots |-> w.slots,
                 archived |-> w.archived, archive |-> w.archive,
                 accepted |-> w.accepted, escalated |-> w.escalated]
<1>1. c \in Checkpoint /\ Paid(c)
  BY MergedIsResults DEF Sane, Task, Checkpoint, Paid
<1>2. Save(w) = [w EXCEPT !.saved = {c}]  BY DEF Save
<1> QED  BY <1>1, <1>2 DEF Sane, Like, Task, Paid

LEMMA SaveGrants ==
  ASSUME NEW w, Sane(w) PROVE Save(w).grants = w.grants
  BY DEF Sane, Task, Save

LEMMA LikeIssue == ASSUME NEW w, Sane(w) PROVE Like(IssueGrants(w), w)
<1> DEFINE S == {s \in Tooled \cap w.ready : ~w.results[s].reused}
<1> DEFINE G == w.grants \cup {<<s, w.version>> : s \in S}
<1>1. S \in SUBSET Subtask  BY PipelineAssumption
<1>3. w.grants \in SUBSET (Subtask \X Version) /\ w.version \in Version  BY DEF Sane, Task
<1>4. G \in SUBSET (Subtask \X Version)
  <2> HIDE DEF S
  <2> QED  BY <1>1, <1>3
<1>2. IssueGrants(w) = [w EXCEPT !.slots = S, !.grants = G]
  BY DEF IssueGrants, Sane, Task
<1> HIDE DEF S, G
<1>5. Like([w EXCEPT !.slots = S, !.grants = G], w)  BY <1>1, <1>4, LikeGrants
<1> QED  BY <1>2, <1>5

LEMMA LikeEnsure ==
  ASSUME NEW w, Sane(w), NEW batch \in SUBSET Subtask
  PROVE  Like(EnsureBatchGrants(w, batch), w)
  BY LikeIssue DEF EnsureBatchGrants, Like, Sane

LEMMA LikeRevoke ==
  ASSUME NEW w, Sane(w), NEW batch \in SUBSET Subtask
  PROVE  Like(RevokeGrants(w), w) /\ Like(RevokeBatchGrants(w, batch), w)
<1>1. {} \in SUBSET (Subtask \X Version)
      /\ {g \in w.grants : g[1] \notin batch} \in SUBSET (Subtask \X Version)
  BY DEF Sane, Task
<1> QED  BY <1>1, LikeGrants DEF RevokeGrants, RevokeBatchGrants

LEMMA LikeTrans == ASSUME NEW u, NEW v, NEW w, Like(u, v), Like(v, w) PROVE Like(u, w)
  BY DEF Like

---------------------------------------------------------------------------
(* The synchronous code, from its ends backwards. *)

LEMMA AtIsCoroutine ==
  ASSUME NEW place \in Wait \cup {"ended"},
         NEW then \in {"first", "again", "deliver", "provisional", "review", "confirm"} \cup Exit
  PROVE  At(place, then) \in Coroutine /\ At(place, then).at = place /\ At(place, then).then = then
  BY PipelineAssumption DEF At, Coroutine

LEMMA SuspendLeaves ==
  ASSUME TypeOK, NEW w, Sane(w), NEW m \in Coroutine, Suspend(w, m),
         m.at \in {"refreshing", "requesting"} => w.version <= w.replans,
         m.at \in {"requesting", "planreview"} => m.then \in {"first", "again"},
         m.at = "ended" => m.then # "output",
         m.at = "escalating" => w.status = "human_required"
  PROVE  Leaves(w.mode, w.stopping)
  BY DEF Suspend, Leaves, TypeOK

LEMMA ReturnLeaves ==
  ASSUME NEW w, Sane(w), NEW s \in Status, Return(w, s) PROVE Leaves(w.mode, w.stopping)
<1>1. At("ended", "output") \in Coroutine /\ At("ended", "output").at = "ended"
  BY AtIsCoroutine DEF Exit
<1>2. Like(task', w) /\ task'.status = s  BY LikeStatus DEF Return
<1> QED  BY <1>1, <1>2 DEF Return, Leaves, Like

LEMMA EscalateLeaves ==
  ASSUME TypeOK, NEW w, Sane(w), EscalateToHuman(w) PROVE Leaves(w.mode, w.stopping)
<1> DEFINE u == [w EXCEPT !.status = "human_required", !.escalated = TRUE]
<1>1. Like(u, w) /\ u.status = "human_required"
  BY DEF Sane, Like, Task, Paid, Status
<1>2. Like(Save(u), w) /\ Save(u).status = "human_required"
  BY <1>1, LikeSave, LikeTrans DEF Like
<1>3. Suspend(Save(u), At("escalating", "review"))  BY DEF EscalateToHuman
<1>4. /\ At("escalating", "review") \in Coroutine
      /\ At("escalating", "review").at = "escalating"
  BY AtIsCoroutine DEF Wait
<1> HIDE DEF u
<1> DEFINE v == Save(u)
<1>5. Sane(v) /\ v.mode = w.mode /\ v.stopping = w.stopping /\ v.status = "human_required"
  BY <1>2 DEF Like
<1>6. Suspend(v, At("escalating", "review"))  BY <1>3
<1> HIDE DEF v
<1>7. Leaves(v.mode, v.stopping)  BY <1>4, <1>5, <1>6, SuspendLeaves
<1> QED  BY <1>5, <1>7

LEMMA RaiseLeaves ==
  ASSUME TypeOK, NEW w, Sane(w), NEW e \in Exit \ {"output"}, Raise(w, e)
  PROVE  Leaves(w.mode, w.stopping)
<1>1. CASE Suspend(w, At("ended", e))
  BY <1>1, AtIsCoroutine, SuspendLeaves DEF Exit
<1>2. CASE Return(w, "failed") \/ Return(w, "cancelled")
  BY <1>2, ReturnLeaves DEF Status
<1>3. CASE EscalateToHuman(w)
  BY <1>3, EscalateLeaves
<1> QED  BY <1>1, <1>2, <1>3 DEF Raise

LEMMA AfterAggregationLeaves ==
  ASSUME TypeOK, NEW w, Sane(w), NEW then, AfterAggregation(w, then)
  PROVE  Leaves(w.mode, w.stopping)
<1>1. CASE Return(w, "completed") \/ Return(w, "completed_provisional")
  BY <1>1, ReturnLeaves DEF Status
<1>2. CASE then = "review" /\ Suspend([w EXCEPT !.status = "result_review"], At("reviewing", then))
  <2>1. Like([w EXCEPT !.status = "result_review"], w)  BY LikeStatus DEF Status
  <2>2. At("reviewing", then) \in Coroutine /\ At("reviewing", then).at = "reviewing"
    BY <1>2, AtIsCoroutine DEF Wait
  <2> QED  BY <1>2, <2>1, <2>2, SuspendLeaves DEF Like
<1>3. CASE then = "confirm" /\ Suspend(w, At("reviewing", then))
  <2>1. At("reviewing", then) \in Coroutine /\ At("reviewing", then).at = "reviewing"
    BY <1>3, AtIsCoroutine DEF Wait
  <2> QED  BY <1>3, <2>1, SuspendLeaves
<1> QED  BY <1>1, <1>2, <1>3 DEF AfterAggregation

LEMMA AggregateLeaves ==
  ASSUME TypeOK, NEW w, Sane(w), NEW then \in {"deliver", "provisional", "review", "confirm"},
         AggregateResults(w, then)
  PROVE  Leaves(w.mode, w.stopping)
<1> DEFINE v == IF then = "confirm" THEN w ELSE [w EXCEPT !.status = "aggregating"]
<1>1. Like(v, w)
  BY LikeStatus DEF Status, Like, Sane
<1>2. \/ AfterAggregation(v, then) \/ Suspend(v, At("aggregating", then))
      \/ Raise(v, "PipelineStoppedError")
  BY DEF AggregateResults
<1> HIDE DEF v
<1>3. Sane(v) /\ v.mode = w.mode /\ v.stopping = w.stopping  BY <1>1 DEF Like
<1>4. CASE AfterAggregation(v, then)
  BY <1>3, <1>4, AfterAggregationLeaves
<1>5. CASE Suspend(v, At("aggregating", then))
  <2>1. At("aggregating", then) \in Coroutine /\ At("aggregating", then).at = "aggregating"
    BY AtIsCoroutine DEF Wait
  <2> QED  BY <1>3, <1>5, <2>1, SuspendLeaves
<1>6. CASE Raise(v, "PipelineStoppedError")
  BY <1>3, <1>6, RaiseLeaves DEF Exit
<1> QED  BY <1>2, <1>4, <1>5, <1>6

LEMMA DeliverLeaves ==
  ASSUME TypeOK, NEW w, Sane(w), DeliverResults(w) PROVE Leaves(w.mode, w.stopping)
<1>1. CASE Return(w, "completed")
  BY <1>1, ReturnLeaves DEF Status
<1>2. ASSUME NEW then \in {"deliver", "provisional", "review"}, AggregateResults(w, then)
      PROVE  Leaves(w.mode, w.stopping)
  BY <1>2, AggregateLeaves
<1> QED  BY <1>1, <1>2 DEF DeliverResults

LEMMA PlanHeadLeaves ==
  ASSUME TypeOK, NEW w, Sane(w), w.version <= w.replans, NEW then \in {"first", "again"},
         NEW nets \in 0 .. MaxNetwork, PlanHead(w, then, nets)
  PROVE  Leaves(w.mode, w.stopping)
<1> DEFINE u == IF w.version > 0 THEN RevokeGrants(w) ELSE w
<1> DEFINE s == IF w.version > 0 THEN "replanning" ELSE "planning"
<1> DEFINE v == [u EXCEPT !.status = s]
<1> DEFINE m == [At("requesting", then) EXCEPT !.nets = nets]
<1>1. Like(u, w)
  BY LikeRevoke DEF Like, Sane
<1>2. s \in Status  BY DEF Status
<1>3. Raise(w, "PipelineStoppedError") \/ Raise(v, "WorkflowCancelledError") \/ Suspend(v, m)
  BY DEF PlanHead
<1>4. m \in Coroutine /\ m.at = "requesting" /\ m.then = then
  BY PipelineAssumption DEF At, Coroutine, Wait
<1> HIDE DEF u, s, m
<1>5. Like(v, u)
  BY <1>1, <1>2, LikeStatus DEF Like
<1> HIDE DEF v
<1>6. Sane(v) /\ v.mode = w.mode /\ v.stopping = w.stopping /\ v.version <= v.replans
  BY <1>1, <1>5 DEF Like
<1>7. CASE Raise(w, "PipelineStoppedError")
  BY <1>7, RaiseLeaves DEF Exit
<1>8. CASE Raise(v, "WorkflowCancelledError")
  <2>1. Leaves(v.mode, v.stopping)  BY <1>6, <1>8, RaiseLeaves DEF Exit
  <2> QED  BY <1>6, <2>1
<1>9. CASE Suspend(v, m)
  <2>1. Leaves(v.mode, v.stopping)  BY <1>4, <1>6, <1>9, SuspendLeaves
  <2> QED  BY <1>6, <2>1
<1> QED  BY <1>3, <1>7, <1>8, <1>9

LEMMA PlanAndReviewLeaves ==
  ASSUME TypeOK, NEW w, Sane(w), w.version <= w.replans, NEW then \in {"first", "again"},
         PlanAndReview(w, then)
  PROVE  Leaves(w.mode, w.stopping)
<1> DEFINE v == IF w.version > 0
                  THEN [w EXCEPT !.archived = w.version, !.archive = Archived(w)] ELSE w
<1>1. Archived(w) \in [Subtask -> Result]
  BY DEF Archived, Sane, Task
<1>2. w.version \in Version  BY DEF Sane, Task
<1>3. Sane(v) /\ v.mode = w.mode /\ v.stopping = w.stopping /\ v.version <= v.replans
  BY <1>1, <1>2 DEF Sane, Task, Paid
<1>4. PlanHead(v, then, 0)  BY DEF PlanAndReview
<1> HIDE DEF v
<1>5. 0 \in 0 .. MaxNetwork  BY PipelineAssumption
<1>6. Leaves(v.mode, v.stopping)  BY <1>3, <1>4, <1>5, PlanHeadLeaves
<1> QED  BY <1>3, <1>6

\* One more version has been paid for.
LEMMA QuotaPays ==
  ASSUME NEW w, Sane(w), QuotaLeft(w), NEW s \in Status
  PROVE  LET v == [w EXCEPT !.status = s, !.replans = @ + 1]
         IN  Sane(v) /\ v.mode = w.mode /\ v.stopping = w.stopping /\ v.version <= v.replans
<1>1. w.replans \in 0 .. MaxReplan /\ w.version \in Nat /\ MaxReplan \in Nat
  BY PipelineAssumption DEF Sane, Task, Version
<1>2. w.replans + 1 \in 0 .. MaxReplan /\ w.version <= w.replans + 1
  BY <1>1 DEF QuotaLeft, Sane, Paid
<1>3. w.version <= w.replans + 1 + 1  BY <1>1, <1>2
<1> QED  BY <1>2, <1>3 DEF Sane, Task, Paid

LEMMA PlanAgainLeaves ==
  ASSUME TypeOK, NEW w, Sane(w), NEW then \in {"first", "again"},
         NEW nets \in 0 .. MaxNetwork, PlanAgain(w, then, nets)
  PROVE  Leaves(w.mode, w.stopping)
<1> DEFINE v == [w EXCEPT !.replans = @ + 1]
<1>1. CASE QuotaLeft(w)
  <2>1. v = [w EXCEPT !.status = w.status, !.replans = @ + 1] /\ w.status \in Status
    BY DEF Sane, Task
  <2>2. Sane(v) /\ v.mode = w.mode /\ v.stopping = w.stopping /\ v.version <= v.replans
    BY <1>1, <2>1, QuotaPays
  <2>3. PlanHead(v, then, nets)  BY <1>1 DEF PlanAgain
  <2> HIDE DEF v
  <2> QED  BY <2>2, <2>3, PlanHeadLeaves
<1>2. CASE ~QuotaLeft(w)
  BY <1>2, EscalateLeaves DEF PlanAgain
<1> QED  BY <1>1, <1>2

LEMMA BatchDoneLeaves ==
  ASSUME TypeOK, NEW w, Sane(w), NEW failed, BatchDone(w, failed)
  PROVE  Leaves(w.mode, w.stopping)
<1>1. CASE AggregateResults(w, "confirm")
  BY <1>1, AggregateLeaves
<1>2. CASE EscalateToHuman(w)
  BY <1>2, EscalateLeaves
<1>3. CASE DeliverResults(w)
  BY <1>3, DeliverLeaves
<1>4. CASE QuotaLeft(w)
           /\ PlanAndReview([w EXCEPT !.status = "replanning", !.replans = @ + 1], "again")
  <2> DEFINE v == [w EXCEPT !.status = "replanning", !.replans = @ + 1]
  <2>1. Sane(v) /\ v.mode = w.mode /\ v.stopping = w.stopping /\ v.version <= v.replans
    BY <1>4, QuotaPays DEF Status
  <2>2. PlanAndReview(v, "again")  BY <1>4
  <2> HIDE DEF v
  <2> QED  BY <2>1, <2>2, PlanAndReviewLeaves
<1>5. CASE EscalateToHuman([w EXCEPT !.status = "decomposition_issue"])
  <2> DEFINE v == [w EXCEPT !.status = "decomposition_issue"]
  <2>1. Sane(v) /\ v.mode = w.mode /\ v.stopping = w.stopping
    BY LikeStatus DEF Like, Status
  <2>2. EscalateToHuman(v)  BY <1>5
  <2> HIDE DEF v
  <2> QED  BY <2>1, <2>2, EscalateLeaves
<1> QED  BY <1>1, <1>2, <1>3, <1>4, <1>5 DEF BatchDone

LEMMA OutcomeIsResult ==
  ASSUME NEW w, Sane(w), NEW ok \in BOOLEAN PROVE Outcome(w, ok) \in Result
  BY DEF Sane, Task, Outcome, Result

\* When a batch returns, grants have been taken back and the rest is as before.
LEMMA BatchReturnsDone ==
  ASSUME NEW w, Sane(w), NEW batch \in SUBSET Subtask, NEW lacking,
         NEW outcome, \A s \in batch : outcome[s] \in Result,
         BatchReturns(w, batch, lacking, outcome)
  PROVE  \E x, failed : /\ BatchDone(x, failed)
                        /\ Like(x, w) /\ x.grants \subseteq w.grants
<1> DEFINE u == RevokeBatchGrants(w, batch)
<1> DEFINE R == [s \in Subtask |-> IF s \in batch THEN outcome[s]
                                   ELSE IF s \in lacking THEN Outcome(w, FALSE)
                                   ELSE u.results[s]]
<1> DEFINE v == [u EXCEPT !.results = R]
<1> DEFINE x == Save(v)
<1>1. Like(u, w)  BY LikeRevoke
<1>2. u.grants \subseteq w.grants  BY DEF RevokeBatchGrants, Sane, Task
<1>3. Outcome(w, FALSE) \in Result  BY OutcomeIsResult
<1>4. u.results \in [Subtask -> Result]  BY <1>1 DEF Like, Sane, Task
<1>5. v = [u EXCEPT !.results =
              [s \in Subtask |-> IF s \in batch THEN outcome[s]
                                 ELSE IF s \in lacking THEN Outcome(w, FALSE) ELSE @[s]]]
  OBVIOUS
<1>6. BatchDone(x, lacking \cup {s \in batch : ~outcome[s].ok})
  BY <1>5 DEF BatchReturns
<1> HIDE DEF u
<1>7. R \in [Subtask -> Result]  BY <1>3, <1>4
<1> HIDE DEF R
<1>8. Like(v, u)  BY <1>1, <1>7, LikeResults DEF Like
<1>9. v.grants = u.grants  BY <1>1 DEF Like, Sane, Task
<1> HIDE DEF v
<1>10. Like(x, v) /\ x.grants = v.grants  BY <1>8, LikeSave, SaveGrants DEF Like
<1> HIDE DEF x
<1>11. Like(x, w) /\ x.grants \subseteq w.grants  BY <1>1, <1>2, <1>8, <1>9, <1>10 DEF Like
<1> QED  BY <1>6, <1>11

LEMMA BatchReturnsLeaves ==
  ASSUME TypeOK, NEW w, Sane(w), NEW batch \in SUBSET Subtask, NEW lacking,
         NEW outcome, \A s \in batch : outcome[s] \in Result,
         BatchReturns(w, batch, lacking, outcome)
  PROVE  Leaves(w.mode, w.stopping)
<1>1. PICK x, failed : BatchDone(x, failed) /\ Like(x, w)  BY BatchReturnsDone
<1>2. Sane(x) /\ x.mode = w.mode /\ x.stopping = w.stopping  BY <1>1 DEF Like
<1>3. Leaves(x.mode, x.stopping)  BY <1>1, <1>2, BatchDoneLeaves
<1> QED  BY <1>2, <1>3

LEMMA ScheduleLeaves ==
  ASSUME TypeOK, NEW w, Sane(w), NEW batch \in SUBSET Subtask, NEW lacking \in SUBSET Subtask,
         Schedule(w, batch, lacking)
  PROVE  Leaves(w.mode, w.stopping)
<1> DEFINE x == [w EXCEPT !.status = "executing"]
<1> DEFINE u == EnsureBatchGrants(x, batch)
<1> DEFINE v == [u EXCEPT !.sched = NoResults]
<1> DEFINE m == [At("scheduling", "review") EXCEPT !.batch = batch, !.lacking = lacking]
<1>1. Like(x, w)  BY LikeStatus DEF Status
<1>2. \/ BatchReturns(u, batch, lacking, [s \in batch |-> Outcome(u, FALSE)])
      \/ Raise(v, "PipelineStoppedError") \/ Raise(v, "TokenBudgetExceeded") \/ Suspend(v, m)
  BY DEF Schedule
<1>3. m \in Coroutine /\ m.at = "scheduling"
  <2> DEFINE a == At("scheduling", "review")
  <2>1. a \in Coroutine /\ a.at = "scheduling"  BY AtIsCoroutine DEF Wait
  <2>2. m = [a EXCEPT !.batch = batch, !.lacking = lacking]  OBVIOUS
  <2> HIDE DEF a, m
  <2> QED  BY <2>1, <2>2 DEF Coroutine
<1> HIDE DEF x, m
<1>4. Like(u, x)  BY <1>1, LikeEnsure DEF Like
<1> HIDE DEF u
<1>5. Sane(u) /\ u.mode = w.mode /\ u.stopping = w.stopping  BY <1>1, <1>4 DEF Like
<1>6. Sane(v) /\ v.mode = w.mode /\ v.stopping = w.stopping
  BY <1>5, NoneIsResult, LikeResults DEF Like
<1> HIDE DEF v
<1>7. CASE BatchReturns(u, batch, lacking, [s \in batch |-> Outcome(u, FALSE)])
  <2>1. \A s \in batch : [t \in batch |-> Outcome(u, FALSE)][s] \in Result
    BY <1>5, OutcomeIsResult
  <2>2. Leaves(u.mode, u.stopping)  BY <1>5, <1>7, <2>1, BatchReturnsLeaves
  <2> QED  BY <1>5, <2>2
<1>8. CASE Raise(v, "PipelineStoppedError") \/ Raise(v, "TokenBudgetExceeded")
  BY <1>6, <1>8, RaiseLeaves DEF Exit
<1>9. CASE Suspend(v, m)
  <2>1. Leaves(v.mode, v.stopping)  BY <1>3, <1>6, <1>9, SuspendLeaves
  <2> QED  BY <1>6, <2>1
<1> QED  BY <1>2, <1>7, <1>8, <1>9

LEMMA ExecuteSubtasksLeaves ==
  ASSUME TypeOK, NEW w, Sane(w), NEW batch \in SUBSET Subtask, ExecuteSubtasks(w, batch)
  PROVE  Leaves(w.mode, w.stopping)
<1> DEFINE m == [At("gap", "review") EXCEPT !.batch = batch]
<1>1. CASE Raise(w, "PipelineStoppedError") \/ Raise(w, "WorkflowCancelledError")
  BY <1>1, RaiseLeaves DEF Exit
<1>2. CASE BatchDone(w, {})
  BY <1>2, BatchDoneLeaves
<1>3. CASE Schedule(w, batch, {})
  BY <1>3, ScheduleLeaves
<1>4. CASE Suspend(w, m)
  <2>1. m \in Coroutine /\ m.at = "gap"
    BY PipelineAssumption DEF At, Coroutine, Wait
  <2> HIDE DEF m
  <2> QED  BY <1>4, <2>1, SuspendLeaves
<1> QED  BY <1>1, <1>2, <1>3, <1>4 DEF ExecuteSubtasks

LEMMA ResultLoopLeaves ==
  ASSUME TypeOK, NEW w, Sane(w), NEW batch \in SUBSET Subtask,
         ResultLoop(w, batch) \/ ExecutionCycle(w, batch)
  PROVE  Leaves(w.mode, w.stopping)
<1>1. CASE \/ Raise(w, "PipelineStoppedError") \/ Raise(w, "WorkflowCancelledError")
           \/ Raise(w, "TokenBudgetExceeded")
  BY <1>1, RaiseLeaves DEF Exit
<1> QED  BY <1>1, ExecuteSubtasksLeaves DEF ResultLoop, ExecutionCycle

LEMMA PlanAcceptedLeaves ==
  ASSUME TypeOK, NEW w, Sane(w), NEW then, PlanAccepted(w, then)
  PROVE  Leaves(w.mode, w.stopping)
<1> DEFINE u == [w EXCEPT !.accepted = @ \cup {w.version}]
<1> DEFINE v == Save(IssueGrants(u))
<1>1. Sane(u) /\ u.mode = w.mode /\ u.stopping = w.stopping  BY DEF Sane, Task, Paid
<1>2. ResultLoop(v, Subtask) \/ ExecutionCycle(v, Open(v.results))  BY DEF PlanAccepted
<1> HIDE DEF u
<1>3. Sane(v) /\ v.mode = w.mode /\ v.stopping = w.stopping
  BY <1>1, LikeIssue, LikeSave DEF Like
<1> HIDE DEF v
<1>4. Open(v.results) \in SUBSET Subtask  BY DEF Open
<1> QED  BY <1>2, <1>3, <1>4, ResultLoopLeaves

LEMMA ReworkLeaves ==
  ASSUME TypeOK, NEW w, Sane(w), NEW targets \in SUBSET Subtask, Rework(w, targets),
         w.reworks < (IF w.mode = "background" THEN 1 ELSE MaxReplan)
  PROVE  Leaves(w.mode, w.stopping)
<1> DEFINE R == [s \in Subtask |-> IF s \in targets THEN None ELSE w.results[s]]
<1> DEFINE v == [w EXCEPT !.reworks = @ + 1, !.results = R]
<1>1. R \in [Subtask -> Result]  BY NoneIsResult DEF Sane, Task
<1>2. v = [w EXCEPT !.reworks = @ + 1,
                    !.results = [s \in Subtask |-> IF s \in targets THEN None ELSE @[s]]]
  OBVIOUS
<1>3. w.reworks + 1 \in 0 .. MaxReplan + 1
  BY PipelineAssumption DEF Sane, Task
<1>4. ExecuteSubtasks(v, targets) \/ ResultLoop(v, targets)  BY <1>2 DEF Rework
<1> HIDE DEF R
<1>5. Sane(v) /\ v.mode = w.mode /\ v.stopping = w.stopping
  BY <1>1, <1>3 DEF Sane, Task, Paid
<1> HIDE DEF v
<1> QED  BY <1>4, <1>5, ExecuteSubtasksLeaves, ResultLoopLeaves

---------------------------------------------------------------------------
(* The steps of the coroutine. *)

\* What holds of the coroutine and of run() between two steps.  A plan that is
\* being asked for has been paid for; a task is in the mode "run" until run()
\* has been left, and then nothing works on it.
Flow ==
  /\ Sane(task)
  /\ main.at \in {"refreshing", "requesting"} => task.version <= task.replans
  /\ main.at \in {"requesting", "planreview"} => main.then \in {"first", "again"}
  /\ wrap = "waiting" /\ main.at = "ended" /\ main.then = "output" => output = task.status
  /\ main.at = "escalating" => task.status = "human_required"
  /\ wrap = "escalating" => main.at = "ended" /\ task.status = "human_required"
  /\ wrap \in {"waiting", "escalating"} => task.mode = "run"
  /\ task.mode = "run" /\ wrap \in {"returned", "raised"} => main.at = "ended"

Inv == TypeOK /\ Flow /\ ClosedOnReturn

LEMMA CallsLeave ==
  ASSUME TypeOK, Flow,
         \/ AnswerTooLate \/ AnswerOverBudget \/ DeadlineInCall \/ CallFails
         \/ NetworkFails \/ PlanInvalid \/ PlanRejected
  PROVE  Leaves(task.mode, task.stopping)
<1>1. Sane(task)  BY DEF Flow
<1>2. CASE AnswerTooLate \/ AnswerOverBudget \/ DeadlineInCall \/ CallFails
  BY <1>1, <1>2, RaiseLeaves
     DEF AnswerTooLate, AnswerOverBudget, DeadlineInCall, CallFails, Exit
<1>3. CASE NetworkFails
  <2>1. CASE EscalateToHuman(task)
    BY <1>1, <2>1, EscalateLeaves
  <2>2. CASE main.nets < MaxNetwork /\ PlanHead(task, main.then, main.nets + 1)
    <3>1. main.nets \in 0 .. MaxNetwork  BY DEF TypeOK, Coroutine
    <3>2. main.nets + 1 \in 0 .. MaxNetwork  BY <2>2, <3>1, PipelineAssumption
    <3>3. task.version <= task.replans /\ main.then \in {"first", "again"}
      BY <1>3 DEF NetworkFails, Flow
    <3> QED  BY <1>1, <2>2, <3>2, <3>3, PlanHeadLeaves
  <2> QED  BY <1>3, <2>1, <2>2 DEF NetworkFails
<1>4. CASE PlanInvalid \/ PlanRejected
  <2>1. main.nets \in 0 .. MaxNetwork  BY DEF TypeOK, Coroutine
  <2>2. main.then \in {"first", "again"} /\ PlanAgain(task, main.then, main.nets)
    BY <1>4 DEF PlanInvalid, PlanRejected, Flow
  <2> QED  BY <1>1, <2>1, <2>2, PlanAgainLeaves
<1> QED  BY <1>2, <1>3, <1>4

\* The plan that is adopted has the next version, and it has been paid for.
LEMMA AdoptIsSane ==
  ASSUME NEW w, Sane(w), w.version <= w.replans, NEW R \in Reusable(w)
  PROVE  Sane(AdoptPlan(w, R)) /\ AdoptPlan(w, R).mode = w.mode /\ AdoptPlan(w, R).stopping = w.stopping
<1> DEFINE new == [s \in Subtask |-> IF s \in R THEN [w.archive[s] EXCEPT !.reused = TRUE]
                                                ELSE None]
<1>1. ASSUME NEW s \in Subtask PROVE [w.archive[s] EXCEPT !.reused = TRUE] \in Result
  <2>1. w.archive[s] \in Result  BY DEF Sane, Task
  <2> QED  BY <2>1 DEF Result
<1>2. new \in [Subtask -> Result]  BY <1>1, NoneIsResult
<1>3. w.version \in Nat /\ w.replans \in 0 .. MaxReplan /\ MaxReplan \in Nat
  BY PipelineAssumption DEF Sane, Task, Version
<1>4. w.version + 1 \in Version /\ w.version + 1 <= w.replans + 1
  BY <1>3, PipelineAssumption DEF Version
<1>5. AdoptPlan(w, R) = [w EXCEPT !.version = @ + 1, !.slots = {}, !.results = new]
  BY DEF AdoptPlan
<1> HIDE DEF new
<1> QED  BY <1>2, <1>4, <1>5 DEF Sane, Task, Paid

LEMMA PlanAdoptedLeaves ==
  ASSUME TypeOK, Flow, PlanAdopted PROVE Leaves(task.mode, task.stopping)
<1>1. PICK R \in Reusable(task) :
        \/ PlanAgain(AdoptPlan(task, R), main.then, main.nets)
        \/ PlanAccepted(AdoptPlan(task, R), main.then)
        \/ Suspend([AdoptPlan(task, R) EXCEPT !.status = "plan_review"],
                   [main EXCEPT !.at = "planreview"])
  BY DEF PlanAdopted
<1> DEFINE w == AdoptPlan(task, R)
<1>2. Sane(w) /\ w.mode = task.mode /\ w.stopping = task.stopping
  BY AdoptIsSane DEF Flow, PlanAdopted
<1>3. main.then \in {"first", "again"} /\ main.nets \in 0 .. MaxNetwork
  BY DEF Flow, PlanAdopted, TypeOK, Coroutine
<1> HIDE DEF w
<1>4. CASE PlanAgain(w, main.then, main.nets)
  <2>1. Leaves(w.mode, w.stopping)  BY <1>2, <1>3, <1>4, PlanAgainLeaves
  <2> QED  BY <1>2, <2>1
<1>5. CASE PlanAccepted(w, main.then)
  <2>1. Leaves(w.mode, w.stopping)  BY <1>2, <1>5, PlanAcceptedLeaves
  <2> QED  BY <1>2, <2>1
<1>6. CASE Suspend([w EXCEPT !.status = "plan_review"], [main EXCEPT !.at = "planreview"])
  <2> DEFINE v == [w EXCEPT !.status = "plan_review"]
  <2> DEFINE m == [main EXCEPT !.at = "planreview"]
  <2>0. Like(v, w)  BY <1>2, LikeStatus DEF Status
  <2>1. Sane(v) /\ v.mode = task.mode /\ v.stopping = task.stopping  BY <1>2, <2>0 DEF Like
  <2>2. m \in Coroutine /\ m.at = "planreview" /\ m.then \in {"first", "again"}
    BY <1>3 DEF TypeOK, Coroutine, Wait
  <2>3. Suspend(v, m)  BY <1>6
  <2> HIDE DEF v, m
  <2>4. Leaves(v.mode, v.stopping)  BY <2>1, <2>2, <2>3, SuspendLeaves
  <2> QED  BY <2>1, <2>4
<1> QED  BY <1>1, <1>4, <1>5, <1>6 DEF w

LEMMA GapSettledDone ==
  ASSUME TypeOK, Flow, GapSettled
  PROVE  \E y, F, L :
           /\ L \in SUBSET Subtask /\ Like(y, task) /\ F \in [Subtask -> Result]
           /\ \/ BatchDone([y EXCEPT !.results = F], L)
              \/ Schedule(y, main.batch \ L, L)
<1> DEFINE gaps == (main.batch \cap Tooled) \ task.ready
<1> DEFINE lacking(made) == gaps \ made
<1> DEFINE v(made) == [task EXCEPT !.ready = @ \cup made]
<1> DEFINE w(made) == IF made # {} THEN IssueGrants(v(made)) ELSE v(made)
<1> DEFINE failed(made) == [s \in Subtask |-> IF s \in lacking(made)
                              THEN Outcome(w(made), FALSE) ELSE w(made).results[s]]
<1>1. PICK made \in SUBSET gaps :
        \/ BatchDone([w(made) EXCEPT !.results = failed(made)], lacking(made))
        \/ Schedule(w(made), main.batch \ lacking(made), lacking(made))
  BY DEF GapSettled
<1> DEFINE L == lacking(made)
<1> DEFINE x == v(made)
<1> DEFINE y == w(made)
<1> DEFINE F == failed(made)
<1>2. main.batch \in SUBSET Subtask  BY DEF TypeOK, Coroutine
<1>3. L \in SUBSET Subtask /\ made \in SUBSET Subtask  BY <1>2
<1>4. Like(x, task)  BY <1>3 DEF Flow, Like, Sane, Task, Paid
<1>5. y = IF made # {} THEN IssueGrants(x) ELSE x  OBVIOUS
<1>6. F = [s \in Subtask |-> IF s \in L THEN Outcome(y, FALSE) ELSE y.results[s]]
  OBVIOUS
<1>7. BatchDone([y EXCEPT !.results = F], L) \/ Schedule(y, main.batch \ L, L)  BY <1>1
<1> HIDE DEF L, x, y, F
<1>8. Like(y, task)  BY <1>4, <1>5, LikeIssue DEF Like
<1>9. F \in [Subtask -> Result]  BY <1>6, <1>8, OutcomeIsResult DEF Like, Sane, Task
<1> QED  BY <1>3, <1>7, <1>8, <1>9

LEMMA GapSettledLeaves ==
  ASSUME TypeOK, Flow, GapSettled PROVE Leaves(task.mode, task.stopping)
<1>1. PICK y, F, L :
        /\ L \in SUBSET Subtask /\ Like(y, task) /\ F \in [Subtask -> Result]
        /\ \/ BatchDone([y EXCEPT !.results = F], L)
           \/ Schedule(y, main.batch \ L, L)
  BY GapSettledDone
<1>2. Sane(y) /\ y.mode = task.mode /\ y.stopping = task.stopping  BY <1>1 DEF Like
<1>3. CASE BatchDone([y EXCEPT !.results = F], L)
  <2> DEFINE z == [y EXCEPT !.results = F]
  <2>1. Like(z, y)  BY <1>1, <1>2, LikeResults
  <2>2. BatchDone(z, L)  BY <1>3
  <2> HIDE DEF z
  <2>3. Sane(z) /\ z.mode = task.mode /\ z.stopping = task.stopping
    BY <1>2, <2>1 DEF Like
  <2>4. Leaves(z.mode, z.stopping)  BY <2>2, <2>3, BatchDoneLeaves
  <2> QED  BY <2>3, <2>4
<1>4. CASE Schedule(y, main.batch \ L, L)
  <2>1. main.batch \ L \in SUBSET Subtask  BY DEF TypeOK, Coroutine
  <2>2. Leaves(y.mode, y.stopping)  BY <1>1, <1>2, <1>4, <2>1, ScheduleLeaves
  <2> QED  BY <1>2, <2>2
<1> QED  BY <1>1, <1>3, <1>4

LEMMA SubtaskSettledDone ==
  ASSUME TypeOK, Flow, SubtaskSettled
  PROVE  \E w : /\ Like(w, task) /\ w.grants = task.grants
                /\ \/ BatchReturns(w, main.batch, main.lacking, w.sched)
                   \/ Suspend(w, main)
<1> DEFINE u(s, ok) == [task EXCEPT !.sched[s] = Outcome(task, ok)]
<1> DEFINE v(s, ok) == Save(u(s, ok))
<1>1. main.batch \in SUBSET Subtask  BY DEF TypeOK, Coroutine
<1>2. PICK s \in main.batch, ok \in BOOLEAN :
        \/ BatchReturns(v(s, ok), main.batch, main.lacking, v(s, ok).sched)
        \/ Suspend(v(s, ok), main)
  BY DEF SubtaskSettled
<1> DEFINE x == u(s, ok)
<1> DEFINE w == v(s, ok)
<1>3. Sane(task)  BY DEF Flow
<1>4. [task.sched EXCEPT ![s] = Outcome(task, ok)] \in [Subtask -> Result]
  BY <1>3, OutcomeIsResult DEF Sane, Task
<1>5. x = [task EXCEPT !.sched = [task.sched EXCEPT ![s] = Outcome(task, ok)]]
  OBVIOUS
<1>6. w = Save(x)  OBVIOUS
<1>7. BatchReturns(w, main.batch, main.lacking, w.sched) \/ Suspend(w, main)  BY <1>2
<1> HIDE DEF x, w
<1>8. Like(x, task) /\ x.grants = task.grants
  BY <1>3, <1>4, <1>5, LikeResults DEF Sane, Task
<1>9. Like(w, task) /\ w.grants = task.grants
  BY <1>6, <1>8, LikeSave, SaveGrants DEF Like
<1> QED  BY <1>7, <1>9

LEMMA SubtaskSettledLeaves ==
  ASSUME TypeOK, Flow, SubtaskSettled PROVE Leaves(task.mode, task.stopping)
<1>1. main \in Coroutine /\ main.batch \in SUBSET Subtask /\ main.at = "scheduling"
  BY DEF SubtaskSettled, TypeOK, Coroutine
<1>2. PICK w : /\ Like(w, task)
               /\ \/ BatchReturns(w, main.batch, main.lacking, w.sched)
                  \/ Suspend(w, main)
  BY SubtaskSettledDone
<1>3. Sane(w) /\ w.mode = task.mode /\ w.stopping = task.stopping  BY <1>2 DEF Like
<1>4. CASE BatchReturns(w, main.batch, main.lacking, w.sched)
  <2>1. \A t \in main.batch : w.sched[t] \in Result  BY <1>1, <1>3 DEF Sane, Task
  <2>2. Leaves(w.mode, w.stopping)  BY <1>1, <1>3, <1>4, <2>1, BatchReturnsLeaves
  <2> QED  BY <1>3, <2>2
<1>5. CASE Suspend(w, main)
  <2>1. Leaves(w.mode, w.stopping)  BY <1>1, <1>3, <1>5, SuspendLeaves
  <2> QED  BY <1>3, <2>1
<1> QED  BY <1>2, <1>4, <1>5

\* What the scheduler hands over when it is interrupted are results.
LEMMA InterruptedIsSane ==
  ASSUME TypeOK, Flow, NEW late \in Late
  PROVE  /\ Sane(Interrupted(task, late))
         /\ Interrupted(task, late).mode = task.mode /\ Interrupted(task, late).stopping = task.stopping
<1> DEFINE R == [s \in Subtask |-> IF s \in DOMAIN late THEN late[s] ELSE task.sched[s]]
<1>1. Sane(task)  BY DEF Flow
<1>2. Outcome(task, TRUE) \in Result /\ Outcome(task, FALSE) \in Result
  BY <1>1, OutcomeIsResult
<1>3. \A s \in DOMAIN late : late[s] \in Result
  BY <1>2, NoneIsResult DEF Late
<1>4. R \in [Subtask -> Result]  BY <1>1, <1>3 DEF Sane, Task
<1>5. Interrupted(task, late) = [task EXCEPT !.sched = R]  BY DEF Interrupted
<1> HIDE DEF R
<1>6. Like(Interrupted(task, late), task)  BY <1>1, <1>4, <1>5, LikeResults
<1> QED  BY <1>6 DEF Like

LEMMA BatchInterruptedLeaves ==
  ASSUME TypeOK, Flow, BatchInterrupted PROVE Leaves(task.mode, task.stopping)
<1>1. PICK late \in Late : \E e \in Exit \ {"output"} : Raise(Interrupted(task, late), e)
  BY DEF BatchInterrupted, Exit
<1> DEFINE w == Interrupted(task, late)
<1>2. Sane(w) /\ w.mode = task.mode /\ w.stopping = task.stopping  BY InterruptedIsSane
<1>3. PICK e \in Exit \ {"output"} : Raise(w, e)  BY <1>1
<1> HIDE DEF w
<1>4. Leaves(w.mode, w.stopping)  BY <1>2, <1>3, RaiseLeaves
<1> QED  BY <1>2, <1>4

LEMMA ReviewLeaves ==
  ASSUME TypeOK, Flow, Aggregated \/ ResultPasses \/ ResultRejected \/ Refreshed
  PROVE  Leaves(task.mode, task.stopping)
<1>1. Sane(task)  BY DEF Flow
<1>2. CASE Aggregated
  BY <1>1, <1>2, AfterAggregationLeaves DEF Aggregated
<1>3. CASE Raise(task, "WorkflowCancelledError")
  BY <1>1, <1>3, RaiseLeaves DEF Exit
<1>4. CASE ResultPasses /\ ~Raise(task, "WorkflowCancelledError")
  <2> DEFINE w == [task EXCEPT !.judged = task.results]
  <2>1. Return(w, "completed")  BY <1>4 DEF ResultPasses
  <2>2. Sane(w) /\ w.mode = task.mode /\ w.stopping = task.stopping
    BY <1>1 DEF Sane, Task, Paid
  <2> HIDE DEF w
  <2>3. Leaves(w.mode, w.stopping)  BY <2>1, <2>2, ReturnLeaves DEF Status
  <2> QED  BY <2>2, <2>3
<1>5. CASE ResultRejected /\ ~Raise(task, "WorkflowCancelledError")
  <2>1. PICK targets \in {{s} : s \in Subtask} \cup {Failed(task.results)} :
          \/ EscalateToHuman(task)
          \/ /\ ~(task.reworks >= (IF task.mode = "background" THEN 1 ELSE MaxReplan))
             /\ Rework(task, targets)
    BY <1>5 DEF ResultRejected
  <2>2. targets \in SUBSET Subtask  BY DEF Failed
  <2>3. CASE EscalateToHuman(task)
    BY <1>1, <2>3, EscalateLeaves
  <2>4. CASE /\ ~(task.reworks >= (IF task.mode = "background" THEN 1 ELSE MaxReplan))
             /\ Rework(task, targets)
    <3>1. task.reworks < (IF task.mode = "background" THEN 1 ELSE MaxReplan)
      BY <1>1, <2>4, PipelineAssumption DEF Sane, Task
    <3> QED  BY <1>1, <2>2, <2>4, <3>1, ReworkLeaves
  <2> QED  BY <2>1, <2>3, <2>4
<1>6. CASE Refreshed
  BY <1>1, <1>6, PlanAndReviewLeaves DEF Refreshed, Flow
<1> QED  BY <1>2, <1>3, <1>4, <1>5, <1>6

LEMMA NotifiedLeaves ==
  ASSUME TypeOK, Flow, Notified PROVE Leaves(task.mode, task.stopping)
<1>1. /\ At("ended", "output") \in Coroutine /\ At("ended", "output").at = "ended"
      /\ At("ended", "output").then = "output"
  BY AtIsCoroutine DEF Exit
<1> QED  BY <1>1 DEF Notified, Leaves, Flow, Status

LEMMA PlanPassesLeaves == ASSUME TypeOK, Flow, PlanPasses
  PROVE  Leaves(task.mode, task.stopping)
<1>1. Sane(task)  BY DEF Flow
<1>2. CASE PlanAccepted(task, main.then)
  BY <1>1, <1>2, PlanAcceptedLeaves
<1>3. CASE Raise(task, "PipelineStoppedError")
  BY <1>1, <1>3, RaiseLeaves DEF Exit
<1> QED  BY <1>2, <1>3 DEF PlanPasses

\* Whatever the coroutine does next, it leaves behind what Leaves says.
LEMMA MainLeaves == ASSUME TypeOK, Flow, MainStep PROVE Leaves(task.mode, task.stopping)
  BY CallsLeave, PlanAdoptedLeaves, GapSettledLeaves, SubtaskSettledLeaves,
     BatchInterruptedLeaves, ReviewLeaves, NotifiedLeaves, PlanPassesLeaves DEF MainStep

---------------------------------------------------------------------------
(* The invariant. *)

LEMMA MainKeeps == ASSUME Inv, MainStep PROVE Inv'
<1>1. Leaves(task.mode, task.stopping)  BY MainLeaves DEF Inv
<1>2. UNCHANGED <<wrap, watch, cancelled, spent, resumes, config, deps>>  BY DEF MainStep
<1>3. main.at # "ended"
  BY DEF MainStep, Refreshed, AnswerTooLate, AnswerOverBudget, DeadlineInCall, CallFails,
         NetworkFails, PlanInvalid, PlanAdopted, PlanPasses, PlanRejected, GapSettled,
         SubtaskSettled, BatchInterrupted, Aggregated, ResultPasses, ResultRejected, Notified
<1>4. TypeOK'  BY <1>1, <1>2 DEF Inv, TypeOK, Leaves, Sane
<1>5. Flow'  BY <1>1, <1>2, <1>3 DEF Inv, Flow, Leaves, TypeOK
<1>6. ClosedOnReturn'  BY <1>1, <1>2, <1>3 DEF Inv, Flow, ClosedOnReturn, Leaves, TypeOK
<1> QED  BY <1>4, <1>5, <1>6 DEF Inv

\* run() is left with the gate stopped, no grant live and the status it returns.
LEMMA FinishCloses ==
  ASSUME Inv, NEW w, Sane(w), NEW s, NEW how \in {"returned", "raised"}, Finish(w, s, how),
         s \in Status \cup {"none"},
         how = "returned" => s = w.status, how = "raised" => w.status = "cancelled",
         main' \in Coroutine, main'.at = "ended", watch' \in {"off", "watching", "fired"},
         UNCHANGED <<cancelled, spent, resumes, config, deps>>
  PROVE  Inv'
<1> DEFINE u == [w EXCEPT !.stopping = TRUE]
<1>1. Sane(u) /\ u.stopping /\ u.status = w.status  BY DEF Sane, Task, Paid
<1>2. task' = [u EXCEPT !.grants = {}]  BY DEF Finish, RevokeGrants
<1>3. wrap' = how /\ output' = s  BY DEF Finish
<1> HIDE DEF u
<1>4. Sane(task') /\ task'.stopping /\ task'.grants = {} /\ task'.status = w.status
  BY <1>1, <1>2 DEF Sane, Task, Paid
<1>5. TypeOK'  BY <1>3, <1>4 DEF Inv, TypeOK, Sane
<1>6. Flow'  BY <1>3, <1>4 DEF Flow
<1>7. ClosedOnReturn'  BY <1>3, <1>4 DEF ClosedOnReturn
<1> QED  BY <1>5, <1>6, <1>7 DEF Inv

\* run() stops the gate and hands the task to a human.
LEMMA RunEscalatesKeeps ==
  ASSUME Inv, NEW w, Sane(w), w.mode = "run", RunEscalates(w),
         main' \in Coroutine, main'.at = "ended", watch' \in {"off", "watching", "fired"},
         UNCHANGED <<cancelled, spent, resumes, config, deps>>
  PROVE  Inv'
<1> DEFINE u == [w EXCEPT !.stopping = TRUE, !.status = "human_required", !.escalated = TRUE]
<1>1. Sane(u) /\ u.mode = "run" /\ u.status = "human_required"
  BY DEF Sane, Task, Paid, Status
<1>2. task' = Save(u) /\ wrap' = "escalating" /\ output' = output  BY DEF RunEscalates
<1> HIDE DEF u
<1>3. Sane(task') /\ task'.mode = "run" /\ task'.status = "human_required"
  BY <1>1, <1>2, LikeSave DEF Like
<1>4. TypeOK'  BY <1>2, <1>3 DEF Inv, TypeOK, Sane
<1>5. Flow'  BY <1>2, <1>3 DEF Flow
<1>6. ClosedOnReturn'  BY <1>2 DEF ClosedOnReturn
<1> QED  BY <1>4, <1>5, <1>6 DEF Inv

LEMMA MainEndsKeeps == ASSUME Inv, MainEnds PROVE Inv'
<1>1. /\ Sane(task) /\ wrap = "waiting" /\ main.at = "ended" /\ watch' = "off"
      /\ UNCHANGED <<main, cancelled, spent, resumes, config, deps>>
      /\ main \in Coroutine /\ output \in Status \cup {"none"} /\ task.mode = "run"
  BY DEF Inv, Flow, TypeOK, MainEnds
<1>2. CASE main.then = "output" /\ Finish(task, output, "returned")
  <2>1. output = task.status  BY <1>1, <1>2 DEF Inv, Flow
  <2> QED  BY <1>1, <1>2, <2>1, FinishCloses
<1>3. CASE RunEscalates(task)
  BY <1>1, <1>3, RunEscalatesKeeps
<1>4. CASE Finish([Save([task EXCEPT !.stopping = TRUE]) EXCEPT !.status = "cancelled"],
                  "cancelled", "returned")
  <2> DEFINE u == [task EXCEPT !.stopping = TRUE]
  <2> DEFINE v == Save(u)
  <2> DEFINE w == [v EXCEPT !.status = "cancelled"]
  <2>1. Sane(u)  BY <1>1 DEF Sane, Task, Paid
  <2>2. Finish(w, "cancelled", "returned")  BY <1>4
  <2> HIDE DEF u
  <2>3. Sane(v)  BY <2>1, LikeSave DEF Like
  <2> HIDE DEF v
  <2>4. Sane(w) /\ w.status = "cancelled"  BY <2>3, LikeStatus DEF Like, Status
  <2> HIDE DEF w
  <2> QED  BY <1>1, <2>2, <2>4, FinishCloses DEF Status
<1>5. ASSUME NEW s \in {"cancelled", "failed"},
             Finish([task EXCEPT !.status = s], s, "returned")
      PROVE  Inv'
  <2> DEFINE w == [task EXCEPT !.status = s]
  <2>1. s \in Status  BY DEF Status
  <2>2. Sane(w) /\ w.status = s  BY <1>1, <2>1, LikeStatus DEF Like
  <2>3. Finish(w, s, "returned")  BY <1>5
  <2> HIDE DEF w
  <2> QED  BY <1>1, <2>1, <2>2, <2>3, FinishCloses
<1> QED  BY <1>2, <1>3, <1>4, <1>5 DEF MainEnds

LEMMA CutShortKeeps ==
  ASSUME Inv, wrap = "waiting", NEW late \in Late, RunEscalates(Interrupted(task, late)),
         main' = At("ended", "CancelledError"), watch' \in {"off", "watching", "fired"},
         UNCHANGED <<cancelled, spent, resumes, config, deps>>
  PROVE  Inv'
<1> DEFINE w == Interrupted(task, late)
<1>1. Sane(w) /\ w.mode = "run"  BY InterruptedIsSane DEF Inv, Flow
<1>2. RunEscalates(w)  OBVIOUS
<1> HIDE DEF w
<1>3. main' \in Coroutine /\ main'.at = "ended"  BY AtIsCoroutine DEF Exit
<1> QED  BY <1>1, <1>2, <1>3, RunEscalatesKeeps

LEMMA RunStepKeeps == ASSUME Inv, RunStep PROVE Inv'
<1>1. Sane(task) /\ main \in Coroutine  BY DEF Inv, Flow, TypeOK
<1>2. CASE Stall
  BY <1>2, CutShortKeeps DEF Stall
<1>3. CASE RunNotified
  BY <1>1, <1>3, FinishCloses DEF RunNotified, Inv, Flow, TypeOK, Status
<1> QED  BY <1>2, <1>3, MainEndsKeeps DEF RunStep

LEMMA TaskCancelledKeeps == ASSUME Inv, TaskCancelled PROVE Inv'
<1>1. PICK late \in Late :
        Finish([Save([Interrupted(task, late) EXCEPT !.stopping = TRUE])
                  EXCEPT !.status = "cancelled"], "none", "raised")
  BY DEF TaskCancelled
<1> DEFINE i == Interrupted(task, late)
<1> DEFINE u == [i EXCEPT !.stopping = TRUE]
<1> DEFINE v == Save(u)
<1> DEFINE w == [v EXCEPT !.status = "cancelled"]
<1>2. Sane(i)  BY InterruptedIsSane DEF Inv
<1>3. Finish(w, "none", "raised")  BY <1>1
<1> HIDE DEF i
<1>4. Sane(u)  BY <1>2 DEF Sane, Task, Paid
<1> HIDE DEF u
<1>5. Sane(v)  BY <1>4, LikeSave DEF Like
<1> HIDE DEF v
<1>6. Sane(w) /\ w.status = "cancelled"  BY <1>5, LikeStatus DEF Like, Status
<1> HIDE DEF w
<1>7. main' \in Coroutine /\ main'.at = "ended"  BY AtIsCoroutine DEF TaskCancelled, Exit
<1> QED  BY <1>3, <1>6, <1>7, FinishCloses DEF TaskCancelled

\* cancel() and the watchdog stop the gate, and nothing else.
LEMMA StopKeeps == ASSUME Inv, Cancel \/ WatchdogFires PROVE Inv'
<1>1. /\ task' = [task EXCEPT !.stopping = TRUE]
      /\ UNCHANGED <<main, wrap, output, spent, resumes, config, deps>>
      /\ cancelled' \in BOOLEAN /\ watch' \in {"off", "watching", "fired"}
  BY DEF Cancel, WatchdogFires, Inv, TypeOK
<1>2. /\ Sane(task') /\ task'.mode = task.mode /\ task'.status = task.status
      /\ task'.version = task.version /\ task'.replans = task.replans
      /\ task'.grants = task.grants /\ task'.stopping
  BY <1>1 DEF Inv, Flow, Sane, Task, Paid
<1>3. TypeOK'  BY <1>1, <1>2 DEF Inv, TypeOK, Sane
<1>4. Flow'  BY <1>1, <1>2 DEF Inv, Flow
<1>5. ClosedOnReturn'  BY <1>1, <1>2 DEF Inv, ClosedOnReturn
<1> QED  BY <1>3, <1>4, <1>5 DEF Inv

LEMMA SpendKeeps == ASSUME Inv, Spend PROVE Inv'
  BY DEF Inv, Spend, TypeOK, Flow, ClosedOnReturn

\* After run() a review or a resumption may work on the task.
LEMMA LaterKeeps ==
  ASSUME Inv, NEW m, m # "run", NEW s, Leaves(m, s), wrap \in {"returned", "raised"},
         resumes' \in 0 .. MaxResumes,
         UNCHANGED <<wrap, watch, cancelled, spent, config, deps>>
  PROVE  Inv'
<1>1. TypeOK'  BY DEF Inv, TypeOK, Leaves, Sane
<1>2. Flow'  BY DEF Flow, Leaves
<1>3. ClosedOnReturn'  BY DEF ClosedOnReturn, Leaves
<1> QED  BY <1>1, <1>2, <1>3 DEF Inv

LEMMA StartBackgroundReviewLeaves ==
  ASSUME Inv, StartBackgroundReview PROVE Leaves("background", FALSE)
<1> DEFINE w == [task EXCEPT !.mode = "background", !.provisional = TRUE,
                             !.stopping = FALSE]
<1> DEFINE v == [w EXCEPT !.status = "result_review"]
<1>1. Sane(w) /\ w.mode = "background" /\ w.stopping = FALSE
  BY DEF Inv, Flow, Sane, Task, Paid
<1>2. Raise(w, "WorkflowCancelledError") \/ Suspend(v, At("reviewing", "review"))
  BY DEF StartBackgroundReview
<1> HIDE DEF w
<1>3. Sane(v) /\ v.mode = "background" /\ v.stopping = FALSE
  BY <1>1, LikeStatus DEF Like, Status
<1> HIDE DEF v
<1>4. CASE Raise(w, "WorkflowCancelledError")
  <2>1. Leaves(w.mode, w.stopping)  BY <1>1, <1>4, RaiseLeaves DEF Inv, Exit
  <2> QED  BY <1>1, <2>1
<1>5. CASE Suspend(v, At("reviewing", "review"))
  <2>1. /\ At("reviewing", "review") \in Coroutine
        /\ At("reviewing", "review").at = "reviewing"
    BY AtIsCoroutine DEF Wait
  <2>2. Leaves(v.mode, v.stopping)  BY <1>3, <1>5, <2>1, SuspendLeaves DEF Inv
  <2> QED  BY <1>3, <2>2
<1> QED  BY <1>2, <1>4, <1>5

LEMMA ResumeWithGuidanceLeaves ==
  ASSUME Inv, ResumeWithGuidance PROVE Leaves("resume", FALSE)
<1> DEFINE R(A) == [s \in Subtask |-> IF s \in A THEN None ELSE task.results[s]]
<1> DEFINE w(A) == [task EXCEPT !.mode = "resume", !.stopping = FALSE, !.escalated = FALSE,
                                !.status = "executing", !.results = R(A)]
<1>1. \A targets : GuidanceAffected(task, targets) \in SUBSET Subtask
  BY DEF GuidanceAffected, Closure
<1>2. PICK A \in SUBSET Subtask : ResultLoop(w(A), A)
  BY <1>1 DEF ResumeWithGuidance
<1>3. Sane(task)  BY DEF Inv, Flow
<1>4. R(A) \in [Subtask -> Result]  BY <1>3, NoneIsResult DEF Sane, Task
<1> DEFINE r == R(A)
<1> DEFINE v == w(A)
<1>5. v = [task EXCEPT !.mode = "resume", !.stopping = FALSE, !.escalated = FALSE,
                       !.status = "executing", !.results = r]
  OBVIOUS
<1>6. r \in [Subtask -> Result] /\ ResultLoop(v, A)  BY <1>2, <1>4
<1> HIDE DEF r, v
<1>7. Sane(v) /\ v.mode = "resume" /\ v.stopping = FALSE
  BY <1>3, <1>5, <1>6 DEF Sane, Task, Paid, Status
<1>8. Leaves(v.mode, v.stopping)  BY <1>6, <1>7, ResultLoopLeaves DEF Inv
<1> QED  BY <1>7, <1>8

LEMMA LaterStepKeeps ==
  ASSUME Inv, StartBackgroundReview \/ ResumeWithGuidance PROVE Inv'
<1> DEFINE more == resumes' = resumes + 1 /\ resumes < MaxResumes
<1>0. ~Running /\ (resumes' = resumes \/ more)
  BY DEF StartBackgroundReview, ResumeWithGuidance
<1>1. wrap \in {"returned", "raised"} /\ resumes' \in 0 .. MaxResumes
  BY <1>0, PipelineAssumption DEF Running, Inv, TypeOK
<1>2. /\ wrap \in {"returned", "raised"}
      /\ UNCHANGED <<wrap, watch, cancelled, spent, config, deps>>
  BY <1>1 DEF StartBackgroundReview, ResumeWithGuidance
<1>3. CASE StartBackgroundReview
  <2>1. Leaves("background", FALSE)  BY <1>3, StartBackgroundReviewLeaves
  <2> QED  BY <1>1, <1>2, <2>1, LaterKeeps
<1>4. CASE ResumeWithGuidance
  <2>1. Leaves("resume", FALSE)  BY <1>4, ResumeWithGuidanceLeaves
  <2> QED  BY <1>1, <1>2, <2>1, LaterKeeps
<1> QED  BY <1>3, <1>4

LEMMA RestoreKeeps == ASSUME Inv, Restore PROVE Inv'
<1>1. PICK c \in task.saved :
        task' = [mode |-> "resume", status |-> c.status, version |-> c.version,
                 replans |-> c.replans, reworks |-> c.reworks, results |-> c.results,
                 sched |-> NoResults, archived |-> c.archived, archive |-> c.archive,
                 slots |-> c.slots, grants |-> {}, ready |-> task.ready,
                 stopping |-> FALSE, escalated |-> c.escalated, restored |-> TRUE,
                 provisional |-> FALSE, saved |-> task.saved, accepted |-> c.accepted,
                 judged |-> NoResults]
  BY DEF Restore
<1>2. Sane(task)  BY DEF Inv, Flow
<1>3. c \in Checkpoint /\ Paid(c)  BY <1>2 DEF Sane, Task
<1>4. task' \in Task  BY <1>1, <1>2, <1>3, NoneIsResult DEF Sane, Task, Checkpoint
<1>5. Sane(task') /\ task'.mode = "resume"  BY <1>1, <1>2, <1>3, <1>4 DEF Sane, Paid
<1>6. main' \in Coroutine /\ main'.at = "ended" /\ wrap' = "raised"
  BY AtIsCoroutine DEF Restore, Exit
<1>7. TypeOK'  BY <1>5, <1>6 DEF Inv, TypeOK, Restore, Sane
<1>8. Flow'  BY <1>5, <1>6 DEF Flow
<1>9. ClosedOnReturn'  BY <1>5 DEF ClosedOnReturn
<1> QED  BY <1>7, <1>8, <1>9 DEF Inv

LEMMA DeleteCheckpointKeeps == ASSUME Inv, DeleteCheckpoint PROVE Inv'
<1>1. /\ Sane(task') /\ task'.mode = task.mode /\ task'.status = task.status
      /\ task'.version = task.version /\ task'.replans = task.replans
      /\ task'.grants = task.grants /\ task'.stopping = task.stopping
  BY DEF DeleteCheckpoint, Inv, Flow, Sane, Task, Paid
<1>2. UNCHANGED <<main, wrap, watch, output, cancelled, spent, resumes, config, deps>>
  BY DEF DeleteCheckpoint
<1>3. TypeOK'  BY <1>1, <1>2 DEF Inv, TypeOK, Sane
<1>4. Flow'  BY <1>1, <1>2 DEF Inv, Flow
<1>5. ClosedOnReturn'  BY <1>1, <1>2 DEF Inv, ClosedOnReturn
<1> QED  BY <1>3, <1>4, <1>5 DEF Inv

LEMMA InitEstablishes == ASSUME Init PROVE Inv
<1>1. 0 \in Version /\ 0 \in 0 .. MaxReplan /\ 0 \in 0 .. MaxReplan + 1
      /\ 0 \in 0 .. MaxResumes
  BY PipelineAssumption DEF Version
<1>2. task \in Task
  BY <1>1, NoneIsResult, PipelineAssumption DEF Init, Task, Status
<1>3. Sane(task)  BY <1>2 DEF Init, Sane, Paid
<1>4. main \in Coroutine /\ main.at = "refreshing"  BY AtIsCoroutine DEF Init, Wait
<1>5. TypeOK  BY <1>1, <1>2, <1>4 DEF Init, TypeOK
<1>6. Flow  BY <1>3, <1>4 DEF Init, Flow
<1>7. ClosedOnReturn  BY DEF Init, ClosedOnReturn
<1> QED  BY <1>5, <1>6, <1>7 DEF Inv

LEMMA NextKeeps == ASSUME Inv, [Next]_vars PROVE Inv'
<1>1. CASE UNCHANGED vars
  BY <1>1 DEF vars, Inv, TypeOK, Flow, ClosedOnReturn
<1>2. CASE Timeout
  BY <1>2, CutShortKeeps DEF Timeout
<1> QED
  BY <1>1, <1>2, MainKeeps, RunStepKeeps, TaskCancelledKeeps, StopKeeps, SpendKeeps,
     LaterStepKeeps, RestoreKeeps, DeleteCheckpointKeeps
  DEF Next

LEMMA InvAlways == Spec => []Inv
<1>1. Init => Inv  BY InitEstablishes
<1>2. Inv /\ [Next]_vars => Inv'  BY NextKeeps
<1> QED  BY <1>1, <1>2, PTL DEF Spec

\* Every state of a task has its type: no counter passes its limit, and the
\* checkpoint and the engine hold versions and results of the plans adopted.
THEOREM TypeCorrect == Spec => []TypeOK
<1>1. Inv => TypeOK  BY DEF Inv
<1> QED  BY <1>1, InvAlways, PTL

\* However run() is left, for every plan, quota and configuration, the gate of
\* the task is stopped, its grants are gone, and the output is its status.
THEOREM RunCloses == Spec => []ClosedOnReturn
<1>1. Inv => ClosedOnReturn  BY DEF Inv
<1> QED  BY <1>1, InvAlways, PTL

---------------------------------------------------------------------------
(* After a stop. *)

\* What is left to do for a coroutine that meets the stopped gate.
Halts(w) ==
  /\ task'.version = w.version /\ task'.grants \subseteq w.grants
  /\ main'.at \notin {"requesting", "scheduling", "aggregating"}

LEMMA EndsHalt ==
  ASSUME NEW w, Sane(w),
         \/ \E s \in Status : Return(w, s)
         \/ EscalateToHuman(w)
         \/ \E e : Raise(w, e)
         \/ \E then : AfterAggregation(w, then)
  PROVE  Halts(w)
<1>1. ASSUME NEW s, Return(w, s) PROVE Halts(w)
  BY <1>1 DEF Return, At, Halts, Sane, Task
<1>2. ASSUME EscalateToHuman(w) PROVE Halts(w)
  <2> DEFINE u == [w EXCEPT !.status = "human_required", !.escalated = TRUE]
  <2>1. Sane(u) /\ u.version = w.version /\ u.grants = w.grants
    BY DEF Sane, Task, Paid, Status
  <2>2. task' = Save(u) /\ main' = At("escalating", "review")
    BY <1>2 DEF EscalateToHuman, Suspend
  <2> HIDE DEF u
  <2> QED  BY <2>1, <2>2, SaveGrants, LikeSave DEF Halts, At, Like
<1>3. ASSUME NEW e, Raise(w, e) PROVE Halts(w)
  <2>1. CASE Suspend(w, At("ended", e))  BY <2>1 DEF Suspend, At, Halts
  <2> QED  BY <1>1, <1>2, <1>3, <2>1 DEF Raise
<1>4. ASSUME NEW then, AfterAggregation(w, then) PROVE Halts(w)
  <2>1. CASE Suspend([w EXCEPT !.status = "result_review"], At("reviewing", then))
    BY <2>1 DEF Suspend, At, Halts, Sane, Task
  <2>2. CASE Suspend(w, At("reviewing", then))
    BY <2>2 DEF Suspend, At, Halts
  <2> QED  BY <1>1, <1>4, <2>1, <2>2 DEF AfterAggregation
<1> QED  BY <1>1, <1>2, <1>3, <1>4

LEMMA AggregateHalts ==
  ASSUME NEW w, Sane(w), w.stopping, NEW then, AggregateResults(w, then) PROVE Halts(w)
<1> DEFINE v == IF then = "confirm" THEN w ELSE [w EXCEPT !.status = "aggregating"]
<1>1. Sane(v) /\ v.stopping /\ v.version = w.version /\ v.grants = w.grants
  BY DEF Sane, Task, Paid, Status
<1>2. AfterAggregation(v, then) \/ GateOpen(v) \/ Raise(v, "PipelineStoppedError")
  BY DEF AggregateResults
<1> HIDE DEF v
<1>3. Halts(v)  BY <1>1, <1>2, EndsHalt DEF GateOpen
<1> QED  BY <1>1, <1>3 DEF Halts

LEMMA PlanningHalts ==
  ASSUME NEW w, Sane(w), w.stopping, NEW then, NEW nets,
         PlanHead(w, then, nets) \/ PlanAndReview(w, then) \/ PlanAgain(w, then, nets)
  PROVE  Halts(w)
<1>1. ASSUME NEW v, Sane(v), v.stopping, NEW n, PlanHead(v, then, n) PROVE Halts(v)
  BY <1>1, EndsHalt DEF PlanHead, GateOpen
<1>2. CASE PlanAndReview(w, then)
  <2> DEFINE v == IF w.version > 0
                    THEN [w EXCEPT !.archived = w.version, !.archive = Archived(w)] ELSE w
  <2>1. Archived(w) \in [Subtask -> Result]  BY DEF Archived, Sane, Task
  <2>2. w.version \in Version  BY DEF Sane, Task
  <2>3. Sane(v) /\ v.stopping /\ v.version = w.version /\ v.grants = w.grants
    BY <2>1, <2>2 DEF Sane, Task, Paid
  <2>4. PlanHead(v, then, 0)  BY <1>2 DEF PlanAndReview
  <2> HIDE DEF v
  <2>5. Halts(v)  BY <1>1, <2>3, <2>4
  <2> QED  BY <2>3, <2>5 DEF Halts
<1>3. CASE PlanAgain(w, then, nets)
  <2>1. CASE EscalateToHuman(w)  BY <2>1, EndsHalt
  <2>2. CASE QuotaLeft(w) /\ PlanHead([w EXCEPT !.replans = @ + 1], then, nets)
    <3> DEFINE v == [w EXCEPT !.replans = @ + 1]
    <3>1. v = [w EXCEPT !.status = w.status, !.replans = @ + 1] /\ w.status \in Status
      BY DEF Sane, Task
    <3>2. Sane(v)  BY <2>2, <3>1, QuotaPays
    <3>3. v.stopping /\ v.version = w.version /\ v.grants = w.grants  BY DEF Sane, Task
    <3>4. PlanHead(v, then, nets)  BY <2>2
    <3> HIDE DEF v
    <3>5. Halts(v)  BY <1>1, <3>2, <3>3, <3>4
    <3> QED  BY <3>3, <3>5 DEF Halts
  <2> QED  BY <1>3, <2>1, <2>2 DEF PlanAgain
<1> QED  BY <1>1, <1>2, <1>3

LEMMA BatchDoneHalts ==
  ASSUME NEW w, Sane(w), w.stopping, NEW failed, BatchDone(w, failed) PROVE Halts(w)
<1>1. CASE AggregateResults(w, "confirm") \/ DeliverResults(w)
  <2>1. CASE Return(w, "completed")  BY <2>1, EndsHalt DEF Status
  <2>2. ASSUME NEW then, AggregateResults(w, then) PROVE Halts(w)
    BY <2>2, AggregateHalts
  <2> QED  BY <1>1, <2>1, <2>2 DEF DeliverResults
<1>2. CASE EscalateToHuman(w)
  BY <1>2, EndsHalt
<1>3. CASE QuotaLeft(w)
           /\ PlanAndReview([w EXCEPT !.status = "replanning", !.replans = @ + 1], "again")
  <2> DEFINE v == [w EXCEPT !.status = "replanning", !.replans = @ + 1]
  <2>1. Sane(v)  BY <1>3, QuotaPays DEF Status
  <2>2. v.stopping /\ v.version = w.version /\ v.grants = w.grants  BY DEF Sane, Task
  <2>3. PlanAndReview(v, "again")  BY <1>3
  <2> HIDE DEF v
  <2>4. Halts(v)  BY <2>1, <2>2, <2>3, PlanningHalts
  <2> QED  BY <2>2, <2>4 DEF Halts
<1>4. CASE EscalateToHuman([w EXCEPT !.status = "decomposition_issue"])
  <2> DEFINE v == [w EXCEPT !.status = "decomposition_issue"]
  <2>1. Sane(v) /\ v.version = w.version /\ v.grants = w.grants
    BY DEF Sane, Task, Paid, Status
  <2>2. EscalateToHuman(v)  BY <1>4
  <2> HIDE DEF v
  <2>3. Halts(v)  BY <2>1, <2>2, EndsHalt
  <2> QED  BY <2>1, <2>3 DEF Halts
<1> QED  BY <1>1, <1>2, <1>3, <1>4 DEF BatchDone

LEMMA BatchReturnsHalts ==
  ASSUME NEW w, Sane(w), w.stopping, NEW batch \in SUBSET Subtask, NEW lacking,
         NEW outcome, \A s \in batch : outcome[s] \in Result,
         BatchReturns(w, batch, lacking, outcome)
  PROVE  Halts(w)
<1>1. PICK x, failed : /\ BatchDone(x, failed)
                       /\ Like(x, w) /\ x.grants \subseteq w.grants
  BY BatchReturnsDone
<1>2. Sane(x) /\ x.stopping /\ x.version = w.version  BY <1>1 DEF Like
<1>3. Halts(x)  BY <1>1, <1>2, BatchDoneHalts
<1> QED  BY <1>1, <1>2, <1>3 DEF Halts

LEMMA ExecutionHalts ==
  ASSUME NEW w, Sane(w), w.stopping, NEW batch,
         \/ ExecuteSubtasks(w, batch) \/ ExecutionCycle(w, batch) \/ ResultLoop(w, batch)
  PROVE  Halts(w)
<1>1. \E e : Raise(w, e)
  BY DEF ExecuteSubtasks, ExecutionCycle, ResultLoop, GateOpen
<1> QED  BY <1>1, EndsHalt

LEMMA ReworkHalts ==
  ASSUME NEW w, Sane(w), w.stopping, NEW targets \in SUBSET Subtask, Rework(w, targets),
         w.reworks < (IF w.mode = "background" THEN 1 ELSE MaxReplan)
  PROVE  Halts(w)
<1> DEFINE R == [s \in Subtask |-> IF s \in targets THEN None ELSE w.results[s]]
<1> DEFINE v == [w EXCEPT !.reworks = @ + 1, !.results = R]
<1>1. R \in [Subtask -> Result]  BY NoneIsResult DEF Sane, Task
<1>2. v = [w EXCEPT !.reworks = @ + 1,
                    !.results = [s \in Subtask |-> IF s \in targets THEN None ELSE @[s]]]
  OBVIOUS
<1>3. w.reworks + 1 \in 0 .. MaxReplan + 1
  BY PipelineAssumption DEF Sane, Task
<1>4. ExecuteSubtasks(v, targets) \/ ResultLoop(v, targets)  BY <1>2 DEF Rework
<1> HIDE DEF R
<1>5. Sane(v)  BY <1>1, <1>3 DEF Sane, Task, Paid
<1>6. v.stopping /\ v.version = w.version /\ v.grants = w.grants  BY DEF Sane, Task
<1> HIDE DEF v
<1>7. Halts(v)  BY <1>4, <1>5, <1>6, ExecutionHalts
<1> QED  BY <1>6, <1>7 DEF Halts

LEMMA ScheduleHalts ==
  ASSUME NEW w, Sane(w), w.stopping, NEW batch \in SUBSET Subtask, NEW lacking,
         Schedule(w, batch, lacking)
  PROVE  /\ task'.version = w.version
         /\ main'.at \notin {"requesting", "scheduling", "aggregating"}
<1> DEFINE x == [w EXCEPT !.status = "executing"]
<1> DEFINE u == EnsureBatchGrants(x, batch)
<1> DEFINE v == [u EXCEPT !.sched = NoResults]
<1>1. Like(x, w)  BY LikeStatus DEF Status
<1>2. \/ BatchReturns(u, batch, lacking, [s \in batch |-> Outcome(u, FALSE)])
      \/ GateOpen(v) \/ \E e : Raise(v, e)
  BY DEF Schedule
<1> HIDE DEF x
<1>3. Like(u, x)  BY <1>1, LikeEnsure DEF Like
<1> HIDE DEF u
<1>4. Sane(u) /\ u.stopping /\ u.version = w.version  BY <1>1, <1>3 DEF Like
<1>5. Sane(v) /\ v.stopping /\ v.version = w.version
  BY <1>4, NoneIsResult, LikeResults DEF Like
<1> HIDE DEF v
<1>6. CASE BatchReturns(u, batch, lacking, [s \in batch |-> Outcome(u, FALSE)])
  <2>1. \A s \in batch : [t \in batch |-> Outcome(u, FALSE)][s] \in Result
    BY <1>4, OutcomeIsResult
  <2>2. Halts(u)  BY <1>4, <1>6, <2>1, BatchReturnsHalts
  <2> QED  BY <1>4, <2>2 DEF Halts
<1>7. CASE \E e : Raise(v, e)
  <2>1. Halts(v)  BY <1>5, <1>7, EndsHalt
  <2> QED  BY <1>5, <2>1 DEF Halts
<1> QED  BY <1>2, <1>5, <1>6, <1>7 DEF GateOpen

LEMMA SubtaskSettledHalts ==
  ASSUME TypeOK, Flow, SubtaskSettled, task.stopping
  PROVE  \/ Halts(task)
         \/ main' = main /\ task'.version = task.version /\ task'.grants = task.grants
<1>1. main.batch \in SUBSET Subtask  BY DEF TypeOK, Coroutine
<1>2. PICK w : /\ Like(w, task) /\ w.grants = task.grants
               /\ \/ BatchReturns(w, main.batch, main.lacking, w.sched)
                  \/ Suspend(w, main)
  BY SubtaskSettledDone
<1>3. Sane(w) /\ w.stopping /\ w.version = task.version  BY <1>2 DEF Like
<1>4. CASE BatchReturns(w, main.batch, main.lacking, w.sched)
  <2>1. \A t \in main.batch : w.sched[t] \in Result  BY <1>1, <1>3 DEF Sane, Task
  <2>2. Halts(w)  BY <1>1, <1>3, <1>4, <2>1, BatchReturnsHalts
  <2> QED  BY <1>2, <1>3, <2>2 DEF Halts
<1>5. CASE Suspend(w, main)
  BY <1>2, <1>3, <1>5 DEF Suspend
<1> QED  BY <1>2, <1>4, <1>5

\* Grants for tools that were being created are issued in spite of the stop.
LEMMA GapSettledHalts ==
  ASSUME TypeOK, Flow, GapSettled, task.stopping
  PROVE  /\ task'.version = task.version
         /\ main'.at \notin {"requesting", "scheduling", "aggregating"}
<1>1. PICK y, F, L :
        /\ L \in SUBSET Subtask /\ Like(y, task) /\ F \in [Subtask -> Result]
        /\ \/ BatchDone([y EXCEPT !.results = F], L)
           \/ Schedule(y, main.batch \ L, L)
  BY GapSettledDone
<1>2. Sane(y) /\ y.stopping /\ y.version = task.version  BY <1>1 DEF Like
<1>3. CASE BatchDone([y EXCEPT !.results = F], L)
  <2> DEFINE z == [y EXCEPT !.results = F]
  <2>1. Like(z, y)  BY <1>1, <1>2, LikeResults
  <2>2. BatchDone(z, L)  BY <1>3
  <2> HIDE DEF z
  <2>3. Sane(z) /\ z.stopping /\ z.version = task.version  BY <1>2, <2>1 DEF Like
  <2>4. Halts(z)  BY <2>2, <2>3, BatchDoneHalts
  <2> QED  BY <2>3, <2>4 DEF Halts
<1>4. CASE Schedule(y, main.batch \ L, L)
  <2>1. main.batch \ L \in SUBSET Subtask  BY DEF TypeOK, Coroutine
  <2> QED  BY <1>1, <1>2, <1>4, <2>1, ScheduleHalts
<1> QED  BY <1>1, <1>3, <1>4

\* What StopIsFinal says of a step.
Final ==
  /\ task'.version = task.version
  /\ main'.at \in {"requesting", "scheduling", "aggregating"} => main' = main
  /\ main.at # "gap" => task'.grants \subseteq task.grants

LEMMA MainIsFinal == ASSUME Inv, MainStep, task.stopping PROVE Final
<1>1. TypeOK /\ Flow /\ Sane(task)  BY DEF Inv, Flow
<1>2. ~GateOpen(task)  BY DEF GateOpen
<1>3. Halts(task) => Final  BY DEF Halts, Final
<1>4. CASE GapSettled
  BY <1>1, <1>4, GapSettledHalts DEF Final, GapSettled
<1>5. CASE \/ AnswerTooLate \/ AnswerOverBudget \/ DeadlineInCall \/ CallFails
           \/ Aggregated \/ PlanPasses
  <2>1. (\E e : Raise(task, e)) \/ (\E then : AfterAggregation(task, then))
    BY <1>2, <1>5 DEF AnswerTooLate, AnswerOverBudget, DeadlineInCall, CallFails,
                      Aggregated, PlanPasses
  <2> QED  BY <1>1, <1>3, <2>1, EndsHalt
<1>6. CASE Refreshed \/ NetworkFails \/ PlanInvalid \/ PlanRejected
  <2>1. \/ EscalateToHuman(task)
        \/ \E then, nets : \/ PlanHead(task, then, nets) \/ PlanAndReview(task, then)
                           \/ PlanAgain(task, then, nets)
    BY <1>6 DEF Refreshed, NetworkFails, PlanInvalid, PlanRejected
  <2> QED  BY <1>1, <1>3, <2>1, EndsHalt, PlanningHalts
<1>7. CASE SubtaskSettled
  <2>1. Halts(task) \/ (main' = main /\ task'.version = task.version
                        /\ task'.grants = task.grants)
    BY <1>1, <1>7, SubtaskSettledHalts
  <2> QED  BY <1>3, <2>1 DEF Final
<1>8. CASE BatchInterrupted
  <2>1. PICK late \in Late : \E e : Raise(Interrupted(task, late), e)
    BY <1>8 DEF BatchInterrupted
  <2> DEFINE w == Interrupted(task, late)
  <2>2. Sane(w)  BY <1>1, InterruptedIsSane
  <2>3. w.version = task.version /\ w.grants = task.grants
    BY <1>1 DEF Interrupted, Sane, Task
  <2>4. \E e : Raise(w, e)  BY <2>1
  <2> HIDE DEF w
  <2>5. Halts(w)  BY <2>2, <2>4, EndsHalt
  <2> QED  BY <1>3, <2>3, <2>5 DEF Halts
<1>9. CASE ResultPasses
  <2>1. CASE Raise(task, "WorkflowCancelledError")
    BY <1>1, <1>3, <2>1, EndsHalt
  <2>2. CASE Return([task EXCEPT !.judged = task.results], "completed")
    <3> DEFINE w == [task EXCEPT !.judged = task.results]
    <3>1. Sane(w) /\ w.version = task.version /\ w.grants = task.grants
      BY <1>1 DEF Sane, Task, Paid
    <3>2. Return(w, "completed") /\ "completed" \in Status  BY <2>2 DEF Status
    <3> HIDE DEF w
    <3>3. Halts(w)  BY <3>1, <3>2, EndsHalt
    <3> QED  BY <1>3, <3>1, <3>3 DEF Halts
  <2> QED  BY <1>9, <2>1, <2>2 DEF ResultPasses
<1>10. CASE ResultRejected
  <2>1. PICK targets \in {{s} : s \in Subtask} \cup {Failed(task.results)} :
          \/ Raise(task, "WorkflowCancelledError") \/ EscalateToHuman(task)
          \/ /\ ~(task.reworks >= (IF task.mode = "background" THEN 1 ELSE MaxReplan))
             /\ Rework(task, targets)
    BY <1>10 DEF ResultRejected
  <2>2. targets \in SUBSET Subtask  BY DEF Failed
  <2>3. CASE /\ ~(task.reworks >= (IF task.mode = "background" THEN 1 ELSE MaxReplan))
             /\ Rework(task, targets)
    <3>1. task.reworks < (IF task.mode = "background" THEN 1 ELSE MaxReplan)
      BY <1>1, <2>3, PipelineAssumption DEF Sane, Task
    <3> QED  BY <1>1, <1>3, <2>2, <2>3, <3>1, ReworkHalts
  <2> QED  BY <1>1, <1>3, <2>1, <2>3, EndsHalt
<1>11. CASE Notified
  BY <1>1, <1>11 DEF Notified, Final, At
<1>12. CASE PlanAdopted
  BY <1>2, <1>12 DEF PlanAdopted
<1> QED
  BY <1>4, <1>5, <1>6, <1>7, <1>8, <1>9, <1>10, <1>11, <1>12 DEF MainStep

\* run() may end, but it hands nothing out and takes every grant back.
LEMMA RunIsFinal ==
  ASSUME Inv, RunStep \/ Timeout \/ TaskCancelled PROVE Final
<1>1. TypeOK /\ Flow /\ Sane(task)  BY DEF Inv, Flow
<1>2. main' = main \/ main'.at = "ended"
  BY DEF RunStep, MainEnds, Stall, RunNotified, Timeout, TaskCancelled, At
<1>3. ASSUME NEW w, Sane(w), w.version = task.version, NEW s, NEW how, Finish(w, s, how)
      PROVE  Final
  <2>1. task' = RevokeGrants([w EXCEPT !.stopping = TRUE])  BY <1>3 DEF Finish
  <2>2. task'.version = task.version /\ task'.grants = {}
    BY <1>3, <2>1 DEF RevokeGrants, Sane, Task
  <2> QED  BY <1>2, <2>2 DEF Final
<1>4. ASSUME NEW w, Sane(w), w.version = task.version, w.grants = task.grants,
             RunEscalates(w)
      PROVE  Final
  <2> DEFINE u == [w EXCEPT !.stopping = TRUE, !.status = "human_required",
                            !.escalated = TRUE]
  <2>1. task' = Save(u)  BY <1>4 DEF RunEscalates
  <2>2. Sane(u) /\ u.version = task.version /\ u.grants = task.grants
    BY <1>4 DEF Sane, Task, Paid, Status
  <2> HIDE DEF u
  <2>3. task'.version = task.version /\ task'.grants = task.grants
    BY <2>1, <2>2, LikeSave, SaveGrants DEF Like
  <2> QED  BY <1>2, <2>3 DEF Final
<1>5. ASSUME NEW late \in Late
      PROVE  /\ Sane(Interrupted(task, late))
             /\ Interrupted(task, late).version = task.version
             /\ Interrupted(task, late).grants = task.grants
  BY <1>1, InterruptedIsSane DEF Interrupted, Sane, Task
<1>6. CASE Stall \/ Timeout
  <2>1. PICK late \in Late : RunEscalates(Interrupted(task, late))
    BY <1>6 DEF Stall, Timeout
  <2> QED  BY <1>4, <1>5, <2>1
<1>7. CASE RunNotified
  BY <1>1, <1>3, <1>7 DEF RunNotified
<1>8. ASSUME NEW i, Sane(i), i.version = task.version, NEW s, NEW how,
             Finish([Save([i EXCEPT !.stopping = TRUE]) EXCEPT !.status = "cancelled"],
                    s, how)
      PROVE  Final
  <2> DEFINE u == [i EXCEPT !.stopping = TRUE]
  <2> DEFINE v == Save(u)
  <2> DEFINE w == [v EXCEPT !.status = "cancelled"]
  <2>1. Sane(u) /\ u.version = task.version  BY <1>8 DEF Sane, Task, Paid
  <2>2. Finish(w, s, how)  BY <1>8
  <2> HIDE DEF u
  <2>3. Sane(v) /\ v.version = task.version  BY <2>1, LikeSave DEF Like
  <2> HIDE DEF v
  <2>4. Sane(w) /\ w.version = task.version  BY <2>3, LikeStatus DEF Like, Status
  <2> HIDE DEF w
  <2> QED  BY <1>3, <2>2, <2>4
<1>9. CASE TaskCancelled
  <2>1. PICK late \in Late :
          Finish([Save([Interrupted(task, late) EXCEPT !.stopping = TRUE])
                    EXCEPT !.status = "cancelled"], "none", "raised")
    BY <1>9 DEF TaskCancelled
  <2> QED  BY <1>5, <1>8, <2>1
<1>10. CASE MainEnds
  <2>1. CASE RunEscalates(task)
    BY <1>1, <1>4, <2>1
  <2>2. ASSUME NEW s, NEW how, Finish(task, s, how) PROVE Final
    BY <1>1, <1>3, <2>2
  <2>3. ASSUME NEW s \in {"cancelled", "failed"},
               Finish([task EXCEPT !.status = s], s, "returned")
        PROVE  Final
    <3> DEFINE w == [task EXCEPT !.status = s]
    <3>0. s \in Status  BY DEF Status
    <3>1. Sane(w) /\ w.version = task.version  BY <1>1, <3>0, LikeStatus DEF Like
    <3>2. Finish(w, s, "returned")  BY <2>3
    <3> HIDE DEF w
    <3> QED  BY <1>3, <3>1, <3>2
  <2>4. CASE Finish([Save([task EXCEPT !.stopping = TRUE]) EXCEPT !.status = "cancelled"],
                    "cancelled", "returned")
    BY <1>1, <1>8, <2>4
  <2> QED  BY <1>10, <2>1, <2>2, <2>3, <2>4 DEF MainEnds
<1> QED  BY <1>6, <1>7, <1>9, <1>10 DEF RunStep

LEMMA OthersAreFinal ==
  ASSUME Inv,
         WatchdogFires \/ Cancel \/ Spend \/ DeleteCheckpoint \/ UNCHANGED vars
  PROVE  Final
<1>1. main' = main  BY DEF WatchdogFires, Cancel, Spend, DeleteCheckpoint, vars
<1>2. task'.version = task.version /\ task'.grants = task.grants
  BY DEF WatchdogFires, Cancel, Spend, DeleteCheckpoint, vars, Inv, TypeOK, Task
<1> QED  BY <1>1, <1>2 DEF Final

LEMMA NextIsFinal ==
  ASSUME Inv, [Next]_vars, task.stopping, task'.stopping PROVE Final
<1>1. CASE StartBackgroundReview \/ ResumeWithGuidance
  <2>1. task'.stopping = FALSE
    BY <1>1, StartBackgroundReviewLeaves, ResumeWithGuidanceLeaves DEF Leaves
  <2> QED  BY <2>1
<1>2. CASE Restore
  BY <1>2 DEF Restore
<1> QED  BY <1>1, <1>2, MainIsFinal, RunIsFinal, OthersAreFinal DEF Next

\* Once the gate of a task is stopped, for whatever reason, no step asks for a
\* plan, adopts one, dispatches a batch or asks for a text, and none grants
\* anything but for the tools that were being created.
THEOREM GateIsFinal == Spec => StopIsFinal
<1>1. Inv /\ [Next]_vars
        => [task.stopping /\ task'.stopping =>
              /\ task'.version = task.version
              /\ main'.at \in {"requesting", "scheduling", "aggregating"} => main' = main
              /\ main.at # "gap" => task'.grants \subseteq task.grants]_vars
  BY NextIsFinal DEF Final
<1> QED  BY <1>1, InvAlways, PTL DEF Spec, StopIsFinal

---------------------------------------------------------------------------
(***************************************************************************)
(* What is delivered.  Until a human resumes the task, the results it has  *)
(* are those of its plan, and wherever the coroutine may hand out a result *)
(* without another look, every subtask has succeeded (Progress).           *)
(***************************************************************************)
Whole(results) == \A s \in Subtask : results[s].ok

\* Each result is of this version of the plan, or was declared to be reused.
Current(w) ==
  \A s \in Subtask : \/ w.results[s] = None \/ w.results[s].by = w.version
                     \/ w.results[s].reused

\* The configuration waives the review of the results.
Waived(w) == config \in {"off", "simple"} \/ (config = "risk_based" /\ ~History(w))

Fit(w) == Sane(w) /\ w.mode \in {"run", "background"} /\ Current(w)

Progress ==
  /\ Fit(task)
  /\ main.at = "planreview" => \A s \in Subtask : task.results[s] = None \/ task.results[s].ok
  /\ main.at = "gap" => main.lacking = {}
  /\ main.at \in {"gap", "scheduling"} =>
       \A s \in Subtask \ (main.batch \cup main.lacking) : task.results[s].ok
  /\ main.at = "scheduling" =>
       \A s \in Subtask : task.sched[s] = None \/ task.sched[s].by = task.version
  /\ main.at \in {"aggregating", "reviewing"} => Whole(task.results)
  /\ main.at = "aggregating" /\ main.then = "deliver" => Waived(task)
  /\ main.at = "ended" /\ main.then = "output" /\ output \in {"completed", "completed_provisional"} =>
       Whole(task.results)
  /\ output = "completed" =>
       /\ main.at = "ended" /\ main.then = "output"
       /\ task.judged = task.results \/ Waived(task)

\* A task read from a checkpoint rests until it is resumed.
Rests == task.mode = "resume" /\ main.at = "ended" /\ output = "none" /\ wrap = "raised"

Unresumed == resumes = 0 => Progress \/ Rests

\* v has the results of w.
Twin(v, w) == Like(v, w) /\ v.results = w.results /\ v.reworks = w.reworks

LEMMA Twins ==
  ASSUME NEW w, Sane(w)
  PROVE  /\ \A s \in Status : Twin([w EXCEPT !.status = s], w)
         /\ Twin(Save(w), w) /\ Twin(IssueGrants(w), w) /\ Twin(RevokeGrants(w), w)
         /\ \A batch \in SUBSET Subtask : /\ Twin(EnsureBatchGrants(w, batch), w)
                                          /\ Twin(RevokeBatchGrants(w, batch), w)
<1>1. \A s : [w EXCEPT !.status = s].results = w.results /\ [w EXCEPT !.status = s].reworks = w.reworks
  BY DEF Sane, Task
<1>2. Save(w).results = w.results /\ Save(w).reworks = w.reworks
  BY DEF Sane, Task, Save
<1>3. IssueGrants(w).results = w.results /\ IssueGrants(w).reworks = w.reworks
  BY DEF Sane, Task, IssueGrants
<1>4. RevokeGrants(w).results = w.results /\ RevokeGrants(w).reworks = w.reworks
  BY DEF Sane, Task, RevokeGrants
<1>5. \A batch : /\ RevokeBatchGrants(w, batch).results = w.results
                 /\ RevokeBatchGrants(w, batch).reworks = w.reworks
  BY DEF Sane, Task, RevokeBatchGrants
<1>6. \A batch : /\ EnsureBatchGrants(w, batch).results = w.results
                 /\ EnsureBatchGrants(w, batch).reworks = w.reworks
  BY <1>3 DEF EnsureBatchGrants
<1> QED
  BY <1>1, <1>2, <1>3, <1>4, <1>5, <1>6, LikeStatus, LikeSave, LikeIssue, LikeRevoke, LikeEnsure
     DEF Twin

LEMMA TwinFits == ASSUME NEW w, Fit(w), NEW v, Twin(v, w) PROVE Fit(v) /\ (Waived(w) => Waived(v))
  BY DEF Fit, Twin, Like, Current, Waived, History

\* While a coroutine works nothing has been said to be completed.
Quiet == output # "completed" /\ config' = config

LEMMA SuspendVerifies ==
  ASSUME Quiet, NEW w, Fit(w), NEW m, Suspend(w, m),
         m.at = "ended" => m.then # "output",
         m.at = "planreview" => \A s \in Subtask : w.results[s] = None \/ w.results[s].ok,
         m.at = "gap" => m.lacking = {},
         m.at \in {"gap", "scheduling"} =>
           \A s \in Subtask \ (m.batch \cup m.lacking) : w.results[s].ok,
         m.at = "scheduling" =>
           \A s \in Subtask : w.sched[s] = None \/ w.sched[s].by = w.version,
         m.at \in {"aggregating", "reviewing"} => Whole(w.results),
         m.at = "aggregating" /\ m.then = "deliver" => Waived(w)
  PROVE  Progress'
<1>1. task' = w /\ main' = m /\ output' = output /\ config' = config  BY DEF Suspend, Quiet
<1>2. Fit(task)'  BY <1>1 DEF Fit, Sane, Current, Paid
<1>3. Waived(w) => Waived(task)'  BY <1>1 DEF Waived, History
<1> QED  BY <1>1, <1>2, <1>3 DEF Progress, Quiet, Whole

LEMMA ReturnVerifies ==
  ASSUME Quiet, NEW w, Fit(w), NEW s \in Status, Return(w, s),
         s \in {"completed", "completed_provisional"} => Whole(w.results),
         s = "completed" => w.judged = w.results \/ Waived(w)
  PROVE  Progress'
<1> DEFINE v == [w EXCEPT !.status = s]
<1>1. Sane(w)  BY DEF Fit
<1>2. task' = v /\ main' = At("ended", "output") /\ output' = s /\ config' = config
  BY DEF Return, Quiet
<1>3. Twin(v, w)  BY <1>1, Twins
<1>4. v.judged = w.judged  BY <1>1 DEF Sane, Task
<1> HIDE DEF v
<1>5. Fit(v) /\ (Waived(w) => Waived(v)) /\ v.results = w.results  BY <1>3, TwinFits DEF Twin
<1>6. main'.at = "ended" /\ main'.then = "output"  BY <1>2 DEF At
<1>7. Fit(task)'  BY <1>2, <1>5 DEF Fit, Sane, Current, Paid
<1>8. Waived(v) => Waived(task)'  BY <1>2 DEF Waived, History
<1> QED  BY <1>2, <1>4, <1>5, <1>6, <1>7, <1>8 DEF Progress, Whole

LEMMA EscalateVerifies ==
  ASSUME Quiet, NEW w, Fit(w), EscalateToHuman(w) PROVE Progress'
<1> DEFINE u == [w EXCEPT !.status = "human_required", !.escalated = TRUE]
<1>1. Twin(u, w)  BY DEF Fit, Sane, Like, Task, Paid, Status, Twin
<1>2. Suspend(Save(u), At("escalating", "review"))  BY DEF EscalateToHuman
<1> HIDE DEF u
<1>3. Fit(u)  BY <1>1, TwinFits
<1>4. Fit(Save(u))  BY <1>3, Twins, TwinFits DEF Fit
<1>5. At("escalating", "review").at = "escalating"  BY DEF At
<1> QED  BY <1>2, <1>4, <1>5, SuspendVerifies

LEMMA RaiseVerifies ==
  ASSUME Quiet, NEW w, Fit(w), NEW e, e # "output", Raise(w, e) PROVE Progress'
<1>1. CASE Suspend(w, At("ended", e))
  <2>1. At("ended", e).at = "ended" /\ At("ended", e).then = e  BY DEF At
  <2> QED  BY <1>1, <2>1, SuspendVerifies
<1>2. CASE Return(w, "failed") \/ Return(w, "cancelled")
  BY <1>2, ReturnVerifies DEF Status
<1> QED  BY <1>1, <1>2, EscalateVerifies DEF Raise

LEMMA AfterAggregationVerifies ==
  ASSUME Quiet, NEW w, Fit(w), Whole(w.results), NEW then,
         then = "deliver" => Waived(w), AfterAggregation(w, then)
  PROVE  Progress'
<1>1. CASE Return(w, "completed") /\ then = "deliver"
  BY <1>1, ReturnVerifies DEF Status
<1>2. CASE Return(w, "completed_provisional")
  BY <1>2, ReturnVerifies DEF Status
<1>3. CASE then = "review" /\ Suspend([w EXCEPT !.status = "result_review"], At("reviewing", then))
  <2> DEFINE v == [w EXCEPT !.status = "result_review"]
  <2>1. Twin(v, w)  BY Twins DEF Fit, Status
  <2>2. Suspend(v, At("reviewing", then))  BY <1>3
  <2> HIDE DEF v
  <2>3. Fit(v) /\ Whole(v.results)  BY <2>1, TwinFits DEF Twin
  <2>4. At("reviewing", then).at = "reviewing"  BY DEF At
  <2> QED  BY <2>2, <2>3, <2>4, SuspendVerifies
<1>4. CASE Suspend(w, At("reviewing", then))
  <2>1. At("reviewing", then).at = "reviewing"  BY DEF At
  <2> QED  BY <1>4, <2>1, SuspendVerifies
<1> QED  BY <1>1, <1>2, <1>3, <1>4 DEF AfterAggregation

LEMMA AggregateVerifies ==
  ASSUME Quiet, NEW w, Fit(w), Whole(w.results), NEW then,
         then = "deliver" => Waived(w), AggregateResults(w, then)
  PROVE  Progress'
<1> DEFINE v == IF then = "confirm" THEN w ELSE [w EXCEPT !.status = "aggregating"]
<1>1. Fit(v) /\ (Waived(w) => Waived(v)) /\ v.results = w.results
  <2>1. Twin([w EXCEPT !.status = "aggregating"], w)  BY Twins DEF Fit, Status
  <2> QED  BY <2>1, TwinFits DEF Twin
<1>2. \/ AfterAggregation(v, then) \/ Suspend(v, At("aggregating", then))
      \/ Raise(v, "PipelineStoppedError")
  BY DEF AggregateResults
<1> HIDE DEF v
<1>3. Whole(v.results) /\ (then = "deliver" => Waived(v))  BY <1>1
<1>4. CASE Suspend(v, At("aggregating", then))
  <2>1. At("aggregating", then).at = "aggregating" /\ At("aggregating", then).then = then
    BY DEF At
  <2> QED  BY <1>1, <1>3, <1>4, <2>1, SuspendVerifies
<1> QED  BY <1>1, <1>2, <1>3, <1>4, AfterAggregationVerifies, RaiseVerifies

LEMMA WholeIsGood ==
  ASSUME NEW results, Whole(results) PROVE Good(results) = Subtask /\ Failed(results) = {}
  BY DEF Whole, Good, Failed

LEMMA DeliverVerifies ==
  ASSUME TypeOK, Quiet, NEW w, Fit(w), Whole(w.results), DeliverResults(w)
  PROVE  Progress'
<1>1. CASE MayTakeFastPath(w) /\ Return(w, "completed")
  <2>1. Waived(w)  BY <1>1 DEF MayTakeFastPath, Waived
  <2> QED  BY <1>1, <2>1, ReturnVerifies DEF Status
<1>2. ASSUME NEW then, then = "deliver" => ~ShouldRunResultReview(w), AggregateResults(w, then)
      PROVE  Progress'
  <2>1. then = "deliver" => Waived(w)
    BY <1>2, PipelineAssumption DEF ShouldRunResultReview, Waived, TypeOK
  <2> QED  BY <1>2, <2>1, AggregateVerifies
<1> QED  BY <1>1, <1>2 DEF DeliverResults

LEMMA PlanHeadVerifies ==
  ASSUME Quiet, NEW w, Fit(w), NEW then, NEW nets, PlanHead(w, then, nets) PROVE Progress'
<1> DEFINE u == IF w.version > 0 THEN RevokeGrants(w) ELSE w
<1> DEFINE s == IF w.version > 0 THEN "replanning" ELSE "planning"
<1> DEFINE v == [u EXCEPT !.status = s]
<1> DEFINE m == [At("requesting", then) EXCEPT !.nets = nets]
<1>1. Fit(u)  BY Twins, TwinFits DEF Fit
<1>2. s \in Status  BY DEF Status
<1>3. Raise(w, "PipelineStoppedError") \/ Raise(v, "WorkflowCancelledError") \/ Suspend(v, m)
  BY DEF PlanHead
<1>4. m.at = "requesting"  BY DEF At
<1> HIDE DEF u, s, m
<1>5. Fit(v)  BY <1>1, <1>2, Twins, TwinFits DEF Fit
<1> HIDE DEF v
<1> QED  BY <1>3, <1>4, <1>5, RaiseVerifies, SuspendVerifies

LEMMA PlanAndReviewVerifies ==
  ASSUME Quiet, NEW w, Fit(w), NEW then, PlanAndReview(w, then) PROVE Progress'
<1> DEFINE v == IF w.version > 0
                  THEN [w EXCEPT !.archived = w.version, !.archive = Archived(w)] ELSE w
<1>1. Archived(w) \in [Subtask -> Result] /\ w.version \in Version
  BY DEF Archived, Fit, Sane, Task
<1>2. Fit(v)  BY <1>1 DEF Fit, Sane, Task, Paid, Current
<1>3. PlanHead(v, then, 0)  BY DEF PlanAndReview
<1> HIDE DEF v
<1> QED  BY <1>2, <1>3, PlanHeadVerifies

LEMMA QuotaFits ==
  ASSUME NEW w, Fit(w), QuotaLeft(w), NEW s \in Status
  PROVE  Fit([w EXCEPT !.status = s, !.replans = @ + 1])
<1> DEFINE v == [w EXCEPT !.status = s, !.replans = @ + 1]
<1>1. Sane(v) /\ v.mode = w.mode  BY QuotaPays DEF Fit
<1>2. v.results = w.results /\ v.version = w.version  BY DEF Fit, Sane, Task
<1> HIDE DEF v
<1>3. Fit(v)  BY <1>1, <1>2 DEF Fit, Current
<1> QED  BY <1>3 DEF v

LEMMA PlanAgainVerifies ==
  ASSUME Quiet, NEW w, Fit(w), NEW then, NEW nets, PlanAgain(w, then, nets) PROVE Progress'
<1>1. CASE QuotaLeft(w)
  <2> DEFINE v == [w EXCEPT !.replans = @ + 1]
  <2>1. v = [w EXCEPT !.status = w.status, !.replans = @ + 1] /\ w.status \in Status
    BY DEF Fit, Sane, Task
  <2>2. Fit(v)  BY <1>1, <2>1, QuotaFits
  <2>3. PlanHead(v, then, nets)  BY <1>1 DEF PlanAgain
  <2> HIDE DEF v
  <2> QED  BY <2>2, <2>3, PlanHeadVerifies
<1> QED  BY <1>1, EscalateVerifies DEF PlanAgain

LEMMA BatchDoneVerifies ==
  ASSUME TypeOK, Quiet, NEW w, Fit(w), NEW failed, failed = {} => Whole(w.results),
         BatchDone(w, failed)
  PROVE  Progress'
<1>1. CASE failed = {} /\ AggregateResults(w, "confirm")
  BY <1>1, AggregateVerifies
<1>2. CASE failed = {} /\ DeliverResults(w)
  BY <1>2, DeliverVerifies
<1>3. CASE QuotaLeft(w)
           /\ PlanAndReview([w EXCEPT !.status = "replanning", !.replans = @ + 1], "again")
  <2> DEFINE v == [w EXCEPT !.status = "replanning", !.replans = @ + 1]
  <2>1. Fit(v)  BY <1>3, QuotaFits DEF Status
  <2>2. PlanAndReview(v, "again")  BY <1>3
  <2> HIDE DEF v
  <2> QED  BY <2>1, <2>2, PlanAndReviewVerifies
<1>4. CASE EscalateToHuman([w EXCEPT !.status = "decomposition_issue"])
  <2> DEFINE v == [w EXCEPT !.status = "decomposition_issue"]
  <2>1. Fit(v)  BY Twins, TwinFits DEF Status, Fit
  <2>2. EscalateToHuman(v)  BY <1>4
  <2> HIDE DEF v
  <2> QED  BY <2>1, <2>2, EscalateVerifies
<1> QED  BY <1>1, <1>2, <1>3, <1>4, EscalateVerifies DEF BatchDone

LEMMA OutcomeIsCurrent ==
  ASSUME NEW w, Sane(w), NEW ok \in BOOLEAN
  PROVE  Outcome(w, ok) \in Result /\ Outcome(w, ok).by = w.version /\ Outcome(w, ok).ok = ok
  BY OutcomeIsResult DEF Outcome

LEMMA NoneIsOpen == ~None.ok /\ (\A s \in Subtask : NoResults[s] = None)
  BY DEF None, NoResults

\* When nothing of a batch failed, and the rest had succeeded, all has succeeded.
LEMMA BatchReturnsVerifies ==
  ASSUME TypeOK, Quiet, NEW w, Fit(w), NEW batch \in SUBSET Subtask,
         NEW lacking \in SUBSET Subtask, NEW outcome,
         \A s \in batch : /\ outcome[s] \in Result
                          /\ outcome[s] = None \/ outcome[s].by = w.version,
         \A s \in Subtask \ (batch \cup lacking) : w.results[s].ok,
         BatchReturns(w, batch, lacking, outcome)
  PROVE  Progress'
<1> DEFINE u == RevokeBatchGrants(w, batch)
<1> DEFINE R == [s \in Subtask |-> IF s \in batch THEN outcome[s]
                                   ELSE IF s \in lacking THEN Outcome(w, FALSE)
                                   ELSE u.results[s]]
<1> DEFINE v == [u EXCEPT !.results = R]
<1> DEFINE failed == lacking \cup {s \in batch : ~outcome[s].ok}
<1>1. Sane(w)  BY DEF Fit
<1>2. Fit(u) /\ u.results = w.results /\ u.version = w.version
  BY <1>1, Twins, TwinFits DEF Twin, Like
<1>3. v = [u EXCEPT !.results =
              [s \in Subtask |-> IF s \in batch THEN outcome[s]
                                 ELSE IF s \in lacking THEN Outcome(w, FALSE) ELSE @[s]]]
  OBVIOUS
<1>4. BatchDone(Save(v), failed)  BY <1>3 DEF BatchReturns
<1> HIDE DEF u
<1>5. R \in [Subtask -> Result]
  BY <1>1, <1>2, OutcomeIsCurrent DEF Sane, Task
<1>6. \A s \in Subtask : R[s] = None \/ R[s].by = w.version \/ R[s].reused
  BY <1>1, <1>2, OutcomeIsCurrent DEF Fit, Current
<1>7. failed = {} => Whole(R)
  BY <1>2 DEF Whole
<1> HIDE DEF R, failed
<1>8. Like(v, u) /\ v.results = R
  BY <1>2, <1>5, LikeResults DEF Fit, Sane, Task
<1> HIDE DEF v
<1>9. Fit(v)  BY <1>2, <1>6, <1>8 DEF Fit, Like, Current
<1>10. Fit(Save(v)) /\ Save(v).results = R  BY <1>8, <1>9, Twins, TwinFits DEF Fit, Twin
<1> QED  BY <1>4, <1>7, <1>10, BatchDoneVerifies

LEMMA ScheduleVerifies ==
  ASSUME TypeOK, Quiet, NEW w, Fit(w), NEW batch \in SUBSET Subtask,
         NEW lacking \in SUBSET Subtask,
         \A s \in Subtask \ (batch \cup lacking) : w.results[s].ok,
         Schedule(w, batch, lacking)
  PROVE  Progress'
<1> DEFINE x == [w EXCEPT !.status = "executing"]
<1> DEFINE u == EnsureBatchGrants(x, batch)
<1> DEFINE v == [u EXCEPT !.sched = NoResults]
<1> DEFINE m == [At("scheduling", "review") EXCEPT !.batch = batch, !.lacking = lacking]
<1>1. Twin(x, w)  BY Twins DEF Status, Fit
<1>2. \/ BatchReturns(u, batch, lacking, [s \in batch |-> Outcome(u, FALSE)])
      \/ Raise(v, "PipelineStoppedError") \/ Raise(v, "TokenBudgetExceeded") \/ Suspend(v, m)
  BY DEF Schedule
<1>3. m.at = "scheduling" /\ m.batch = batch /\ m.lacking = lacking
  BY DEF At
<1> HIDE DEF x, m
<1>4. Fit(x) /\ x.results = w.results  BY <1>1, TwinFits DEF Twin
<1>5. Twin(u, x)  BY <1>4, Twins DEF Fit
<1> HIDE DEF u
<1>6. Fit(u) /\ u.results = w.results  BY <1>4, <1>5, TwinFits DEF Twin
<1>7. Like(v, u) /\ v.results = w.results /\ v.sched = NoResults
  BY <1>6, NoneIsResult, LikeResults DEF Fit, Sane, Task
<1> HIDE DEF v
<1>8. Fit(v)  BY <1>6, <1>7 DEF Fit, Like, Current
<1>9. CASE BatchReturns(u, batch, lacking, [s \in batch |-> Outcome(u, FALSE)])
  <2> DEFINE outcome == [s \in batch |-> Outcome(u, FALSE)]
  <2>1. \A s \in batch : outcome[s] \in Result /\ outcome[s].by = u.version
    BY <1>6, OutcomeIsCurrent DEF Fit
  <2>2. BatchReturns(u, batch, lacking, outcome)  BY <1>9
  <2> HIDE DEF outcome
  <2> QED  BY <1>6, <2>1, <2>2, BatchReturnsVerifies
<1>10. CASE Suspend(v, m)
  BY <1>3, <1>7, <1>8, <1>10, NoneIsOpen, SuspendVerifies
<1> QED  BY <1>2, <1>8, <1>9, <1>10, RaiseVerifies

LEMMA ExecutionVerifies ==
  ASSUME TypeOK, Quiet, NEW w, Fit(w), NEW batch \in SUBSET Subtask,
         \A s \in Subtask \ batch : w.results[s].ok,
         \/ ExecuteSubtasks(w, batch) \/ ExecutionCycle(w, batch) \/ ResultLoop(w, batch)
  PROVE  Progress'
<1> DEFINE m == [At("gap", "review") EXCEPT !.batch = batch]
<1>1. CASE \/ Raise(w, "PipelineStoppedError") \/ Raise(w, "WorkflowCancelledError")
           \/ Raise(w, "TokenBudgetExceeded")
  BY <1>1, RaiseVerifies
<1>2. CASE batch = {} /\ BatchDone(w, {})
  BY <1>2, BatchDoneVerifies DEF Whole
<1>3. CASE Schedule(w, batch, {})
  BY <1>3, ScheduleVerifies
<1>4. CASE Suspend(w, m)
  <2>1. m.at = "gap" /\ m.batch = batch /\ m.lacking = {}  BY DEF At
  <2> HIDE DEF m
  <2> QED  BY <1>4, <2>1, SuspendVerifies
<1> QED  BY <1>1, <1>2, <1>3, <1>4 DEF ResultLoop, ExecutionCycle, ExecuteSubtasks

LEMMA PlanAcceptedVerifies ==
  ASSUME TypeOK, Quiet, NEW w, Fit(w), NEW then,
         \A s \in Subtask : w.results[s] = None \/ w.results[s].ok, PlanAccepted(w, then)
  PROVE  Progress'
<1> DEFINE u == [w EXCEPT !.accepted = @ \cup {w.version}]
<1> DEFINE i == IssueGrants(u)
<1> DEFINE v == Save(i)
<1>1. Fit(u) /\ u.results = w.results  BY DEF Fit, Sane, Task, Paid, Current
<1>2. ResultLoop(v, Subtask) \/ ExecutionCycle(v, Open(v.results))  BY DEF PlanAccepted
<1> HIDE DEF u
<1>3. Fit(i) /\ i.results = w.results  BY <1>1, Twins, TwinFits DEF Fit, Twin
<1> HIDE DEF i
<1>4. Fit(v) /\ v.results = w.results  BY <1>3, Twins, TwinFits DEF Fit, Twin
<1> HIDE DEF v
<1>5. /\ Open(v.results) \in SUBSET Subtask
      /\ \A s \in Subtask \ Open(v.results) : v.results[s].ok
  BY <1>4 DEF Open
<1> QED  BY <1>2, <1>4, <1>5, ExecutionVerifies

LEMMA ReworkVerifies ==
  ASSUME TypeOK, Quiet, NEW w, Fit(w), Whole(w.results), NEW targets \in SUBSET Subtask,
         Rework(w, targets), w.reworks < (IF w.mode = "background" THEN 1 ELSE MaxReplan)
  PROVE  Progress'
<1> DEFINE R == [s \in Subtask |-> IF s \in targets THEN None ELSE w.results[s]]
<1> DEFINE v == [w EXCEPT !.reworks = @ + 1, !.results = R]
<1>1. R \in [Subtask -> Result]  BY NoneIsResult DEF Fit, Sane, Task
<1>2. v = [w EXCEPT !.reworks = @ + 1,
                    !.results = [s \in Subtask |-> IF s \in targets THEN None ELSE @[s]]]
  OBVIOUS
<1>3. w.reworks + 1 \in 0 .. MaxReplan + 1
  BY PipelineAssumption DEF Fit, Sane, Task
<1>4. ExecuteSubtasks(v, targets) \/ ResultLoop(v, targets)  BY <1>2 DEF Rework
<1>5. \A s \in Subtask : R[s] = None \/ R[s] = w.results[s]  OBVIOUS
<1>6. \A s \in Subtask \ targets : R[s].ok  BY DEF Whole
<1> HIDE DEF R
<1>7. Sane(v) /\ v.mode = w.mode /\ v.version = w.version /\ v.results = R
  BY <1>1, <1>3 DEF Fit, Sane, Task, Paid
<1> HIDE DEF v
<1>8. Fit(v)  BY <1>5, <1>7 DEF Fit, Current
<1> QED  BY <1>4, <1>6, <1>7, <1>8, ExecutionVerifies

---------------------------------------------------------------------------
(* The steps, while no human has resumed the task. *)

LEMMA AdoptFits ==
  ASSUME NEW w, Fit(w), w.version <= w.replans, NEW R \in Reusable(w)
  PROVE  LET v == AdoptPlan(w, R)
         IN  Fit(v) /\ \A s \in Subtask : v.results[s] = None \/ v.results[s].ok
<1> DEFINE v == AdoptPlan(w, R)
<1>1. Sane(v) /\ v.mode = w.mode  BY AdoptIsSane DEF Fit
<1>2. R \subseteq Good(w.archive)
  BY DEF Reusable, Keepable
<1>3. \A s \in R : w.archive[s] \in Result /\ w.archive[s].ok
  BY <1>2 DEF Good, Fit, Sane, Task
<1>4. \A s \in R : /\ [w.archive[s] EXCEPT !.reused = TRUE].ok
                   /\ [w.archive[s] EXCEPT !.reused = TRUE].reused
  BY <1>3 DEF Result
<1>5. v.results = [s \in Subtask |-> IF s \in R THEN [w.archive[s] EXCEPT !.reused = TRUE]
                                                ELSE None]
  BY DEF AdoptPlan, Fit, Sane, Task
<1> HIDE DEF v
<1>6. \A s \in Subtask : v.results[s] = None \/ (v.results[s].ok /\ v.results[s].reused)
  BY <1>4, <1>5
<1>7. Fit(v)  BY <1>1, <1>6 DEF Fit, Current
<1> QED  BY <1>6, <1>7 DEF v

\* A coroutine is at work on a task that nobody has resumed.
Working == TypeOK /\ Flow /\ Progress /\ Quiet

LEMMA PlanningVerifies ==
  ASSUME Working,
         \/ AnswerTooLate \/ AnswerOverBudget \/ DeadlineInCall \/ CallFails \/ Refreshed
         \/ NetworkFails \/ PlanInvalid \/ PlanRejected \/ PlanPasses
  PROVE  Progress'
<1>1. Fit(task) /\ TypeOK /\ Quiet  BY DEF Working, Progress
<1>2. CASE AnswerTooLate \/ AnswerOverBudget \/ DeadlineInCall \/ CallFails
  BY <1>1, <1>2, RaiseVerifies DEF AnswerTooLate, AnswerOverBudget, DeadlineInCall, CallFails
<1>3. CASE Refreshed
  BY <1>1, <1>3, PlanAndReviewVerifies DEF Refreshed
<1>4. CASE NetworkFails
  BY <1>1, <1>4, PlanHeadVerifies, EscalateVerifies DEF NetworkFails
<1>5. CASE PlanInvalid \/ PlanRejected
  BY <1>1, <1>5, PlanAgainVerifies DEF PlanInvalid, PlanRejected
<1>6. CASE PlanPasses
  <2>1. \A s \in Subtask : task.results[s] = None \/ task.results[s].ok
    BY <1>6 DEF PlanPasses, Working, Progress
  <2> QED  BY <1>1, <1>6, <2>1, PlanAcceptedVerifies, RaiseVerifies DEF PlanPasses
<1> QED  BY <1>2, <1>3, <1>4, <1>5, <1>6

LEMMA PlanAdoptedVerifies == ASSUME Working, PlanAdopted PROVE Progress'
<1>1. PICK R \in Reusable(task) :
        \/ PlanAgain(AdoptPlan(task, R), main.then, main.nets)
        \/ PlanAccepted(AdoptPlan(task, R), main.then)
        \/ Suspend([AdoptPlan(task, R) EXCEPT !.status = "plan_review"],
                   [main EXCEPT !.at = "planreview"])
  BY DEF PlanAdopted
<1> DEFINE w == AdoptPlan(task, R)
<1>2. Fit(w) /\ \A s \in Subtask : w.results[s] = None \/ w.results[s].ok
  BY AdoptFits DEF Working, Progress, Flow, PlanAdopted
<1>3. TypeOK /\ Quiet  BY DEF Working
<1> HIDE DEF w
<1>4. CASE PlanAgain(w, main.then, main.nets)
  BY <1>2, <1>3, <1>4, PlanAgainVerifies
<1>5. CASE PlanAccepted(w, main.then)
  BY <1>2, <1>3, <1>5, PlanAcceptedVerifies
<1>6. CASE Suspend([w EXCEPT !.status = "plan_review"], [main EXCEPT !.at = "planreview"])
  <2> DEFINE v == [w EXCEPT !.status = "plan_review"]
  <2> DEFINE m == [main EXCEPT !.at = "planreview"]
  <2>1. Twin(v, w)  BY <1>2, Twins DEF Fit, Status
  <2>2. m.at = "planreview"  BY <1>3 DEF TypeOK, Coroutine
  <2>3. Suspend(v, m)  BY <1>6
  <2> HIDE DEF v, m
  <2>4. Fit(v) /\ v.results = w.results  BY <1>2, <2>1, TwinFits DEF Twin
  <2> QED  BY <1>2, <1>3, <2>2, <2>3, <2>4, SuspendVerifies
<1> QED  BY <1>1, <1>4, <1>5, <1>6 DEF w

LEMMA GapSettledVerifies == ASSUME Working, GapSettled PROVE Progress'
<1> DEFINE gaps == (main.batch \cap Tooled) \ task.ready
<1> DEFINE lacking(made) == gaps \ made
<1> DEFINE v(made) == [task EXCEPT !.ready = @ \cup made]
<1> DEFINE w(made) == IF made # {} THEN IssueGrants(v(made)) ELSE v(made)
<1> DEFINE failed(made) == [s \in Subtask |-> IF s \in lacking(made)
                              THEN Outcome(w(made), FALSE) ELSE w(made).results[s]]
<1>1. PICK made \in SUBSET gaps :
        \/ /\ main.batch = lacking(made)
           /\ BatchDone([w(made) EXCEPT !.results = failed(made)], lacking(made))
        \/ Schedule(w(made), main.batch \ lacking(made), lacking(made))
  BY DEF GapSettled
<1> DEFINE L == lacking(made)
<1> DEFINE x == v(made)
<1> DEFINE y == w(made)
<1> DEFINE F == failed(made)
<1>2. main.batch \in SUBSET Subtask  BY DEF Working, TypeOK, Coroutine
<1>3. L \subseteq main.batch /\ made \in SUBSET Subtask  BY <1>2
<1>4. Fit(x) /\ x.results = task.results
  BY <1>3 DEF Working, Progress, Fit, Sane, Task, Paid, Current
<1>5. y = IF made # {} THEN IssueGrants(x) ELSE x  OBVIOUS
<1>6. F = [s \in Subtask |-> IF s \in L THEN Outcome(y, FALSE) ELSE y.results[s]]
  OBVIOUS
<1>7. \/ main.batch = L /\ BatchDone([y EXCEPT !.results = F], L)
      \/ Schedule(y, main.batch \ L, L)
  BY <1>1
<1>8. \A s \in Subtask \ main.batch : task.results[s].ok
  BY DEF GapSettled, Working, Progress
<1>9. TypeOK /\ Quiet  BY DEF Working
<1> HIDE DEF L, x, y, F
<1>10. Fit(y) /\ y.results = task.results
  <2>1. IssueGrants(x).results = x.results /\ Fit(IssueGrants(x))
    BY <1>4, Twins, TwinFits DEF Fit, Twin
  <2> QED  BY <1>4, <1>5, <2>1
<1>11. CASE Schedule(y, main.batch \ L, L)
  <2>1. \A s \in Subtask \ ((main.batch \ L) \cup L) : y.results[s].ok
    BY <1>3, <1>8, <1>10
  <2> QED  BY <1>2, <1>3, <1>9, <1>10, <1>11, <2>1, ScheduleVerifies
<1>12. CASE main.batch = L /\ BatchDone([y EXCEPT !.results = F], L)
  <2> DEFINE z == [y EXCEPT !.results = F]
  <2>1. F \in [Subtask -> Result]
    BY <1>6, <1>10, OutcomeIsCurrent DEF Fit, Sane, Task
  <2>2. \A s \in Subtask : F[s] = None \/ F[s].by = y.version \/ F[s].reused
    BY <1>6, <1>10, OutcomeIsCurrent DEF Fit, Current
  <2>3. L = {} => Whole(F)  BY <1>6, <1>8, <1>10, <1>12 DEF Whole
  <2>4. Like(z, y) /\ z.results = F  BY <1>10, <2>1, LikeResults DEF Fit, Sane, Task
  <2>5. BatchDone(z, L)  BY <1>12
  <2> HIDE DEF z
  <2>6. Fit(z)  BY <1>10, <2>2, <2>4 DEF Fit, Like, Current
  <2> QED  BY <1>9, <2>3, <2>4, <2>5, <2>6, BatchDoneVerifies
<1> QED  BY <1>7, <1>11, <1>12

LEMMA SubtaskSettledVerifies == ASSUME Working, SubtaskSettled PROVE Progress'
<1> DEFINE u(s, ok) == [task EXCEPT !.sched[s] = Outcome(task, ok)]
<1> DEFINE v(s, ok) == Save(u(s, ok))
<1>1. main.batch \in SUBSET Subtask /\ main.lacking \in SUBSET Subtask /\ main \in Coroutine
  BY DEF Working, TypeOK, Coroutine
<1>2. PICK s \in main.batch, ok \in BOOLEAN :
        \/ BatchReturns(v(s, ok), main.batch, main.lacking, v(s, ok).sched)
        \/ Suspend(v(s, ok), main)
  BY DEF SubtaskSettled
<1> DEFINE S == [task.sched EXCEPT ![s] = Outcome(task, ok)]
<1> DEFINE x == [task EXCEPT !.sched = S]
<1> DEFINE w == Save(x)
<1>3. Fit(task) /\ Sane(task) /\ main.at = "scheduling"  BY DEF Working, Progress, Fit, SubtaskSettled
<1>4. S \in [Subtask -> Result]
  BY <1>3, OutcomeIsCurrent DEF Sane, Task
<1>5. \A t \in Subtask : S[t] = None \/ S[t].by = task.version
  BY <1>1, <1>3, OutcomeIsCurrent DEF Working, Progress, Sane, Task
<1>6. BatchReturns(w, main.batch, main.lacking, w.sched) \/ Suspend(w, main)  BY <1>2
<1> HIDE DEF S
<1>7. Like(x, task) /\ x.results = task.results /\ x.sched = S
  BY <1>3, <1>4, LikeResults DEF Sane, Task
<1> HIDE DEF x
<1>8. Fit(x)  BY <1>3, <1>7 DEF Fit, Like, Current
<1>9. Twin(w, x) /\ w.sched = x.sched
  BY <1>8, Twins DEF Fit, Sane, Task, Save
<1> HIDE DEF w
<1>10. Fit(w) /\ w.results = task.results /\ w.version = task.version /\ w.sched = S
  BY <1>7, <1>8, <1>9, TwinFits DEF Twin, Like
<1>11. \A t \in Subtask \ (main.batch \cup main.lacking) : w.results[t].ok
  BY <1>3, <1>10 DEF Working, Progress
<1>12. TypeOK /\ Quiet  BY DEF Working
<1>13. CASE BatchReturns(w, main.batch, main.lacking, w.sched)
  <2>1. \A t \in main.batch : /\ w.sched[t] \in Result
                              /\ w.sched[t] = None \/ w.sched[t].by = w.version
    BY <1>1, <1>4, <1>5, <1>10
  <2> QED  BY <1>1, <1>10, <1>11, <1>12, <1>13, <2>1, BatchReturnsVerifies
<1>14. CASE Suspend(w, main)
  BY <1>3, <1>5, <1>10, <1>11, <1>12, <1>14, SuspendVerifies
<1> QED  BY <1>6, <1>13, <1>14

LEMMA BatchInterruptedVerifies == ASSUME Working, BatchInterrupted PROVE Progress'
<1>1. PICK late \in Late : \E e : e # "output" /\ Raise(Interrupted(task, late), e)
  BY DEF BatchInterrupted
<1> DEFINE w == Interrupted(task, late)
<1>2. Sane(w) /\ w.mode = task.mode  BY InterruptedIsSane DEF Working
<1>3. w.results = task.results /\ w.version = task.version
  BY DEF Working, Flow, Interrupted, Sane, Task
<1>4. PICK e : e # "output" /\ Raise(w, e)  BY <1>1
<1> HIDE DEF w
<1>5. Fit(w)  BY <1>2, <1>3 DEF Working, Progress, Fit, Current
<1> QED  BY <1>4, <1>5, RaiseVerifies DEF Working

LEMMA ReviewVerifies ==
  ASSUME Working, Aggregated \/ ResultPasses \/ ResultRejected \/ Notified PROVE Progress'
<1>1. Fit(task) /\ TypeOK /\ Quiet /\ Sane(task)  BY DEF Working, Progress, Fit
<1>2. CASE Aggregated
  <2>1. Whole(task.results) /\ (main.then = "deliver" => Waived(task))
    BY <1>2 DEF Aggregated, Working, Progress
  <2> QED  BY <1>1, <1>2, <2>1, AfterAggregationVerifies DEF Aggregated
<1>3. CASE Raise(task, "WorkflowCancelledError")
  BY <1>1, <1>3, RaiseVerifies
<1>4. CASE ResultPasses /\ ~Raise(task, "WorkflowCancelledError")
  <2> DEFINE w == [task EXCEPT !.judged = task.results]
  <2>1. Return(w, "completed")  BY <1>4 DEF ResultPasses
  <2>2. Fit(w) /\ w.judged = w.results /\ w.results = task.results
    BY <1>1 DEF Fit, Sane, Task, Paid, Current
  <2>3. Whole(task.results)  BY <1>4 DEF ResultPasses, Working, Progress
  <2> HIDE DEF w
  <2> QED  BY <1>1, <2>1, <2>2, <2>3, ReturnVerifies DEF Status
<1>5. CASE ResultRejected /\ ~Raise(task, "WorkflowCancelledError")
  <2>1. PICK targets \in {{s} : s \in Subtask} \cup {Failed(task.results)} :
          \/ EscalateToHuman(task)
          \/ /\ ~(task.reworks >= (IF task.mode = "background" THEN 1 ELSE MaxReplan))
             /\ Rework(task, targets)
    BY <1>5 DEF ResultRejected
  <2>2. targets \in SUBSET Subtask  BY DEF Failed
  <2>3. Whole(task.results)  BY <1>5 DEF ResultRejected, Working, Progress
  <2>4. CASE /\ ~(task.reworks >= (IF task.mode = "background" THEN 1 ELSE MaxReplan))
             /\ Rework(task, targets)
    <3>1. task.reworks < (IF task.mode = "background" THEN 1 ELSE MaxReplan)
      BY <1>1, <2>4, PipelineAssumption DEF Sane, Task
    <3> QED  BY <1>1, <2>2, <2>3, <2>4, <3>1, ReworkVerifies
  <2> QED  BY <1>1, <2>1, <2>4, EscalateVerifies
<1>6. CASE Notified
  <2>1. main'.at = "ended" /\ task' = task /\ output' = "human_required" /\ config' = config
    BY <1>1, <1>6 DEF Notified, At, Quiet
  <2> QED  BY <1>1, <2>1 DEF Progress, Fit, Sane, Paid, Current
<1> QED  BY <1>2, <1>3, <1>4, <1>5, <1>6

LEMMA MainVerifies == ASSUME Working, MainStep PROVE Progress'
  BY PlanningVerifies, PlanAdoptedVerifies, GapSettledVerifies, SubtaskSettledVerifies,
     BatchInterruptedVerifies, ReviewVerifies DEF MainStep

---------------------------------------------------------------------------
(* Everybody else leaves what is delivered alone. *)

LEMMA EndedVerifies ==
  ASSUME Fit(task)', main'.at = "ended", output' # "completed",
         main'.then = "output" => output' # "completed_provisional"
  PROVE  Progress'
  BY DEF Progress

\* v differs from the task in nothing that Progress looks at.
Alike(v) ==
  /\ Sane(v) /\ v.mode = task.mode /\ v.version = task.version /\ v.results = task.results
  /\ v.sched = task.sched /\ v.judged = task.judged
  /\ v.replans = task.replans /\ v.reworks = task.reworks

LEMMA AlikeVerifies ==
  ASSUME Progress, Alike(task'), UNCHANGED <<main, output, config>> PROVE Progress'
<1>1. Fit(task)'
  <2>1. Sane(task)'  BY DEF Alike, Sane, Paid
  <2> QED  BY <2>1 DEF Progress, Fit, Alike, Current
<1>2. Waived(task) => Waived(task)'  BY DEF Alike, Waived, History
<1>3. Whole(task.results) => Whole(task.results)'  BY DEF Alike, Whole
<1> QED  BY <1>1, <1>2, <1>3 DEF Progress, Alike

LEMMA AlikeFits ==
  ASSUME Fit(task), NEW w, Sane(w), w.mode = task.mode, w.version = task.version,
         w.results = task.results
  PROVE  Fit(w)
  BY DEF Fit, Current

\* What run() does to the task when it ends, or before it asks a human.
LEMMA FinishedTask ==
  ASSUME NEW w, Sane(w), NEW s \in Status
  PROVE  LET closed == RevokeGrants([w EXCEPT !.stopping = TRUE])
             told   == Save([w EXCEPT !.stopping = TRUE, !.status = s, !.escalated = TRUE])
             marked == [Save([w EXCEPT !.stopping = TRUE]) EXCEPT !.status = s]
         IN  \A v \in {closed, told, marked, [w EXCEPT !.status = s]} :
               /\ Sane(v) /\ v.mode = w.mode /\ v.version = w.version /\ v.results = w.results
               /\ v.sched = w.sched /\ v.judged = w.judged
               /\ v.replans = w.replans /\ v.reworks = w.reworks
<1> DEFINE Same(v, u) ==
      /\ Sane(v) /\ v.mode = u.mode /\ v.version = u.version /\ v.results = u.results
      /\ v.sched = u.sched /\ v.judged = u.judged
      /\ v.replans = u.replans /\ v.reworks = u.reworks
<1>1. ASSUME NEW u, Sane(u) PROVE Same(Save(u), u)
  <2>1. Sane(Save(u))  BY <1>1, LikeSave DEF Like
  <2> QED  BY <1>1, <2>1 DEF Save, Sane, Task
<1>2. ASSUME NEW u, Sane(u) PROVE Same(RevokeGrants(u), u)
  <2>1. Sane(RevokeGrants(u))  BY <1>2, LikeRevoke DEF Like
  <2> QED  BY <1>2, <2>1 DEF RevokeGrants, Sane, Task
<1>3. ASSUME NEW u, Sane(u) PROVE Same([u EXCEPT !.status = s], u)
  <2>1. Sane([u EXCEPT !.status = s])  BY <1>3, LikeStatus DEF Like
  <2> QED  BY <1>3, <2>1 DEF Sane, Task
<1> DEFINE halted == [w EXCEPT !.stopping = TRUE]
<1> DEFINE handed == [w EXCEPT !.stopping = TRUE, !.status = s, !.escalated = TRUE]
<1>4. Same(halted, w) /\ Same(handed, w)  BY DEF Sane, Task, Paid
<1>5. Same(RevokeGrants(halted), w)
  <2> HIDE DEF halted
  <2>1. Same(RevokeGrants(halted), halted)  BY <1>2, <1>4
  <2> QED  BY <1>4, <2>1
<1>6. Same(Save(handed), w)
  <2> HIDE DEF handed
  <2>1. Same(Save(handed), handed)  BY <1>1, <1>4
  <2> QED  BY <1>4, <2>1
<1>7. Same([Save(halted) EXCEPT !.status = s], w)
  <2> HIDE DEF halted
  <2> DEFINE u == Save(halted)
  <2>1. Same(u, halted)  BY <1>1, <1>4
  <2> HIDE DEF u
  <2>2. Same([u EXCEPT !.status = s], u)  BY <1>3, <2>1
  <2>3. Same([u EXCEPT !.status = s], w)  BY <1>4, <2>1, <2>2
  <2> QED  BY <2>3 DEF u
<1>8. Same([w EXCEPT !.status = s], w)  BY <1>3
<1> QED  BY <1>5, <1>6, <1>7, <1>8

LEMMA InterruptedSame ==
  ASSUME TypeOK, Flow, NEW late \in Late
  PROVE  /\ Sane(Interrupted(task, late)) /\ Interrupted(task, late).mode = task.mode
         /\ Interrupted(task, late).version = task.version
         /\ Interrupted(task, late).results = task.results
  BY InterruptedIsSane DEF Flow, Interrupted, Sane, Task

\* run() is left with an output of its own.
LEMMA FinishVerifies ==
  ASSUME Progress, NEW w, Sane(w), w.mode = task.mode, w.version = task.version,
         w.results = task.results, NEW s, s \notin {"completed", "completed_provisional"},
         NEW how, Finish(w, s, how), main'.at = "ended"
  PROVE  Progress'
<1> DEFINE closed == RevokeGrants([w EXCEPT !.stopping = TRUE])
<1>1. /\ Sane(closed) /\ closed.mode = w.mode /\ closed.version = w.version
      /\ closed.results = w.results
  BY FinishedTask DEF Status
<1>2. task' = closed /\ output' = s  BY DEF Finish
<1> HIDE DEF closed
<1>3. Fit(closed)  BY <1>1, AlikeFits DEF Progress
<1>4. Fit(task)'  BY <1>2, <1>3 DEF Fit, Sane, Current, Paid
<1> QED  BY <1>2, <1>4, EndedVerifies

LEMMA EscalatesVerifies ==
  ASSUME Progress, NEW w, Sane(w), w.mode = task.mode, w.version = task.version,
         w.results = task.results, RunEscalates(w), main'.at = "ended", output # "completed",
         main'.then # "output"
  PROVE  Progress'
<1> DEFINE told == Save([w EXCEPT !.stopping = TRUE, !.status = "human_required",
                                  !.escalated = TRUE])
<1>1. /\ Sane(told) /\ told.mode = w.mode /\ told.version = w.version
      /\ told.results = w.results
  BY FinishedTask DEF Status
<1>2. task' = told /\ output' = output  BY DEF RunEscalates
<1> HIDE DEF told
<1>3. Fit(told)  BY <1>1, AlikeFits DEF Progress
<1>4. Fit(task)'  BY <1>2, <1>3 DEF Fit, Sane, Current, Paid
<1> QED  BY <1>2, <1>4, EndedVerifies

LEMMA MainEndsVerifies == ASSUME Inv, Progress, MainEnds PROVE Progress'
<1>1. /\ Sane(task) /\ main.at = "ended" /\ UNCHANGED <<main, config>>
      /\ output = "completed" => main.then = "output"
  BY DEF Inv, Flow, MainEnds, Progress
<1>2. CASE main.then = "output" /\ Finish(task, output, "returned")
  <2> DEFINE closed == RevokeGrants([task EXCEPT !.stopping = TRUE])
  <2>1. Alike(closed)  BY <1>1, FinishedTask DEF Alike, Status
  <2>2. task' = closed /\ output' = output  BY <1>2 DEF Finish
  <2> HIDE DEF closed
  <2> QED  BY <1>1, <2>1, <2>2, AlikeVerifies
<1>3. CASE main.then # "output" /\ RunEscalates(task)
  BY <1>1, <1>3, EscalatesVerifies
<1>4. CASE Finish([Save([task EXCEPT !.stopping = TRUE]) EXCEPT !.status = "cancelled"],
                  "cancelled", "returned")
  <2> DEFINE w == [Save([task EXCEPT !.stopping = TRUE]) EXCEPT !.status = "cancelled"]
  <2>1. /\ Sane(w) /\ w.mode = task.mode /\ w.version = task.version
        /\ w.results = task.results
    BY <1>1, FinishedTask DEF Status
  <2>2. Finish(w, "cancelled", "returned")  BY <1>4
  <2> HIDE DEF w
  <2> QED  BY <1>1, <2>1, <2>2, FinishVerifies
<1>5. ASSUME NEW s \in {"cancelled", "failed"},
             Finish([task EXCEPT !.status = s], s, "returned")
      PROVE  Progress'
  <2> DEFINE w == [task EXCEPT !.status = s]
  <2>1. s \in Status  BY DEF Status
  <2>2. /\ Sane(w) /\ w.mode = task.mode /\ w.version = task.version
        /\ w.results = task.results
    BY <1>1, <2>1, FinishedTask
  <2>3. Finish(w, s, "returned")  BY <1>5
  <2> HIDE DEF w
  <2> QED  BY <1>1, <2>2, <2>3, FinishVerifies
<1> QED  BY <1>2, <1>3, <1>4, <1>5 DEF MainEnds

LEMMA RunVerifies ==
  ASSUME Inv, Progress, RunStep \/ Timeout \/ TaskCancelled PROVE Progress'
<1>1. TypeOK /\ Flow /\ Sane(task)  BY DEF Inv, Flow
<1>2. CASE Stall \/ Timeout
  <2>1. PICK late \in Late : RunEscalates(Interrupted(task, late))
    BY <1>2 DEF Stall, Timeout
  <2> DEFINE w == Interrupted(task, late)
  <2>2. /\ Sane(w) /\ w.mode = task.mode /\ w.version = task.version
        /\ w.results = task.results
    BY <1>1, InterruptedSame
  <2>3. main'.at = "ended" /\ main'.then # "output" /\ output # "completed"
    BY <1>2 DEF Stall, Timeout, At, Progress
  <2>4. RunEscalates(w)  BY <2>1
  <2> HIDE DEF w
  <2> QED  BY <2>2, <2>3, <2>4, EscalatesVerifies
<1>3. CASE RunNotified
  <2>1. main'.at = "ended"  BY <1>1, <1>3 DEF RunNotified, Flow
  <2> QED  BY <1>1, <1>3, <2>1, FinishVerifies DEF RunNotified
<1>4. CASE TaskCancelled
  <2>1. PICK late \in Late :
          Finish([Save([Interrupted(task, late) EXCEPT !.stopping = TRUE])
                    EXCEPT !.status = "cancelled"], "none", "raised")
    BY <1>4 DEF TaskCancelled
  <2> DEFINE i == Interrupted(task, late)
  <2> DEFINE w == [Save([i EXCEPT !.stopping = TRUE]) EXCEPT !.status = "cancelled"]
  <2>2. /\ Sane(i) /\ i.mode = task.mode /\ i.version = task.version
        /\ i.results = task.results
    BY <1>1, InterruptedSame
  <2>3. Finish(w, "none", "raised")  BY <2>1
  <2> HIDE DEF i
  <2>4. /\ Sane(w) /\ w.mode = i.mode /\ w.version = i.version /\ w.results = i.results
    BY <2>2, FinishedTask DEF Status
  <2> HIDE DEF w
  <2>5. main'.at = "ended"  BY <1>4 DEF TaskCancelled, At
  <2> QED  BY <2>2, <2>3, <2>4, <2>5, FinishVerifies
<1> QED  BY <1>2, <1>3, <1>4, MainEndsVerifies DEF RunStep

LEMMA OthersVerify ==
  ASSUME Inv, Progress, WatchdogFires \/ Cancel \/ Spend \/ DeleteCheckpoint \/ UNCHANGED vars
  PROVE  Progress'
<1>1. UNCHANGED <<main, output, config>>
  BY DEF WatchdogFires, Cancel, Spend, DeleteCheckpoint, vars
<1>2. \/ task' = task \/ task' = [task EXCEPT !.stopping = TRUE]
      \/ task' = [task EXCEPT !.saved = {}]
  BY DEF WatchdogFires, Cancel, Spend, DeleteCheckpoint, vars
<1>3. Sane(task)  BY DEF Inv, Flow
<1>4. ASSUME task' = task PROVE Alike(task')
  BY <1>3, <1>4 DEF Alike
<1>5. ASSUME task' = [task EXCEPT !.stopping = TRUE] PROVE Alike(task')
  BY <1>3, <1>5 DEF Alike, Sane, Task, Paid
<1>6. ASSUME task' = [task EXCEPT !.saved = {}] PROVE Alike(task')
  BY <1>3, <1>6 DEF Alike, Sane, Task, Paid
<1> QED  BY <1>1, <1>2, <1>4, <1>5, <1>6, AlikeVerifies

\* A result that was delivered early is whole when its review begins.
LEMMA BackgroundVerifies == ASSUME Inv, Progress, StartBackgroundReview PROVE Progress'
<1> DEFINE w == [task EXCEPT !.mode = "background", !.provisional = TRUE,
                             !.stopping = FALSE]
<1> DEFINE v == [w EXCEPT !.status = "result_review"]
<1>1. Sane(w) /\ w.mode = "background" /\ w.version = task.version /\ w.results = task.results
  BY DEF Inv, Flow, Sane, Task, Paid
<1>2. Raise(w, "WorkflowCancelledError") \/ Suspend(v, At("reviewing", "review"))
  BY DEF StartBackgroundReview
<1>3. Quiet /\ Whole(task.results)
  BY DEF StartBackgroundReview, Running, Quiet, Progress
<1> HIDE DEF w
<1>4. Fit(w) /\ Whole(w.results)  BY <1>1, <1>3 DEF Progress, Fit, Current
<1>5. Twin(v, w)  BY <1>4, Twins DEF Fit, Status
<1> HIDE DEF v
<1>6. Fit(v) /\ Whole(v.results)  BY <1>4, <1>5, TwinFits DEF Twin
<1>7. At("reviewing", "review").at = "reviewing"  BY DEF At
<1> QED  BY <1>2, <1>3, <1>4, <1>6, <1>7, RaiseVerifies, SuspendVerifies

LEMMA NextVerifies == ASSUME Inv, Unresumed, [Next]_vars PROVE Unresumed'
<1>1. SUFFICES ASSUME resumes' = 0 PROVE Progress' \/ Rests'
  BY DEF Unresumed
<1>2. CASE ResumeWithGuidance
  BY <1>1, <1>2, PipelineAssumption DEF ResumeWithGuidance, Inv, TypeOK
<1>3. CASE Restore
  BY <1>3 DEF Restore, Rests, At
<1> SUFFICES ASSUME ~ResumeWithGuidance, ~Restore PROVE Progress' \/ Rests'
  BY <1>2, <1>3
<1>4. resumes = 0
  BY <1>1 DEF Next, MainStep, RunStep, MainEnds, Stall, RunNotified, WatchdogFires, Timeout,
              TaskCancelled, Cancel, Spend, StartBackgroundReview, DeleteCheckpoint, vars
<1>5. CASE Rests
  <2>1. ~MainStep
    BY <1>5 DEF Rests, MainStep, Refreshed, AnswerTooLate, AnswerOverBudget, DeadlineInCall,
         CallFails, NetworkFails, PlanInvalid, PlanAdopted, PlanPasses, PlanRejected, GapSettled,
         SubtaskSettled, BatchInterrupted, Aggregated, ResultPasses, ResultRejected, Notified
  <2>2. UNCHANGED vars
    BY <1>5, <2>1 DEF Rests, Next, RunStep, MainEnds, Stall, RunNotified, WatchdogFires,
         Timeout, TaskCancelled, Cancel, Spend, StartBackgroundReview, DeleteCheckpoint, Running
  <2> QED  BY <1>5, <2>2 DEF Rests, vars
<1>6. CASE Progress
  <2>1. CASE MainStep
    <3>1. main.at # "ended"
      BY <2>1 DEF MainStep, Refreshed, AnswerTooLate, AnswerOverBudget, DeadlineInCall,
         CallFails, NetworkFails, PlanInvalid, PlanAdopted, PlanPasses, PlanRejected, GapSettled,
         SubtaskSettled, BatchInterrupted, Aggregated, ResultPasses, ResultRejected, Notified
    <3>2. Working  BY <1>6, <2>1, <3>1 DEF MainStep, Working, Inv, Quiet, Progress
    <3> QED  BY <2>1, <3>2, MainVerifies
  <2> QED  BY <1>6, <2>1, RunVerifies, OthersVerify, BackgroundVerifies DEF Next
<1> QED  BY <1>4, <1>5, <1>6 DEF Unresumed

LEMMA InitVerified == ASSUME Init PROVE Unresumed
<1>1. Sane(task)  BY InitEstablishes DEF Inv, Flow
<1>2. task.mode = "run" /\ \A s \in Subtask : task.results[s] = None
  BY DEF Init, NoResults
<1>3. main.at = "refreshing" /\ output = "none"  BY DEF Init, At
<1> QED  BY <1>1, <1>2, <1>3 DEF Unresumed, Progress, Fit, Current

\* "completed" is said of a task only when every subtask of its plan has
\* succeeded, with results of that plan or declared to be reused, and the review
\* that passed was about exactly these results; unless the configuration waives
\* it or a human has resumed the task: over replanning, rework, reuse, early
\* delivery, interruptions and the reading of checkpoints.
THEOREM CompletedIsVerified == Spec => []DeliveredIsVerified
<1>1. Inv /\ Unresumed /\ [Next]_vars => Unresumed'  BY NextVerifies
<1>2. Unresumed => DeliveredIsVerified
  <2> SUFFICES ASSUME Unresumed, output = "completed", resumes = 0
               PROVE  /\ Good(task.results) = Subtask
                      /\ \A s \in Subtask :
                           task.results[s].by = task.version \/ task.results[s].reused
                      /\ task.judged = task.results \/ Waived(task)
    BY DEF DeliveredIsVerified, Waived
  <2>1. Progress  BY DEF Unresumed, Rests
  <2>2. Whole(task.results) /\ (task.judged = task.results \/ Waived(task))
    BY <2>1 DEF Progress
  <2>3. \A s \in Subtask : task.results[s] # None
    BY <2>2, NoneIsOpen DEF Whole
  <2> QED  BY <2>1, <2>2, <2>3, WholeIsGood DEF Progress, Fit, Current
<1> QED  BY <1>1, <1>2, InitVerified, InvAlways, PTL DEF Spec
===========================================================================
