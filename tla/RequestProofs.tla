----------------------------- MODULE RequestProofs -----------------------------
(***************************************************************************)
(* Theorems about a request on its way to a plan (TaskIntake), for any set  *)
(* of requests, and about the calls of the supervisor and of the reviewers  *)
(* (SupervisorCalls), for any number of calls, providers and limits: that   *)
(* work for tools is completed only by what could do it; type correctness   *)
(* of the calls, that a result which arrives after the gate was stopped or  *)
(* reset does not count, that a review passes only by an explicit pass, and *)
(* that nothing is handed on beyond the token budget.  Last, of the plan    *)
(* (PlanAdoption), for any proposals: what is accepted carries out the      *)
(* proposal, once each and in its order, however many steps are merged;     *)
(* what runs side by side is proven apart; and with one merge at most, what *)
(* is valid stays valid.                                                    *)
(***************************************************************************)
EXTENDS TaskIntake, SupervisorCalls, FiniteSetTheorems, SequenceTheorems,
        WellFoundedInduction, TLAPS

(***************************************************************************)
(* The routing of a request.                                                *)
(***************************************************************************)

\* Where a request is says how it got there: what answers in words has no work
\* for tools to do, and the fast path has one file to write.
Routed ==
  /\ request \in Requests
  /\ stage \in {"route", "answering", "scheduling", "fast_path", "workflow"} => answer # "completed"
  /\ stage = "answering" => class \in WithoutTool /\ ~ Demanded(request)
  /\ stage = "scheduling" => class \notin WithoutTool
  /\ stage = "fast_path" => class = "full_workflow" /\ SingleFile(request)

\* What is in the sandbox is the one file of a request that was completed.
FileWritten ==
  DOMAIN sandbox # {} =>
    /\ stage = "done" /\ class = "full_workflow" /\ SingleFile(request)
    /\ \E content \in Contents : Acceptable(content) /\ sandbox = Written(content)

\* A completed request had no work for tools, or has its file.
DoneHow ==
  answer = "completed" =>
    stage = "done" /\ (~ Demanded(request) \/ DOMAIN sandbox # {})

RoutingInductive == Routed /\ FileWritten /\ DoneHow

\* Work for tools is recognised by the classifier: a clause that forbids nothing
\* is not struck out.
LEMMA DemandedNeedsTools ==
  ASSUME NEW r, Demanded(r)
  PROVE  NeedsTools(r)
BY DEF Demanded, NeedsTools, Stripped

\* A request the rules recognise as plain has no work for tools.
LEMMA PlainIsNoWork ==
  ASSUME NEW r \in Requests, RuleApplies(r)
  PROVE  ~ Demanded(r)
BY RoutingAssumption DEF RuleApplies, Demanded

\* The file of the fast path is the only one the request names.
LEMMA TheOneFile ==
  ASSUME NEW r \in Requests, SingleFile(r)
  PROVE  FilesIn(Text(r)) = {Target(r)}
<1>1. IsFiniteSet(FilesIn(r.objective)) /\ Cardinality(FilesIn(r.objective)) = 1
  BY RoutingAssumption DEF SingleFile
<1>2. PICK f : FilesIn(r.objective) = {f}
  BY <1>1, FS_Singleton
<1> QED
  BY <1>2 DEF SingleFile, Target

LEMMA DispatchRouted ==
  ASSUME RoutingInductive, stage = "route", NEW type \in TaskTypes,
         type \in WithoutTool => ~ Demanded(request), Dispatch(type)
  PROVE  RoutingInductive'
<1>1. /\ class' = type /\ UNCHANGED <<request, answer, sandbox>>
      /\ DOMAIN sandbox = {} /\ answer # "completed"
  BY DEF Dispatch, RoutingInductive, FileWritten, Routed
<1>2. CASE type \in WithoutTool
  <2>1. stage' = "answering"
    BY <1>2 DEF Dispatch, WithoutTool
  <2> QED
    BY <1>1, <1>2, <2>1 DEF RoutingInductive, Routed, FileWritten, DoneHow
<1>3. CASE type = "persistent_task"
  <2>1. stage' = "scheduling" /\ class' \notin WithoutTool
    BY <1>1, <1>3 DEF Dispatch, WithoutTool
  <2> QED
    BY <1>1, <2>1 DEF RoutingInductive, Routed, FileWritten, DoneHow
<1>4. CASE type = "full_workflow"
  <2>1. \/ stage' = "fast_path" /\ SingleFile(request)
        \/ stage' = "workflow"
    BY <1>4 DEF Dispatch, WithoutTool
  <2> QED
    BY <1>1, <1>4, <2>1 DEF RoutingInductive, Routed, FileWritten, DoneHow
<1> QED
  BY <1>2, <1>3, <1>4 DEF TaskTypes, WithoutTool

LEMMA RoutingStep ==
  ASSUME RoutingInductive, RoutingNext
  PROVE  RoutingInductive'
<1>1. CASE ClassifyByRule
  <2>1. stage = "route" /\ request \in Requests
    BY <1>1 DEF ClassifyByRule, RoutingInductive, Routed
  <2>2. CASE EnableRouter
    <3>1. Dispatch("direct_answer") /\ RuleApplies(request)
      BY <1>1, <2>2 DEF ClassifyByRule
    <3> QED
      BY <2>1, <3>1, PlainIsNoWork, DispatchRouted DEF TaskTypes
  <2>3. CASE ~ EnableRouter
    <3>1. Dispatch("full_workflow")
      BY <1>1, <2>3 DEF ClassifyByRule
    <3> QED
      BY <2>1, <3>1, DispatchRouted DEF TaskTypes, WithoutTool
  <2> QED
    BY <2>2, <2>3
<1>2. ASSUME NEW reply \in Replies, ClassifyByModel(reply)
      PROVE  RoutingInductive'
  <2>1. stage = "route" /\ Dispatch(Classified(request, reply))
    BY <1>2 DEF ClassifyByModel
  <2>2. Classified(request, reply) \in TaskTypes
    BY DEF Classified, Read, TaskTypes
  <2>3. Classified(request, reply) \in WithoutTool => ~ Demanded(request)
    BY DemandedNeedsTools DEF Classified, WithoutTool
  <2> QED
    BY <2>1, <2>2, <2>3, DispatchRouted
<1>3. ASSUME NEW reply, AnswerDirectly(reply) \/ ReasonDeeply(reply)
      PROVE  RoutingInductive'
  <2>1. /\ stage = "answering" /\ UNCHANGED <<request, class, sandbox>>
        /\ \/ stage' = "workflow" /\ UNCHANGED answer
           \/ stage' = "done"
    BY <1>3 DEF AnswerDirectly, ReasonDeeply, Guarded, Finish
  <2>2. DOMAIN sandbox = {} /\ ~ Demanded(request) /\ answer # "completed"
    BY <2>1 DEF RoutingInductive, FileWritten, Routed
  <2> QED
    BY <2>1, <2>2 DEF RoutingInductive, Routed, FileWritten, DoneHow, Demanded
<1>4. ASSUME NEW trigger, Schedule(trigger)
      PROVE  RoutingInductive'
  <2>1. /\ stage = "scheduling" /\ stage' = "done" /\ answer' # "completed"
        /\ UNCHANGED <<request, class, sandbox>>
    BY <1>4 DEF Schedule, Finish
  <2>2. DOMAIN sandbox = {}
    BY <2>1 DEF RoutingInductive, FileWritten
  <2> QED
    BY <2>1, <2>2 DEF RoutingInductive, Routed, FileWritten, DoneHow
<1>5. ASSUME NEW content \in Contents, WriteFile(content)
      PROVE  RoutingInductive'
  <2>1. /\ stage = "fast_path" /\ stage' = "done" /\ Acceptable(content)
        /\ sandbox' = Written(content) /\ UNCHANGED <<request, class>>
    BY <1>5 DEF WriteFile, Finish
  <2>2. Acceptable(content)' /\ Written(content)' = Written(content)
    BY <2>1 DEF Acceptable, Written, Target, RequiredContains
  <2>3. DOMAIN sandbox' # {}
    BY <2>1 DEF Written
  <2>4. class = "full_workflow" /\ SingleFile(request) /\ request \in Requests
    BY <2>1 DEF RoutingInductive, Routed
  <2>5. Routed' /\ DoneHow'
    BY <2>1, <2>3, <2>4 DEF Routed, DoneHow
  <2>6. FileWritten'
    BY <2>1, <2>2, <2>4 DEF FileWritten
  <2> QED
    BY <2>5, <2>6 DEF RoutingInductive
<1>6. ASSUME NEW content \in Contents, NEW refused \in BOOLEAN, FallBack(content, refused)
      PROVE  RoutingInductive'
  <2>1. /\ stage = "fast_path" /\ stage' = "workflow"
        /\ UNCHANGED <<request, class, answer, sandbox>>
    BY <1>6 DEF FallBack
  <2>2. DOMAIN sandbox = {} /\ answer # "completed"
    BY <2>1 DEF RoutingInductive, FileWritten, Routed
  <2> QED
    BY <2>1, <2>2 DEF RoutingInductive, Routed, FileWritten, DoneHow
<1> QED
  BY <1>1, <1>2, <1>3, <1>4, <1>5, <1>6 DEF RoutingNext

LEMMA RoutedByTools ==
  ASSUME RoutingInductive
  PROVE  CompletedByTools
<1>1. ASSUME answer = "completed", Demanded(request)
      PROVE  /\ DOMAIN sandbox = FilesIn(Text(request)) /\ DOMAIN sandbox # {}
             /\ \A file \in DOMAIN sandbox : RequiredContains(request) \subseteq sandbox[file]
  <2>1. DOMAIN sandbox # {}
    BY <1>1 DEF RoutingInductive, DoneHow
  <2>2. PICK content \in Contents : Acceptable(content) /\ sandbox = Written(content)
    BY <2>1 DEF RoutingInductive, FileWritten
  <2>3. SingleFile(request) /\ request \in Requests
    BY <2>1 DEF RoutingInductive, FileWritten, Routed
  <2> QED
    BY <2>2, <2>3, TheOneFile DEF Written, Acceptable
<1>2. stage # "done" \/ class \in WithoutTool => DOMAIN sandbox = {}
  BY DEF RoutingInductive, FileWritten, WithoutTool
<1> QED
  BY <1>1, <1>2 DEF CompletedByTools, RequiredContains

(* Whatever is planned beside it, a request is answered as completed only by *)
(* what could do it: for work that needs tools the one file it names is      *)
(* there with the literals it had to contain, and a request that is answered *)
(* in words, scheduled or handed to the workflow leaves no file behind       *)
(* (router.py, direct_answer.py, deep_reasoning.py, paths/single_file.py).   *)
THEOREM WorkCompletedByTools == Spec => []CompletedByTools
<1>1. Init => RoutingInductive
  BY DEF Init, RoutingInit, RoutingInductive, Routed, FileWritten, DoneHow, WithoutTool
<1>2. RoutingInductive /\ [Next]_vars => RoutingInductive'
  <2> SUFFICES ASSUME RoutingInductive, [Next]_vars PROVE RoutingInductive'
    OBVIOUS
  <2>1. CASE RoutingNext
    BY <2>1, RoutingStep
  <2>2. CASE UNCHANGED routingVars
    <3>1. /\ UNCHANGED <<request, class, stage, answer, sandbox>>
          /\ \A c : Acceptable(c)' = Acceptable(c) /\ Written(c)' = Written(c)
      BY <2>2 DEF routingVars, Acceptable, Written, Target, RequiredContains
    <3> QED
      BY <3>1 DEF RoutingInductive, Routed, FileWritten, DoneHow
  <2> QED
    BY <2>1, <2>2 DEF Next, Route, PlanIt, Ended, vars
<1>3. RoutingInductive => CompletedByTools
  BY RoutedByTools
<1> QED
  BY <1>1, <1>2, <1>3, PTL DEF Spec

----------------------------------------------------------------------------
(***************************************************************************)
(* The calls of the supervisor and of the reviewers.  A step of a call      *)
(* replaces its record.  Fits says of the new record all that the theorems  *)
(* need; one lemma per kind of step shows it, and the theorems look only at *)
(* Fits and at the steps of the gate.                                       *)
(***************************************************************************)
Running == {"turn", "asking", "tool"}

\* The record r may replace the one of call c in this step.
Fits(c, r) ==
  /\ call[c].pc # "done" /\ r.pc # "idle"
  /\ r.pc # "done" =>
       /\ r.out = "none"
       /\ r.generation = IF call[c].pc = "idle" THEN gate.generation ELSE call[c].generation
  /\ r.pc = "done" => r.generation = 0
  /\ r.out = "value" => c \in Supervisor /\ UnderWay(c) /\ ~ Late(c)
  /\ r.out = "pass" => r.said.object /\ r.said.passed = "yes" /\ r.said.fixes # "listed"
  /\ r.out \in {"value", "pass"} => ~ Exceeded(budget', total')

Replaced(c) == \E r \in CallState : call' = [call EXCEPT ![c] = r] /\ Fits(c, r)

\* A call that is not done has no outcome, and no call is of a later generation
\* than the gate.
Flow ==
  \A c \in Call : /\ call[c].pc # "done" => call[c].out = "none"
                  /\ call[c].generation <= gate.generation

\* A supervisor's call that missed a stop or a reset is late until it returns.
MissedIsLate ==
  \A c \in missed : /\ call[c].pc # "idle"
                    /\ c \in Supervisor /\ UnderWay(c) => Late(c)

Inductive == TypeOK /\ Flow /\ MissedIsLate /\ LateResultsIsolated /\ PassedOnlyIfSaid

----------------------------------------------------------------------------
(***************************************************************************)
(* What the helpers do.                                                     *)
(***************************************************************************)
LEMMA NothingTyped == Nothing \in Output
BY DEF Nothing, Output

LEMMA IdleTyped == Idle \in CallState
BY NothingTyped DEF Idle, CallState, Out

\* A call that ends without a review's verdict, and hands nothing on.
LEMMA DoneFits ==
  ASSUME NEW c \in Call, NEW o \in Out \ {"value", "pass"}, call[c].pc # "done", Done(c, o)
  PROVE  Replaced(c)
<1> DEFINE r == [Idle EXCEPT !.pc = "done", !.out = o]
<1>1. r \in CallState
  BY IdleTyped DEF CallState
<1>2. /\ r.pc = "done" /\ r.generation = 0 /\ r.out = o
  BY DEF Idle
<1>3. Fits(c, r)
  BY <1>2 DEF Fits
<1> QED BY <1>1, <1>3 DEF Done, Replaced

\* A supervisor's result that is in time and within the budget.
LEMMA ValueFits ==
  ASSUME NEW c \in Supervisor, UnderWay(c), ~ Late(c), Done(c, "value"),
         ~ Exceeded(budget', total')
  PROVE  Replaced(c)
<1> DEFINE r == [Idle EXCEPT !.pc = "done", !.out = "value"]
<1>1. r \in CallState
  BY IdleTyped DEF CallState, Out
<1>2. r.pc = "done" /\ r.generation = 0 /\ r.out = "value"
  BY DEF Idle
<1>3. Fits(c, r)
  BY <1>2 DEF Fits, UnderWay
<1> QED BY <1>1, <1>3 DEF Done, Replaced

\* A review that ends with what was said.
LEMMA ConcludedFits ==
  ASSUME TypeOK, NEW c \in Call, call[c].pc # "done", NEW o \in Output,
         NEW outcome \in {"pass", "fail"}, Concludes(c, o, outcome),
         ~ Exceeded(budget', total'),
         outcome = "pass" => o.object /\ o.passed = "yes" /\ o.fixes # "listed"
  PROVE  Replaced(c)
<1> DEFINE r == [Idle EXCEPT !.pc = "done", !.verdict = call[c].verdict, !.said = o,
                             !.out = outcome]
<1>1. call[c] \in CallState
  BY DEF TypeOK
<1>2. r \in CallState
  BY <1>1, IdleTyped DEF CallState, Out
<1>3. r.pc = "done" /\ r.generation = 0 /\ r.out = outcome /\ r.said = o
  BY DEF Idle
<1>4. Fits(c, r)
  BY <1>3 DEF Fits
<1> QED BY <1>2, <1>4 DEF Concludes, Replaced

\* A call that goes on with its model, its tool or another run of the reviewer.
LEMMA OngoingFits ==
  ASSUME TypeOK, Flow, NEW c \in Call, UnderWay(c), NEW r \in CallState, r.pc \in Running,
         r.generation = call[c].generation, r.out = call[c].out,
         call' = [call EXCEPT ![c] = r]
  PROVE  Replaced(c)
<1>1. call[c].pc # "done" /\ call[c].pc # "idle" /\ call[c].out = "none"
  BY DEF UnderWay, Flow
<1>2. Fits(c, r)
  BY <1>1 DEF Fits, Running
<1> QED BY <1>2 DEF Replaced

LEMMA HealthTyped ==
  ASSUME TypeOK, NEW p, RecordFailure(p) \/ RecordSuccess(p)
  PROVE  health' \in [Provider -> [failures : 0..Threshold, cooling : BOOLEAN]]
<1>1. Threshold \in Nat \ {0}
  BY CallsAssumption
<1>2. CASE p \notin Provider
  BY <1>2 DEF RecordFailure, RecordSuccess, TypeOK
<1>3. CASE p \in Provider
  <2>1. health[p].failures \in 0..Threshold /\ health[p].cooling \in BOOLEAN
    BY <1>3 DEF TypeOK
  <2>2. CASE RecordSuccess(p)
    BY <1>1, <1>3, <2>2 DEF RecordSuccess, TypeOK
  <2>3. CASE RecordFailure(p)
    <3> DEFINE n == IF health[p].failures < Threshold THEN health[p].failures + 1 ELSE Threshold
               b == health[p].cooling \/ health[p].failures + 1 >= Threshold
    <3>1. n \in 0..Threshold /\ b \in BOOLEAN
      BY <1>1, <2>1
    <3>2. health' = [health EXCEPT ![p] = [failures |-> n, cooling |-> b]]
      BY <2>3 DEF RecordFailure
    <3> HIDE DEF n, b
    <3> QED BY <1>3, <3>1, <3>2 DEF TypeOK
  <2> QED BY <2>2, <2>3
<1> QED BY <1>2, <1>3

LEMMA ObserveTyped ==
  ASSUME TypeOK, NEW l \in Label, NEW n \in Nat, Observe(l, n)
  PROVE  budget' \in [Label -> Nat] /\ total' \in Nat
BY DEF Observe, TypeOK

LEMMA TokensCounted ==
  ASSUME TypeOK, NEW c \in Call
  PROVE  Tokens(c) \in Nat
BY DEF Tokens, TypeOK, CallState

\* Another run of the reviewer, for an output that cannot be read or contradicts itself.
LEMMA AgainFits ==
  ASSUME TypeOK, Flow, NEW c \in Call, UnderWay(c), NEW round \in {"first", "repair"},
         NEW retries \in Nat, NEW verdict \in {"none", "pass", "fail"},
         Again(c, round, retries, verdict)
  PROVE  Replaced(c)
<1> DEFINE r == [call[c] EXCEPT !.pc = "turn", !.turns = 0, !.left = {}, !.stage = round,
                                !.retries = retries, !.verdict = verdict]
<1>1. call[c] \in CallState /\ call \in [Call -> CallState]
  BY DEF TypeOK
<1>2. call' = [call EXCEPT ![c] = r]
  BY <1>1 DEF Again
<1>3. r \in CallState /\ r.pc = "turn" /\ r.generation = call[c].generation /\ r.out = call[c].out
  BY <1>1 DEF CallState
<1> QED BY <1>2, <1>3, OngoingFits DEF Running

LEMMA RepairAnswerFits ==
  ASSUME TypeOK, NEW c \in Call, call[c].pc # "done", NEW o \in Output, RepairAnswer(c, o),
         ~ Exceeded(budget', total')
  PROVE  Replaced(c)
<1> DEFINE outcome == IF o.object /\ o.passed # "unclear" /\ ~ Contradiction(Rescued(o))
                      THEN Verdict(o) ELSE "fail"
<1>1. outcome \in {"pass", "fail"}
  BY DEF Verdict
<1>2. outcome = "pass" => o.object /\ o.passed = "yes" /\ o.fixes # "listed"
  BY DEF Verdict, Contradiction, Rescued, Output
<1>3. Concludes(c, o, outcome)
  BY DEF RepairAnswer
<1> HIDE DEF outcome
<1> QED BY <1>1, <1>2, <1>3, ConcludedFits

LEMMA FirstAnswerFits ==
  ASSUME TypeOK, Flow, NEW c \in Call, UnderWay(c), NEW o \in Output, FirstAnswer(c, o),
         ~ Exceeded(budget', total')
  PROVE  Replaced(c)
<1>1. call[c].pc # "done" /\ call[c].retries \in Nat
  BY DEF UnderWay, TypeOK, CallState
<1>2. Verdict(Rescued(o)) \in {"pass", "fail"}
  BY DEF Verdict
<1>3. CASE Concludes(c, o, "fail")
  BY <1>1, <1>3, ConcludedFits
<1>4. CASE Again(c, "first", call[c].retries + 1, "none")
  BY <1>1, <1>4, AgainFits
<1>5. CASE Again(c, "repair", call[c].retries, Verdict(Rescued(o)))
  BY <1>1, <1>2, <1>5, AgainFits
<1>6. CASE /\ o.object /\ o.passed # "unclear" /\ ~ Contradiction(Rescued(o))
           /\ Concludes(c, o, Verdict(Rescued(o)))
  <2>1. Verdict(Rescued(o)) = "pass" => o.object /\ o.passed = "yes" /\ o.fixes # "listed"
    BY <1>6 DEF Verdict, Contradiction, Rescued, Output
  <2> QED BY <1>1, <1>2, <1>6, <2>1, ConcludedFits
<1> QED BY <1>3, <1>4, <1>5, <1>6 DEF FirstAnswer, Judged, Output

----------------------------------------------------------------------------
(***************************************************************************)
(* Every step of a call replaces its record by one that fits.               *)
(***************************************************************************)
CallStep(c) == SupervisorStarts(c) \/ ReviewStarts(c) \/ CallProgress(c)

LEMMA StartFits ==
  ASSUME TypeOK, Flow, NEW c \in Call, call[c].pc = "idle", NEW clipped \in BOOLEAN,
         Starts(c, clipped)
  PROVE  Replaced(c)
<1> DEFINE r == [call[c] EXCEPT !.pc = "turn", !.generation = gate.generation,
                                !.clipped = clipped]
<1>1. call[c] \in CallState /\ call \in [Call -> CallState] /\ gate.generation \in Nat
  BY DEF TypeOK
<1>2. call' = [call EXCEPT ![c] = r]
  BY <1>1 DEF Starts
<1>3. /\ r \in CallState /\ r.pc = "turn" /\ r.generation = gate.generation
      /\ r.out = call[c].out
  BY <1>1 DEF CallState
<1>4. Fits(c, r)
  BY <1>3 DEF Fits, Flow
<1> QED BY <1>2, <1>3, <1>4 DEF Replaced

LEMMA SupervisorStartFits ==
  ASSUME TypeOK, Flow, NEW c \in Call, SupervisorStarts(c)
  PROVE  Replaced(c)
<1>1. call[c].pc = "idle" /\ call[c].pc # "done"
  BY DEF SupervisorStarts
<1>2. CASE Done(c, "stopped") \/ Done(c, "deadline")
  BY <1>1, <1>2, DoneFits DEF Out
<1>3. CASE \E clipped \in BOOLEAN : Starts(c, clipped)
  BY <1>1, <1>3, StartFits
<1> QED BY <1>2, <1>3 DEF SupervisorStarts

LEMMA ModelStepFits ==
  ASSUME TypeOK, Flow, NEW c \in Call, Ask(c) \/ ProviderDown(c) \/ AnswersWithTool(c) \/ ToolEnds(c)
  PROVE  Replaced(c)
<1>1. call[c] \in CallState /\ call \in [Call -> CallState]
  BY DEF TypeOK
<1>2. UnderWay(c) /\ call[c].pc # "done"
  BY DEF Ask, ProviderDown, AnswersWithTool, ToolEnds, UnderWay
<1>3. CASE Done(c, "error")
  BY <1>2, <1>3, DoneFits DEF Out
<1>4. CASE Ask(c)
  <2> DEFINE r == [call[c] EXCEPT !.pc = "asking", !.left = OrderedProviders]
  <2>1. OrderedProviders \in SUBSET DOMAIN Chain
    BY DEF OrderedProviders
  <2>2. r \in CallState /\ r.pc = "asking" /\ r.generation = call[c].generation /\ r.out = call[c].out
    BY <1>1, <2>1 DEF CallState
  <2>3. call' = [call EXCEPT ![c] = r]
    BY <1>1, <1>4 DEF Ask
  <2> QED BY <1>2, <2>2, <2>3, OngoingFits DEF Running
<1>5. CASE ProviderDown(c) /\ ~ Done(c, "error")
  <2> DEFINE rest == call[c].left \ {First(call[c].left)}
             r == [call[c] EXCEPT !.left = rest]
  <2>1. rest \in SUBSET DOMAIN Chain
    BY <1>1 DEF CallState
  <2>2. r \in CallState /\ r.pc = call[c].pc /\ r.generation = call[c].generation /\ r.out = call[c].out
    BY <1>1, <2>1 DEF CallState
  <2>3. call' = [call EXCEPT ![c] = r]
    BY <1>1, <1>5 DEF ProviderDown
  <2>4. r.pc \in Running
    BY <1>2, <2>2 DEF UnderWay, Running
  <2> QED BY <1>2, <2>2, <2>3, <2>4, OngoingFits
<1>6. CASE AnswersWithTool(c) /\ ~ Done(c, "error")
  <2> DEFINE n == call[c].turns + 1
             r == [call[c] EXCEPT !.pc = "tool", !.turns = n, !.left = {}]
  <2>1. n \in Nat
    BY <1>1 DEF CallState
  <2>2. call' = [call EXCEPT ![c] = r]
    BY <1>1, <1>6 DEF AnswersWithTool
  <2> HIDE DEF n
  <2>3. r \in CallState /\ r.pc = "tool" /\ r.generation = call[c].generation /\ r.out = call[c].out
    BY <1>1, <2>1 DEF CallState
  <2> QED BY <1>2, <2>2, <2>3, OngoingFits DEF Running
<1>7. CASE ToolEnds(c)
  <2> DEFINE r == [call[c] EXCEPT !.pc = "turn"]
  <2>1. r \in CallState /\ r.pc = "turn" /\ r.generation = call[c].generation /\ r.out = call[c].out
    BY <1>1 DEF CallState
  <2>2. call' = [call EXCEPT ![c] = r]
    BY <1>1, <1>7 DEF ToolEnds
  <2> QED BY <1>2, <2>1, <2>2, OngoingFits DEF Running
<1> QED BY <1>3, <1>4, <1>5, <1>6, <1>7

LEMMA ReturnFits ==
  ASSUME TypeOK, Flow, NEW c \in Call, SupervisorReturns(c) \/ ReviewReturns(c)
  PROVE  Replaced(c)
<1>1. UnderWay(c) /\ call[c].pc # "done"
  BY DEF SupervisorReturns, ReviewReturns, Answered, UnderWay
<1>2. CASE \E o \in {"stopped", "overspent", "error"} : Done(c, o)
  BY <1>1, <1>2, DoneFits DEF Out
<1>3. CASE SupervisorReturns(c)
  <2>1. CASE /\ ~ Late(c) /\ ~ Enforced(c, budget', total')
             /\ \E o \in {"value", "error"} : Done(c, o)
    <3>1. ~ Exceeded(budget', total')
      BY <2>1 DEF Enforced
    <3>2. CASE Done(c, "value")
      BY <1>1, <1>3, <2>1, <3>1, <3>2, ValueFits DEF SupervisorReturns
    <3> QED BY <2>1, <3>2, <1>2
  <2> QED BY <1>2, <1>3, <2>1 DEF SupervisorReturns
<1>4. CASE ReviewReturns(c)
  <2>1. CASE /\ ~ Enforced(c, budget', total')
             /\ \E o \in Output :
                  IF call[c].stage = "repair" THEN RepairAnswer(c, o) ELSE FirstAnswer(c, o)
    <3>1. ~ Exceeded(budget', total')
      BY <2>1 DEF Enforced
    <3>2. PICK o \in Output : RepairAnswer(c, o) \/ FirstAnswer(c, o)
      BY <2>1
    <3> QED BY <1>1, <3>1, <3>2, RepairAnswerFits, FirstAnswerFits
  <2> QED BY <1>2, <1>4, <2>1 DEF ReviewReturns
<1> QED BY <1>3, <1>4

LEMMA CallStepFits ==
  ASSUME TypeOK, Flow, NEW c \in Call, CallStep(c)
  PROVE  Replaced(c)
<1>1. CASE SupervisorStarts(c)
  BY <1>1, SupervisorStartFits
<1>2. CASE ReviewStarts(c)
  BY <1>2, StartFits DEF ReviewStarts
<1>3. CASE Ask(c) \/ ProviderDown(c) \/ AnswersWithTool(c) \/ ToolEnds(c)
  BY <1>3, ModelStepFits
<1>4. CASE SupervisorReturns(c) \/ ReviewReturns(c)
  BY <1>4, ReturnFits
<1>5. CASE RequestRefused(c) \/ TimesOut(c) \/ Cancelled(c)
  <2>1. call[c].pc # "done"
    BY <1>5 DEF RequestRefused, TimesOut, Cancelled, UnderWay
  <2>2. \E o \in {"error", "fail", "deadline", "timeout", "cancelled"} : Done(c, o)
    BY <1>5 DEF RequestRefused, TimesOut, Cancelled
  <2> QED BY <2>1, <2>2, DoneFits DEF Out
<1> QED BY <1>1, <1>2, <1>3, <1>4, <1>5 DEF CallStep, CallProgress

\* It leaves the gate and the history alone, and keeps what calls share typed.
LEMMA CallStepShares ==
  ASSUME TypeOK, NEW c \in Call, CallStep(c)
  PROVE  /\ gate' = gate /\ missed' = missed
         /\ health' \in [Provider -> [failures : 0..Threshold, cooling : BOOLEAN]]
         /\ budget' \in [Label -> Nat] /\ total' \in Nat
<1>1. gate' = gate /\ missed' = missed
  BY DEF CallStep, CallProgress, SupervisorStarts, ReviewStarts, Ask, ProviderDown, RequestRefused,
         AnswersWithTool, ToolEnds, SupervisorReturns, ReviewReturns, TimesOut, Cancelled
<1>2. \/ health' = health
      \/ \E p : RecordFailure(p) \/ RecordSuccess(p)
  BY DEF CallStep, CallProgress, SupervisorStarts, ReviewStarts, Ask, ProviderDown, RequestRefused,
         AnswersWithTool, ToolEnds, SupervisorReturns, ReviewReturns, TimesOut, Cancelled, Answered
<1>3. \/ UNCHANGED <<budget, total>>
      \/ \E l \in Label, n \in Nat : Observe(l, n)
  <2>1. Tokens(c) \in Nat /\ 1 \in Nat
    BY TokensCounted
  <2>2. "supervisor" \in Label /\ "review_agent" \in Label /\ Nested \subseteq Label
    BY DEF Label
  <2> QED BY <2>1, <2>2 DEF CallStep, CallProgress, SupervisorStarts, ReviewStarts, Ask,
             ProviderDown, RequestRefused, AnswersWithTool, ToolEnds, SupervisorReturns,
             ReviewReturns, TimesOut, Cancelled
<1>4. health' \in [Provider -> [failures : 0..Threshold, cooling : BOOLEAN]]
  BY <1>2, HealthTyped DEF TypeOK
<1>5. budget' \in [Label -> Nat] /\ total' \in Nat
  BY <1>3, ObserveTyped DEF TypeOK
<1> QED BY <1>1, <1>4, <1>5

\* The steps of the gate only move its generation and what they make late.
LEMMA GateStepLate ==
  ASSUME TypeOK, Flow, MissedIsLate, Stop \/ Reset
  PROVE  /\ gate' \in [stopping : BOOLEAN, generation : Nat, deadline : {"none", "ahead", "passed"}]
         /\ gate'.generation = gate.generation + 1
         /\ missed' \subseteq Call
         /\ MissedIsLate'
<1>1. gate \in [stopping : BOOLEAN, generation : Nat, deadline : {"none", "ahead", "passed"}]
  BY DEF TypeOK
<1>2. /\ gate' \in [stopping : BOOLEAN, generation : Nat, deadline : {"none", "ahead", "passed"}]
      /\ gate'.generation = gate.generation + 1
  <2> DEFINE n == gate.generation + 1
  <2>1. n \in Nat
    BY <1>1
  <2>2. CASE Stop
    BY <1>1, <2>1, <2>2 DEF Stop
  <2>3. CASE Reset
    <3>1. PICK d \in {"none", "ahead"} :
            gate' = [stopping |-> FALSE, generation |-> n, deadline |-> d]
      BY <2>3 DEF Reset
    <3> QED BY <2>1, <3>1
  <2> QED BY <2>2, <2>3
<1>3. missed' = missed \cup {c \in Call : UnderWay(c)} /\ call' = call
  BY DEF Stop, Reset
<1>4. missed' \subseteq Call
  BY <1>3 DEF TypeOK
<1>5. ASSUME NEW c \in Call
      PROVE  call[c].generation < gate'.generation /\ call[c].generation \in Nat
  <2>1. call[c].generation \in Nat /\ gate.generation \in Nat /\ call[c].generation <= gate.generation
    BY <1>1 DEF TypeOK, CallState, Flow
  <2> QED BY <2>1, <1>2
<1>6. ASSUME NEW c \in missed'
      PROVE  (call[c].pc # "idle" /\ (c \in Supervisor /\ UnderWay(c) => Late(c)))'
  <2>1. c \in Call
    BY <1>4
  <2>2. Late(c)'
    BY <2>1, <1>2, <1>3, <1>5 DEF Late
  <2>3. call[c].pc # "idle"
    BY <1>3, <1>6 DEF MissedIsLate, UnderWay
  <2> QED BY <2>2, <2>3, <1>3
<1> QED BY <1>2, <1>4, <1>6 DEF MissedIsLate

----------------------------------------------------------------------------
(***************************************************************************)
(* The inductive invariant.                                                 *)
(***************************************************************************)
LEMMA InitInductive == CallsInit => Inductive
<1> SUFFICES ASSUME CallsInit PROVE Inductive
  OBVIOUS
<1>1. \A c \in Call : call[c] = Idle
  BY DEF CallsInit
<1>2. Idle.pc = "idle" /\ Idle.generation = 0 /\ Idle.out = "none"
  BY DEF Idle
<1>3. TypeOK
  <2>1. health \in [Provider -> [failures : 0..Threshold, cooling : BOOLEAN]]
    BY CallsAssumption DEF CallsInit
  <2>2. call \in [Call -> CallState]
    BY IdleTyped DEF CallsInit
  <2>3. gate \in [stopping : BOOLEAN, generation : Nat, deadline : {"none", "ahead", "passed"}]
    BY DEF CallsInit
  <2>4. budget \in [Label -> Nat] /\ total \in Nat /\ missed \subseteq Call
    BY DEF CallsInit
  <2> QED BY <2>1, <2>2, <2>3, <2>4 DEF TypeOK
<1>4. Flow
  BY <1>1, <1>2 DEF Flow, CallsInit
<1>5. MissedIsLate /\ LateResultsIsolated
  BY DEF MissedIsLate, LateResultsIsolated, CallsInit
<1>6. PassedOnlyIfSaid
  BY <1>1, <1>2 DEF PassedOnlyIfSaid, Call
<1> QED BY <1>3, <1>4, <1>5, <1>6 DEF Inductive

LEMMA CallStepInductive ==
  ASSUME Inductive, NEW c \in Call, CallStep(c)
  PROVE  Inductive'
<1> USE DEF Inductive
<1>1. /\ gate' = gate /\ missed' = missed
      /\ health' \in [Provider -> [failures : 0..Threshold, cooling : BOOLEAN]]
      /\ budget' \in [Label -> Nat] /\ total' \in Nat
  BY CallStepShares
<1>2. PICK r \in CallState : call' = [call EXCEPT ![c] = r] /\ Fits(c, r)
  BY CallStepFits DEF Replaced
<1>3. call \in [Call -> CallState] /\ gate.generation \in Nat /\ call[c].generation \in Nat
  BY DEF TypeOK, CallState
<1>4. call'[c] = r /\ \A d \in Call \ {c} : call'[d] = call[d]
  BY <1>2, <1>3
<1>5. TypeOK'
  BY <1>1, <1>2, <1>3 DEF TypeOK
<1>6. Flow'
  <2>1. r.generation <= gate.generation
    BY <1>2, <1>3 DEF Fits, Flow
  <2> QED BY <2>1, <1>1, <1>2, <1>4 DEF Flow, Fits
<1>7. MissedIsLate'
  <2> SUFFICES ASSUME NEW d \in missed
               PROVE  /\ call'[d].pc # "idle"
                      /\ d \in Supervisor /\ UnderWay(d)' => Late(d)'
    BY <1>1 DEF MissedIsLate
  <2>1. CASE d = c
    <3>1. call[c].pc # "idle" /\ (c \in Supervisor /\ UnderWay(c) => Late(c))
      BY <2>1 DEF MissedIsLate
    <3>2. call[c].pc # "done" /\ call[c] \in CallState
      BY <1>2, <1>3 DEF Fits
    <3>3. UnderWay(c)
      BY <3>1, <3>2 DEF UnderWay, CallState
    <3>4. r.pc # "done" => r.generation = call[c].generation
      BY <1>2, <3>1 DEF Fits
    <3> QED BY <1>1, <1>2, <1>4, <2>1, <3>1, <3>3, <3>4 DEF UnderWay, Late, Fits
  <2>2. CASE d # c
    <3>1. call'[d] = call[d]
      BY <1>4, <2>2 DEF TypeOK
    <3> QED BY <1>1, <3>1 DEF MissedIsLate, UnderWay, Late
  <2> QED BY <2>1, <2>2
<1>8. LateResultsIsolated'
  <2> SUFFICES ASSUME NEW d \in missed \cap Supervisor
               PROVE  call'[d].out # "value"
    BY <1>1 DEF LateResultsIsolated
  <2>1. CASE d = c
    BY <1>2, <1>4, <2>1 DEF Fits, MissedIsLate
  <2>2. CASE d # c
    BY <1>4, <2>2 DEF LateResultsIsolated, Call
  <2> QED BY <2>1, <2>2
<1>9. PassedOnlyIfSaid'
  BY <1>2, <1>4 DEF PassedOnlyIfSaid, Fits, Call
<1> QED BY <1>5, <1>6, <1>7, <1>8, <1>9

LEMMA GateStepInductive ==
  ASSUME Inductive, Stop \/ Reset
  PROVE  Inductive'
<1> USE DEF Inductive
<1>1. /\ gate' \in [stopping : BOOLEAN, generation : Nat, deadline : {"none", "ahead", "passed"}]
      /\ gate'.generation = gate.generation + 1
      /\ missed' \subseteq Call /\ MissedIsLate'
  BY GateStepLate
<1>2. UNCHANGED <<health, budget, total, call>> /\ missed' = missed \cup {c \in Call : UnderWay(c)}
  BY DEF Stop, Reset
<1>3. TypeOK'
  BY <1>1, <1>2 DEF TypeOK
<1>4. Flow'
  <2>1. gate.generation \in Nat /\ \A c \in Call : call[c].generation \in Nat
    BY DEF TypeOK, CallState
  <2> QED BY <1>1, <1>2, <2>1 DEF Flow
<1>5. LateResultsIsolated'
  <2> SUFFICES ASSUME NEW c \in missed' \cap Supervisor
               PROVE  call[c].out # "value"
    BY <1>2 DEF LateResultsIsolated
  <2>1. CASE c \in missed
    BY <2>1 DEF LateResultsIsolated
  <2>2. CASE c \in Call /\ UnderWay(c)
    BY <2>2 DEF Flow, UnderWay
  <2> QED BY <1>2, <2>1, <2>2
<1>6. PassedOnlyIfSaid'
  BY <1>2 DEF PassedOnlyIfSaid
<1> QED BY <1>1, <1>3, <1>4, <1>5, <1>6

LEMMA OtherStepInductive ==
  ASSUME Inductive, DeadlinePasses \/ (\E p \in Provider : CooldownEnds(p)) \/ UNCHANGED callsVars
  PROVE  Inductive'
<1> USE DEF Inductive
<1>1. UNCHANGED <<call, missed, budget, total>>
  BY DEF DeadlinePasses, CooldownEnds, callsVars
<1>2. /\ gate' \in [stopping : BOOLEAN, generation : Nat, deadline : {"none", "ahead", "passed"}]
      /\ gate'.generation = gate.generation /\ gate'.stopping = gate.stopping
  BY DEF DeadlinePasses, CooldownEnds, callsVars, TypeOK
<1>3. health' \in [Provider -> [failures : 0..Threshold, cooling : BOOLEAN]]
  BY DEF DeadlinePasses, CooldownEnds, callsVars, TypeOK
<1>4. TypeOK'
  BY <1>1, <1>2, <1>3 DEF TypeOK
<1>5. Flow' /\ MissedIsLate'
  BY <1>1, <1>2 DEF Flow, MissedIsLate, Late, UnderWay
<1>6. LateResultsIsolated' /\ PassedOnlyIfSaid'
  BY <1>1 DEF LateResultsIsolated, PassedOnlyIfSaid
<1> QED BY <1>4, <1>5, <1>6

\* Whatever happens, every call keeps what has been said of it.
THEOREM InductiveInvariant == CallsSpec => []Inductive
<1>1. Inductive /\ [CallsNext]_callsVars => Inductive'
  <2> SUFFICES ASSUME Inductive, [CallsNext]_callsVars PROVE Inductive'
    OBVIOUS
  <2> QED BY CallStepInductive, GateStepInductive, OtherStepInductive DEF CallsNext, CallStep
<1> QED BY InitInductive, <1>1, PTL DEF CallsSpec

\* Every variable keeps its type, with any providers and limits.
THEOREM TypeCorrect == CallsSpec => []TypeOK
BY InductiveInvariant, PTL DEF Inductive

\* A supervisor's result counts only if the gate was neither stopped nor reset
\* while the call was under way (_run_supervisor's look at the generation).
THEOREM LateIsIsolated == CallsSpec => []LateResultsIsolated
BY InductiveInvariant, PTL DEF Inductive

\* A review passes only by an explicit pass without fixes, through any number of
\* parse retries and the repair (_call_review_agent, _repair_review_contract).
THEOREM PassIsSaid == CallsSpec => []PassedOnlyIfSaid
BY InductiveInvariant, PTL DEF Inductive

\* Nothing is handed on at a step that leaves the token budget exceeded,
\* whichever agents spent the tokens (TokenBudgetTracker.enforce).
THEOREM BudgetGuardsResults == CallsSpec => NothingReturnedOverspent
<1>1. Inductive /\ [CallsNext]_callsVars =>
        [\A c \in Call : Returned(c)' /\ ~ Returned(c) => ~ Exceeded(budget', total')]_callsVars
  <2> SUFFICES ASSUME Inductive, CallsNext, NEW c \in Call, Returned(c)', ~ Returned(c)
               PROVE  ~ Exceeded(budget', total')
    OBVIOUS
  <2>1. call'[c] # call[c]
    BY DEF Returned
  <2>2. CASE Stop \/ Reset \/ DeadlinePasses \/ \E p \in Provider : CooldownEnds(p)
    BY <2>1, <2>2 DEF Stop, Reset, DeadlinePasses, CooldownEnds
  <2>3. CASE \E d \in Call : CallStep(d)
    <3>1. PICK d \in Call : CallStep(d)
      BY <2>3
    <3>2. PICK r \in CallState : call' = [call EXCEPT ![d] = r] /\ Fits(d, r)
      BY <3>1, CallStepFits DEF Replaced, Inductive
    <3>3. call \in [Call -> CallState]
      BY DEF Inductive, TypeOK
    <3>4. d = c /\ call'[c] = r
      BY <2>1, <3>2, <3>3
    <3> QED BY <3>2, <3>4 DEF Returned, Fits
  <2> QED BY <2>2, <2>3 DEF CallsNext, CallStep
<1> QED BY InductiveInvariant, <1>1, PTL DEF CallsSpec, NothingReturnedOverspent

----------------------------------------------------------------------------
(***************************************************************************)
(* The order of a plan.                                                     *)
(***************************************************************************)

LEMMA FirstNumber ==
  ASSUME NEW hits \in SUBSET Nat, hits # {}
  PROVE  \E i \in hits : \A j \in hits : i <= j
<1>1. PICK i \in hits : \A j \in hits : ~ (<<j, i>> \in OpToRel(<, Nat))
  BY WFMin, NatLessThanWellFounded
<1>2. ASSUME NEW j \in hits PROVE i <= j
  <2>1. j \in Nat /\ i \in Nat /\ <<j, i>> \in Nat \X Nat
    OBVIOUS
  <2>2. ~ (j < i)
    BY <1>1, <2>1 DEF OpToRel
  <2> QED
    BY <2>1, <2>2
<1> QED
  BY <1>2

\* z depends on y.
Leads(specs, y, z) ==
  y \in Ids(specs) /\ z \in Ids(specs) /\ y # z /\ y \in Named(specs, z).deps

\* S holds whatever depends on x or on a member.
HoldsAfter(specs, S, x) ==
  S \in SUBSET Ids(specs) /\ \A y \in S \cup {x} : \A z : Leads(specs, y, z) => z \in S

LEMMA Ordered ==
  ASSUME NEW specs, NEW x, NEW y
  PROVE  <<x, y>> \in Before(specs) <=>
           x \in Ids(specs) /\ y \in Ids(specs) /\ \A S : HoldsAfter(specs, S, x) => y \in S
<1> DEFINE direct == {xy \in Ids(specs) \X Ids(specs) :
                        xy[1] # xy[2] /\ xy[1] \in Named(specs, xy[2]).deps}
           Holds(S, u) == \A yz \in direct : yz[1] \in S \cup {u} => yz[2] \in S
<1>1. \A u, v : <<u, v>> \in direct <=> Leads(specs, u, v)
  BY DEF Leads
<1>2. \A yz \in direct : yz = <<yz[1], yz[2]>>
  OBVIOUS
<1>3. Before(specs) = {xy \in Ids(specs) \X Ids(specs) :
                         \A S \in SUBSET Ids(specs) : Holds(S, xy[1]) => xy[2] \in S}
  BY DEF Before
<1> HIDE DEF direct
<1>4. \A S \in SUBSET Ids(specs) : Holds(S, x) <=> HoldsAfter(specs, S, x)
  <2> SUFFICES ASSUME NEW S \in SUBSET Ids(specs) PROVE Holds(S, x) <=> HoldsAfter(specs, S, x)
    OBVIOUS
  <2>1. Holds(S, x) <=> \A u, v : <<u, v>> \in direct /\ u \in S \cup {x} => v \in S
    <3>1. ASSUME Holds(S, x), NEW u, NEW v, <<u, v>> \in direct, u \in S \cup {x} PROVE v \in S
      <4>1. <<u, v>>[1] = u /\ <<u, v>>[2] = v
        OBVIOUS
      <4> QED
        BY <3>1, <4>1
    <3>2. ASSUME \A u, v : <<u, v>> \in direct /\ u \in S \cup {x} => v \in S PROVE Holds(S, x)
      <4>1. ASSUME NEW yz \in direct, yz[1] \in S \cup {x} PROVE yz[2] \in S
        BY <1>2, <3>2, <4>1
      <4> QED
        BY <4>1
    <3> HIDE DEF Holds
    <3> QED
      BY <3>1, <3>2
  <2> HIDE DEF Holds
  <2> QED
    BY <1>1, <2>1 DEF HoldsAfter
<1> HIDE DEF Holds
<1>5. \A S : HoldsAfter(specs, S, x) => S \in SUBSET Ids(specs)
  BY DEF HoldsAfter
<1> QED
  BY <1>3, <1>4, <1>5

LEMMA LeadsIsBefore ==
  ASSUME NEW specs, NEW x, NEW y, Leads(specs, x, y)
  PROVE  <<x, y>> \in Before(specs)
BY Ordered DEF HoldsAfter, Leads

LEMMA BeforeThenLeads ==
  ASSUME NEW specs, NEW x, NEW y, NEW z, <<x, y>> \in Before(specs), Leads(specs, y, z)
  PROVE  <<x, z>> \in Before(specs)
<1>1. \A S : HoldsAfter(specs, S, x) => z \in S
  BY Ordered DEF HoldsAfter
<1> QED
  BY <1>1, Ordered DEF Leads

LEMMA LeadsThenBefore ==
  ASSUME NEW specs, NEW x, NEW y, NEW z, Leads(specs, x, y), <<y, z>> \in Before(specs)
  PROVE  <<x, z>> \in Before(specs)
<1>1. ASSUME NEW S, HoldsAfter(specs, S, x) PROVE z \in S
  <2>1. y \in S
    BY <1>1 DEF HoldsAfter
  <2>2. HoldsAfter(specs, S, y)
    BY <1>1, <2>1 DEF HoldsAfter
  <2> QED
    BY <2>2, Ordered
<1> QED
  BY <1>1, Ordered DEF Leads

LEMMA BeforeSplits ==
  ASSUME NEW specs, NEW x, NEW y, <<x, y>> \in Before(specs)
  PROVE  Leads(specs, x, y) \/ \E z : <<x, z>> \in Before(specs) /\ Leads(specs, z, y)
<1> DEFINE S == {v \in Ids(specs) : Leads(specs, x, v)
                                    \/ \E z : <<x, z>> \in Before(specs) /\ Leads(specs, z, v)}
<1>1. \A v \in S : <<x, v>> \in Before(specs)
  BY LeadsIsBefore, BeforeThenLeads
<1>2. HoldsAfter(specs, S, x)
  BY <1>1 DEF HoldsAfter, Leads
<1>3. y \in S
  BY <1>2, Ordered
<1> QED
  BY <1>3

\* Kahn's rounds.
LEMMA ResolvedIs ==
  ASSUME NEW specs, Len(specs) \in Nat
  PROVE  Resolved(specs) = [n \in 0..Len(specs) |->
           IF n = 0 THEN {}
           ELSE UNION {{id \in Ids(specs) : Known(specs, id) \subseteq done} :
                         done \in {Resolved(specs)[n - 1]}}]
<1> DEFINE Step(r) == UNION {{id \in Ids(specs) : Known(specs, id) \subseteq done} : done \in {r}}
           Rec(g, N) == g = [n \in 0..N |-> IF n = 0 THEN {} ELSE Step(g[n - 1])]
           bad == {N \in 0..Len(specs) : ~ \E g : Rec(g, N)}
<1>1. Resolved(specs) = CHOOSE g : Rec(g, Len(specs))
  BY DEF Resolved
<1> HIDE DEF Step
<1>2. ASSUME bad # {} PROVE FALSE
  <2>1. PICK N \in bad : \A h \in bad : N <= h
    <3>1. bad \in SUBSET Nat
      OBVIOUS
    <3> QED
      BY <1>2, <3>1, FirstNumber
  <2>2. N \in 0..Len(specs) /\ ~ \E g : Rec(g, N)
    BY <2>1
  <2>3. N # 0
    <3>1. Rec([n \in 0..0 |-> {}], 0)
      OBVIOUS
    <3> QED
      BY <2>2, <3>1
  <2>4. N - 1 \in 0..Len(specs) /\ ~ (N <= N - 1) /\ N \in Nat /\ N - 1 \in Nat
    BY <2>2, <2>3
  <2>5. PICK g : Rec(g, N - 1)
    <3>1. N - 1 \notin bad
      BY <2>1, <2>4
    <3> QED
      BY <2>4, <3>1
  <2> DEFINE h == [n \in 0..N |-> IF n = N THEN Step(g[N - 1]) ELSE g[n]]
  <2>6. \A n \in 0..N : /\ n # N => n \in 0..(N - 1)
                        /\ n # 0 => n - 1 \in 0..(N - 1) /\ n - 1 \in 0..N /\ n - 1 # N
    BY <2>4
  <2>7. \A n \in 0..N : n # 0 => h[n - 1] = g[n - 1]
    BY <2>6
  <2>8. \A n \in 0..N : h[n] = IF n = 0 THEN {} ELSE Step(h[n - 1])
    <3> SUFFICES ASSUME NEW n \in 0..N PROVE h[n] = IF n = 0 THEN {} ELSE Step(h[n - 1])
      OBVIOUS
    <3>1. CASE n = N
      BY <2>3, <2>7, <3>1
    <3>2. CASE n # N
      <4>1. h[n] = g[n] /\ n \in 0..(N - 1)
        BY <2>6, <3>2
      <4>2. g[n] = IF n = 0 THEN {} ELSE Step(g[n - 1])
        BY <2>5, <4>1
      <4> QED
        BY <2>7, <4>1, <4>2
    <3> QED
      BY <3>1, <3>2
  <2>9. h = [n \in 0..N |-> IF n = 0 THEN {} ELSE Step(h[n - 1])]
    <3>1. h = [n \in 0..N |-> h[n]]
      OBVIOUS
    <3> HIDE DEF h
    <3> QED
      BY <2>8, <3>1
  <2>10. Rec(h, N)
    BY <2>9
  <2> QED
    BY <2>2, <2>10
<1>3. \E g : Rec(g, Len(specs))
  <2>1. Len(specs) \in 0..Len(specs) /\ Len(specs) \notin bad
    BY <1>2
  <2> QED
    BY <2>1
<1>4. Rec(Resolved(specs), Len(specs))
  BY <1>1, <1>3
<1> QED
  BY <1>4 DEF Step

LEMMA Rounds ==
  ASSUME NEW specs, Len(specs) \in Nat, NEW k \in 0..Len(specs)
  PROVE  Resolved(specs)[k] =
           IF k = 0 THEN {} ELSE {id \in Ids(specs) : Known(specs, id) \subseteq Resolved(specs)[k - 1]}
<1> DEFINE Step(r) == UNION {{id \in Ids(specs) : Known(specs, id) \subseteq done} : done \in {r}}
<1>1. \A r : Step(r) = {id \in Ids(specs) : Known(specs, id) \subseteq r}
  OBVIOUS
<1>2. Resolved(specs) = [n \in 0..Len(specs) |-> IF n = 0 THEN {} ELSE Step(Resolved(specs)[n - 1])]
  BY ResolvedIs
<1> HIDE DEF Step
<1>3. Resolved(specs)[k] = IF k = 0 THEN {} ELSE Step(Resolved(specs)[k - 1])
  BY <1>2
<1> QED
  BY <1>1, <1>3

\* Subtasks each of which waits for another of them are never resolved.
LEMMA NeverResolved ==
  ASSUME NEW specs, Len(specs) \in Nat, NEW D \in SUBSET Ids(specs),
         \A y \in D : \E z \in D : Leads(specs, z, y), NEW n \in 0..Len(specs)
  PROVE  Resolved(specs)[n] \cap D = {}
<1> DEFINE bad == {k \in 0..Len(specs) : ~ (Resolved(specs)[k] \cap D = {})}
<1>1. \A k \in 0..Len(specs) : Resolved(specs)[k] =
        IF k = 0 THEN {} ELSE {id \in Ids(specs) : Known(specs, id) \subseteq Resolved(specs)[k - 1]}
  BY Rounds
<1>2. ASSUME bad # {} PROVE FALSE
  <2>1. PICK k \in bad : \A h \in bad : k <= h
    <3>1. bad \in SUBSET Nat
      OBVIOUS
    <3> QED
      BY <1>2, <3>1, FirstNumber
  <2>2. k \in 0..Len(specs) /\ ~ (Resolved(specs)[k] \cap D = {}) /\ k # 0
    BY <1>1, <2>1
  <2>3. k - 1 \in 0..Len(specs) /\ ~ (k <= k - 1)
    BY <2>2
  <2>4. k - 1 \notin bad
    <3> HIDE DEF bad
    <3> QED
      BY <2>1, <2>3
  <2>5. Resolved(specs)[k - 1] \cap D = {}
    BY <2>3, <2>4
  <2>6. PICK y \in D : y \in Resolved(specs)[k]
    BY <2>2
  <2>7. Known(specs, y) \subseteq Resolved(specs)[k - 1]
    BY <1>1, <2>2, <2>6
  <2>8. PICK z \in D : Leads(specs, z, y)
    OBVIOUS
  <2>9. z \in Known(specs, y)
    BY <2>8 DEF Known, Leads
  <2> QED
    BY <2>5, <2>7, <2>8, <2>9
<1> QED
  BY <1>2

\* A plan of which all is resolved has no cycle.
LEMMA ResolvedIsAcyclic ==
  ASSUME NEW specs, Len(specs) \in Nat, Residual(specs) = {}, NEW x
  PROVE  <<x, x>> \notin Before(specs)
<1> SUFFICES ASSUME <<x, x>> \in Before(specs) PROVE FALSE
  OBVIOUS
<1> DEFINE D == {y \in Ids(specs) : <<x, y>> \in Before(specs) /\ <<y, x>> \in Before(specs)}
<1>1. x \in D
  BY Ordered
<1>2. ASSUME NEW y \in D PROVE \E z \in D : Leads(specs, z, y)
  <2>1. CASE Leads(specs, x, y)
    BY <1>1, <2>1
  <2>2. ASSUME NEW z, <<x, z>> \in Before(specs), Leads(specs, z, y)
        PROVE  z \in D
    BY <2>2, LeadsThenBefore DEF Leads
  <2> QED
    BY <2>1, <2>2, BeforeSplits
<1>3. Resolved(specs)[Len(specs)] \cap D = {}
  <2> HIDE DEF D
  <2>1. D \in SUBSET Ids(specs) /\ Len(specs) \in 0..Len(specs)
    BY DEF D
  <2> QED
    BY <1>2, <2>1, NeverResolved
<1> QED
  BY <1>1, <1>3 DEF Residual

\* A round resolves no less than the one before.
LEMMA RoundsGrow ==
  ASSUME NEW specs, Len(specs) \in Nat, NEW m \in 0..Len(specs), NEW n \in m..Len(specs)
  PROVE  Resolved(specs)[m] \subseteq Resolved(specs)[n] /\ Resolved(specs)[n] \subseteq Ids(specs)
<1> DEFINE N == Len(specs)
           R(k) == Resolved(specs)[k]
           bad == {k \in 1..N : ~ R(k - 1) \subseteq R(k)}
           worse == {k \in m..N : ~ R(m) \subseteq R(k)}
<1>1. R(0) = {} /\ \A k \in 1..N : R(k) = {id \in Ids(specs) : Known(specs, id) \subseteq R(k - 1)}
  <2>1. 0 \in 0..N /\ \A k \in 1..N : k \in 0..N /\ k # 0
    OBVIOUS
  <2> QED
    BY <2>1, Rounds
<1> HIDE DEF R
<1>2. ASSUME bad # {} PROVE FALSE
  <2>1. PICK k \in bad : \A h \in bad : k <= h
    <3>1. bad \in SUBSET Nat
      OBVIOUS
    <3> QED
      BY <1>2, <3>1, FirstNumber
  <2>2. k \in 1..N /\ ~ R(k - 1) \subseteq R(k)
    BY <2>1
  <2>3. k # 1
    BY <1>1, <2>2
  <2>4. k - 1 \in 1..N /\ ~ (k <= k - 1)
    BY <2>2, <2>3
  <2>5. k - 1 \notin bad
    <3> HIDE DEF bad
    <3> QED
      BY <2>1, <2>4
  <2>6. R((k - 1) - 1) \subseteq R(k - 1)
    BY <2>4, <2>5
  <2> QED
    BY <1>1, <2>2, <2>4, <2>6
<1>3. \A k \in 1..N : R(k - 1) \subseteq R(k)
  BY <1>2
<1>4. ASSUME worse # {} PROVE FALSE
  <2>1. PICK k \in worse : \A h \in worse : k <= h
    <3>1. worse \in SUBSET Nat
      OBVIOUS
    <3> QED
      BY <1>4, <3>1, FirstNumber
  <2>2. k \in m..N /\ ~ R(m) \subseteq R(k)
    BY <2>1
  <2>3. k \in 1..N /\ k - 1 \in m..N /\ ~ (k <= k - 1)
    <3>1. k # m
      BY <2>2
    <3> QED
      BY <2>2, <3>1
  <2>4. k - 1 \notin worse
    <3> HIDE DEF worse
    <3> QED
      BY <2>1, <2>3
  <2>5. R(m) \subseteq R(k - 1)
    BY <2>3, <2>4
  <2> QED
    BY <1>3, <2>2, <2>3, <2>5
<1>5. R(n) \subseteq Ids(specs)
  <2>1. n = 0 \/ n \in 1..N
    OBVIOUS
  <2> QED
    BY <1>1, <2>1
<1>6. R(m) \subseteq R(n)
  BY <1>4
<1> QED
  BY <1>5, <1>6 DEF R

\* Among finitely many subtasks without a cycle one waits for none of them: the
\* one that comes after the fewest.
LEMMA FirstOfAll ==
  ASSUME NEW specs, IsFiniteSet(Ids(specs)), \A x : <<x, x>> \notin Before(specs),
         NEW D \in SUBSET Ids(specs), D # {}
  PROVE  \E y \in D : \A z \in D : ~ Leads(specs, z, y)
<1> DEFINE Earlier(y) == {w \in Ids(specs) : <<w, y>> \in Before(specs)}
           counts == {Cardinality(Earlier(y)) : y \in D}
<1>1. \A y : IsFiniteSet(Earlier(y)) /\ Cardinality(Earlier(y)) \in Nat
  <2> SUFFICES ASSUME NEW y PROVE IsFiniteSet(Earlier(y)) /\ Cardinality(Earlier(y)) \in Nat
    OBVIOUS
  <2>1. Earlier(y) \subseteq Ids(specs)
    OBVIOUS
  <2> HIDE DEF Earlier
  <2> QED
    BY <2>1, FS_Subset, FS_CardinalityType
<1>2. PICK c \in counts : \A d \in counts : c <= d
  <2>1. counts \in SUBSET Nat /\ counts # {}
    BY <1>1
  <2> QED
    BY <2>1, FirstNumber
<1>3. PICK y \in D : c = Cardinality(Earlier(y))
  BY <1>2
<1>4. ASSUME NEW z \in D, Leads(specs, z, y) PROVE FALSE
  <2>1. Earlier(z) \subseteq Earlier(y)
    BY <1>4, BeforeThenLeads
  <2>2. z \in Earlier(y) /\ z \notin Earlier(z)
    BY <1>4, LeadsIsBefore DEF Leads
  <2>3. Cardinality(Earlier(z)) \in counts
    OBVIOUS
  <2>4. c <= Cardinality(Earlier(z))
    BY <1>2, <2>3
  <2>5. Cardinality(Earlier(z)) < Cardinality(Earlier(y))
    <3>1. Earlier(z) # Earlier(y)
      BY <2>2
    <3> HIDE DEF Earlier
    <3>2. Cardinality(Earlier(z)) <= Cardinality(Earlier(y))
          /\ (Cardinality(Earlier(z)) = Cardinality(Earlier(y)) => Earlier(z) = Earlier(y))
      BY <1>1, <2>1, FS_Subset
    <3> QED
      BY <1>1, <3>1, <3>2
  <2> HIDE DEF Earlier
  <2> QED
    BY <1>1, <1>3, <2>4, <2>5
<1> QED
  BY <1>4

\* A plan without a cycle is resolved in as many rounds as it has subtasks.
LEMMA AcyclicIsResolved ==
  ASSUME NEW specs, Len(specs) \in Nat, IsFiniteSet(Ids(specs)), Cardinality(Ids(specs)) <= Len(specs),
         \A x : <<x, x>> \notin Before(specs)
  PROVE  Residual(specs) = {}
<1> DEFINE N == Len(specs)
           I == Ids(specs)
           R(k) == Resolved(specs)[k]
           Far(k) == R(k) = I \/ Cardinality(R(k)) >= k
           bad == {k \in 0..N : ~ Far(k)}
<1>1. /\ R(0) = {} /\ \A k \in 1..N : R(k) = {id \in I : Known(specs, id) \subseteq R(k - 1)}
      /\ \A k \in 0..N : R(k) \subseteq I
      /\ \A k \in 1..N : R(k - 1) \subseteq R(k)
  <2>1. /\ 0 \in 0..N /\ \A k \in 0..N : k \in k..N
        /\ \A k \in 1..N : k \in 0..N /\ k # 0 /\ k - 1 \in 0..N /\ k \in (k - 1)..N
    OBVIOUS
  <2> QED
    BY <2>1, Rounds, RoundsGrow
<1>2. \A S : S \subseteq I => IsFiniteSet(S) /\ Cardinality(S) \in Nat /\ Cardinality(S) <= Cardinality(I)
                             /\ (Cardinality(S) = Cardinality(I) => S = I)
  BY FS_Subset, FS_CardinalityType
<1> HIDE DEF R
<1>3. ASSUME NEW k \in 1..N, Far(k - 1) PROVE Far(k)
  <2>1. CASE R(k - 1) = I
    <3>1. R(k - 1) \subseteq R(k) /\ R(k) \subseteq I
      BY <1>1
    <3>2. R(k) = I
      BY <2>1, <3>1
    <3> QED
      BY <3>2
  <2>2. CASE R(k - 1) # I
    <3> DEFINE D == I \ R(k - 1)
    <3>1. k - 1 \in 0..N /\ k \in 0..N
      OBVIOUS
    <3>2. PICK y \in D : \A z \in D : ~ Leads(specs, z, y)
      <4>1. D \in SUBSET I /\ D # {}
        BY <1>1, <2>2, <3>1
      <4> HIDE DEF D
      <4> QED
        BY <4>1, FirstOfAll
    <3>3. Known(specs, y) \subseteq R(k - 1)
      BY <3>2 DEF Known, Leads
    <3>4. y \in R(k) /\ y \notin R(k - 1) /\ R(k - 1) \subseteq R(k)
      BY <1>1, <3>2, <3>3
    <3>5. R(k) \subseteq I /\ R(k - 1) \subseteq I
      BY <1>1, <3>1
    <3>6. /\ Cardinality(R(k - 1)) \in Nat /\ Cardinality(R(k)) \in Nat
          /\ Cardinality(R(k - 1)) <= Cardinality(R(k))
          /\ Cardinality(R(k - 1)) # Cardinality(R(k))
      BY <1>2, <3>4, <3>5, FS_Subset
    <3>7. Cardinality(R(k - 1)) >= k - 1
      BY <1>3, <2>2
    <3> QED
      BY <3>6, <3>7
  <2> QED
    BY <2>1, <2>2
<1>4. Far(0)
  <2>1. Cardinality(R(0)) \in Nat
    BY <1>1, <1>2
  <2> QED
    BY <2>1
<1> HIDE DEF Far
<1>5. ASSUME bad # {} PROVE FALSE
  <2>1. PICK k \in bad : \A h \in bad : k <= h
    <3>1. bad \in SUBSET Nat
      OBVIOUS
    <3> QED
      BY <1>5, <3>1, FirstNumber
  <2>2. k \in 1..N /\ ~ Far(k) /\ k - 1 \in 0..N /\ ~ (k <= k - 1)
    BY <1>4, <2>1
  <2>3. k - 1 \notin bad
    <3> HIDE DEF bad
    <3> QED
      BY <2>1, <2>2
  <2> QED
    BY <1>3, <2>2, <2>3
<1>6. N \in 0..N /\ Far(N)
  BY <1>5
<1>7. R(N) = I
  BY <1>1, <1>2, <1>6 DEF Far
<1> QED
  BY <1>7 DEF Residual, R

\* In a plan of which all is resolved, every subtask has one layer.
LEMMA LayerOf ==
  ASSUME NEW specs, Len(specs) \in Nat, Residual(specs) = {}, NEW x \in Ids(specs)
  PROVE  \E n \in 1..Len(specs) : x \in Layer(specs, n)
<1> DEFINE hits == {n \in 0..Len(specs) : x \in Resolved(specs)[n]}
<1>1. Len(specs) \in hits
  BY DEF Residual
<1>2. PICK n \in hits : \A m \in hits : n <= m
  <2>1. hits \in SUBSET Nat
    OBVIOUS
  <2> HIDE DEF hits
  <2> QED
    BY <1>1, <2>1, FirstNumber
<1>3. n # 0
  BY <1>2, Rounds
<1>4. n - 1 \in 0..Len(specs) /\ n \in 1..Len(specs) /\ ~ (n <= n - 1)
  BY <1>2, <1>3
<1>5. n - 1 \notin hits
  <2> HIDE DEF hits
  <2> QED
    BY <1>2, <1>4
<1> QED
  BY <1>2, <1>4, <1>5 DEF Layer

LEMMA OneLayer ==
  ASSUME NEW specs, Len(specs) \in Nat, NEW m \in 1..Len(specs), NEW n \in 1..Len(specs),
         NEW x, x \in Layer(specs, m), x \in Layer(specs, n)
  PROVE  m = n
<1>1. ASSUME NEW k \in 1..Len(specs), NEW l \in 1..Len(specs), k < l,
             x \in Layer(specs, k), x \in Layer(specs, l)
      PROVE  FALSE
  <2>1. k \in 0..Len(specs) /\ l - 1 \in k..Len(specs)
    BY <1>1
  <2>2. Resolved(specs)[k] \subseteq Resolved(specs)[l - 1]
    BY <2>1, RoundsGrow
  <2> QED
    BY <1>1, <2>2 DEF Layer
<1>2. m < n \/ n < m \/ m = n
  OBVIOUS
<1> QED
  BY <1>1, <1>2

\* What comes before a subtask is resolved before it.
LEMMA EarlierLayer ==
  ASSUME NEW specs, Len(specs) \in Nat, NEW x, NEW y, <<x, y>> \in Before(specs),
         NEW n \in 1..Len(specs), y \in Resolved(specs)[n]
  PROVE  x \in Resolved(specs)[n - 1]
<1> DEFINE N == Len(specs)
           R(k) == Resolved(specs)[k]
           S == {v \in Ids(specs) : \A k \in 1..N : v \in R(k) => x \in R(k - 1)}
<1>1. /\ R(0) = {} /\ \A k \in 1..N : R(k) = {id \in Ids(specs) : Known(specs, id) \subseteq R(k - 1)}
      /\ \A k \in 1..N : R(k - 1) \subseteq R(k)
  <2>1. /\ 0 \in 0..N
        /\ \A k \in 1..N : k \in 0..N /\ k # 0 /\ k - 1 \in 0..N /\ k \in (k - 1)..N
    OBVIOUS
  <2> QED
    BY <2>1, Rounds, RoundsGrow
<1> HIDE DEF R
<1>2. ASSUME NEW u \in S \cup {x}, NEW v, Leads(specs, u, v) PROVE v \in S
  <2>1. ASSUME NEW k \in 1..N, v \in R(k) PROVE x \in R(k - 1)
    <3>1. u \in R(k - 1)
      BY <1>1, <1>2, <2>1 DEF Known, Leads
    <3>2. CASE u = x
      BY <3>1, <3>2
    <3>3. CASE u \in S
      <4>1. k - 1 \in 1..N
        BY <1>1, <3>1
      <4>2. x \in R((k - 1) - 1) /\ R((k - 1) - 1) \subseteq R(k - 1)
        BY <1>1, <3>1, <3>3, <4>1
      <4> QED
        BY <4>2
    <3> QED
      BY <1>2, <3>2, <3>3
  <2> QED
    BY <1>2, <2>1 DEF Leads
<1>3. HoldsAfter(specs, S, x)
  <2>1. S \in SUBSET Ids(specs)
    OBVIOUS
  <2> HIDE DEF S
  <2> QED
    BY <1>2, <2>1 DEF HoldsAfter
<1>4. y \in S
  <2> HIDE DEF S
  <2> QED
    BY <1>3, Ordered
<1> QED
  BY <1>4 DEF R

Prior(specs, x) == {w \in Ids(specs) : <<w, x>> \in Before(specs)}

IsChain(specs, C) == \A x, y \in C : x = y \/ {<<x, y>>, <<y, x>>} \cap Before(specs) # {}

\* The members of a chain lie in different layers.
LEMMA ChainsAreShort ==
  ASSUME NEW specs, Len(specs) \in Nat, Residual(specs) = {}, NEW n \in 1..Len(specs),
         NEW x \in Layer(specs, n), NEW C \in SUBSET Prior(specs, x), IsChain(specs, C)
  PROVE  IsFiniteSet(C) /\ Cardinality(C) <= n - 1
<1> DEFINE N == Len(specs)
           At(y) == CHOOSE k \in 1..N : y \in Layer(specs, k)
           f == [y \in C |-> At(y)]
<1>1. \A y \in Ids(specs) : At(y) \in 1..N /\ y \in Layer(specs, At(y))
  BY LayerOf
<1>2. \A y \in C : y \in Ids(specs) /\ <<y, x>> \in Before(specs)
  BY DEF Prior
<1> HIDE DEF At
<1>3. ASSUME NEW y, NEW z, <<y, z>> \in Before(specs), NEW k \in 1..N, z \in Layer(specs, k)
      PROVE  At(y) < k
  <2>1. y \in Resolved(specs)[k - 1]
    BY <1>3, EarlierLayer DEF Layer
  <2>2. y \in Ids(specs)
    BY <1>3, Ordered
  <2>3. At(y) \in 1..N /\ y \notin Resolved(specs)[At(y) - 1]
    BY <1>1, <2>2 DEF Layer
  <2>4. ASSUME ~ (At(y) < k) PROVE FALSE
    <3>1. k - 1 \in 0..N /\ At(y) - 1 \in (k - 1)..N
      BY <2>3, <2>4
    <3>2. Resolved(specs)[k - 1] \subseteq Resolved(specs)[At(y) - 1]
      BY <3>1, RoundsGrow
    <3> QED
      BY <2>1, <2>3, <3>2
  <2> QED
    BY <2>4
<1>4. \A y \in C : At(y) \in 1..(n - 1)
  <2> SUFFICES ASSUME NEW y \in C PROVE At(y) \in 1..(n - 1)
    OBVIOUS
  <2>1. At(y) < n /\ At(y) \in 1..N
    BY <1>1, <1>2, <1>3
  <2> QED
    BY <2>1
<1>5. \A y, z \in C : At(y) = At(z) => y = z
  <2> SUFFICES ASSUME NEW y \in C, NEW z \in C, At(y) = At(z), y # z PROVE FALSE
    OBVIOUS
  <2>1. <<y, z>> \in Before(specs) \/ <<z, y>> \in Before(specs)
    BY DEF IsChain
  <2>2. At(y) \in 1..N /\ y \in Layer(specs, At(y)) /\ At(z) \in 1..N /\ z \in Layer(specs, At(z))
    BY <1>1, <1>2
  <2>3. At(y) < At(z) \/ At(z) < At(y)
    BY <1>3, <2>1, <2>2
  <2> QED
    BY <2>2, <2>3
<1>6. f \in Injection(C, 1..(n - 1))
  BY <1>4, <1>5 DEF Injection, IsInjective
<1>7. IsFiniteSet(1..(n - 1)) /\ Cardinality(1..(n - 1)) = n - 1
  <2>1. 1 \in Int /\ n - 1 \in Int /\ (n - 1) - 1 + 1 = n - 1 /\ (1 > n - 1 => n - 1 = 0)
    OBVIOUS
  <2> DEFINE m == n - 1
  <2> HIDE DEF m
  <2>2. IsFiniteSet(1..m) /\ Cardinality(1..m) = IF 1 > m THEN 0 ELSE m - 1 + 1
    BY <2>1, FS_Interval DEF m
  <2>3. Cardinality(1..m) = m
    BY <2>1, <2>2 DEF m
  <2> QED
    BY <2>2, <2>3 DEF m
<1>8. IsFiniteSet(C) /\ Cardinality(C) <= Cardinality(1..(n - 1))
  <2> DEFINE T == 1..(n - 1)
  <2>1. f \in Injection(C, T) /\ IsFiniteSet(T)
    BY <1>6, <1>7
  <2> HIDE DEF f, T
  <2>2. IsFiniteSet(C) /\ Cardinality(C) <= Cardinality(T)
    BY <2>1, FS_Injection
  <2> QED
    BY <2>2 DEF T
<1> QED
  BY <1>7, <1>8

\* From a subtask there is a chain back through all earlier layers.
LEMMA ChainThroughLayers ==
  ASSUME NEW specs, Len(specs) \in Nat, Residual(specs) = {}, NEW n \in 1..Len(specs),
         NEW x \in Layer(specs, n)
  PROVE  \E C \in SUBSET Prior(specs, x) :
           IsChain(specs, C) /\ IsFiniteSet(C) /\ Cardinality(C) = n - 1
<1> DEFINE N == Len(specs)
           Reaches(k, z) == \E C \in SUBSET Prior(specs, z) :
                              IsChain(specs, C) /\ IsFiniteSet(C) /\ Cardinality(C) = k - 1
           bad == {k \in 1..N : \E z \in Layer(specs, k) : ~ Reaches(k, z)}
<1>1. \A z \in Layer(specs, 1) : Reaches(1, z)
  <2>1. IsChain(specs, {}) /\ IsFiniteSet({}) /\ Cardinality({}) = 1 - 1
    BY FS_EmptySet DEF IsChain
  <2> QED
    BY <2>1
<1>2. ASSUME NEW k \in 1..N, k - 1 \in 1..N, \A z \in Layer(specs, k - 1) : Reaches(k - 1, z),
             NEW y \in Layer(specs, k)
      PROVE  Reaches(k, y)
  <2>1. /\ k \in 0..N /\ k - 1 \in 0..N /\ (k - 1) - 1 \in 0..N /\ k # 0 /\ k - 1 # 0
        /\ (k - 1) - 1 \in Nat
    BY <1>2
  <2>2. y \in Ids(specs) /\ Known(specs, y) \subseteq Resolved(specs)[k - 1]
        /\ ~ (Known(specs, y) \subseteq Resolved(specs)[(k - 1) - 1])
    <3>1. y \in Resolved(specs)[k] /\ y \notin Resolved(specs)[k - 1]
      BY DEF Layer
    <3>2. Resolved(specs)[k] = {id \in Ids(specs) : Known(specs, id) \subseteq Resolved(specs)[k - 1]}
      BY <2>1, Rounds
    <3> DEFINE l == k - 1
    <3>3. l \in 0..N /\ l # 0
      BY <2>1
    <3> HIDE DEF l
    <3>4. Resolved(specs)[l] = {id \in Ids(specs) : Known(specs, id) \subseteq Resolved(specs)[l - 1]}
      BY <3>3, Rounds
    <3> QED
      BY <3>1, <3>2, <3>4 DEF l
  <2>3. PICK z \in Known(specs, y) : z \in Layer(specs, k - 1)
    BY <2>2 DEF Layer
  <2>4. Leads(specs, z, y)
    BY <2>2, <2>3 DEF Leads, Known
  <2>5. PICK C \in SUBSET Prior(specs, z) :
          IsChain(specs, C) /\ IsFiniteSet(C) /\ Cardinality(C) = (k - 1) - 1
    BY <1>2, <2>3
  <2> DEFINE D == C \cup {z}
  <2>6. z \notin C
    BY <2>5, ResolvedIsAcyclic DEF Prior
  <2>7. IsFiniteSet(D) /\ Cardinality(D) = k - 1
    <3>1. IsFiniteSet(D) /\ Cardinality(D) = Cardinality(C) + 1
      BY <2>5, <2>6, FS_AddElement
    <3> QED
      BY <2>1, <2>5, <3>1
  <2>8. \A w \in C : <<w, z>> \in Before(specs)
    BY DEF Prior
  <2>9. D \subseteq Prior(specs, y)
    <3>1. \A w \in C : w \in Ids(specs) /\ <<w, y>> \in Before(specs)
      BY <2>4, <2>8, BeforeThenLeads DEF Prior
    <3>2. z \in Ids(specs) /\ <<z, y>> \in Before(specs)
      BY <2>4, LeadsIsBefore DEF Leads
    <3> QED
      BY <3>1, <3>2 DEF Prior
  <2>10. IsChain(specs, D)
    BY <2>5, <2>8 DEF IsChain
  <2> HIDE DEF D
  <2> QED
    BY <2>7, <2>9, <2>10
<1> HIDE DEF Reaches
<1>3. ASSUME bad # {} PROVE FALSE
  <2>1. PICK k \in bad : \A h \in bad : k <= h
    <3>1. bad \in SUBSET Nat
      OBVIOUS
    <3> QED
      BY <1>3, <3>1, FirstNumber
  <2>2. PICK z \in Layer(specs, k) : ~ Reaches(k, z)
    BY <2>1
  <2>3. k \in 1..N /\ k # 1
    BY <1>1, <2>1, <2>2
  <2>4. k - 1 \in 1..N /\ ~ (k <= k - 1)
    BY <2>3
  <2>5. k - 1 \notin bad
    <3> HIDE DEF bad
    <3> QED
      BY <2>1, <2>4
  <2>6. \A y \in Layer(specs, k - 1) : Reaches(k - 1, y)
    BY <2>4, <2>5
  <2> QED
    BY <1>2, <2>2, <2>3, <2>4, <2>6
<1>4. Reaches(n, x)
  BY <1>3
<1> QED
  BY <1>4 DEF Reaches

\* The layer of a subtask, one round of the code, is its depth: the longest chain
\* of subtasks before it.
LEMMA DepthIsLayer ==
  ASSUME NEW specs, Len(specs) \in Nat, Residual(specs) = {}, IsFiniteSet(Ids(specs)),
         NEW n \in 1..Len(specs), NEW x \in Layer(specs, n)
  PROVE  Depth(specs, x) = n - 1
<1> DEFINE Longest(k) == /\ \E C \in SUBSET Prior(specs, x) : IsChain(specs, C) /\ Cardinality(C) = k
                         /\ \A C \in SUBSET Prior(specs, x) : IsChain(specs, C) => Cardinality(C) <= k
           top == Cardinality(Prior(specs, x))
<1>1. Depth(specs, x) = CHOOSE k \in 0..top : Longest(k)
  BY DEF Depth, Prior, IsChain
<1>2. PICK C \in SUBSET Prior(specs, x) : IsChain(specs, C) /\ IsFiniteSet(C) /\ Cardinality(C) = n - 1
  BY ChainThroughLayers
<1>3. \A D \in SUBSET Prior(specs, x) : IsChain(specs, D) => Cardinality(D) <= n - 1
  BY ChainsAreShort
<1>4. n - 1 \in 0..top
  <2>1. Prior(specs, x) \subseteq Ids(specs)
    BY DEF Prior
  <2>2. IsFiniteSet(Prior(specs, x))
    BY <2>1, FS_Subset
  <2>3. top \in Nat /\ Cardinality(C) <= top
    BY <2>2, FS_Subset, FS_CardinalityType
  <2> QED
    BY <1>2, <2>3
<1>5. Longest(n - 1)
  BY <1>2, <1>3
<1>6. \A k \in 0..top : Longest(k) => k = n - 1
  <2> SUFFICES ASSUME NEW k \in 0..top, Longest(k) PROVE k = n - 1
    OBVIOUS
  <2>1. n - 1 <= k
    BY <1>2
  <2>2. k <= n - 1
    BY <1>3
  <2> QED
    BY <1>4, <2>1, <2>2
<1> HIDE DEF Longest, top
<1> QED
  BY <1>1, <1>4, <1>5, <1>6

----------------------------------------------------------------------------
(***************************************************************************)
(* From a proposal to a plan.                                               *)
(***************************************************************************)

LEMMA ListOf ==
  ASSUME NEW S, NEW n \in Nat, NEW f \in [1..n -> S]
  PROVE  f \in Seq(S) /\ Len(f) = n /\ DOMAIN f = 1..n /\ <<>> \o f = f
<1>1. f \in Seq(S)
  BY SeqDef
<1>2. DOMAIN f = 1..n /\ Len(f) = n
  BY <1>1, LenProperties
<1>3. <<>> \o f = f
  BY <1>1
<1> QED
  BY <1>1, <1>2, <1>3

LEMMA IdsFinite ==
  ASSUME NEW specs \in Seq(Subtask)
  PROVE  IsFiniteSet(Ids(specs)) /\ Cardinality(Ids(specs)) \in Nat
<1> DEFINE n == Len(specs)
           f == [i \in 1..n |-> specs[i].id]
<1>1. n \in Nat /\ DOMAIN specs = 1..n
  BY LenProperties
<1>2. f \in Surjection(1..n, Ids(specs))
  BY <1>1 DEF Surjection, Ids
<1>3. IsFiniteSet(1..n)
  BY <1>1, FS_Interval
<1> QED
  BY <1>2, <1>3, FS_Surjection, FS_CardinalityType

\* Ids are unique if there are as many as subtasks.
LEMMA IdsUnique ==
  ASSUME NEW specs \in Seq(Subtask), Cardinality(Ids(specs)) = Len(specs)
  PROVE  \A i, j \in DOMAIN specs : specs[i].id = specs[j].id => i = j
<1> DEFINE n == Len(specs)
           f == [i \in 1..n |-> specs[i].id]
<1>1. n \in Nat /\ DOMAIN specs = 1..n
  BY LenProperties
<1>2. f \in Surjection(1..n, Ids(specs))
  BY <1>1 DEF Surjection, Ids
<1>3. IsFiniteSet(1..n) /\ Cardinality(1..n) = n
  <2>1. 1 \in Int /\ n \in Int /\ n - 1 + 1 = n /\ (1 > n => n = 0)
    BY <1>1
  <2> HIDE DEF n
  <2>2. IsFiniteSet(1..n) /\ Cardinality(1..n) = IF 1 > n THEN 0 ELSE n - 1 + 1
    BY <2>1, FS_Interval
  <2> QED
    BY <2>1, <2>2
<1>4. f \in Injection(1..n, Ids(specs))
  BY <1>2, <1>3, FS_Surjection
<1>5. \A i, j \in 1..n : f[i] = f[j] => i = j
  BY <1>4 DEF Injection, IsInjective
<1> QED
  BY <1>1, <1>5

\* A plan whose ids are unique and that names only others of its own.
Clean(specs) ==
  /\ specs \in Seq(Subtask)
  /\ \A i, j \in DOMAIN specs : specs[i].id = specs[j].id => i = j
  /\ \A i \in DOMAIN specs : /\ specs[i].deps \subseteq Ids(specs) \ {specs[i].id}
                             /\ specs[i].steps = {specs[i].id}

LEMMA NamedIs ==
  ASSUME NEW specs, \A i, j \in DOMAIN specs : specs[i].id = specs[j].id => i = j,
         NEW i \in DOMAIN specs
  PROVE  Named(specs, specs[i].id) = specs[i]
BY DEF Named

\* What a proposal becomes before the merging.
LEMMA CleanedIs ==
  ASSUME NEW raw \in Proposals \cup Revisions, Extractable(raw)
  PROVE  /\ Clean(Cleaned(raw)) /\ Len(Cleaned(raw)) = Len(raw)
         /\ DOMAIN Cleaned(raw) = DOMAIN raw /\ Ids(Cleaned(raw)) = Ids(raw)
         /\ \A i \in DOMAIN raw : /\ Cleaned(raw)[i].id = raw[i].id
                                  /\ Cleaned(raw)[i].scope = raw[i].scope
                                  /\ Cleaned(raw)[i].empty = raw[i].empty
                                  /\ Cleaned(raw)[i].deps = (raw[i].deps \cap Ids(raw)) \ {raw[i].id}
<1> DEFINE n == Len(raw)
           Made(i) == [raw[i] EXCEPT !.tools = CleanedTools(@),
                                     !.deps  = (@ \cap Ids(raw)) \ {raw[i].id}]
           f == [i \in 1..n |-> Made(i)]
<1>1. raw \in Seq(Subtask) /\ n \in Nat /\ DOMAIN raw = 1..n
      /\ \A i \in 1..n : raw[i] \in Subtask /\ raw[i].steps = {raw[i].id}
  BY ProposalAssumption, LenProperties, ElementOfSeq
<1>2. ASSUME NEW i \in 1..n
      PROVE  /\ Made(i) \in Subtask /\ Made(i).id = raw[i].id /\ Made(i).steps = raw[i].steps
             /\ Made(i).scope = raw[i].scope /\ Made(i).empty = raw[i].empty
             /\ Made(i).deps = (raw[i].deps \cap Ids(raw)) \ {raw[i].id}
  BY <1>1 DEF Subtask, CleanedTools
<1>3. Cleaned(raw) = <<>> \o f
  BY <1>1 DEF Cleaned, Each
<1> HIDE DEF Made
<1>4. f \in [1..n -> Subtask]
  BY <1>2
<1>5. Cleaned(raw) = f /\ f \in Seq(Subtask) /\ Len(f) = n /\ DOMAIN f = 1..n
  BY <1>1, <1>3, <1>4, ListOf
<1>6. \A i \in 1..n : f[i].id = raw[i].id /\ f[i].steps = {raw[i].id}
                      /\ f[i].scope = raw[i].scope /\ f[i].empty = raw[i].empty
                      /\ f[i].deps = (raw[i].deps \cap Ids(raw)) \ {raw[i].id}
  BY <1>1, <1>2
<1> HIDE DEF f
<1>7. Ids(f) = Ids(raw)
  BY <1>1, <1>5, <1>6 DEF Ids
<1>8. \A i, j \in DOMAIN raw : raw[i].id = raw[j].id => i = j
  BY <1>1, IdsUnique DEF Extractable
<1>9. Clean(f)
  BY <1>1, <1>5, <1>6, <1>7, <1>8 DEF Clean
<1> QED
  BY <1>1, <1>5, <1>6, <1>7, <1>9

\* What has been merged so far: each proposed subtask is contained in exactly one
\* that is left, an absorbed one wherever the one it went into is.
MergeSound(specs, st) ==
  /\ st.specs \in Seq(Subtask) /\ Len(st.specs) = Len(specs)
  /\ \A i \in DOMAIN specs : st.specs[i].id = specs[i].id /\ st.specs[i].deps = specs[i].deps
  /\ DOMAIN st.into \subseteq Ids(specs)
  /\ \A a \in DOMAIN st.into :
       /\ st.into[a] \in Ids(specs)
       /\ \A i \in DOMAIN specs : specs[i].id = a => specs[i].deps = {st.into[a]}
       /\ \A i \in DOMAIN specs : specs[i].id = st.into[a] => a \in st.specs[i].steps
       /\ \A i \in DOMAIN specs : specs[i].id \notin DOMAIN st.into =>
            (a \in st.specs[i].steps <=> st.into[a] \in st.specs[i].steps)
  /\ \A i \in DOMAIN specs : specs[i].id \in st.specs[i].steps
  /\ \A x \in Ids(specs) :
       \E i \in DOMAIN specs : /\ specs[i].id \notin DOMAIN st.into /\ x \in st.specs[i].steps
                               /\ \A j \in DOMAIN specs :
                                    specs[j].id \notin DOMAIN st.into /\ x \in st.specs[j].steps => j = i

\* What a subtask declares to write is what those it contains declared, it has no
\* empty field it did not have, no more are merged than the settings allow, and
\* none go into each other in a circle.
MergeScopes(specs, st) ==
  /\ \A i \in DOMAIN specs : \A path :
       path \in st.specs[i].scope <=>
         \E j \in DOMAIN specs : specs[j].id \in st.specs[i].steps /\ path \in specs[j].scope
  /\ \A i \in DOMAIN specs : st.specs[i].empty \subseteq specs[i].empty
  /\ Cardinality(DOMAIN st.into) <= MaxMerges
  /\ \A D \in SUBSET DOMAIN st.into : D # {} => \E a \in D : st.into[a] \notin D

LEMMA JoinedIs ==
  ASSUME NEW p \in Subtask, NEW c \in Subtask
  PROVE  /\ Joined(p, c) \in Subtask /\ Joined(p, c).id = p.id /\ Joined(p, c).deps = p.deps
         /\ Joined(p, c).steps = p.steps \cup c.steps
         /\ Joined(p, c).scope = p.scope \cup c.scope
         /\ Joined(p, c).empty \subseteq p.empty
<1>1. Names(p) \subseteq STRING
  <2>1. ASSUME NEW path \in p.scope PROVE Name(path) \in STRING
    <3>1. path \in Seq(STRING) /\ path # <<>>
      BY DEF Subtask
    <3>2. Len(path) \in 1..Len(path) /\ DOMAIN path = 1..Len(path)
      BY <3>1, LenProperties
    <3> QED
      BY <3>1, <3>2, ElementOfSeq DEF Name
  <2> QED
    BY <2>1 DEF Names
<1> QED
  BY <1>1 DEF Joined, StillEmpty, Subtask

\* st2 comes from st by a merge of the consumer at c into the producer at q.
MergedInto(specs, st, st2, c, q) ==
  /\ q # c /\ specs[c].id \notin DOMAIN st.into /\ specs[q].id \notin DOMAIN st.into
  /\ specs[c].deps = {specs[q].id}
  /\ st2.specs \in Seq(Subtask) /\ Len(st2.specs) = Len(specs)
  /\ \A i \in DOMAIN specs : st2.specs[i].id = specs[i].id /\ st2.specs[i].deps = specs[i].deps
  /\ \A i \in DOMAIN specs :
       st2.specs[i].steps = IF i = q THEN st.specs[q].steps \cup st.specs[c].steps
                            ELSE st.specs[i].steps
  /\ \A i \in DOMAIN specs :
       st2.specs[i].scope = IF i = q THEN st.specs[q].scope \cup st.specs[c].scope
                            ELSE st.specs[i].scope
  /\ \A i \in DOMAIN specs : st2.specs[i].empty \subseteq st.specs[i].empty
  /\ Cardinality(DOMAIN st.into) < MaxMerges
  /\ DOMAIN st2.into = DOMAIN st.into \cup {specs[c].id}
  /\ st2.into[specs[c].id] = specs[q].id
  /\ \A a \in DOMAIN st.into : st2.into[a] = st.into[a]

LEMMA MergesInto ==
  ASSUME NEW specs, Clean(specs), NEW st, MergeSound(specs, st), NEW c \in DOMAIN specs,
         NEW st2, st2 = Merge(st, specs[c].id), st2 # st
  PROVE  \E q \in DOMAIN specs : MergedInto(specs, st, st2, c, q)
<1> DEFINE n == Len(specs)
           A  == DOMAIN st.into
           id == specs[c].id
           old == st.specs
           consumer == Named(old, id)
           source == consumer.deps
           Made(i) == IF old[i].id \in source THEN Joined(old[i], consumer) ELSE old[i]
           f == [i \in DOMAIN old |-> Made(i)]
           into == [d \in A \cup {id} |->
                      IF d = id THEN CHOOSE p \in source : TRUE ELSE st.into[d]]
<1>1. /\ specs \in Seq(Subtask) /\ n \in Nat /\ DOMAIN specs = 1..n
      /\ old \in Seq(Subtask) /\ Len(old) = n /\ DOMAIN old = 1..n
      /\ \A i \in 1..n : old[i].id = specs[i].id /\ old[i].deps = specs[i].deps
  BY LenProperties DEF Clean, MergeSound
<1>2. consumer = old[c]
  <2>1. \A i, j \in DOMAIN old : old[i].id = old[j].id => i = j
    BY <1>1 DEF Clean
  <2>2. old[c].id = id /\ c \in DOMAIN old
    BY <1>1
  <2> QED
    BY <2>1, <2>2, NamedIs
<1>3. source = specs[c].deps
  BY <1>1, <1>2
<1>4. /\ id \notin A /\ Cardinality(source) = 1 /\ source \cap A = {}
      /\ Cardinality(A) < MaxMerges
      /\ Merge(st, id) = [specs |-> Each(LAMBDA spec : IF spec.id \in source THEN Joined(spec, consumer)
                                                       ELSE spec, old),
                          into  |-> into]
  BY DEF Merge
<1>5. source \subseteq Ids(specs) \ {id}
  BY <1>3 DEF Clean
<1>6. PICK p : source = {p}
  <2>1. IsFiniteSet(Ids(specs))
    BY <1>1, IdsFinite
  <2>2. IsFiniteSet(source)
    BY <1>5, <2>1, FS_Subset
  <2> QED
    BY <1>4, <2>2, FS_Singleton
<1>7. PICK q \in DOMAIN specs : specs[q].id = p
  BY <1>5, <1>6 DEF Ids
<1>8. q # c /\ specs[q].id \notin A
  BY <1>4, <1>5, <1>6, <1>7
<1>9. Merge(st, id).specs = <<>> \o f /\ Merge(st, id).into = into
  BY <1>4 DEF Each
<1>10. \A i \in 1..n : old[i] \in Subtask
  BY <1>1, ElementOfSeq
<1>11. \A i \in 1..n : old[i].id \in source <=> i = q
  BY <1>1, <1>6, <1>7 DEF Clean
<1>12. \A i \in 1..n : Made(i) = IF i = q THEN Joined(old[q], old[c]) ELSE old[i]
  BY <1>2, <1>11
<1> HIDE DEF Made
<1>13. \A i \in 1..n : /\ Made(i) \in Subtask /\ Made(i).id = specs[i].id /\ Made(i).deps = specs[i].deps
                       /\ Made(i).steps = IF i = q THEN old[q].steps \cup old[c].steps ELSE old[i].steps
                       /\ Made(i).scope = IF i = q THEN old[q].scope \cup old[c].scope ELSE old[i].scope
                       /\ Made(i).empty \subseteq old[i].empty
  <2> HIDE DEF old
  <2> SUFFICES ASSUME NEW i \in 1..n
               PROVE /\ Made(i) \in Subtask /\ Made(i).id = specs[i].id /\ Made(i).deps = specs[i].deps
                     /\ Made(i).steps = IF i = q THEN old[q].steps \cup old[c].steps ELSE old[i].steps
                     /\ Made(i).scope = IF i = q THEN old[q].scope \cup old[c].scope ELSE old[i].scope
                     /\ Made(i).empty \subseteq old[i].empty
    OBVIOUS
  <2>1. CASE i = q
    <3>1. /\ Joined(old[q], old[c]) \in Subtask /\ Joined(old[q], old[c]).id = old[q].id
          /\ Joined(old[q], old[c]).deps = old[q].deps
          /\ Joined(old[q], old[c]).steps = old[q].steps \cup old[c].steps
          /\ Joined(old[q], old[c]).scope = old[q].scope \cup old[c].scope
          /\ Joined(old[q], old[c]).empty \subseteq old[q].empty
      BY <1>1, <1>10, JoinedIs
    <3> QED
      BY <1>1, <1>12, <2>1, <3>1
  <2>2. CASE i # q
    BY <1>1, <1>10, <1>12, <2>2
  <2> QED
    BY <2>1, <2>2
<1>14. f \in [1..n -> Subtask] /\ \A i \in 1..n : f[i] = Made(i)
  BY <1>1, <1>13
<1>15. <<>> \o f = f /\ f \in Seq(Subtask) /\ Len(f) = n
  BY <1>1, <1>14, ListOf
<1>16. DOMAIN into = A \cup {id} /\ into[id] = p /\ \A a \in A : into[a] = st.into[a]
  BY <1>4, <1>6
<1> HIDE DEF f, into, source, consumer, old
<1>17. /\ st2.specs = f /\ st2.specs \in Seq(Subtask) /\ Len(st2.specs) = Len(specs)
       /\ \A i \in DOMAIN specs : st2.specs[i] = Made(i)
  BY <1>1, <1>9, <1>14, <1>15
<1>18. /\ DOMAIN st2.into = A \cup {id} /\ st2.into[id] = specs[q].id
       /\ \A a \in A : st2.into[a] = st.into[a]
  BY <1>7, <1>9, <1>16
<1>19. specs[c].deps = {specs[q].id}
  BY <1>3, <1>6, <1>7
<1>20. \A i \in DOMAIN specs : /\ st2.specs[i].id = specs[i].id /\ st2.specs[i].deps = specs[i].deps
                               /\ st2.specs[i].steps = IF i = q THEN old[q].steps \cup old[c].steps
                                                       ELSE old[i].steps
                               /\ st2.specs[i].scope = IF i = q THEN old[q].scope \cup old[c].scope
                                                       ELSE old[i].scope
                               /\ st2.specs[i].empty \subseteq old[i].empty
  BY <1>1, <1>13, <1>17
<1> HIDE DEF f
<1>21. MergedInto(specs, st, st2, c, q)
  BY <1>4, <1>8, <1>17, <1>18, <1>19, <1>20 DEF MergedInto, old
<1> QED
  BY <1>21

LEMMA MergeStep ==
  ASSUME NEW specs, Clean(specs), NEW st, MergeSound(specs, st), NEW c \in DOMAIN specs
  PROVE  MergeSound(specs, Merge(st, specs[c].id))
<1> SUFFICES ASSUME Merge(st, specs[c].id) # st PROVE MergeSound(specs, Merge(st, specs[c].id))
  OBVIOUS
<1> DEFINE A  == DOMAIN st.into
           id == specs[c].id
           st2 == Merge(st, id)
           B == DOMAIN st2.into
<1>0. st2 = Merge(st, specs[c].id) /\ st2 # st /\ B = DOMAIN st2.into
  OBVIOUS
<1> HIDE DEF st2, B
<1>1. PICK q \in DOMAIN specs : MergedInto(specs, st, st2, c, q)
  BY <1>0, MergesInto
<1>2.  /\ q # c /\ id \notin A /\ specs[q].id \notin A /\ specs[c].deps = {specs[q].id}
       /\ st2.specs \in Seq(Subtask) /\ Len(st2.specs) = Len(specs)
       /\ \A i \in DOMAIN specs : st2.specs[i].id = specs[i].id /\ st2.specs[i].deps = specs[i].deps
       /\ \A i \in DOMAIN specs :
            st2.specs[i].steps = IF i = q THEN st.specs[q].steps \cup st.specs[c].steps
                                 ELSE st.specs[i].steps
       /\ B = A \cup {id}
       /\ st2.into[id] = specs[q].id
       /\ \A a \in A : st2.into[a] = st.into[a]
  BY <1>0, <1>1 DEF MergedInto
<1> DEFINE p == specs[q].id
           Left(i) == specs[i].id \notin A
           Left2(i) == specs[i].id \notin B
           Old(i) == st.specs[i].steps
           New(i) == st2.specs[i].steps
<1>3. \A i, j \in DOMAIN specs : specs[i].id = specs[j].id => i = j
  BY DEF Clean
<1>4. /\ \A i \in DOMAIN specs : New(i) = IF i = q THEN Old(q) \cup Old(c) ELSE Old(i)
      /\ \A i \in DOMAIN specs : Left2(i) <=> Left(i) /\ i # c
      /\ Left(q) /\ Left(c) /\ Left2(q) /\ q # c
  BY <1>2, <1>3
<1>5. /\ \A i \in DOMAIN specs : specs[i].id \in Old(i)
      /\ \A x \in Ids(specs) :
           \E i \in DOMAIN specs : /\ Left(i) /\ x \in Old(i)
                                   /\ \A j \in DOMAIN specs : Left(j) /\ x \in Old(j) => j = i
  BY DEF MergeSound
<1>6. \A a \in A : /\ st.into[a] \in Ids(specs)
                   /\ \A i \in DOMAIN specs : specs[i].id = a => specs[i].deps = {st.into[a]}
                   /\ \A i \in DOMAIN specs : specs[i].id = st.into[a] => a \in Old(i)
                   /\ \A i \in DOMAIN specs : Left(i) => (a \in Old(i) <=> st.into[a] \in Old(i))
  BY DEF MergeSound
<1>7. id \in Ids(specs) /\ p \in Ids(specs) /\ A \subseteq Ids(specs)
  BY DEF Ids, MergeSound
<1> HIDE DEF Left, Left2, Old, New
<1>8. \A i \in DOMAIN specs : Old(i) \subseteq New(i)
  BY <1>4
<1>9. ASSUME NEW x \in Ids(specs)
      PROVE  \E i \in DOMAIN specs : /\ Left2(i) /\ x \in New(i)
                                     /\ \A j \in DOMAIN specs : Left2(j) /\ x \in New(j) => j = i
  <2>1. PICK i \in DOMAIN specs : /\ Left(i) /\ x \in Old(i)
                                  /\ \A j \in DOMAIN specs : Left(j) /\ x \in Old(j) => j = i
    BY <1>5
  <2>2. CASE i = c
    <3>1. Left2(q) /\ x \in New(q)
      BY <1>4, <2>1, <2>2
    <3>2. \A j \in DOMAIN specs : Left2(j) /\ x \in New(j) => j = q
      BY <1>4, <2>1, <2>2
    <3> QED
      BY <3>1, <3>2
  <2>3. CASE i # c
    <3>1. Left2(i) /\ x \in New(i)
      BY <1>4, <1>8, <2>1, <2>3
    <3>2. \A j \in DOMAIN specs : Left2(j) /\ x \in New(j) => j = i
      BY <1>4, <2>1, <2>3
    <3> QED
      BY <3>1, <3>2
  <2> QED
    BY <2>2, <2>3
<1>10. \A i \in DOMAIN specs : specs[i].id \in New(i)
  BY <1>5, <1>8
<1>11. ASSUME NEW a \in B
       PROVE  /\ st2.into[a] \in Ids(specs)
              /\ \A i \in DOMAIN specs : specs[i].id = a => specs[i].deps = {st2.into[a]}
              /\ \A i \in DOMAIN specs : specs[i].id = st2.into[a] => a \in New(i)
              /\ \A i \in DOMAIN specs : Left2(i) => (a \in New(i) <=> st2.into[a] \in New(i))
  <2>1. CASE a = id
    <3>1. st2.into[a] = p
      BY <1>2, <2>1
    <3>2. \A i \in DOMAIN specs : specs[i].id = a => specs[i].deps = {p}
      BY <1>2, <1>3, <2>1
    <3>3. \A i \in DOMAIN specs : specs[i].id = p => a \in New(i)
      BY <1>3, <1>4, <1>5, <2>1
    <3>4. id \in Old(c) /\ p \in Old(q)
      BY <1>5
    <3>5. \A i \in DOMAIN specs : Left(i) => (id \in Old(i) <=> i = c) /\ (p \in Old(i) <=> i = q)
      BY <1>4, <1>5, <1>7, <3>4
    <3>6. \A i \in DOMAIN specs : Left2(i) => (id \in New(i) <=> i = q) /\ (p \in New(i) <=> i = q)
      BY <1>4, <3>4, <3>5
    <3> QED
      BY <1>7, <2>1, <3>1, <3>2, <3>3, <3>6
  <2>2. CASE a # id
    <3>1. a \in A /\ st2.into[a] = st.into[a]
      BY <1>2, <1>11, <2>2
    <3>2. \A i \in DOMAIN specs : Left2(i) => (a \in New(i) <=> st.into[a] \in New(i))
      BY <1>4, <1>6, <3>1
    <3> QED
      BY <1>6, <1>8, <3>1, <3>2
  <2> QED
    BY <2>1, <2>2
<1>12. B \subseteq Ids(specs)
  BY <1>2, <1>7
<1> QED
  BY <1>2, <1>9, <1>10, <1>11, <1>12 DEF MergeSound, Left2, New, B, st2

LEMMA MergeScopesStep ==
  ASSUME NEW specs, Clean(specs), NEW st, MergeSound(specs, st), MergeScopes(specs, st),
         NEW c \in DOMAIN specs
  PROVE  MergeScopes(specs, Merge(st, specs[c].id))
<1> SUFFICES ASSUME Merge(st, specs[c].id) # st PROVE MergeScopes(specs, Merge(st, specs[c].id))
  OBVIOUS
<1> DEFINE A  == DOMAIN st.into
           id == specs[c].id
           st2 == Merge(st, id)
<1>0. st2 = Merge(st, specs[c].id) /\ st2 # st
  OBVIOUS
<1> HIDE DEF st2
<1>1. PICK q \in DOMAIN specs : MergedInto(specs, st, st2, c, q)
  BY <1>0, MergesInto
<1>2. \A i \in DOMAIN specs :
        /\ st2.specs[i].steps = IF i = q THEN st.specs[q].steps \cup st.specs[c].steps
                                ELSE st.specs[i].steps
        /\ st2.specs[i].scope = IF i = q THEN st.specs[q].scope \cup st.specs[c].scope
                                ELSE st.specs[i].scope
  BY <1>1 DEF MergedInto
<1>3. \A i \in DOMAIN specs : \A path :
        path \in st.specs[i].scope <=>
          \E j \in DOMAIN specs : specs[j].id \in st.specs[i].steps /\ path \in specs[j].scope
  BY DEF MergeScopes
<1>4. \A i \in DOMAIN specs : \A path :
        path \in st2.specs[i].scope <=>
          \E j \in DOMAIN specs : specs[j].id \in st2.specs[i].steps /\ path \in specs[j].scope
  BY <1>2, <1>3
<1>7. \A i \in DOMAIN specs : st2.specs[i].empty \subseteq specs[i].empty
  BY <1>1 DEF MergedInto, MergeScopes
<1>5. Cardinality(DOMAIN st2.into) <= MaxMerges
  <2>1. Cardinality(A) < MaxMerges /\ DOMAIN st2.into = A \cup {id} /\ id \notin A
    BY <1>1 DEF MergedInto
  <2>2. IsFiniteSet(A)
    <3>1. A \subseteq Ids(specs) /\ IsFiniteSet(Ids(specs))
      BY IdsFinite DEF MergeSound, Clean
    <3> QED
      BY <3>1, FS_Subset
  <2>3. Cardinality(A) \in Nat /\ Cardinality(A \cup {id}) = Cardinality(A) + 1
    BY <2>1, <2>2, FS_AddElement, FS_CardinalityType
  <2> QED
    BY <2>1, <2>3, AdoptionAssumption
<1>6. ASSUME NEW D \in SUBSET DOMAIN st2.into, D # {}
      PROVE  \E a \in D : st2.into[a] \notin D
  <2>1. /\ DOMAIN st2.into = A \cup {id} /\ id \notin A
        /\ st2.into[id] = specs[q].id /\ specs[q].id \notin A /\ specs[q].id # id
        /\ \A a \in A : st2.into[a] = st.into[a]
    BY <1>1 DEF MergedInto, Clean
  <2>2. CASE id \in D
    BY <2>1, <2>2
  <2>3. CASE id \notin D
    <3>1. D \in SUBSET A
      BY <2>1, <2>3
    <3>2. PICK a \in D : st.into[a] \notin D
      BY <1>6, <3>1 DEF MergeScopes
    <3> QED
      BY <2>1, <3>1, <3>2
  <2> QED
    BY <2>2, <2>3
<1> QED
  BY <1>0, <1>4, <1>5, <1>6, <1>7 DEF MergeScopes

\* The loop over the subtasks.
LEMMA MergesIs ==
  ASSUME NEW specs, Len(specs) \in Nat
  PROVE  /\ Merges(specs)[0] = [specs |-> specs, into |-> [d \in {} |-> "none"]]
         /\ \A n \in 1..Len(specs) :
              Merges(specs)[n] = Merge(Merges(specs)[n - 1], specs[n].id)
<1> DEFINE start == [specs |-> specs, into |-> [d \in {} |-> "none"]]
           Step(r, n) == CHOOSE new \in {Merge(old, specs[n].id) : old \in {r}} : TRUE
           Rec(g, N) == g = [n \in 0..N |-> IF n = 0 THEN start ELSE Step(g[n - 1], n)]
           bad == {N \in 0..Len(specs) : ~ \E g : Rec(g, N)}
<1>1. Merges(specs) = CHOOSE g : Rec(g, Len(specs))
  BY DEF Merges
<1>2. \A r, n : Step(r, n) = Merge(r, specs[n].id)
  OBVIOUS
<1> HIDE DEF Step, start
<1>3. ASSUME bad # {} PROVE FALSE
  <2>1. PICK N \in bad : \A h \in bad : N <= h
    <3>1. bad \in SUBSET Nat
      OBVIOUS
    <3> QED
      BY <1>3, <3>1, FirstNumber
  <2>2. N \in 0..Len(specs) /\ ~ \E g : Rec(g, N)
    BY <2>1
  <2>3. N # 0
    <3>1. Rec([n \in 0..0 |-> start], 0)
      OBVIOUS
    <3> QED
      BY <2>2, <3>1
  <2>4. N - 1 \in 0..Len(specs) /\ ~ (N <= N - 1) /\ N \in Nat /\ N - 1 \in Nat
    BY <2>2, <2>3
  <2>5. PICK g : Rec(g, N - 1)
    <3>1. N - 1 \notin bad
      BY <2>1, <2>4
    <3> QED
      BY <2>4, <3>1
  <2> DEFINE h == [n \in 0..N |-> IF n = N THEN Step(g[N - 1], N) ELSE g[n]]
  <2>6. \A n \in 0..N : /\ n # N => n \in 0..(N - 1)
                        /\ n # 0 => n - 1 \in 0..(N - 1) /\ n - 1 \in 0..N /\ n - 1 # N
    BY <2>4
  <2>7. \A n \in 0..N : n # 0 => h[n - 1] = g[n - 1]
    BY <2>6
  <2>8. \A n \in 0..N : h[n] = IF n = 0 THEN start ELSE Step(h[n - 1], n)
    <3> SUFFICES ASSUME NEW n \in 0..N PROVE h[n] = IF n = 0 THEN start ELSE Step(h[n - 1], n)
      OBVIOUS
    <3>1. CASE n = N
      BY <2>3, <2>7, <3>1
    <3>2. CASE n # N
      <4>1. h[n] = g[n] /\ n \in 0..(N - 1)
        BY <2>6, <3>2
      <4>2. g[n] = IF n = 0 THEN start ELSE Step(g[n - 1], n)
        BY <2>5, <4>1
      <4> QED
        BY <2>7, <4>1, <4>2
    <3> QED
      BY <3>1, <3>2
  <2>9. h = [n \in 0..N |-> IF n = 0 THEN start ELSE Step(h[n - 1], n)]
    <3>1. h = [n \in 0..N |-> h[n]]
      OBVIOUS
    <3> HIDE DEF h
    <3> QED
      BY <2>8, <3>1
  <2>10. Rec(h, N)
    BY <2>9
  <2> QED
    BY <2>2, <2>10
<1>4. \E g : Rec(g, Len(specs))
  <2>1. Len(specs) \in 0..Len(specs) /\ Len(specs) \notin bad
    BY <1>3
  <2> QED
    BY <2>1
<1>5. Rec(Merges(specs), Len(specs))
  BY <1>1, <1>4
<1>6. \A n \in 0..Len(specs) : Merges(specs)[n] = IF n = 0 THEN start ELSE Step(Merges(specs)[n - 1], n)
  BY <1>5
<1>7. 0 \in 0..Len(specs) /\ \A n \in 1..Len(specs) : n \in 0..Len(specs) /\ n # 0
  OBVIOUS
<1> QED
  BY <1>2, <1>6, <1>7 DEF start

LEMMA MergesSound ==
  ASSUME NEW specs, Clean(specs)
  PROVE  MergeSound(specs, Merges(specs)[Len(specs)]) /\ MergeScopes(specs, Merges(specs)[Len(specs)])
<1> DEFINE n == Len(specs)
           Holds(k) == MergeSound(specs, Merges(specs)[k]) /\ MergeScopes(specs, Merges(specs)[k])
           bad == {k \in 0..n : ~ Holds(k)}
<1>1. specs \in Seq(Subtask) /\ n \in Nat /\ DOMAIN specs = 1..n
  BY LenProperties DEF Clean
<1>2. Holds(0)
  <2> DEFINE start == [specs |-> specs, into |-> [d \in {} |-> "none"]]
  <2>1. Merges(specs)[0] = start
    BY <1>1, MergesIs
  <2>2. start.specs = specs /\ DOMAIN start.into = {}
    OBVIOUS
  <2> HIDE DEF start
  <2>3. \A x \in Ids(specs) : \E i \in DOMAIN specs :
          x \in specs[i].steps /\ \A j \in DOMAIN specs : x \in specs[j].steps => j = i
    BY DEF Clean, Ids
  <2>4. MergeSound(specs, start)
    BY <1>1, <2>2, <2>3 DEF MergeSound, Clean
  <2>5. MergeScopes(specs, start)
    <3>1. Cardinality({}) = 0
      BY FS_EmptySet
    <3> QED
      BY <2>2, <3>1, AdoptionAssumption DEF MergeScopes, Clean
  <2> QED
    BY <2>1, <2>4, <2>5
<1>3. ASSUME NEW k \in 1..n, Holds(k - 1)
      PROVE  Holds(k)
  <2> DEFINE st == Merges(specs)[k - 1]
  <2>1. k \in DOMAIN specs /\ Merges(specs)[k] = Merge(st, specs[k].id)
    BY <1>1, MergesIs
  <2>2. MergeSound(specs, st) /\ MergeScopes(specs, st)
    BY <1>3
  <2> HIDE DEF st
  <2>3. MergeSound(specs, Merge(st, specs[k].id)) /\ MergeScopes(specs, Merge(st, specs[k].id))
    BY <2>1, <2>2, MergeStep, MergeScopesStep
  <2> QED
    BY <2>1, <2>3
<1> HIDE DEF Holds
<1>4. ASSUME bad # {} PROVE FALSE
  <2>1. PICK k \in bad : \A h \in bad : k <= h
    <3>1. bad \in SUBSET Nat
      BY <1>1
    <3> QED
      BY <1>4, <3>1, FirstNumber
  <2>2. k \in 0..n /\ ~ Holds(k) /\ k # 0
    BY <1>2, <2>1
  <2>3. k \in 1..n /\ k - 1 \in 0..n /\ ~ (k <= k - 1)
    BY <1>1, <2>2
  <2>4. k - 1 \notin bad
    <3> HIDE DEF bad
    <3> QED
      BY <2>1, <2>3
  <2> QED
    BY <1>3, <2>2, <2>3, <2>4
<1>5. n \in 0..n /\ n \notin bad
  BY <1>1, <1>4
<1> QED
  BY <1>5 DEF Holds

\* The list of those not absorbed.
LEMMA RemainingIs ==
  ASSUME NEW specs, Len(specs) \in Nat, NEW absorbed
  PROVE  /\ Remaining(specs, absorbed)[0] = <<>>
         /\ \A n \in 1..Len(specs) :
              Remaining(specs, absorbed)[n] =
                IF specs[n].id \in absorbed THEN Remaining(specs, absorbed)[n - 1]
                ELSE Append(Remaining(specs, absorbed)[n - 1], specs[n])
<1> DEFINE start == <<>>
           Step(r, n) == IF specs[n].id \in absorbed THEN r ELSE Append(r, specs[n])
           Rec(g, N) == g = [n \in 0..N |-> IF n = 0 THEN start ELSE Step(g[n - 1], n)]
           bad == {N \in 0..Len(specs) : ~ \E g : Rec(g, N)}
<1>1. Remaining(specs, absorbed) = CHOOSE g : Rec(g, Len(specs))
  BY DEF Remaining
<1>2. \A r, n : Step(r, n) = IF specs[n].id \in absorbed THEN r ELSE Append(r, specs[n])
  OBVIOUS
<1> HIDE DEF Step, start
<1>3. ASSUME bad # {} PROVE FALSE
  <2>1. PICK N \in bad : \A h \in bad : N <= h
    <3>1. bad \in SUBSET Nat
      OBVIOUS
    <3> QED
      BY <1>3, <3>1, FirstNumber
  <2>2. N \in 0..Len(specs) /\ ~ \E g : Rec(g, N)
    BY <2>1
  <2>3. N # 0
    <3>1. Rec([n \in 0..0 |-> start], 0)
      OBVIOUS
    <3> QED
      BY <2>2, <3>1
  <2>4. N - 1 \in 0..Len(specs) /\ ~ (N <= N - 1) /\ N \in Nat /\ N - 1 \in Nat
    BY <2>2, <2>3
  <2>5. PICK g : Rec(g, N - 1)
    <3>1. N - 1 \notin bad
      BY <2>1, <2>4
    <3> QED
      BY <2>4, <3>1
  <2> DEFINE h == [n \in 0..N |-> IF n = N THEN Step(g[N - 1], N) ELSE g[n]]
  <2>6. \A n \in 0..N : /\ n # N => n \in 0..(N - 1)
                        /\ n # 0 => n - 1 \in 0..(N - 1) /\ n - 1 \in 0..N /\ n - 1 # N
    BY <2>4
  <2>7. \A n \in 0..N : n # 0 => h[n - 1] = g[n - 1]
    BY <2>6
  <2>8. \A n \in 0..N : h[n] = IF n = 0 THEN start ELSE Step(h[n - 1], n)
    <3> SUFFICES ASSUME NEW n \in 0..N PROVE h[n] = IF n = 0 THEN start ELSE Step(h[n - 1], n)
      OBVIOUS
    <3>1. CASE n = N
      BY <2>3, <2>7, <3>1
    <3>2. CASE n # N
      <4>1. h[n] = g[n] /\ n \in 0..(N - 1)
        BY <2>6, <3>2
      <4>2. g[n] = IF n = 0 THEN start ELSE Step(g[n - 1], n)
        BY <2>5, <4>1
      <4> QED
        BY <2>7, <4>1, <4>2
    <3> QED
      BY <3>1, <3>2
  <2>9. h = [n \in 0..N |-> IF n = 0 THEN start ELSE Step(h[n - 1], n)]
    <3>1. h = [n \in 0..N |-> h[n]]
      OBVIOUS
    <3> HIDE DEF h
    <3> QED
      BY <2>8, <3>1
  <2>10. Rec(h, N)
    BY <2>9
  <2> QED
    BY <2>2, <2>10
<1>4. \E g : Rec(g, Len(specs))
  <2>1. Len(specs) \in 0..Len(specs) /\ Len(specs) \notin bad
    BY <1>3
  <2> QED
    BY <2>1
<1>5. Rec(Remaining(specs, absorbed), Len(specs))
  BY <1>1, <1>4
<1>6. \A n \in 0..Len(specs) : Remaining(specs, absorbed)[n] = IF n = 0 THEN start ELSE Step(Remaining(specs, absorbed)[n - 1], n)
  BY <1>5
<1>7. 0 \in 0..Len(specs) /\ \A n \in 1..Len(specs) : n \in 0..Len(specs) /\ n # 0
  OBVIOUS
<1> QED
  BY <1>2, <1>6, <1>7 DEF start

\* r lists, once each, the first n that are not absorbed.
Lists(specs, absorbed, n, r) ==
  /\ r \in Seq(Subtask)
  /\ \A k \in DOMAIN r : \E i \in 1..n : specs[i].id \notin absorbed /\ r[k] = specs[i]
  /\ \A i \in 1..n : specs[i].id \notin absorbed => \E k \in DOMAIN r : r[k] = specs[i]
  /\ \A k, l \in DOMAIN r : r[k].id = r[l].id => k = l

LEMMA RemainingLists ==
  ASSUME NEW specs \in Seq(Subtask), NEW absorbed,
         \A i, j \in DOMAIN specs : specs[i].id = specs[j].id => i = j
  PROVE  Lists(specs, absorbed, Len(specs), Remaining(specs, absorbed)[Len(specs)])
<1> DEFINE m == Len(specs)
           R(n) == Remaining(specs, absorbed)[n]
           bad == {n \in 0..m : ~ Lists(specs, absorbed, n, R(n))}
<1>1. m \in Nat /\ DOMAIN specs = 1..m /\ \A i \in 1..m : specs[i] \in Subtask
  BY LenProperties, ElementOfSeq
<1>2. /\ R(0) = <<>>
      /\ \A n \in 1..m : R(n) = IF specs[n].id \in absorbed THEN R(n - 1)
                                ELSE Append(R(n - 1), specs[n])
  BY <1>1, RemainingIs
<1> HIDE DEF R
<1>3. Lists(specs, absorbed, 0, R(0))
  <2>1. <<>> \in Seq(Subtask) /\ DOMAIN <<>> = {} /\ 1..0 = {}
    BY EmptySeq
  <2>2. R(0) \in Seq(Subtask) /\ DOMAIN R(0) = {}
    BY <1>2, <2>1
  <2> QED
    BY <2>1, <2>2 DEF Lists
<1>4. ASSUME NEW n \in 1..m, Lists(specs, absorbed, n - 1, R(n - 1))
      PROVE  Lists(specs, absorbed, n, R(n))
  <2> DEFINE r == R(n - 1)
             e == specs[n]
             l == Len(r)
             new == Append(r, e)
  <2>1. /\ r \in Seq(Subtask) /\ l \in Nat /\ DOMAIN r = 1..l /\ n \in Nat /\ n > 0 /\ n \in DOMAIN specs
        /\ \A i \in 1..n : i = n \/ i \in 1..(n - 1)
        /\ \A i \in 1..(n - 1) : i \in 1..n /\ i # n /\ i \in DOMAIN specs
        /\ n \in 1..n
    <3>1. r \in Seq(Subtask)
      BY <1>4 DEF Lists
    <3>2. l \in Nat /\ DOMAIN r = 1..l
      BY <3>1, LenProperties
    <3> QED
      BY <1>1, <3>1, <3>2
  <2>2. /\ \A k \in DOMAIN r : \E i \in 1..(n - 1) : specs[i].id \notin absorbed /\ r[k] = specs[i]
        /\ \A i \in 1..(n - 1) : specs[i].id \notin absorbed => \E k \in DOMAIN r : r[k] = specs[i]
        /\ \A k, h \in DOMAIN r : r[k].id = r[h].id => k = h
    BY <1>4 DEF Lists
  <2>3. CASE e.id \in absorbed
    <3>1. R(n) = r
      BY <1>2, <2>3
    <3> HIDE DEF r
    <3> QED
      BY <2>1, <2>2, <2>3, <3>1 DEF Lists
  <2>4. CASE e.id \notin absorbed
    <3>1. R(n) = new
      BY <1>2, <2>4
    <3>2. e \in Subtask
      BY <1>1
    <3> HIDE DEF r, e
    <3>3. /\ new \in Seq(Subtask) /\ DOMAIN new = 1..(l + 1) /\ new[l + 1] = e
          /\ \A k \in 1..l : new[k] = r[k]
      BY <2>1, <3>2
    <3>4. /\ \A k \in 1..(l + 1) : k = l + 1 \/ k \in 1..l
          /\ \A k \in 1..l : k \in 1..(l + 1)
          /\ l + 1 \in 1..(l + 1)
      BY <2>1
    <3> HIDE DEF new, l
    <3>5. \A k \in DOMAIN r : r[k].id # e.id
      BY <2>1, <2>2 DEF e
    <3>6. \A k \in DOMAIN new : \E i \in 1..n : specs[i].id \notin absorbed /\ new[k] = specs[i]
      BY <2>1, <2>2, <2>4, <3>3, <3>4 DEF e
    <3>7. \A i \in 1..n : specs[i].id \notin absorbed => \E k \in DOMAIN new : new[k] = specs[i]
      <4>1. ASSUME NEW i \in 1..(n - 1), specs[i].id \notin absorbed
            PROVE  \E k \in DOMAIN new : new[k] = specs[i]
        <5>1. PICK k \in DOMAIN r : r[k] = specs[i]
          BY <2>2, <4>1
        <5> QED
          BY <2>1, <3>3, <3>4, <5>1
      <4>2. new[l + 1] = specs[n] /\ l + 1 \in DOMAIN new
        BY <3>3, <3>4 DEF e
      <4> QED
        BY <2>1, <4>1, <4>2
    <3>8. \A k, h \in DOMAIN new : new[k].id = new[h].id => k = h
      BY <2>1, <2>2, <3>3, <3>4, <3>5
    <3> QED
      BY <3>1, <3>3, <3>6, <3>7, <3>8 DEF Lists
  <2> QED
    BY <2>3, <2>4
<1>5. ASSUME bad # {} PROVE FALSE
  <2>1. PICK n \in bad : \A h \in bad : n <= h
    <3>1. bad \in SUBSET Nat
      BY <1>1
    <3> QED
      BY <1>5, <3>1, FirstNumber
  <2>2. n \in 0..m /\ ~ Lists(specs, absorbed, n, R(n)) /\ n # 0
    BY <1>3, <2>1
  <2>3. n \in 1..m /\ n - 1 \in 0..m /\ ~ (n <= n - 1)
    BY <1>1, <2>2
  <2>4. n - 1 \notin bad
    <3> HIDE DEF bad
    <3> QED
      BY <2>1, <2>3
  <2> QED
    BY <1>4, <2>2, <2>3, <2>4
<1>6. m \in 0..m /\ m \notin bad
  BY <1>1, <1>5
<1> QED
  BY <1>6 DEF R

\* Completing tools and rules changes nothing else.
LEMMA CompletedIs ==
  ASSUME NEW e \in Subtask
  PROVE  LET d == RulesCompleted(ToolsCompleted(e))
         IN  /\ d.id = e.id /\ d.deps = e.deps /\ d.steps = e.steps /\ d.scope = e.scope
             /\ d.empty = e.empty
<1>1. /\ DOMAIN ToolsCompleted(e) = DOMAIN e /\ ToolsCompleted(e).id = e.id
      /\ ToolsCompleted(e).deps = e.deps /\ ToolsCompleted(e).steps = e.steps
      /\ ToolsCompleted(e).scope = e.scope /\ ToolsCompleted(e).empty = e.empty
  BY DEF Subtask, ToolsCompleted
<1>2. /\ "id" \in DOMAIN e /\ "deps" \in DOMAIN e /\ "steps" \in DOMAIN e /\ "scope" \in DOMAIN e
      /\ "empty" \in DOMAIN e
  BY DEF Subtask
<1> DEFINE t == ToolsCompleted(e)
<1> HIDE DEF t
<1>3. /\ "id" \in DOMAIN t /\ "deps" \in DOMAIN t /\ "steps" \in DOMAIN t /\ "scope" \in DOMAIN t
      /\ "empty" \in DOMAIN t
  BY <1>1, <1>2 DEF t
<1> DEFINE rules == {rule \in t.rules : Judgeable(rule)} \cup Required(t)
<1>4. RulesCompleted(t) = [t EXCEPT !.rules = rules]
  BY DEF RulesCompleted
<1> HIDE DEF rules
<1>5. /\ RulesCompleted(t).id = t.id /\ RulesCompleted(t).deps = t.deps
      /\ RulesCompleted(t).steps = t.steps /\ RulesCompleted(t).scope = t.scope
      /\ RulesCompleted(t).empty = t.empty
  BY <1>3, <1>4
<1> QED
  BY <1>1, <1>5 DEF t

Merged(raw) == LET specs == Cleaned(raw) IN Merges(specs)[Len(specs)]

\* How the plan that is adopted stands to the merged proposal.
AdoptedFrom(raw, P) ==
  LET specs == Cleaned(raw)
      st    == Merged(raw)
  IN  /\ Len(P) \in Nat /\ DOMAIN P = 1..Len(P)
      /\ \A k \in DOMAIN P : \E i \in DOMAIN specs :
           /\ specs[i].id \notin DOMAIN st.into /\ P[k].id = specs[i].id
           /\ P[k].steps = st.specs[i].steps /\ P[k].deps = Redirected(specs[i].deps, st.into)
           /\ P[k].scope = st.specs[i].scope /\ P[k].empty = st.specs[i].empty
      /\ \A i \in DOMAIN specs : specs[i].id \notin DOMAIN st.into => \E k \in DOMAIN P : P[k].id = specs[i].id
      /\ \A k, l \in DOMAIN P : P[k].id = P[l].id => k = l

LEMMA AdoptedIs ==
  ASSUME NEW raw \in Proposals \cup Revisions, Extractable(raw)
  PROVE  AdoptedFrom(raw, Adopted(raw))
<1> DEFINE specs == Cleaned(raw)
           st == Merged(raw)
           A == DOMAIN st.into
           rest == Remaining(st.specs, A)[Len(specs)]
           m == Len(rest)
           Turned(k) == [rest[k] EXCEPT !.deps = Redirected(@, st.into)]
           f == [k \in 1..m |-> Turned(k)]
           Filled(k) == RulesCompleted(ToolsCompleted(f[k]))
           g == [k \in 1..m |-> Filled(k)]
<1>1. Clean(specs) /\ MergeSound(specs, st)
  BY CleanedIs, MergesSound DEF Merged
<1>2. /\ specs \in Seq(Subtask) /\ DOMAIN specs = 1..Len(specs) /\ Len(specs) \in Nat
      /\ st.specs \in Seq(Subtask) /\ Len(st.specs) = Len(specs) /\ DOMAIN st.specs = DOMAIN specs
      /\ \A i \in DOMAIN specs : st.specs[i].id = specs[i].id /\ st.specs[i].deps = specs[i].deps
  BY <1>1, LenProperties DEF Clean, MergeSound
<1>3. Lists(st.specs, A, Len(specs), rest)
  <2>1. \A i, j \in DOMAIN st.specs : st.specs[i].id = st.specs[j].id => i = j
    BY <1>1, <1>2 DEF Clean
  <2> HIDE DEF st, specs
  <2>2. Lists(st.specs, A, Len(st.specs), Remaining(st.specs, A)[Len(st.specs)])
    BY <1>2, <2>1, RemainingLists
  <2> QED
    BY <1>2, <2>2
<1> DEFINE now == Coalesced(specs)
<1>4. now = Each(LAMBDA spec : [spec EXCEPT !.deps = Redirected(@, st.into)], rest)
  BY DEF Coalesced, Merged
<1>5. Adopted(raw) = Each(LAMBDA spec : RulesCompleted(ToolsCompleted(spec)), now)
  BY DEF Adopted
<1> HIDE DEF now, st, specs, rest
<1>6. rest \in Seq(Subtask) /\ m \in Nat /\ DOMAIN rest = 1..m /\ \A k \in 1..m : rest[k] \in Subtask
  <2>1. rest \in Seq(Subtask)
    BY <1>3 DEF Lists
  <2> QED
    BY <2>1, LenProperties, ElementOfSeq
<1>7. \A k \in 1..m : \E i \in DOMAIN specs : specs[i].id \notin A /\ rest[k] = st.specs[i]
  <2>1. \A k \in DOMAIN rest : \E i \in 1..Len(specs) : st.specs[i].id \notin A /\ rest[k] = st.specs[i]
    BY <1>3 DEF Lists
  <2> QED
    BY <1>2, <1>6, <2>1
<1>8. ASSUME NEW k \in 1..m
      PROVE  /\ Turned(k) \in Subtask /\ Turned(k).id = rest[k].id /\ Turned(k).steps = rest[k].steps
             /\ Turned(k).scope = rest[k].scope /\ Turned(k).empty = rest[k].empty
             /\ Turned(k).deps = Redirected(rest[k].deps, st.into)
  <2> DEFINE deps == Redirected(rest[k].deps, st.into)
  <2>1. deps \subseteq STRING
    <3>1. \A x \in Ids(specs) : x \in STRING
      <4>1. \A i \in DOMAIN specs : specs[i] \in Subtask
        BY <1>2, ElementOfSeq
      <4>2. \A i \in DOMAIN specs : specs[i].id \in STRING
        BY <4>1 DEF Subtask
      <4> QED
        BY <4>2 DEF Ids
    <3>2. \A a \in A : st.into[a] \in STRING
      BY <1>1, <3>1 DEF MergeSound
    <3>3. rest[k].deps \subseteq STRING
      BY <1>6 DEF Subtask
    <3> QED
      BY <3>2, <3>3 DEF Redirected
  <2> DEFINE e == rest[k]
  <2>2. Turned(k) = [e EXCEPT !.deps = deps] /\ e \in Subtask
    BY <1>6
  <2> HIDE DEF deps, e
  <2>3. /\ [e EXCEPT !.deps = deps] \in Subtask /\ [e EXCEPT !.deps = deps].id = e.id
        /\ [e EXCEPT !.deps = deps].steps = e.steps
        /\ [e EXCEPT !.deps = deps].empty = e.empty
        /\ [e EXCEPT !.deps = deps].scope = e.scope /\ [e EXCEPT !.deps = deps].deps = deps
    BY <2>1, <2>2 DEF Subtask
  <2> HIDE DEF Turned
  <2>4. /\ Turned(k) \in Subtask /\ Turned(k).id = e.id /\ Turned(k).steps = e.steps
        /\ Turned(k).scope = e.scope /\ Turned(k).empty = e.empty /\ Turned(k).deps = deps
    BY <2>2, <2>3
  <2> QED
    BY <2>4 DEF e, deps
<1>9. now = f /\ \A k \in 1..m : f[k] = Turned(k)
  <2>1. now = <<>> \o f
    BY <1>4, <1>6 DEF Each
  <2> HIDE DEF Turned
  <2>2. f \in [1..m -> Subtask]
    BY <1>8
  <2> QED
    BY <1>6, <2>1, <2>2, ListOf
<1> HIDE DEF Turned
<1>10. /\ Adopted(raw) = g /\ DOMAIN g = 1..m /\ Len(g) = m
       /\ \A k \in 1..m : g[k] = Filled(k)
  <2>1. DOMAIN now = 1..m
    BY <1>9
  <2>2. Adopted(raw) = <<>> \o [k \in DOMAIN now |-> RulesCompleted(ToolsCompleted(now[k]))]
    BY <1>5 DEF Each
  <2>3. Adopted(raw) = <<>> \o g
    BY <1>9, <2>1, <2>2
  <2> HIDE DEF Filled
  <2>4. g \in [1..m -> {Filled(k) : k \in 1..m}]
    OBVIOUS
  <2> HIDE DEF g
  <2>5. <<>> \o g = g /\ Len(g) = m /\ DOMAIN g = 1..m
    BY <1>6, <2>4, ListOf
  <2> QED
    BY <2>3, <2>5 DEF g
<1>11. \A k \in 1..m : /\ g[k].id = rest[k].id /\ g[k].steps = rest[k].steps
                       /\ g[k].scope = rest[k].scope /\ g[k].empty = rest[k].empty
                       /\ g[k].deps = Redirected(rest[k].deps, st.into)
  <2> SUFFICES ASSUME NEW k \in 1..m
               PROVE  /\ g[k].id = rest[k].id /\ g[k].steps = rest[k].steps
                      /\ g[k].scope = rest[k].scope /\ g[k].empty = rest[k].empty
                      /\ g[k].deps = Redirected(rest[k].deps, st.into)
    OBVIOUS
  <2>1. f[k] \in Subtask /\ f[k].id = rest[k].id /\ f[k].steps = rest[k].steps
        /\ f[k].scope = rest[k].scope /\ f[k].empty = rest[k].empty /\ f[k].deps = Redirected(rest[k].deps, st.into)
    BY <1>8, <1>9
  <2> HIDE DEF f
  <2>2. Filled(k).id = f[k].id /\ Filled(k).deps = f[k].deps /\ Filled(k).steps = f[k].steps
        /\ Filled(k).scope = f[k].scope /\ Filled(k).empty = f[k].empty
    BY <2>1, CompletedIs
  <2>3. g[k] = Filled(k)
    BY <1>10
  <2> HIDE DEF Filled, g
  <2> QED
    BY <2>1, <2>2, <2>3
<1> HIDE DEF g, f, Filled
<1>12. \A k \in 1..m : \E i \in DOMAIN specs :
         /\ specs[i].id \notin A /\ g[k].id = specs[i].id
         /\ g[k].steps = st.specs[i].steps /\ g[k].deps = Redirected(specs[i].deps, st.into)
         /\ g[k].scope = st.specs[i].scope /\ g[k].empty = st.specs[i].empty
  BY <1>2, <1>7, <1>11
<1>13. \A i \in DOMAIN specs : specs[i].id \notin A => \E k \in 1..m : g[k].id = specs[i].id
  <2>1. \A i \in 1..Len(specs) : st.specs[i].id \notin A => \E k \in DOMAIN rest : rest[k] = st.specs[i]
    BY <1>3 DEF Lists
  <2> QED
    BY <1>2, <1>6, <1>11, <2>1
<1>14. \A k, l \in 1..m : g[k].id = g[l].id => k = l
  <2>1. \A k, l \in DOMAIN rest : rest[k].id = rest[l].id => k = l
    BY <1>3 DEF Lists
  <2> QED
    BY <1>6, <1>11, <2>1
<1>15. AdoptedFrom(raw, g)
  BY <1>6, <1>10, <1>12, <1>13, <1>14 DEF AdoptedFrom, st, specs
<1> QED
  BY <1>10, <1>15

\* Of the plan P, the subtasks that carry out what was proposed as x.
Carry(P, x) == {k \in DOMAIN P : x \in P[k].steps}

LEMMA CarriedOnce ==
  ASSUME NEW raw \in Proposals \cup Revisions, Extractable(raw), NEW P, AdoptedFrom(raw, P),
         NEW x \in Ids(raw)
  PROVE  \E k \in DOMAIN P : Carry(P, x) = {k}
<1> DEFINE specs == Cleaned(raw)
           st == Merged(raw)
           A == DOMAIN st.into
<1>1. Clean(specs) /\ MergeSound(specs, st) /\ x \in Ids(specs)
  BY CleanedIs, MergesSound DEF Merged
<1>2. /\ \A k \in DOMAIN P : \E i \in DOMAIN specs :
            specs[i].id \notin A /\ P[k].id = specs[i].id /\ P[k].steps = st.specs[i].steps
      /\ \A i \in DOMAIN specs : specs[i].id \notin A => \E k \in DOMAIN P : P[k].id = specs[i].id
      /\ \A k, l \in DOMAIN P : P[k].id = P[l].id => k = l
  BY DEF AdoptedFrom
<1> HIDE DEF specs, st
<1>3. \A i, j \in DOMAIN specs : specs[i].id = specs[j].id => i = j
  BY <1>1 DEF Clean
<1>4. PICK i \in DOMAIN specs :
        /\ specs[i].id \notin A /\ x \in st.specs[i].steps
        /\ \A j \in DOMAIN specs : specs[j].id \notin A /\ x \in st.specs[j].steps => j = i
  BY <1>1 DEF MergeSound
<1>5. PICK k \in DOMAIN P : P[k].id = specs[i].id
  BY <1>2, <1>4
<1>6. x \in P[k].steps
  <2>1. PICK h \in DOMAIN specs : P[k].id = specs[h].id /\ P[k].steps = st.specs[h].steps
    BY <1>2
  <2> QED
    BY <1>3, <1>4, <1>5, <2>1
<1>7. ASSUME NEW l \in DOMAIN P, x \in P[l].steps PROVE l = k
  <2>1. PICK h \in DOMAIN specs :
          specs[h].id \notin A /\ P[l].id = specs[h].id /\ P[l].steps = st.specs[h].steps
    BY <1>2
  <2>2. h = i
    BY <1>4, <1>7, <2>1
  <2> QED
    BY <1>2, <1>5, <2>1, <2>2
<1> QED
  BY <1>6, <1>7 DEF Carry

\* Who carries a proposed subtask: itself, or whoever carries the one it went into.
LEMMA CarrierIs ==
  ASSUME NEW raw \in Proposals \cup Revisions, Extractable(raw), NEW P, AdoptedFrom(raw, P),
         NEW k \in DOMAIN P
  PROVE  /\ P[k].id \in Ids(raw) \ DOMAIN Merged(raw).into /\ k \in Carry(P, P[k].id)
         /\ \A a \in DOMAIN Merged(raw).into :
              a \in Ids(raw) /\ (k \in Carry(P, a) <=> k \in Carry(P, Merged(raw).into[a]))
<1> DEFINE specs == Cleaned(raw)
           st == Merged(raw)
           A == DOMAIN st.into
<1>1. Clean(specs) /\ MergeSound(specs, st) /\ Ids(specs) = Ids(raw)
  BY CleanedIs, MergesSound DEF Merged
<1>2. PICK i \in DOMAIN specs :
        specs[i].id \notin A /\ P[k].id = specs[i].id /\ P[k].steps = st.specs[i].steps
  BY DEF AdoptedFrom
<1> HIDE DEF specs, st
<1>3. P[k].id \in Ids(raw) \ A
  BY <1>1, <1>2 DEF Ids
<1>4. P[k].id \in P[k].steps
  BY <1>1, <1>2 DEF MergeSound
<1>5. \A a \in A : a \in Ids(raw) /\ (a \in P[k].steps <=> st.into[a] \in P[k].steps)
  BY <1>1, <1>2 DEF MergeSound
<1> QED
  BY <1>3, <1>4, <1>5 DEF Carry, st

\* One dependency of the proposal: that of an absorbed subtask on the one it went
\* into, or kept.
LEMMA LeadKept ==
  ASSUME NEW raw \in Proposals \cup Revisions, Extractable(raw), NEW P, AdoptedFrom(raw, P),
         Structured(P), NEW y, NEW z, Leads(raw, y, z),
         NEW i \in Carry(P, y), NEW j \in Carry(P, z)
  PROVE  (i = j /\ z \in DOMAIN Merged(raw).into) \/ Leads(P, P[i].id, P[j].id)
<1> DEFINE specs == Cleaned(raw)
           st == Merged(raw)
           A == DOMAIN st.into
<1>1. /\ Clean(specs) /\ MergeSound(specs, st) /\ Ids(specs) = Ids(raw)
      /\ DOMAIN specs = DOMAIN raw
      /\ \A c \in DOMAIN raw : /\ specs[c].id = raw[c].id
                               /\ specs[c].deps = (raw[c].deps \cap Ids(raw)) \ {raw[c].id}
  BY CleanedIs, MergesSound DEF Merged
<1>2. i \in DOMAIN P /\ j \in DOMAIN P /\ y \in Ids(raw) /\ z \in Ids(raw) /\ y # z
  BY DEF Carry, Leads
<1>3. PICK c \in DOMAIN raw : raw[c].id = z
  BY <1>2 DEF Ids
<1> HIDE DEF specs
<1>4. \A k, l \in DOMAIN raw : raw[k].id = raw[l].id => k = l
  BY <1>1 DEF Clean
<1>5. Named(raw, z) = raw[c]
  BY <1>3, <1>4, NamedIs
<1>6. specs[c].id = z /\ y \in specs[c].deps
  BY <1>1, <1>2, <1>3, <1>5 DEF Leads
<1>7. \A k \in DOMAIN P : /\ P[k].id \in Ids(raw) \ A /\ k \in Carry(P, P[k].id)
                          /\ \A a \in A : k \in Carry(P, a) <=> k \in Carry(P, st.into[a])
  BY CarrierIs
<1>8. \A x \in Ids(raw) : \A k, l \in Carry(P, x) : k = l
  <2> SUFFICES ASSUME NEW x \in Ids(raw) PROVE \A k, l \in Carry(P, x) : k = l
    OBVIOUS
  <2>1. PICK k \in DOMAIN P : Carry(P, x) = {k}
    BY CarriedOnce
  <2> QED
    BY <2>1
<1>9. \A k \in DOMAIN P : \E h \in DOMAIN specs :
        P[k].id = specs[h].id /\ P[k].deps = Redirected(specs[h].deps, st.into)
  BY DEF AdoptedFrom, specs
<1>10. \A k \in DOMAIN specs : specs[k].id \notin A => \E l \in DOMAIN P : P[l].id = specs[k].id
  BY DEF AdoptedFrom, specs
<1>11. \A k, l \in DOMAIN P : P[k].id = P[l].id => k = l
  BY DEF AdoptedFrom
<1>12. \A a \in A : \A k \in DOMAIN specs : specs[k].id = a => specs[k].deps = {st.into[a]}
  BY <1>1 DEF MergeSound
<1> HIDE DEF st
<1>13. CASE z \in A
  <2>1. y = st.into[z]
    BY <1>1, <1>3, <1>6, <1>12, <1>13
  <2>2. j \in Carry(P, y)
    BY <1>2, <1>7, <1>13, <2>1
  <2> QED
    BY <1>2, <1>8, <1>13, <2>2 DEF st
<1>14. CASE z \notin A
  <2>1. P[j].id = z
    <3>1. PICK l \in DOMAIN P : P[l].id = z
      BY <1>1, <1>3, <1>6, <1>10, <1>14
    <3>2. l \in Carry(P, z)
      BY <1>7, <3>1
    <3> QED
      BY <1>2, <1>8, <3>1, <3>2
  <2>2. P[j].deps = Redirected(specs[c].deps, st.into)
    <3>1. PICK h \in DOMAIN specs : P[j].id = specs[h].id /\ P[j].deps = Redirected(specs[h].deps, st.into)
      BY <1>2, <1>9
    <3>2. h = c
      BY <1>1, <1>3, <1>4, <2>1, <3>1
    <3> QED
      BY <3>1, <3>2
  <2> DEFINE t == IF y \in A THEN st.into[y] ELSE y
  <2>3. t \in P[j].deps
    BY <1>6, <2>2 DEF Redirected
  <2>4. t # P[j].id /\ t \in Ids(P)
    BY <1>2, <2>3 DEF Structured
  <2>5. PICK l \in DOMAIN P : P[l].id = t
    BY <2>4 DEF Ids
  <2>6. l \in Carry(P, t) /\ t \in Ids(raw)
    BY <1>7, <2>5
  <2>7. i \in Carry(P, t)
    BY <1>2, <1>7
  <2>8. i = l
    BY <1>8, <2>6, <2>7
  <2> HIDE DEF t
  <2>9. P[i].id = t
    BY <2>5, <2>8
  <2>10. Named(P, P[j].id) = P[j]
    BY <1>2, <1>11, NamedIs
  <2>11. P[i].id \in Ids(P) /\ P[j].id \in Ids(P)
    BY <1>2 DEF Ids
  <2> QED
    BY <2>3, <2>4, <2>9, <2>10, <2>11 DEF Leads
<1> QED
  BY <1>13, <1>14

LEMMA OrderKept ==
  ASSUME NEW raw \in Proposals \cup Revisions, Extractable(raw), NEW P, AdoptedFrom(raw, P),
         Structured(P), NEW x, NEW y, <<x, y>> \in Before(raw),
         NEW i \in Carry(P, x), NEW j \in Carry(P, y)
  PROVE  i = j \/ <<P[i].id, P[j].id>> \in Before(P)
<1> DEFINE After(k) == i = k \/ <<P[i].id, P[k].id>> \in Before(P)
           S == {v \in Ids(raw) : \A k \in Carry(P, v) : After(k)}
<1>1. x \in Ids(raw) /\ y \in Ids(raw)
  BY Ordered
<1>2. \A k \in Carry(P, x) : k = i
  <2>1. PICK k \in DOMAIN P : Carry(P, x) = {k}
    BY <1>1, CarriedOnce
  <2> QED
    BY <2>1
<1>3. ASSUME NEW u \in S \cup {x}, NEW z, Leads(raw, u, z) PROVE z \in S
  <2>1. u \in Ids(raw) /\ z \in Ids(raw)
    BY <1>3 DEF Leads
  <2>2. ASSUME NEW k \in Carry(P, z) PROVE After(k)
    <3>1. PICK h \in DOMAIN P : Carry(P, u) = {h}
      BY <2>1, CarriedOnce
    <3>2. h \in Carry(P, u)
      BY <3>1
    <3>3. After(h)
      BY <1>2, <1>3, <3>2
    <3>4. h = k \/ Leads(P, P[h].id, P[k].id)
      BY <1>3, <3>2, LeadKept
    <3>5. ASSUME Leads(P, P[h].id, P[k].id) PROVE <<P[i].id, P[k].id>> \in Before(P)
      BY <3>3, <3>5, LeadsIsBefore, BeforeThenLeads
    <3> QED
      BY <3>3, <3>4, <3>5
  <2> HIDE DEF After
  <2> QED
    BY <2>1, <2>2
<1>4. HoldsAfter(raw, S, x)
  <2> HIDE DEF After
  <2>1. S \in SUBSET Ids(raw)
    OBVIOUS
  <2> HIDE DEF S
  <2> QED
    BY <1>3, <2>1 DEF HoldsAfter
<1>5. y \in S
  <2> HIDE DEF S
  <2> QED
    BY <1>4, Ordered
<1> QED
  BY <1>5

\* What is adopted is a plan for all of the proposal, once each, in its order.
AdoptsAll(raw, P) ==
  /\ \A x \in Ids(raw) : Cardinality(Carry(P, x)) = 1
  /\ \A pair \in Before(P) : pair[1] # pair[2]
  /\ \A pair \in Before(raw) :
       \A i \in Carry(P, pair[1]), j \in Carry(P, pair[2]) :
         i = j \/ <<P[i].id, P[j].id>> \in Before(P)

LEMMA AdoptedIsFaithful ==
  ASSUME NEW raw \in Proposals \cup Revisions, Extractable(raw), NEW P, AdoptedFrom(raw, P),
         Structured(P)
  PROVE  AdoptsAll(raw, P)
<1>1. ASSUME NEW x \in Ids(raw) PROVE Cardinality(Carry(P, x)) = 1
  <2>1. PICK k \in DOMAIN P : Carry(P, x) = {k}
    BY CarriedOnce
  <2> QED
    BY <2>1, FS_Singleton
<1>2. \A specs : \A pair \in Before(specs) : pair = <<pair[1], pair[2]>>
  BY DEF Before
<1>3. ASSUME NEW pair \in Before(P) PROVE pair[1] # pair[2]
  <2>1. Len(P) \in Nat /\ Residual(P) = {}
    BY DEF AdoptedFrom, Structured
  <2> QED
    BY <1>2, <1>3, <2>1, ResolvedIsAcyclic
<1>4. ASSUME NEW pair \in Before(raw), NEW i \in Carry(P, pair[1]), NEW j \in Carry(P, pair[2])
      PROVE  i = j \/ <<P[i].id, P[j].id>> \in Before(P)
  <2>1. <<pair[1], pair[2]>> \in Before(raw)
    BY <1>2
  <2> QED
    BY <2>1, OrderKept
<1> QED
  BY <1>1, <1>3, <1>4 DEF AdoptsAll

----------------------------------------------------------------------------
(***************************************************************************)
(* The plan that is judged is what was made of the last proposal.           *)
(***************************************************************************)

PlanKept ==
  /\ phase \in {"judge", "accepted"} =>
       /\ proposal \in Proposals \cup Revisions /\ Extractable(proposal)
       /\ plan = Adopted(proposal)
  /\ phase = "accepted" => Structured(plan)

LEMMA PlanningKeepsPlan ==
  ASSUME PlanKept, PlanningNext
  PROVE  PlanKept'
<1> USE DEF PlanKept
<1>1. CASE NetworkFails
  BY <1>1 DEF NetworkFails
<1>2. ASSUME NEW raw \in Proposals \cup Revisions, Unusable(raw) PROVE PlanKept'
  BY <1>2 DEF Unusable, Refused
<1>3. ASSUME NEW raw \in Proposals \cup Revisions, Adopt(raw) PROVE PlanKept'
  <2>1. phase' = "judge" /\ proposal' = raw /\ Extractable(raw) /\ plan' = Adopted(raw)
    BY <1>3 DEF Adopt
  <2> QED
    BY <2>1
<1>4. CASE FindBroken
  BY <1>4 DEF FindBroken, Settle, Refused
<1>5. CASE SkipReview
  BY <1>5 DEF SkipReview, Settle, Issue
<1>6. ASSUME NEW planPasses \in BOOLEAN, NEW grantsPass \in BOOLEAN, Review(planPasses, grantsPass)
      PROVE  PlanKept'
  <2>1. phase = "judge" /\ Structured(plan) /\ UNCHANGED <<proposal, plan>>
        /\ (phase' = "accepted" \/ phase' \in {"ask", "exhausted"})
    BY <1>6 DEF Review, Settle, Issue, Refused
  <2> QED
    BY <2>1
<1> QED
  BY <1>1, <1>2, <1>3, <1>4, <1>5, <1>6 DEF PlanningNext

\* An accepted plan carries out each subtask that was proposed exactly once, no
\* subtask waits for itself, and what had to come first still does, in the same
\* subtask or in one that is waited for, however many steps are merged
\* (_coalesce_report_steps, _adopt_plan, _validate_plan_structure).
THEOREM PlansAreFaithful == Spec => []PlanIsFaithful
<1>1. Init => PlanKept
  BY DEF Init, PlanningInit, PlanKept
<1>2. PlanKept /\ [Next]_vars => PlanKept'
  <2> SUFFICES ASSUME PlanKept, [Next]_vars PROVE PlanKept'
    OBVIOUS
  <2>1. CASE UNCHANGED planningVars
    BY <2>1 DEF PlanKept, planningVars
  <2>2. CASE PlanIt
    BY <2>2, PlanningKeepsPlan DEF PlanIt
  <2> QED
    BY <2>1, <2>2 DEF Next, Route, Ended, vars
<1>3. PlanKept => PlanIsFaithful
  <2> SUFFICES ASSUME PlanKept, phase = "accepted"
               PROVE  /\ \A id \in Ids(proposal) : Cardinality(Carriers(id)) = 1
                      /\ \E before \in {Before(plan)} :
                           /\ \A pair \in before : pair[1] # pair[2]
                           /\ \A pair \in Before(proposal) :
                                \A i \in Carriers(pair[1]), j \in Carriers(pair[2]) :
                                  i = j \/ <<plan[i].id, plan[j].id>> \in before
    BY DEF PlanIsFaithful
  <2>1. AdoptsAll(proposal, plan)
    BY AdoptedIs, AdoptedIsFaithful DEF PlanKept
  <2>2. \A x : Carriers(x) = Carry(plan, x)
    BY DEF Carriers, Carry
  <2> QED
    BY <2>1, <2>2 DEF AdoptsAll
<1> QED
  BY <1>1, <1>2, <1>3, PTL DEF Spec

----------------------------------------------------------------------------
(***************************************************************************)
(* The paths of a plan.                                                     *)
(***************************************************************************)

LEMMA BelowIs ==
  ASSUME NEW p \in Seq(STRING), NEW q \in Seq(STRING)
  PROVE  Below(p, q) <=> Len(q) <= Len(p) /\ \A n \in 1..Len(q) : p[n] = q[n]
<1>1. Len(p) \in Nat /\ Len(q) \in Nat /\ \A n \in 1..Len(p) : p[n] \in STRING
  BY LenProperties, ElementOfSeq
<1> SUFFICES ASSUME Len(q) <= Len(p)
             PROVE  SubSeq(p, 1, Len(q)) = q <=> \A n \in 1..Len(q) : p[n] = q[n]
  BY DEF Below
<1> DEFINE l == Len(q)
           t == SubSeq(p, 1, l)
<1>2. t \in Seq(STRING) /\ Len(t) = l /\ \A n \in 1..l : t[n] = p[n]
  <2>1. 1 \in Int /\ l \in Int /\ \A n \in 1..l : p[n] \in STRING
    BY <1>1
  <2> HIDE DEF l
  <2>2. /\ t \in Seq(STRING) /\ Len(t) = IF 1 <= l THEN l - 1 + 1 ELSE 0
        /\ \A n \in 1..(l - 1 + 1) : t[n] = p[1 + n - 1]
    BY <2>1, SubSeqProperties
  <2>3. l \in Nat /\ l - 1 + 1 = l /\ \A n \in 1..l : 1 + n - 1 = n
    BY <1>1 DEF l
  <2> QED
    BY <2>2, <2>3
<1> HIDE DEF t
<1>3. ASSUME \A n \in 1..l : p[n] = q[n] PROVE t = q
  BY <1>2, <1>3, SeqEqual
<1>4. t = q => \A n \in 1..l : p[n] = q[n]
  BY <1>2
<1> QED
  BY <1>3, <1>4 DEF t

\* What is left of a path when what names nothing is taken out.
LEMMA PlainIs ==
  ASSUME NEW path, Len(path) \in Nat
  PROVE  \E kept :
           /\ Plain(path) = kept[Len(path)] /\ kept[0] = <<>>
           /\ \A n \in 1..Len(path) :
                kept[n] = IF path[n] \in {".", "*"} THEN kept[n - 1] ELSE Append(kept[n - 1], path[n])
<1> DEFINE start == <<>>
           Step(r, n) == IF path[n] \in {".", "*"} THEN r ELSE Append(r, path[n])
           Rec(g, N) == g = [n \in 0..N |-> IF n = 0 THEN start ELSE Step(g[n - 1], n)]
           bad == {N \in 0..Len(path) : ~ \E g : Rec(g, N)}
           kept == CHOOSE g : Rec(g, Len(path))
<1>1. Plain(path) = kept[Len(path)]
  BY DEF Plain
<1>2. \A r, n : Step(r, n) = IF path[n] \in {".", "*"} THEN r ELSE Append(r, path[n])
  OBVIOUS
<1> HIDE DEF Step, start
<1>3. ASSUME bad # {} PROVE FALSE
  <2>1. PICK N \in bad : \A h \in bad : N <= h
    <3>1. bad \in SUBSET Nat
      OBVIOUS
    <3> QED
      BY <1>3, <3>1, FirstNumber
  <2>2. N \in 0..Len(path) /\ ~ \E g : Rec(g, N)
    BY <2>1
  <2>3. N # 0
    <3>1. Rec([n \in 0..0 |-> start], 0)
      OBVIOUS
    <3> QED
      BY <2>2, <3>1
  <2>4. N - 1 \in 0..Len(path) /\ ~ (N <= N - 1) /\ N \in Nat /\ N - 1 \in Nat
    BY <2>2, <2>3
  <2>5. PICK g : Rec(g, N - 1)
    <3>1. N - 1 \notin bad
      BY <2>1, <2>4
    <3> QED
      BY <2>4, <3>1
  <2> DEFINE h == [n \in 0..N |-> IF n = N THEN Step(g[N - 1], N) ELSE g[n]]
  <2>6. \A n \in 0..N : /\ n # N => n \in 0..(N - 1)
                        /\ n # 0 => n - 1 \in 0..(N - 1) /\ n - 1 \in 0..N /\ n - 1 # N
    BY <2>4
  <2>7. \A n \in 0..N : n # 0 => h[n - 1] = g[n - 1]
    BY <2>6
  <2>8. \A n \in 0..N : h[n] = IF n = 0 THEN start ELSE Step(h[n - 1], n)
    <3> SUFFICES ASSUME NEW n \in 0..N PROVE h[n] = IF n = 0 THEN start ELSE Step(h[n - 1], n)
      OBVIOUS
    <3>1. CASE n = N
      BY <2>3, <2>7, <3>1
    <3>2. CASE n # N
      <4>1. h[n] = g[n] /\ n \in 0..(N - 1)
        BY <2>6, <3>2
      <4>2. g[n] = IF n = 0 THEN start ELSE Step(g[n - 1], n)
        BY <2>5, <4>1
      <4> QED
        BY <2>7, <4>1, <4>2
    <3> QED
      BY <3>1, <3>2
  <2>9. h = [n \in 0..N |-> IF n = 0 THEN start ELSE Step(h[n - 1], n)]
    <3>1. h = [n \in 0..N |-> h[n]]
      OBVIOUS
    <3> HIDE DEF h
    <3> QED
      BY <2>8, <3>1
  <2>10. Rec(h, N)
    BY <2>9
  <2> QED
    BY <2>2, <2>10
<1>4. \E g : Rec(g, Len(path))
  <2>1. Len(path) \in 0..Len(path) /\ Len(path) \notin bad
    BY <1>3
  <2> QED
    BY <2>1
<1>5. Rec(kept, Len(path))
  BY <1>4
<1> HIDE DEF kept
<1>6. \A n \in 0..Len(path) : kept[n] = IF n = 0 THEN start ELSE Step(kept[n - 1], n)
  BY <1>5
<1>7. 0 \in 0..Len(path) /\ \A n \in 1..Len(path) : n \in 0..Len(path) /\ n # 0
  OBVIOUS
<1>8. kept[0] = <<>> /\ \A n \in 1..Len(path) :
        kept[n] = IF path[n] \in {".", "*"} THEN kept[n - 1] ELSE Append(kept[n - 1], path[n])
  BY <1>2, <1>6, <1>7 DEF start
<1> QED
  BY <1>1, <1>8

\* The path the code compares is the one that is meant, with the pattern at its
\* end if it has one.
PlainAndPattern(P, N) ==
  /\ P \in Seq(STRING) /\ N \in Seq(STRING) /\ N # <<>>
  /\ \A n \in 1..Len(P) : P[n] = N[n]
  /\ Len(N) = IF IsPattern(N) THEN Len(P) + 1 ELSE Len(P)

LEMMA PlainOf ==
  ASSUME NEW path \in Seq(STRING) \ {<<>>}, Followed(path)
  PROVE  PlainAndPattern(Plain(path), Normalized(path))
<1> DEFINE l == Len(path)
           N == Normalized(path)
           star == path[l] = "*"
           e == IF star THEN l - 1 ELSE l
<1>1. /\ l \in Nat /\ l > 0 /\ DOMAIN path = 1..l /\ path = [n \in 1..l |-> path[n]]
      /\ \A n \in 1..l : path[n] \in STRING
  BY LenProperties, EmptySeq, ElementOfSeq
<1>2. PICK d \in 0..l - 1 :
        (\A n \in 1..l : path[n] = "." <=> n <= d) /\ \A n \in 1..l - 1 : path[n] # "*"
  BY <1>1 DEF Followed
<1> HIDE DEF l
<1>3. N = SubSeq(path, d + 1, l)
  <2> DEFINE PastDots(i) == (\A j \in 1..i - 1 : path[j] = ".") /\ (i <= l => path[i] # ".")
  <2>1. N = SubSeq(path, CHOOSE i \in 1..l + 1 : PastDots(i), l)
    BY DEF Normalized, l
  <2>2. d + 1 \in 1..l + 1 /\ PastDots(d + 1)
    BY <1>1, <1>2
  <2>3. \A i \in 1..l + 1 : PastDots(i) => i = d + 1
    <3> SUFFICES ASSUME NEW i \in 1..l + 1, PastDots(i), i # d + 1 PROVE FALSE
      OBVIOUS
    <3>1. CASE i < d + 1
      BY <1>1, <1>2, <3>1
    <3>2. CASE i > d + 1
      <4>1. d + 1 \in 1..i - 1 /\ d + 1 \in 1..l /\ ~ (d + 1 <= d)
        BY <1>1, <3>2
      <4>2. path[d + 1] = "."
        BY <4>1
      <4> QED
        BY <1>2, <4>1, <4>2
    <3> QED
      BY <1>1, <3>1, <3>2
  <2> HIDE DEF PastDots
  <2>4. (CHOOSE i \in 1..l + 1 : PastDots(i)) = d + 1
    BY <2>2, <2>3
  <2> QED
    BY <2>1, <2>4
<1>4. N \in Seq(STRING) /\ Len(N) = l - d /\ \A n \in 1..(l - d) : N[n] = path[d + n]
  <2> DEFINE c == d + 1
  <2>1. c \in Int /\ l \in Int /\ c <= l /\ \A n \in c..l : path[n] \in STRING
    BY <1>1, <1>2
  <2>2. l - c + 1 = l - d /\ \A n \in 1..(l - d) : c + n - 1 = d + n
    BY <1>1, <1>2
  <2> HIDE DEF c
  <2>3. /\ SubSeq(path, c, l) \in Seq(STRING) /\ Len(SubSeq(path, c, l)) = IF c <= l THEN l - c + 1 ELSE 0
        /\ \A n \in 1..(l - c + 1) : SubSeq(path, c, l)[n] = path[c + n - 1]
    BY <2>1, SubSeqProperties
  <2>4. N = SubSeq(path, c, l)
    BY <1>3 DEF c
  <2> HIDE DEF N
  <2> QED
    BY <2>1, <2>2, <2>3, <2>4
<1>5. PICK kept :
        /\ Plain(path) = kept[l] /\ kept[0] = <<>>
        /\ \A n \in 1..l :
             kept[n] = IF path[n] \in {".", "*"} THEN kept[n - 1] ELSE Append(kept[n - 1], path[n])
  BY <1>1, PlainIs DEF l
<1> DEFINE Good(n) == /\ kept[n] \in Seq(STRING) /\ Len(kept[n]) = IF n <= d THEN 0 ELSE n - d
                      /\ \A i \in 1..Len(kept[n]) : kept[n][i] = path[d + i]
           bad == {n \in 0..e : ~ Good(n)}
<1>6. e \in Nat /\ e <= l /\ d <= e /\ e \in {l, l - 1}
  BY <1>1, <1>2
<1>7. Good(0)
  <2>1. <<>> \in Seq(STRING) /\ Len(<<>>) = 0
    BY EmptySeq
  <2> QED
    BY <1>2, <1>5, <2>1
<1>8. ASSUME NEW n \in 1..e, Good(n - 1) PROVE Good(n)
  <2>1. n \in 1..l /\ path[n] # "*" /\ path[n] \in STRING /\ n - 1 \in Nat
    <3>1. n \in 1..l /\ n - 1 \in Nat
      BY <1>1, <1>6
    <3>2. CASE n = l
      <4>1. ~ star
        BY <1>1, <3>2
      <4> QED
        BY <1>1, <3>1, <3>2, <4>1
    <3>3. CASE n # l
      BY <1>1, <1>2, <3>1, <3>3
    <3> QED
      BY <1>1, <3>1, <3>2, <3>3
  <2>2. CASE n <= d
    <3>1. kept[n] = kept[n - 1] /\ n - 1 <= d
      BY <1>2, <1>5, <2>1, <2>2
    <3> QED
      BY <1>8, <2>2, <3>1
  <2>3. CASE n > d
    <3> DEFINE r == kept[n - 1]
               a == path[n]
    <3>1. kept[n] = Append(r, a)
      <4>1. path[n] \notin {".", "*"}
        BY <1>2, <2>1, <2>3
      <4> QED
        BY <1>5, <2>1, <4>1
    <3>2. r \in Seq(STRING) /\ Len(r) = (n - 1) - d /\ \A i \in 1..Len(r) : r[i] = path[d + i]
      BY <1>2, <1>8, <2>1, <2>3
    <3>3. a \in STRING /\ a = path[d + (n - d)]
      BY <1>2, <2>1
    <3> HIDE DEF r, a
    <3>4. /\ Append(r, a) \in Seq(STRING) /\ Len(Append(r, a)) = n - d
          /\ \A i \in 1..(n - d) : Append(r, a)[i] = path[d + i]
      <4> DEFINE m == n - d
      <4>1. m \in Nat /\ Len(r) + 1 = m /\ \A i \in 1..m : i \in 1..Len(r) \/ i = Len(r) + 1
        BY <1>2, <2>1, <2>3, <3>2
      <4>2. a = path[d + m]
        BY <3>3
      <4>3. /\ Append(r, a) \in Seq(STRING) /\ Len(Append(r, a)) = Len(r) + 1
            /\ \A i \in 1..Len(r) : Append(r, a)[i] = r[i]
            /\ Append(r, a)[Len(r) + 1] = a
        BY <3>2, <3>3, AppendProperties
      <4> HIDE DEF m
      <4>4. \A i \in 1..m : Append(r, a)[i] = path[d + i]
        BY <3>2, <4>1, <4>2, <4>3
      <4> QED
        BY <4>1, <4>3, <4>4 DEF m
    <3> QED
      BY <1>2, <2>1, <2>3, <3>1, <3>4
  <2> QED
    BY <1>2, <2>1, <2>2, <2>3
<1> HIDE DEF Good, e
<1>9. ASSUME bad # {} PROVE FALSE
  <2>1. PICK n \in bad : \A h \in bad : n <= h
    <3>1. bad \in SUBSET Nat
      BY <1>6
    <3> QED
      BY <1>9, <3>1, FirstNumber
  <2>2. n \in 1..e /\ ~ Good(n) /\ n - 1 \in 0..e /\ ~ (n <= n - 1)
    BY <1>6, <1>7, <2>1
  <2>3. n - 1 \notin bad
    <3> HIDE DEF bad
    <3> QED
      BY <2>1, <2>2
  <2> QED
    BY <1>8, <2>2, <2>3
<1>10. Good(e)
  BY <1>6, <1>9
<1>11. Plain(path) = kept[e]
  <2>1. CASE star
    <3>1. kept[l] = kept[l - 1] /\ e = l - 1
      BY <1>1, <1>5, <2>1 DEF e
    <3> QED
      BY <1>5, <3>1
  <2>2. CASE ~ star
    BY <1>5, <2>2 DEF e
  <2> QED
    BY <2>1, <2>2
<1> DEFINE P == kept[e]
<1>12. P \in Seq(STRING) /\ Len(P) = e - d /\ \A i \in 1..Len(P) : P[i] = path[d + i]
  BY <1>2, <1>6, <1>10 DEF Good
<1> HIDE DEF P, N
<1>13. IsPattern(N) <=> star
  <2>1. l - d \in 1..(l - d) /\ d + (l - d) = l
    BY <1>1, <1>2
  <2> QED
    BY <1>4, <2>1 DEF IsPattern
<1>14. N # <<>>
  BY <1>1, <1>2, <1>4
<1>15. \A i \in 1..Len(P) : P[i] = N[i]
  BY <1>2, <1>4, <1>6, <1>12
<1>16. Len(N) = IF star THEN Len(P) + 1 ELSE Len(P)
  BY <1>1, <1>2, <1>4, <1>12 DEF e
<1>17. PlainAndPattern(P, N)
  BY <1>4, <1>12, <1>13, <1>14, <1>15, <1>16 DEF PlainAndPattern
<1> QED
  BY <1>11, <1>17 DEF P, N

\* Two paths that reach one place overlap for the code.
LEMMA ReachedByBoth ==
  ASSUME NEW p, NEW q, NEW M, NEW N, PlainAndPattern(p, M), PlainAndPattern(q, N),
         NEW place \in Seq(STRING), Below(place, p), Below(place, q)
  PROVE  Overlap(M, N)
<1>1. /\ p \in Seq(STRING) /\ q \in Seq(STRING) /\ M \in Seq(STRING) /\ N \in Seq(STRING)
      /\ Len(p) \in Nat /\ Len(q) \in Nat /\ Len(M) \in Nat /\ Len(N) \in Nat
  BY LenProperties DEF PlainAndPattern
<1>2. /\ Len(p) <= Len(place) /\ Len(q) <= Len(place) /\ Len(place) \in Nat
      /\ \A n \in 1..Len(p) : place[n] = p[n]
      /\ \A n \in 1..Len(q) : place[n] = q[n]
  BY <1>1, BelowIs, LenProperties
<1>3. ASSUME NEW a, NEW b, NEW A, NEW B, PlainAndPattern(a, A), PlainAndPattern(b, B),
             a \in Seq(STRING), b \in Seq(STRING), A \in Seq(STRING), B \in Seq(STRING),
             Len(a) \in Nat, Len(b) \in Nat, Len(A) \in Nat, Len(B) \in Nat,
             Len(a) <= Len(b), \A n \in 1..Len(a) : a[n] = b[n]
      PROVE  Below(B, A) \/ Below(A, B) \/ Matches(B, A)
  <2>1. /\ \A n \in 1..Len(a) : a[n] = A[n]
        /\ \A n \in 1..Len(b) : b[n] = B[n]
        /\ Len(A) = IF IsPattern(A) THEN Len(a) + 1 ELSE Len(a)
        /\ Len(B) = IF IsPattern(B) THEN Len(b) + 1 ELSE Len(b)
        /\ A # <<>>
    BY <1>3 DEF PlainAndPattern
  <2>2. \A n \in 1..Len(a) : A[n] = B[n] /\ n \in 1..Len(b)
    BY <1>3, <2>1
  <2>3. CASE ~ IsPattern(A)
    <3>1. Len(A) <= Len(B) /\ \A n \in 1..Len(A) : B[n] = A[n]
      BY <1>3, <2>1, <2>2, <2>3
    <3> QED
      BY <1>3, <3>1, BelowIs
  <2>4. CASE IsPattern(A)
    <3>1. Len(A) = Len(a) + 1
      BY <2>1, <2>4
    <3>2. CASE Len(B) < Len(A)
      <4>1. Len(B) = Len(a) /\ \A n \in 1..Len(B) : A[n] = B[n]
        BY <1>3, <2>1, <2>2, <3>1, <3>2
      <4> QED
        BY <1>3, <3>2, <4>1, BelowIs
    <3>3. CASE Len(B) >= Len(A)
      <4> DEFINE dir == SubSeq(A, 1, Len(A) - 1)
      <4>1. dir \in Seq(STRING) /\ Len(dir) = Len(a) /\ \A n \in 1..Len(a) : dir[n] = A[n]
        <5> DEFINE m == Len(A) - 1
        <5>1. 1 \in Int /\ m \in Int /\ \A n \in 1..m : A[n] \in STRING
          BY <1>3, <3>1, ElementOfSeq
        <5>2. m = Len(a) /\ m \in Nat
          BY <1>3, <3>1
        <5> HIDE DEF m
        <5>3. /\ SubSeq(A, 1, m) \in Seq(STRING) /\ Len(SubSeq(A, 1, m)) = IF 1 <= m THEN m - 1 + 1 ELSE 0
              /\ \A n \in 1..(m - 1 + 1) : SubSeq(A, 1, m)[n] = A[1 + n - 1]
          BY <5>1, SubSeqProperties
        <5>4. m - 1 + 1 = m /\ (~ (1 <= m) => m = 0) /\ \A n \in 1..m : 1 + n - 1 = n
          BY <5>2
        <5>5. dir = SubSeq(A, 1, m)
          BY DEF m
        <5> HIDE DEF dir
        <5> QED
          BY <5>2, <5>3, <5>4, <5>5
      <4>2. Len(dir) <= Len(B) /\ \A n \in 1..Len(dir) : B[n] = dir[n]
        BY <1>3, <2>2, <3>1, <3>3, <4>1
      <4> HIDE DEF dir
      <4>3. Below(B, dir)
        BY <1>3, <4>1, <4>2, BelowIs
      <4> QED
        BY <2>4, <3>3, <4>3 DEF Matches, dir
    <3> QED
      BY <1>3, <3>2, <3>3
  <2> QED
    BY <2>3, <2>4
<1>4. CASE Len(p) <= Len(q)
  <2>1. \A n \in 1..Len(p) : p[n] = q[n]
    BY <1>1, <1>2, <1>4
  <2>2. Below(N, M) \/ Below(M, N) \/ Matches(N, M)
    BY <1>1, <1>3, <1>4, <2>1
  <2> QED
    BY <2>2 DEF Overlap
<1>5. CASE Len(q) <= Len(p)
  <2>1. \A n \in 1..Len(q) : q[n] = p[n]
    BY <1>1, <1>2, <1>5
  <2>2. Below(M, N) \/ Below(N, M) \/ Matches(M, N)
    BY <1>1, <1>3, <1>5, <2>1
  <2> QED
    BY <2>2 DEF Overlap
<1> QED
  BY <1>1, <1>4, <1>5

----------------------------------------------------------------------------
\* A subtask of the plan declares to write what those it carries declared.
LEMMA AdoptedScopes ==
  ASSUME NEW raw \in Proposals \cup Revisions, Extractable(raw), NEW P, AdoptedFrom(raw, P),
         NEW k \in DOMAIN P, NEW path
  PROVE  path \in P[k].scope <=>
           \E j \in DOMAIN raw : k \in Carry(P, raw[j].id) /\ path \in raw[j].scope
<1> DEFINE specs == Cleaned(raw)
           st == Merged(raw)
<1>1. MergeScopes(specs, st)
  BY CleanedIs, MergesSound DEF Merged
<1>2. /\ DOMAIN specs = DOMAIN raw
      /\ \A j \in DOMAIN raw : specs[j].id = raw[j].id /\ specs[j].scope = raw[j].scope
  BY CleanedIs
<1>3. PICK i \in DOMAIN specs : P[k].steps = st.specs[i].steps /\ P[k].scope = st.specs[i].scope
  BY DEF AdoptedFrom
<1> HIDE DEF specs, st
<1>4. path \in st.specs[i].scope <=>
        \E j \in DOMAIN specs : specs[j].id \in st.specs[i].steps /\ path \in specs[j].scope
  BY <1>1 DEF MergeScopes
<1> QED
  BY <1>2, <1>3, <1>4 DEF Carry

\* The parallelism that stands is the one decided for the plan.
ParallelKept == phase \in {"judge", "accepted"} => parallel = Decision(plan)

LEMMA PlanningKeepsDecision ==
  ASSUME ParallelKept, PlanningNext
  PROVE  ParallelKept'
<1> USE DEF ParallelKept
<1>1. CASE NetworkFails
  BY <1>1 DEF NetworkFails
<1>2. ASSUME NEW raw \in Proposals \cup Revisions, Unusable(raw) PROVE ParallelKept'
  BY <1>2 DEF Unusable, Refused
<1>3. ASSUME NEW raw \in Proposals \cup Revisions, Adopt(raw) PROVE ParallelKept'
  <2>1. plan' = Adopted(raw) /\ parallel' = Decision(Adopted(raw))
    BY <1>3 DEF Adopt
  <2> QED
    BY <2>1
<1>4. CASE FindBroken
  BY <1>4 DEF FindBroken, Settle, Refused
<1>5. CASE SkipReview
  BY <1>5 DEF SkipReview, Settle, Issue
<1>6. ASSUME NEW planPasses \in BOOLEAN, NEW grantsPass \in BOOLEAN, Review(planPasses, grantsPass)
      PROVE  ParallelKept'
  <2>1. phase = "judge" /\ UNCHANGED <<plan, parallel>>
    BY <1>6 DEF Review, Settle
  <2> QED
    BY <2>1
<1> QED
  BY <1>1, <1>2, <1>3, <1>4, <1>5, <1>6 DEF PlanningNext

LEMMA PlaceIs ==
  ASSUME NEW place \in Places
  PROVE  place \in Seq(STRING)
<1>1. \A path \in Paths : path \in Seq(STRING) \ {<<>>} /\ Followed(path)
  <2> SUFFICES ASSUME NEW raw \in Proposals \cup Revisions, NEW i \in DOMAIN raw, NEW path \in raw[i].scope
               PROVE  path \in Seq(STRING) \ {<<>>} /\ Followed(path)
    BY DEF Paths
  <2>1. raw \in Seq(Subtask) /\ Followed(path)
    BY ProposalAssumption, PathAssumption
  <2>2. raw[i] \in Subtask
    BY <2>1, LenProperties, ElementOfSeq
  <2> QED
    BY <2>1, <2>2 DEF Subtask
<1>2. \A path \in Paths : Plain(path) \in Seq(STRING)
  BY <1>1, PlainOf DEF PlainAndPattern
<1>3. \A path \in Paths, name \in File : Append(Plain(path), name) \in Seq(STRING)
  <2> SUFFICES ASSUME NEW path \in Paths, NEW name \in File PROVE Append(Plain(path), name) \in Seq(STRING)
    OBVIOUS
  <2>1. name \in STRING
    BY AdoptionAssumption
  <2> QED
    BY <1>2, <2>1, AppendProperties
<1> QED
  BY <1>2, <1>3 DEF Places

\* What the two have in common is enough for the code to keep the plan serial.
LEMMA ParallelIsProven ==
  ASSUME PlanKept, ParallelKept
  PROVE  UnprovenNeverParallel
<1> SUFFICES ASSUME phase \in {"judge", "accepted"}, parallel.concurrency > 1,
                    NEW i \in DOMAIN plan, NEW j \in DOMAIN plan, i # j,
                    \A k \in {i, j} : plan[k].scope # {} \/ plan[k].tools \ ReadOnlyTools # {},
                    Depth(plan, plan[i].id) = Depth(plan, plan[j].id)
             PROVE  Reach(plan[i]) # {} /\ Reach(plan[j]) # {} /\ Reach(plan[i]) \cap Reach(plan[j]) = {}
  BY DEF UnprovenNeverParallel
<1> DEFINE raw == proposal
<1>1. raw \in Proposals \cup Revisions /\ Extractable(raw) /\ AdoptedFrom(raw, plan)
  BY AdoptedIs DEF PlanKept
<1>2. ShapeValid(plan) /\ WriteConflicts(plan) = {}
  <2>1. Serial.concurrency = 1 /\ ~ (1 > 1)
    BY DEF Serial
  <2>2. Decision(plan) # Serial
    BY <2>1 DEF ParallelKept
  <2> QED
    BY <2>2 DEF Decision
<1>3. /\ Len(plan) \in Nat /\ Residual(plan) = {} /\ IsFiniteSet(Ids(plan))
      /\ \A k, l \in DOMAIN plan : plan[k].id = plan[l].id => k = l
  <2>1. Ids(plan) \subseteq Ids(raw)
    BY <1>1, CarrierIs DEF Ids
  <2>2. IsFiniteSet(Ids(raw))
    BY <1>1, IdsFinite, ProposalAssumption
  <2> QED
    BY <1>1, <1>2, <2>1, <2>2, FS_Subset DEF AdoptedFrom, ShapeValid
<1>4. PICK n \in 1..Len(plan) : plan[i].id \in Layer(plan, n) /\ plan[j].id \in Layer(plan, n)
  <2>1. plan[i].id \in Ids(plan) /\ plan[j].id \in Ids(plan)
    BY DEF Ids
  <2>2. PICK m \in 1..Len(plan) : plan[i].id \in Layer(plan, m)
    BY <1>3, <2>1, LayerOf
  <2>3. PICK n \in 1..Len(plan) : plan[j].id \in Layer(plan, n)
    BY <1>3, <2>1, LayerOf
  <2>4. Depth(plan, plan[i].id) = m - 1 /\ Depth(plan, plan[j].id) = n - 1
    BY <1>3, <2>2, <2>3, DepthIsLayer
  <2>5. m = n
    <3> DEFINE deep == Depth(plan, plan[i].id)
    <3>1. deep = m - 1 /\ deep = n - 1
      BY <2>4
    <3>2. m \in Nat /\ n \in Nat
      BY <1>3
    <3> HIDE DEF deep
    <3> QED
      BY <3>1, <3>2
  <2> QED
    BY <2>2, <2>3, <2>5
<1>5. ASSUME NEW k \in DOMAIN plan, NEW path \in plan[k].scope
      PROVE  path \in Paths /\ PlainAndPattern(Plain(path), Normalized(path))
  <2>1. PICK h \in DOMAIN raw : path \in raw[h].scope
    BY <1>1, <1>5, AdoptedScopes
  <2>2. raw \in Seq(Subtask) /\ Followed(path)
    BY <1>1, <2>1, ProposalAssumption, PathAssumption
  <2>3. raw[h] \in Subtask
    BY <2>1, <2>2, LenProperties, ElementOfSeq
  <2>4. path \in Seq(STRING) \ {<<>>}
    BY <2>1, <2>3 DEF Subtask
  <2> QED
    BY <1>1, <2>1, <2>2, <2>4, PlainOf DEF Paths
<1>6. \A k \in DOMAIN plan : WriteScope(plan[k]) = {Normalized(path) : path \in plan[k].scope}
  BY <1>5 DEF WriteScope, PlainAndPattern
<1>7. ~ Conflict(plan[i], plan[j])
  <2>1. \A k \in {i, j} : WriteCapable(plan[k])
    BY <1>6 DEF WriteCapable
  <2>2. Named(plan, plan[i].id) = plan[i] /\ Named(plan, plan[j].id) = plan[j]
    BY <1>3, NamedIs
  <2>3. plan[i].id \in Ids(plan) /\ plan[j].id \in Ids(plan) /\ plan[i].id # plan[j].id
    BY <1>3 DEF Ids
  <2> DEFINE pair == <<plan[i].id, plan[j].id>>
  <2>4. pair \in Ids(plan) \X Ids(plan) /\ pair[1] = plan[i].id /\ pair[2] = plan[j].id
    BY <2>3
  <2>5. pair \notin WriteConflicts(plan)
    BY <1>2
  <2> HIDE DEF pair
  <2> QED
    BY <1>4, <2>1, <2>2, <2>3, <2>4, <2>5 DEF WriteConflicts
<1>8. ASSUME NEW k \in {i, j} PROVE Reach(plan[k]) # {}
  <2>1. WriteScope(plan[k]) # {}
    BY <1>7 DEF Conflict
  <2>2. PICK path \in plan[k].scope : TRUE
    BY <1>6, <2>1
  <2>3. path \in Paths /\ Plain(path) \in Seq(STRING)
    BY <1>5, <2>2 DEF PlainAndPattern
  <2>4. Below(Plain(path), Plain(path))
    BY <2>3, BelowIs, LenProperties
  <2>5. Plain(path) \in Places
    BY <2>3 DEF Places
  <2> QED
    BY <2>2, <2>4, <2>5 DEF Reach
<1>9. ASSUME NEW place, place \in Reach(plan[i]), place \in Reach(plan[j]) PROVE FALSE
  <2>1. place \in Seq(STRING)
    BY <1>9, PlaceIs DEF Reach
  <2>2. PICK p \in plan[i].scope : Below(place, Plain(p))
    BY <1>9 DEF Reach
  <2>3. PICK q \in plan[j].scope : Below(place, Plain(q))
    BY <1>9 DEF Reach
  <2>4. Overlap(Normalized(p), Normalized(q))
    <3>1. PlainAndPattern(Plain(p), Normalized(p)) /\ PlainAndPattern(Plain(q), Normalized(q))
      BY <1>5
    <3> QED
      BY <2>1, <2>2, <2>3, <3>1, ReachedByBoth
  <2>5. Normalized(p) \in WriteScope(plan[i]) /\ Normalized(q) \in WriteScope(plan[j])
    BY <1>6
  <2> QED
    BY <1>7, <2>4, <2>5 DEF Conflict
<1> QED
  BY <1>8, <1>9

\* Subtasks run side by side only if each that may write declares what, and no
\* file lies in the reach of two of one depth: the layers of the code are the
\* depths (_build_layers), and its comparison of texts finds every two paths that
\* reach one place (_paths_overlap), for the forms of paths that are followed.
THEOREM UnprovenStaysSerial == Spec => []UnprovenNeverParallel
<1> DEFINE Inv == PlanKept /\ ParallelKept
<1>1. Init => Inv
  BY DEF Init, PlanningInit, PlanKept, ParallelKept
<1>2. Inv /\ [Next]_vars => Inv'
  <2> SUFFICES ASSUME Inv, [Next]_vars PROVE Inv'
    OBVIOUS
  <2>1. CASE UNCHANGED planningVars
    BY <2>1 DEF PlanKept, ParallelKept, planningVars
  <2>2. CASE PlanIt
    BY <2>2, PlanningKeepsPlan, PlanningKeepsDecision DEF PlanIt
  <2> QED
    BY <2>1, <2>2 DEF Next, Route, Ended, vars
<1>3. Inv => UnprovenNeverParallel
  BY ParallelIsProven
<1> QED
  BY <1>1, <1>2, <1>3, PTL DEF Spec

----------------------------------------------------------------------------
(***************************************************************************)
(* What the adoption makes of the validity of a proposal.                   *)
(***************************************************************************)

LEMMA BeforeIsTransitive ==
  ASSUME NEW specs, NEW x, NEW y, NEW z, <<x, y>> \in Before(specs), <<y, z>> \in Before(specs)
  PROVE  <<x, z>> \in Before(specs)
<1>1. x \in Ids(specs) /\ z \in Ids(specs)
  BY Ordered
<1>2. ASSUME NEW S, HoldsAfter(specs, S, x) PROVE z \in S
  <2>1. y \in S
    BY <1>2, Ordered
  <2>2. HoldsAfter(specs, S, y)
    BY <1>2, <2>1 DEF HoldsAfter
  <2> QED
    BY <2>2, Ordered
<1> QED
  BY <1>1, <1>2, Ordered

\* Where a proposed subtask went.
Host(into, y) == IF y \in DOMAIN into THEN into[y] ELSE y

\* The plan P has the subtasks of raw that were not absorbed, none of which went
\* into one that was absorbed itself, and waits where raw waited.
MergedFlat(raw, P, into) ==
  /\ DOMAIN into \subseteq Ids(raw) /\ Ids(P) = Ids(raw) \ DOMAIN into
  /\ \A a \in DOMAIN into : into[a] \in Ids(P) /\ \A y : Leads(raw, y, a) <=> y = into[a]
  /\ \A z \in Ids(P) : \A d :
       d \in Named(P, z).deps <=> \E y : Leads(raw, y, z) /\ d = Host(into, y)

\* Two of what one merge absorbs are one.
LEMMA OneAbsorbed ==
  ASSUME NEW A, IsFiniteSet(A), Cardinality(A) <= MaxMerges, MaxMerges <= 1,
         NEW a \in A, NEW b \in A
  PROVE  a = b
<1>1. MaxMerges \in Nat /\ Cardinality(A) \in Nat
  BY AdoptionAssumption, FS_CardinalityType
<1>2. IsFiniteSet(A \ {a}) /\ Cardinality(A \ {a}) = Cardinality(A) - 1
  BY FS_RemoveElement
<1>3. Cardinality(A \ {a}) \in Nat
  BY <1>2, FS_CardinalityType
<1>4. Cardinality(A \ {a}) = 0
  BY <1>1, <1>2, <1>3
<1> QED
  BY <1>2, <1>4, FS_EmptySet

\* What is absorbed waited for nothing but the one it went into.
LEMMA AbsorbedWaits ==
  ASSUME NEW raw \in Proposals \cup Revisions, Extractable(raw), NEW a \in DOMAIN Merged(raw).into, NEW y
  PROVE  Leads(raw, y, a) <=> y = Merged(raw).into[a]
<1> DEFINE specs == Cleaned(raw)
           st == Merged(raw)
<1>1. /\ Clean(specs) /\ MergeSound(specs, st) /\ Ids(specs) = Ids(raw)
      /\ DOMAIN specs = DOMAIN raw
      /\ \A c \in DOMAIN raw : /\ specs[c].id = raw[c].id
                               /\ specs[c].deps = (raw[c].deps \cap Ids(raw)) \ {raw[c].id}
  BY CleanedIs, MergesSound DEF Merged
<1>2. /\ a \in Ids(raw)
      /\ \A h \in DOMAIN specs : specs[h].id = a => specs[h].deps = {st.into[a]}
  BY <1>1 DEF MergeSound
<1>3. \A k, l \in DOMAIN raw : raw[k].id = raw[l].id => k = l
  BY <1>1 DEF Clean
<1> HIDE DEF specs, st
<1>4. PICK c \in DOMAIN raw : raw[c].id = a
  BY <1>2 DEF Ids
<1>5. Named(raw, a) = raw[c]
  BY <1>3, <1>4, NamedIs
<1>6. (raw[c].deps \cap Ids(raw)) \ {a} = {st.into[a]}
  BY <1>1, <1>2, <1>4
<1> QED
  BY <1>2, <1>5, <1>6 DEF Leads, st

LEMMA OneMergeIsFlat ==
  ASSUME NEW raw \in Proposals \cup Revisions, Extractable(raw), NEW P, AdoptedFrom(raw, P),
         MaxMerges <= 1
  PROVE  MergedFlat(raw, P, Merged(raw).into)
<1> DEFINE specs == Cleaned(raw)
           st == Merged(raw)
           A == DOMAIN st.into
<1>1. /\ Clean(specs) /\ MergeSound(specs, st) /\ MergeScopes(specs, st) /\ Ids(specs) = Ids(raw)
      /\ DOMAIN specs = DOMAIN raw
      /\ \A c \in DOMAIN raw : /\ specs[c].id = raw[c].id
                               /\ specs[c].deps = (raw[c].deps \cap Ids(raw)) \ {raw[c].id}
  BY CleanedIs, MergesSound DEF Merged
<1>2. /\ \A k \in DOMAIN P : \E h \in DOMAIN specs :
           /\ specs[h].id \notin A
           /\ P[k].id = specs[h].id /\ P[k].deps = Redirected(specs[h].deps, st.into)
      /\ \A k \in DOMAIN specs : specs[k].id \notin A => \E l \in DOMAIN P : P[l].id = specs[k].id
      /\ \A k, l \in DOMAIN P : P[k].id = P[l].id => k = l
  BY DEF AdoptedFrom
<1>3. /\ A \subseteq Ids(raw)
      /\ \A a \in A : st.into[a] \in Ids(raw)
  BY <1>1 DEF MergeSound
<1>4. \A k, l \in DOMAIN raw : raw[k].id = raw[l].id => k = l
  BY <1>1 DEF Clean
<1>5. \A a, b \in A : a = b
  <2>1. IsFiniteSet(A)
    BY <1>3, IdsFinite, ProposalAssumption, FS_Subset
  <2>2. Cardinality(A) <= MaxMerges
    BY <1>1 DEF MergeScopes
  <2> HIDE DEF A
  <2> QED
    BY <2>1, <2>2, OneAbsorbed
<1> HIDE DEF specs, st
<1>6. \A c \in DOMAIN raw : \A y : y \in specs[c].deps <=> Leads(raw, y, raw[c].id)
  <2> SUFFICES ASSUME NEW c \in DOMAIN raw, NEW y PROVE y \in specs[c].deps <=> Leads(raw, y, raw[c].id)
    OBVIOUS
  <2>1. Named(raw, raw[c].id) = raw[c] /\ raw[c].id \in Ids(raw)
    BY <1>4, NamedIs DEF Ids
  <2> QED
    BY <1>1, <2>1 DEF Leads
<1>7. Ids(P) = Ids(raw) \ A
  <2>1. ASSUME NEW k \in DOMAIN P PROVE P[k].id \in Ids(raw) \ A
    BY <1>1, <1>2 DEF Ids
  <2>2. ASSUME NEW c \in DOMAIN raw, raw[c].id \notin A PROVE raw[c].id \in Ids(P)
    BY <1>1, <1>2, <2>2 DEF Ids
  <2> QED
    BY <2>1, <2>2 DEF Ids
<1>8. ASSUME NEW a \in A
      PROVE  st.into[a] \in Ids(P) /\ \A y : Leads(raw, y, a) <=> y = st.into[a]
  <2>1. \A y : Leads(raw, y, a) <=> y = st.into[a]
    BY <1>8, AbsorbedWaits DEF st
  <2>2. st.into[a] # a /\ st.into[a] \in Ids(raw)
    BY <2>1 DEF Leads
  <2> QED
    BY <1>5, <1>7, <2>1, <2>2
<1>9. ASSUME NEW z \in Ids(P), NEW d
      PROVE  d \in Named(P, z).deps <=> \E y : Leads(raw, y, z) /\ d = Host(st.into, y)
  <2>1. PICK k \in DOMAIN P : P[k].id = z
    BY DEF Ids
  <2>2. Named(P, z) = P[k]
    BY <1>2, <2>1, NamedIs
  <2>3. PICK h \in DOMAIN raw : raw[h].id = z /\ P[k].deps = Redirected(specs[h].deps, st.into)
    BY <1>1, <1>2, <2>1
  <2>4. \A y : y \in specs[h].deps <=> Leads(raw, y, z)
    BY <1>6, <2>3
  <2> QED
    BY <2>2, <2>3, <2>4 DEF Redirected, Host
<1> QED
  BY <1>3, <1>7, <1>8, <1>9 DEF MergedFlat, st

\* What the plan orders, the proposal ordered.
LEMMA OrderComesFromProposal ==
  ASSUME NEW raw, NEW P, NEW into, MergedFlat(raw, P, into), NEW x, NEW y, <<x, y>> \in Before(P)
  PROVE  <<x, y>> \in Before(raw)
<1>1. ASSUME NEW u, NEW v, v \in Ids(P), u \in Named(P, v).deps PROVE <<u, v>> \in Before(raw)
  <2>1. PICK d : Leads(raw, d, v) /\ u = Host(into, d)
    BY <1>1 DEF MergedFlat
  <2>2. CASE d \in DOMAIN into
    <3>1. Leads(raw, u, d)
      BY <2>1, <2>2 DEF MergedFlat, Host
    <3> QED
      BY <2>1, <3>1, LeadsIsBefore, LeadsThenBefore
  <2>3. CASE d \notin DOMAIN into
    BY <2>1, <2>3, LeadsIsBefore DEF Host
  <2> QED
    BY <2>2, <2>3
<1> DEFINE S == {v \in Ids(P) : <<x, v>> \in Before(raw)}
<1>2. HoldsAfter(P, S, x)
  <2> SUFFICES ASSUME NEW u \in S \cup {x}, NEW v, Leads(P, u, v) PROVE v \in S
    BY DEF HoldsAfter
  <2>1. <<u, v>> \in Before(raw) /\ v \in Ids(P)
    BY <1>1 DEF Leads
  <2>2. u = x \/ <<x, u>> \in Before(raw)
    OBVIOUS
  <2>3. <<x, v>> \in Before(raw)
    BY <2>1, <2>2, BeforeIsTransitive
  <2> QED
    BY <2>1, <2>3
<1>3. y \in S
  BY <1>2, Ordered
<1> QED
  BY <1>3

\* If the plan passes, nothing in the proposal waits for itself: a circle would
\* pass through a subtask that is left, for what is absorbed goes into no circle.
LEMMA NoCycleHidden ==
  ASSUME NEW raw \in Proposals \cup Revisions, Extractable(raw), NEW P, AdoptedFrom(raw, P),
         Structured(P), NEW w
  PROVE  <<w, w>> \notin Before(raw)
<1> DEFINE into == Merged(raw).into
           A == DOMAIN into
<1>1. /\ \A z : <<z, z>> \notin Before(P)
      /\ \A k, l \in DOMAIN P : P[k].id = P[l].id => k = l
  BY ResolvedIsAcyclic DEF AdoptedFrom, Structured
<1>2. \A k \in DOMAIN P : k \in Carry(P, P[k].id)
  BY CarrierIs
<1>3. ASSUME NEW x \in Ids(raw) \ A, <<x, x>> \in Before(raw) PROVE FALSE
  <2>1. PICK i \in DOMAIN P : P[i].id = x
    <3>1. PICK c \in DOMAIN Cleaned(raw) : Cleaned(raw)[c].id = x
      BY CleanedIs DEF Ids
    <3> QED
      BY <1>3, <3>1 DEF AdoptedFrom
  <2>2. Carry(P, x) = {i}
    <3>1. PICK k \in DOMAIN P : Carry(P, x) = {k}
      BY <1>3, CarriedOnce
    <3> QED
      BY <1>2, <2>1, <3>1
  <2> DEFINE After(k) == <<x, P[k].id>> \in Before(P)
             S == {v \in Ids(raw) : \A k \in Carry(P, v) : After(k) \/ (k = i /\ v \in A)}
  <2>3. ASSUME NEW u \in S \cup {x}, NEW z, Leads(raw, u, z) PROVE z \in S
    <3>1. u \in Ids(raw) /\ z \in Ids(raw)
      BY <2>3 DEF Leads
    <3>2. ASSUME NEW k \in Carry(P, z) PROVE After(k) \/ (k = i /\ z \in A)
      <4>1. PICK h \in DOMAIN P : Carry(P, u) = {h}
        BY <3>1, CarriedOnce
      <4>2. h \in Carry(P, u)
        BY <4>1
      <4>3. After(h) \/ h = i
        BY <2>2, <2>3, <4>2
      <4>4. (h = k /\ z \in A) \/ Leads(P, P[h].id, P[k].id)
        BY <2>3, <4>2, LeadKept
      <4>5. ASSUME Leads(P, P[h].id, P[k].id) PROVE After(k)
        BY <2>1, <4>3, <4>5, LeadsIsBefore, BeforeThenLeads
      <4> QED
        BY <4>3, <4>4, <4>5
    <3> HIDE DEF After
    <3> QED
      BY <3>1, <3>2
  <2>4. HoldsAfter(raw, S, x)
    <3> HIDE DEF After
    <3>1. S \in SUBSET Ids(raw)
      OBVIOUS
    <3> HIDE DEF S
    <3> QED
      BY <2>3, <3>1 DEF HoldsAfter
  <2>5. x \in S
    <3> HIDE DEF S
    <3> QED
      BY <1>3, <2>4, Ordered
  <2>6. After(i)
    BY <1>3, <2>2, <2>5
  <2> QED
    BY <1>1, <2>1, <2>6
<1> DEFINE D == {a \in A : <<a, a>> \in Before(raw)}
<1>4. ASSUME D # {} PROVE FALSE
  <2>1. PICK a \in D : into[a] \notin D
    <3>1. MergeScopes(Cleaned(raw), Merged(raw))
      BY CleanedIs, MergesSound DEF Merged
    <3> QED
      BY <1>4, <3>1 DEF MergeScopes
  <2>2. ~ Leads(raw, a, a) /\ <<a, a>> \in Before(raw)
    BY DEF Leads
  <2>3. PICK z : <<a, z>> \in Before(raw) /\ Leads(raw, z, a)
    BY <2>2, BeforeSplits
  <2>4. z = into[a]
    BY <2>3, AbsorbedWaits
  <2>5. <<z, z>> \in Before(raw) /\ z \in Ids(raw)
    BY <2>3, LeadsThenBefore DEF Leads
  <2> QED
    BY <1>3, <2>1, <2>4, <2>5
<1>5. ASSUME <<w, w>> \in Before(raw) PROVE FALSE
  <2>1. w \in Ids(raw)
    BY <1>5, Ordered
  <2> QED
    BY <1>3, <1>4, <1>5, <2>1
<1> QED
  BY <1>5

\* If nothing in the proposal waits for itself, the dependencies of the plan are
\* in order.
LEMMA DependenciesKept ==
  ASSUME NEW raw, NEW P, NEW into, MergedFlat(raw, P, into),
         \A x : <<x, x>> \notin Before(raw), NEW z \in Ids(P)
  PROVE  z \notin Named(P, z).deps /\ Named(P, z).deps \subseteq Ids(P)
<1>1. ASSUME NEW d \in Named(P, z).deps PROVE d # z /\ d \in Ids(P)
  <2>1. PICK y : Leads(raw, y, z) /\ d = Host(into, y)
    BY DEF MergedFlat
  <2>2. CASE y \in DOMAIN into
    <3>1. d \in Ids(P) /\ Leads(raw, d, y)
      BY <2>1, <2>2 DEF MergedFlat, Host
    <3>2. <<d, z>> \in Before(raw)
      BY <2>1, <3>1, LeadsIsBefore, BeforeThenLeads
    <3> QED
      BY <3>1, <3>2
  <2>3. CASE y \notin DOMAIN into
    BY <2>1, <2>3 DEF MergedFlat, Host, Leads
  <2> QED
    BY <2>2, <2>3
<1> QED
  BY <1>1

\* The plan declares an unsafe path if the proposal does.
LEMMA PathsKept ==
  ASSUME NEW raw \in Proposals \cup Revisions, Extractable(raw), NEW P, AdoptedFrom(raw, P)
  PROVE  (\A k \in DOMAIN P : \A path \in P[k].scope : ~ Unsafe(path))
           <=> \A i \in DOMAIN raw : \A path \in raw[i].scope : ~ Unsafe(path)
<1>1. ASSUME NEW k \in DOMAIN P, NEW path \in P[k].scope
      PROVE  \E i \in DOMAIN raw : path \in raw[i].scope
  BY <1>1, AdoptedScopes
<1>2. ASSUME NEW i \in DOMAIN raw, NEW path \in raw[i].scope
      PROVE  \E k \in DOMAIN P : path \in P[k].scope
  <2>1. raw[i].id \in Ids(raw)
    BY DEF Ids
  <2>2. PICK k \in DOMAIN P : Carry(P, raw[i].id) = {k}
    BY <2>1, CarriedOnce
  <2> QED
    BY <1>2, <2>2, AdoptedScopes
<1> QED
  BY <1>1, <1>2

\* As many ids as subtasks, if no two share one.
LEMMA IdsCounted ==
  ASSUME NEW specs, Len(specs) \in Nat, DOMAIN specs = 1..Len(specs),
         \A i, j \in DOMAIN specs : specs[i].id = specs[j].id => i = j
  PROVE  IsFiniteSet(Ids(specs)) /\ Cardinality(Ids(specs)) = Len(specs)
<1> DEFINE n == Len(specs)
           f == [i \in 1..n |-> specs[i].id]
<1>1. f \in Surjection(1..n, Ids(specs)) /\ f \in Injection(1..n, Ids(specs))
  BY DEF Surjection, Injection, IsInjective, Ids
<1>2. IsFiniteSet(1..n) /\ Cardinality(1..n) = n
  <2>1. 1 \in Int /\ n \in Int /\ n - 1 + 1 = n /\ (1 > n => n = 0)
    OBVIOUS
  <2> HIDE DEF n
  <2>2. IsFiniteSet(1..n) /\ Cardinality(1..n) = IF 1 > n THEN 0 ELSE n - 1 + 1
    BY <2>1, FS_Interval
  <2> QED
    BY <2>1, <2>2
<1> HIDE DEF f
<1> QED
  BY <1>1, <1>2, FS_Surjection

LEMMA AcyclicIs ==
  ASSUME NEW specs
  PROVE  Acyclic(specs) <=> \A x : <<x, x>> \notin Before(specs)
<1>1. \A pair \in Before(specs) : pair = <<pair[1], pair[2]>>
  BY DEF Before
<1>2. ASSUME NEW x, <<x, x>> \in Before(specs) PROVE ~ Acyclic(specs)
  <2>1. <<x, x>>[1] = <<x, x>>[2]
    OBVIOUS
  <2> QED
    BY <1>2, <2>1 DEF Acyclic
<1> QED
  BY <1>1, <1>2 DEF Acyclic

\* A proposal without cycles and unsafe paths.
ValidProposal(raw) ==
  Acyclic(raw) /\ \A i \in DOMAIN raw : \A path \in raw[i].scope : ~ Unsafe(path)

\* A plan passes only if the proposal was valid, however many steps are merged.
LEMMA PassedWasValid ==
  ASSUME NEW raw \in Proposals \cup Revisions, Extractable(raw), NEW P, AdoptedFrom(raw, P),
         Structured(P)
  PROVE  ValidProposal(raw)
<1>1. Acyclic(raw)
  BY NoCycleHidden, AcyclicIs
<1>2. \A k \in DOMAIN P : \A path \in P[k].scope : ~ Unsafe(path)
  BY DEF Structured
<1> QED
  BY <1>1, <1>2, PathsKept DEF ValidProposal

\* A valid proposal gives a plan that passes, if at most one step is merged.
LEMMA ValidPasses ==
  ASSUME NEW raw \in Proposals \cup Revisions, Extractable(raw), NEW P, AdoptedFrom(raw, P),
         MaxMerges <= 1, ValidProposal(raw)
  PROVE  Structured(P)
<1> DEFINE into == Merged(raw).into
<1>1. MergedFlat(raw, P, into)
  BY OneMergeIsFlat
<1>2. /\ Len(P) \in Nat /\ DOMAIN P = 1..Len(P)
      /\ \A k, l \in DOMAIN P : P[k].id = P[l].id => k = l
  BY DEF AdoptedFrom
<1>3. IsFiniteSet(Ids(P)) /\ Cardinality(Ids(P)) = Len(P)
  BY <1>2, IdsCounted
<1> HIDE DEF into
<1>4. \A k \in DOMAIN P : P[k].id \in Ids(P) /\ Named(P, P[k].id) = P[k]
  BY <1>2, NamedIs DEF Ids
<1>5. (\A k \in DOMAIN P : P[k].id \notin P[k].deps /\ P[k].deps \subseteq Ids(P))
        <=> \A z \in Ids(P) : z \notin Named(P, z).deps /\ Named(P, z).deps \subseteq Ids(P)
  BY <1>4 DEF Ids
<1>6. \A x : <<x, x>> \notin Before(raw)
  BY AcyclicIs DEF ValidProposal
<1>7. \A k \in DOMAIN P : P[k].id \notin P[k].deps /\ P[k].deps \subseteq Ids(P)
  BY <1>1, <1>5, <1>6, DependenciesKept
<1>8. Residual(P) = {}
  <2>1. \A x : <<x, x>> \notin Before(P)
    BY <1>1, <1>6, OrderComesFromProposal
  <2> QED
    BY <1>2, <1>3, <2>1, AcyclicIsResolved
<1>9. \A k \in DOMAIN P : P[k].id # ""
  <2>1. \A x \in Ids(raw) : x # ""
    BY DEF Extractable, Ids
  <2> QED
    BY <1>1, <1>4, <2>1 DEF MergedFlat
<1>10. P # <<>>
  <2>1. PICK c \in DOMAIN raw : TRUE
    <3>1. raw \in Seq(Subtask) /\ raw # <<>>
      BY ProposalAssumption DEF Extractable
    <3>2. Len(raw) \in Nat \ {0} /\ DOMAIN raw = 1..Len(raw)
      BY <3>1, LenProperties, EmptySeq
    <3>3. 1 \in DOMAIN raw
      BY <3>2
    <3> QED
      BY <3>3
  <2>2. raw[c].id \in Ids(raw)
    BY DEF Ids
  <2>3. PICK k \in DOMAIN P : TRUE
    BY <2>2, CarriedOnce
  <2> QED
    BY <2>3
<1>11. \A k \in DOMAIN P : \A path \in P[k].scope : ~ Unsafe(path)
  BY PathsKept DEF ValidProposal
<1> QED
  BY <1>3, <1>7, <1>8, <1>9, <1>10, <1>11 DEF Structured

\* A field of the plan is empty only if it was proposed so.
LEMMA EmptyWasProposed ==
  ASSUME NEW raw \in Proposals \cup Revisions, Extractable(raw), NEW P, AdoptedFrom(raw, P),
         NEW k \in DOMAIN P
  PROVE  \E i \in DOMAIN raw : raw[i].id = P[k].id /\ P[k].empty \subseteq raw[i].empty
<1> DEFINE specs == Cleaned(raw)
           st == Merged(raw)
<1>1. MergeScopes(specs, st)
  BY CleanedIs, MergesSound DEF Merged
<1>2. /\ DOMAIN specs = DOMAIN raw
      /\ \A i \in DOMAIN raw : specs[i].id = raw[i].id /\ specs[i].empty = raw[i].empty
  BY CleanedIs
<1>3. PICK i \in DOMAIN specs : P[k].id = specs[i].id /\ P[k].empty = st.specs[i].empty
  BY DEF AdoptedFrom
<1> HIDE DEF specs, st
<1> QED
  BY <1>1, <1>2, <1>3 DEF MergeScopes

\* A subtask that is still there and was proposed with an empty field.
LeftEmpty(raw, P) == \E i \in DOMAIN raw : raw[i].id \in Ids(P) /\ raw[i].empty # {}

\* What the reviewers are told of a valid plan and of its grants.
LEMMA JudgesAgree ==
  ASSUME NEW raw \in Proposals \cup Revisions, Extractable(raw), NEW P, AdoptedFrom(raw, P)
  PROVE  /\ Structured(P) /\ ~ PlanComplete(P) => LeftEmpty(raw, P)
         /\ AuthorizedByRule(P) => GrantsMinimal(P, Proposed(P))
<1>1. ASSUME Structured(P), ~ PlanComplete(P) PROVE LeftEmpty(raw, P)
  <2>1. \A k, l \in DOMAIN P : P[k].id = P[l].id => k = l
    BY DEF AdoptedFrom
  <2>2. PICK k \in DOMAIN P : P[k].empty # {}
    BY <1>1, <2>1 DEF Structured, PlanComplete
  <2>3. PICK i \in DOMAIN raw : raw[i].id = P[k].id /\ P[k].empty \subseteq raw[i].empty
    BY EmptyWasProposed
  <2> QED
    BY <2>2, <2>3 DEF LeftEmpty, Ids
<1>2. UNION {g.tools : g \in Proposed(P)} \subseteq UNION {P[i].tools : i \in DOMAIN P}
  BY DEF Proposed, Eligible
<1> QED
  BY <1>1, <1>2 DEF AuthorizedByRule, GrantsMinimal

\* An accepted plan was valid as the supervisor proposed it, and what the findings
\* still miss in it is a field that was empty there, however many steps were merged:
\* the merging hides no cycle and no path from the validation, and leaves no text
\* empty (_coalesce_report_steps, _validate_plan_structure).
AcceptedWasValid ==
  phase = "accepted" =>
    /\ ValidProposal(proposal)
    /\ PlanComplete(plan) \/ LeftEmpty(proposal, plan)

LEMMA PlanStaysKept ==
  PlanKept /\ [Next]_vars => PlanKept'
<1> SUFFICES ASSUME PlanKept, [Next]_vars PROVE PlanKept'
  OBVIOUS
<1>1. CASE UNCHANGED planningVars
  BY <1>1 DEF PlanKept, planningVars
<1>2. CASE PlanIt
  BY <1>2, PlanningKeepsPlan DEF PlanIt
<1> QED
  BY <1>1, <1>2 DEF Next, Route, Ended, vars

LEMMA KeptIsAdopted ==
  ASSUME PlanKept, phase \in {"judge", "accepted"}
  PROVE  /\ proposal \in Proposals \cup Revisions /\ Extractable(proposal)
         /\ AdoptedFrom(proposal, plan)
         /\ \A k, l \in DOMAIN plan : plan[k].id = plan[l].id => k = l
<1>1. proposal \in Proposals \cup Revisions /\ Extractable(proposal) /\ AdoptedFrom(proposal, plan)
  BY AdoptedIs DEF PlanKept
<1> QED
  BY <1>1 DEF AdoptedFrom

\* No invalid proposal is accepted: for any number of merges.
THEOREM OnlyValidIsAccepted == Spec => []AcceptedWasValid
<1>1. Init => PlanKept
  BY DEF Init, PlanningInit, PlanKept
<1>2. PlanKept /\ [Next]_vars => PlanKept'
  BY PlanStaysKept
<1>3. PlanKept => AcceptedWasValid
  <2> SUFFICES ASSUME PlanKept, phase = "accepted"
               PROVE  ValidProposal(proposal) /\ (PlanComplete(plan) \/ LeftEmpty(proposal, plan))
    BY DEF AcceptedWasValid
  <2>1. Structured(plan)
    BY DEF PlanKept
  <2> QED
    BY <2>1, KeptIsAdopted, PassedWasValid, JudgesAgree
<1> QED
  BY <1>1, <1>2, <1>3, PTL DEF Spec

\* With at most one pair of steps merged, as the settings have it, the validation
\* refuses a plan for what the supervisor proposed and never for what the adoption
\* made of it (_adopt_plan, _coalesce_report_steps, _validate_plan_structure); what
\* the findings for the reviewers miss in a valid plan is a field the supervisor left
\* empty; and they find the grants minimal that the rule lets pass.
THEOREM AdoptionKeepsValidity ==
  ASSUME MaxMerges <= 1
  PROVE  Spec => []AdoptionKeepsValid
<1>1. Init => PlanKept
  BY DEF Init, PlanningInit, PlanKept
<1>2. PlanKept /\ [Next]_vars => PlanKept'
  BY PlanStaysKept
<1>3. PlanKept => AdoptionKeepsValid
  <2> SUFFICES ASSUME PlanKept, phase = "judge" PROVE AdoptionKeepsValid
    BY DEF AdoptionKeepsValid
  <2>1. Structured(plan) <=> ValidProposal(proposal)
    BY KeptIsAdopted, PassedWasValid, ValidPasses
  <2>2. /\ Structured(plan) /\ ~ PlanComplete(plan) => LeftEmpty(proposal, plan)
        /\ AuthorizedByRule(plan) => GrantsMinimal(plan, Proposed(plan))
    BY KeptIsAdopted, JudgesAgree
  <2> QED
    BY <2>1, <2>2 DEF AdoptionKeepsValid, ValidProposal, LeftEmpty
<1> QED
  BY <1>1, <1>2, <1>3, PTL DEF Spec
=============================================================================
