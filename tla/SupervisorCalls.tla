---------------------------- MODULE SupervisorCalls ----------------------------
(***************************************************************************)
(* Calls of the supervisor (_run_supervisor) and of the reviewer            *)
(* (_call_review_agent) that are under way at the same time, as executions  *)
(* of subtasks and background reviews are: the gate they are admitted by,   *)
(* the model gateway with the health of the providers all calls share, the  *)
(* token budget of the task, and what is made of an answer.                 *)
(***************************************************************************)
EXTENDS Naturals, Sequences

CONSTANTS Supervisor, Reviewer,   \* calls of either kind
          Nested,                 \* labels of agents that run inside a supervisor's tools
          Provider, Chain,        \* model providers, in the order of configuration
          Threshold,              \* failure_threshold
          MaxTotal, MaxAgent,     \* token_budget_max_total_tokens, ..._agent_tokens; 0 = none
          ParseRetries,           \* review_parse_retry_max_attempts
          MaxTurns,               \* max_model_turns
          MaxStops                \* bound: stops and resets of the gate

Call == Supervisor \cup Reviewer
Label == {"supervisor", "review_agent"} \cup Nested
LabelOf(c) == IF c \in Supervisor THEN "supervisor" ELSE "review_agent"

ASSUME CallsAssumption ==
  /\ Supervisor \cap Reviewer = {}
  /\ Chain \in Seq(Provider) /\ Len(Chain) > 0
  /\ Threshold \in Nat \ {0} /\ ParseRetries \in Nat /\ MaxTurns \in Nat \ {0}
  /\ MaxTotal \in Nat /\ MaxAgent \in Nat /\ MaxStops \in Nat

VARIABLES
  gate,    \* PipelineGate: [stopping, generation, deadline]; deadline "none", "ahead" or "passed"
  health,  \* _HEALTH: per provider [failures, cooling]
  budget,  \* TokenBudgetTracker: tokens per label; the total is kept beside it
  total,
  call,    \* each call: pc, and what it has in hand
  missed   \* history: calls that were under way when the gate was stopped or reset

callsVars == <<gate, health, budget, total, call, missed>>

\* pc: "idle"; "turn" (about to ask the model); "asking" (waits for the first
\* of left, the providers it may still try); "tool" (a tool runs between two
\* turns); "done" with out.
\* verdict is what a contradictory review said; said, what the reviewer said last.
Nothing == [object |-> FALSE, passed |-> "unclear", fixes |-> "none"]
Idle == [pc |-> "idle", generation |-> 0, clipped |-> FALSE, turns |-> 0, left |-> {},
         stage |-> "first", retries |-> 0, verdict |-> "none", said |-> Nothing, out |-> "none"]

UnderWay(c) == call[c].pc \in {"turn", "asking", "tool"}

---------------------------------------------------------------------------
(* Token budget *)

Exceeded(b, t) ==
  \/ MaxTotal > 0 /\ t > MaxTotal
  \/ MaxAgent > 0 /\ \E l \in Label : b[l] > MaxAgent

\* The check at a call's return looks at every agent, for what ran inside its
\* tools was only observed.
Enforced_OwnLabel(c, b, t) ==
  \/ MaxTotal > 0 /\ t > MaxTotal
  \/ MaxAgent > 0 /\ b[LabelOf(c)] > MaxAgent
Enforced(c, b, t) == Exceeded(b, t)

Observe(l, n) == /\ budget' = [budget EXCEPT ![l] = @ + n]
                 /\ total' = total + n

---------------------------------------------------------------------------
(* Gate *)

Stop ==
  /\ ~ gate.stopping /\ gate.generation < MaxStops
  /\ gate' = [gate EXCEPT !.stopping = TRUE, !.generation = @ + 1]
  /\ missed' = missed \cup {c \in Call : UnderWay(c)}
  /\ UNCHANGED <<health, budget, total, call>>

\* The engine starts another task; what is still under way belongs to the last.
Reset ==
  /\ gate.stopping /\ gate.generation < MaxStops
  /\ \E d \in {"none", "ahead"} :
       gate' = [stopping |-> FALSE, generation |-> gate.generation + 1, deadline |-> d]
  /\ missed' = missed \cup {c \in Call : UnderWay(c)}
  /\ UNCHANGED <<health, budget, total, call>>

DeadlinePasses ==
  /\ gate.deadline = "ahead" /\ gate' = [gate EXCEPT !.deadline = "passed"]
  /\ UNCHANGED <<health, budget, total, call, missed>>

\* What a supervisor's result is compared with when it arrives.
Late_Stopping(c) == gate.stopping
Late(c) == gate.stopping \/ gate.generation # call[c].generation

---------------------------------------------------------------------------
(* Starting a call *)

Done(c, o) == call' = [call EXCEPT ![c] = [Idle EXCEPT !.pc = "done", !.out = o]]

Starts(c, clipped) ==
  call' = [call EXCEPT ![c].pc = "turn", ![c].generation = gate.generation, ![c].clipped = clipped]

SupervisorStarts(c) ==
  /\ call[c].pc = "idle" /\ c \in Supervisor
  /\ \/ gate.stopping /\ Done(c, "stopped")
     \/ ~ gate.stopping /\ gate.deadline = "passed" /\ Done(c, "deadline")
     \/ /\ ~ gate.stopping /\ gate.deadline # "passed"
        /\ \E clipped \in BOOLEAN : (clipped => gate.deadline = "ahead") /\ Starts(c, clipped)
  /\ UNCHANGED <<gate, health, budget, total, missed>>

ReviewStarts(c) ==
  /\ call[c].pc = "idle" /\ c \in Reviewer
  /\ Starts(c, FALSE)
  /\ UNCHANGED <<gate, health, budget, total, missed>>

---------------------------------------------------------------------------
(* Model gateway *)

Cooling(p) == health[p].cooling

\* Those not in cooldown, or all of them when there is none, as places in Chain.
OrderedProviders ==
  LET available == {i \in DOMAIN Chain : ~ Cooling(Chain[i])}
  IN IF available # {} THEN available ELSE DOMAIN Chain

First(left) == CHOOSE i \in left : \A j \in left : i <= j
Asked(c) == Chain[First(call[c].left)]

\* Failures in a row are told apart up to the threshold.
RecordFailure(p) ==
  health' = [health EXCEPT ![p] =
    [failures |-> IF @.failures < Threshold THEN @.failures + 1 ELSE Threshold,
     cooling |-> @.cooling \/ @.failures + 1 >= Threshold]]
RecordSuccess(p) == health' = [health EXCEPT ![p] = [failures |-> 0, cooling |-> FALSE]]

CooldownEnds(p) ==
  /\ Cooling(p) /\ health' = [health EXCEPT ![p].cooling = FALSE]
  /\ UNCHANGED <<gate, budget, total, call, missed>>

Ask(c) ==
  /\ call[c].pc = "turn"
  /\ call' = [call EXCEPT ![c].pc = "asking", ![c].left = OrderedProviders]
  /\ UNCHANGED <<gate, health, budget, total, missed>>

\* A provider refuses or cannot be reached: the next one, or the error is raised.
ProviderDown(c) ==
  /\ call[c].pc = "asking"
  /\ RecordFailure(Asked(c))
  /\ LET rest == call[c].left \ {First(call[c].left)}
     IN IF rest = {} THEN Done(c, "error") ELSE call' = [call EXCEPT ![c].left = rest]
  /\ UNCHANGED <<gate, budget, total, missed>>

\* An error that no other provider would answer differently.
RequestRefused(c) ==
  /\ call[c].pc = "asking" /\ Done(c, "error")
  /\ UNCHANGED <<gate, health, budget, total, missed>>

\* The answer of a turn asks for a tool; the last turn allowed raises MaxTurnsExceeded.
AnswersWithTool_NotCounted(c) ==
  /\ call[c].pc = "asking" /\ RecordSuccess(Asked(c))
  /\ call' = [call EXCEPT ![c].pc = "tool", ![c].left = {}]
  /\ UNCHANGED <<gate, budget, total, missed>>
AnswersWithTool(c) ==
  /\ call[c].pc = "asking" /\ RecordSuccess(Asked(c))
  /\ IF call[c].turns + 1 >= MaxTurns
     THEN Done(c, "error")
     ELSE call' = [call EXCEPT ![c].pc = "tool", ![c].turns = @ + 1, ![c].left = {}]
  /\ UNCHANGED <<gate, budget, total, missed>>

\* The tool may have been an agent of its own, whose tokens are only observed.
ToolEnds(c) ==
  /\ call[c].pc = "tool"
  /\ \/ UNCHANGED <<budget, total>>
     \/ \E l \in Nested : c \in Supervisor /\ Observe(l, 1)
  /\ call' = [call EXCEPT ![c].pc = "turn"]
  /\ UNCHANGED <<gate, health, missed>>

---------------------------------------------------------------------------
(* What is made of an answer *)

\* The last turn's answer, with all the tokens of the run.
Answered(c) == call[c].pc = "asking" /\ RecordSuccess(Asked(c))
Tokens(c) == call[c].turns + 1

SupervisorReturns(c) ==
  /\ c \in Supervisor /\ Answered(c)
  /\ IF Late(c)
     THEN Done(c, "stopped") /\ UNCHANGED <<budget, total>>
     ELSE /\ Observe("supervisor", Tokens(c))
          /\ IF Enforced(c, budget', total')
             THEN Done(c, "overspent")
             ELSE \E o \in {"value", "error"} : Done(c, o)   \* error: not of the phase's contract
  /\ UNCHANGED <<gate, missed>>

\* The reviewer's output: whether an object can be read from it, what its
\* "passed" says, and its required fixes, which may be of no type the contract
\* knows ("garbled").
Output == [object : BOOLEAN, passed : {"yes", "no", "unclear"},
           fixes : {"none", "listed", "garbled"}]

\* _coerce_structured_output: what does not satisfy the contract is rescued, if
\* only "passed" can be told; fixes that are neither a list nor a text are lost.
Rescued(o) == IF o.fixes = "garbled" THEN [o EXCEPT !.fixes = "none"] ELSE o

Contradiction(d) == d.passed = "yes" <=> d.fixes = "listed"
Verdict(d) == IF d.passed = "yes" THEN "pass" ELSE "fail"

Concludes(c, o, outcome) ==
  call' = [call EXCEPT ![c] =
             [Idle EXCEPT !.pc = "done", !.verdict = call[c].verdict, !.said = o, !.out = outcome]]

\* Another run of the reviewer within the same call.
Again(c, stage, retries, verdict) ==
  call' = [call EXCEPT ![c].pc = "turn", ![c].turns = 0, ![c].left = {}, ![c].stage = stage,
                       ![c].retries = retries, ![c].verdict = verdict]

\* What becomes of an output that was read: a contradiction is repaired once.
Judged(c, o) ==
  LET d == Rescued(o)
  IN CASE o.passed = "unclear" -> Concludes(c, o, "fail")
       [] o.passed # "unclear" /\ Contradiction(d) -> Again(c, "repair", call[c].retries, Verdict(d))
       [] OTHER -> Concludes(c, o, Verdict(d))

FirstAnswer(c, o) ==
  CASE o.object -> Judged(c, o)
    [] ~ o.object /\ call[c].retries < ParseRetries -> Again(c, "first", call[c].retries + 1, "none")
    [] OTHER -> Concludes(c, o, "fail")

\* The repaired answer; what still does not agree fails closed.
RepairAnswer_Lenient(c, o) == Concludes(c, o, IF o.object THEN Verdict(o) ELSE "fail")
RepairAnswer(c, o) ==
  Concludes(c, o, IF o.object /\ o.passed # "unclear" /\ ~ Contradiction(Rescued(o))
                  THEN Verdict(o) ELSE "fail")

ReviewReturns(c) ==
  /\ c \in Reviewer /\ Answered(c)
  /\ Observe("review_agent", Tokens(c))
  /\ IF Enforced(c, budget', total')
     THEN Done(c, "overspent")
     ELSE \E o \in Output :
            IF call[c].stage = "repair" THEN RepairAnswer(c, o) ELSE FirstAnswer(c, o)
  /\ UNCHANGED <<gate, missed>>

\* A timeout is an error of the supervisor's call, of the pipeline when its
\* deadline had cut the wait, and a verdict of the reviewer's.
TimesOut(c) ==
  /\ UnderWay(c)
  /\ Done(c, CASE c \in Reviewer -> "fail" [] call[c].clipped -> "deadline" [] OTHER -> "timeout")
  /\ UNCHANGED <<gate, health, budget, total, missed>>

Cancelled(c) ==
  /\ UnderWay(c) /\ Done(c, "cancelled")
  /\ UNCHANGED <<gate, health, budget, total, missed>>

---------------------------------------------------------------------------
CallsInit ==
  /\ \E d \in {"none", "ahead"} :
       gate = [stopping |-> FALSE, generation |-> 0, deadline |-> d]
  /\ health = [p \in Provider |-> [failures |-> 0, cooling |-> FALSE]]
  /\ budget = [l \in Label |-> 0] /\ total = 0
  /\ call = [c \in Call |-> Idle]
  /\ missed = {}

CallProgress(c) ==
  \/ Ask(c) \/ ProviderDown(c) \/ RequestRefused(c) \/ AnswersWithTool(c) \/ ToolEnds(c)
  \/ SupervisorReturns(c) \/ ReviewReturns(c) \/ TimesOut(c) \/ Cancelled(c)

CallsNext ==
  \/ Stop \/ Reset \/ DeadlinePasses
  \/ \E p \in Provider : CooldownEnds(p)
  \/ \E c \in Call : SupervisorStarts(c) \/ ReviewStarts(c) \/ CallProgress(c)

CallsSpec == CallsInit /\ [][CallsNext]_callsVars

---------------------------------------------------------------------------
(* Properties *)

Out == {"none", "stopped", "deadline", "error", "value", "overspent", "pass", "fail", "timeout",
        "cancelled"}

CallState == [pc : {"idle", "turn", "asking", "tool", "done"}, generation : Nat,
              clipped : BOOLEAN, turns : Nat, left : SUBSET DOMAIN Chain,
              stage : {"first", "repair"}, retries : Nat,
              verdict : {"none", "pass", "fail"}, said : Output \cup {Nothing}, out : Out]

TypeOK ==
  /\ gate \in [stopping : BOOLEAN, generation : Nat, deadline : {"none", "ahead", "passed"}]
  /\ health \in [Provider -> [failures : 0..Threshold, cooling : BOOLEAN]]
  /\ budget \in [Label -> Nat] /\ total \in Nat
  /\ call \in [Call -> CallState]
  /\ missed \subseteq Call

Returned(c) == call[c].pc = "done" /\ call[c].out \in {"value", "pass"}

\* No result is handed on and no plan or result is passed at a step that leaves
\* the budget exceeded, whoever spent the tokens (enforce at the control layer,
\* while nested agents only observe).
NothingReturnedOverspent ==
  [][\A c \in Call : Returned(c)' /\ ~ Returned(c) => ~ Exceeded(budget', total')]_callsVars

\* A supervisor's result counts only if the gate was neither stopped nor reset
\* while the call was under way, not even stopped and opened again.
LateResultsIsolated == \A c \in missed \cap Supervisor : call[c].out # "value"

\* A review passes only if the last thing the reviewer said is an explicit pass
\* and lists no fixes, over parse retries and the repair; all else fails closed.
PassedOnlyIfSaid ==
  \A c \in Reviewer : call[c].out = "pass" =>
    call[c].said.object /\ call[c].said.passed = "yes" /\ call[c].said.fixes # "listed"

\* A review that names required fixes in whatever form does not pass ("passed=true
\* must have no required fixes").
NoFixesDropped == \A c \in Reviewer : call[c].out = "pass" => call[c].said.fixes = "none"

\* The repair of a contradiction does not turn a review that failed into one
\* that passed ("must not change what the review found").
RepairKeepsVerdict ==
  \A c \in Reviewer : call[c].out = "pass" => call[c].verdict # "fail"
===============================================================================
