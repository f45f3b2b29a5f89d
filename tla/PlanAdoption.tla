------------------------------ MODULE PlanAdoption ------------------------------
(***************************************************************************)
(* How a plan the supervisor proposes becomes the plan that is executed     *)
(* (planning_coordinator.py, planning_review.py, planning_grants.py): it is *)
(* extracted, cleaned, its report steps are merged, its tools and rules     *)
(* completed; the parallelism is decided; its structure is validated; then  *)
(* models or the control layer review it, and tools are granted.            *)
(*                                                                         *)
(* A subtask is a record: id, deps, tools (none: not declared), scope (a    *)
(* set of paths, see PlanShape), family (of executors), reuse (an id or     *)
(* "none"), rules, and of its text what the code looks for: the files it    *)
(* names, the tools its wording asks for, and which of title, role and      *)
(* instructions are empty.  steps stands for the instructions: the proposed *)
(* subtasks whose instructions it contains.                                 *)
(* The stop gate, the results that are reused and the rest of the task are  *)
(* in WorkflowPipeline.                                                     *)
(***************************************************************************)
EXTENDS PlanShape, SequencesExt

CONSTANTS
  Proposals,          \* the plans the supervisor may propose at first,
  Revisions,          \* and after a refusal
  Registered, Approved, Assignable,   \* sets of tools in the registry
  File, ReportFile,   \* names with a suffix, those of them ending in .md
  MaxMerges,          \* settings.plan_merge_report_max_pairs
  MaxReplan,          \* settings.max_replan_attempts
  RiskBased           \* settings.authorization_review_mode = "risk_based"

MaxNetworkRetries == 3

WriteTools    == {"write_file", "write_and_run", "append_file"}
BroadTools    == {"*", "all", "any", "any_tool", "shell", "exec", "sudo"}

ASSUME AdoptionAssumption ==
  /\ Approved \subseteq Registered /\ Assignable \subseteq Registered
  /\ ReportFile \subseteq File /\ File \subseteq STRING
  /\ MaxMerges \in Nat /\ MaxReplan \in Nat /\ RiskBased \in BOOLEAN

Subtask ==
  [id : STRING, deps : SUBSET STRING, tools : SUBSET STRING, scope : SUBSET (Seq(STRING) \ {<<>>}),
   family : STRING, reuse : STRING,
   rules : SUBSET [kind : STRING, path : Seq(STRING), complete : BOOLEAN],
   names : SUBSET STRING, asks : SUBSET STRING, steps : SUBSET STRING,
   empty : SUBSET {"title", "role", "instructions"}]

\* What is proposed stands for itself.
ASSUME ProposalAssumption ==
  \A raw \in Proposals \cup Revisions :
    raw \in Seq(Subtask) /\ \A i \in DOMAIN raw : raw[i].steps = {raw[i].id}

\* The forms of paths that are followed (what the code does not see through is in
\* the README, section 3): "./" in front, a pattern at the end, and something
\* between or after them.
Followed(path) ==
  \E dots \in 0..Len(path) - 1 :
    /\ \A n \in DOMAIN path : path[n] = "." <=> n <= dots
    /\ \A n \in 1..Len(path) - 1 : path[n] # "*"

ASSUME PathAssumption ==
  \A raw \in Proposals \cup Revisions :
    \A i \in DOMAIN raw : \A path \in raw[i].scope : Followed(path)

VARIABLES
  phase,      \* ask, judge, accepted, exhausted, offline
  proposal,   \* what the supervisor answered last
  plan,       \* self._subtasks
  merged,     \* plan_steps_merged
  parallel,   \* self._parallelism_decision
  version, replans, failures,   \* plan_version, replan_count, network failures
  judges,     \* who passed or refused the current plan
  grants      \* issued: tools by subtask

planningVars == <<phase, proposal, plan, merged, parallel, version, replans, failures,
                  judges, grants>>

----------------------------------------------------------------------------
\* _extract_plan: ids are there and unique.
Extractable(raw) ==
  /\ raw # <<>>
  /\ \A i \in DOMAIN raw : raw[i].id # ""
  /\ Cardinality(Ids(raw)) = Len(raw)

\* _adopt_plan: tools kept for the supervisor are struck out (unknown ones are
\* gaps, and stay), and so are dependencies on itself or on no subtask.
CleanedTools(tools) == {tool \in tools : tool \in Registered => tool \in Assignable}

\* op of every element.  (The concatenation makes TLC evaluate it once.)
Each(op(_), specs) == <<>> \o [i \in DOMAIN specs |-> op(specs[i])]

Cleaned(raw) ==
  Each(LAMBDA spec : [spec EXCEPT !.tools = CleanedTools(@),
                                  !.deps  = (@ \cap Ids(raw)) \ {spec.id}], raw)

----------------------------------------------------------------------------
\* The merging of a step that writes a file and the step that reports on it.
Name(path) == path[Len(path)]
Names(spec) == {Name(path) : path \in spec.scope}

DeclaresWrite(spec) == spec.tools = {} \/ spec.tools \cap WriteTools # {}

Mergeable(producer, consumer) ==
  /\ producer.reuse = "none" /\ consumer.reuse = "none"
  /\ producer.scope # {}
  /\ Names(consumer) \cap ReportFile # {}
  /\ DeclaresWrite(producer) /\ DeclaresWrite(consumer)
  /\ producer.family = consumer.family
  /\ Names(producer) \cap consumer.names # {}

\* Title and instructions are put together with words between, the role is kept.
StillEmpty_OfReport(producer, consumer) == consumer.empty
StillEmpty(producer, consumer) == producer.empty \cap {"role"}

\* _merge_report_pair: the producer keeps its id and place.
Joined(producer, consumer) ==
  [producer EXCEPT !.empty = StillEmpty(producer, consumer),
                   !.steps = @ \cup consumer.steps,
                   !.names = @ \cup consumer.names \cup Names(producer),
                   !.asks  = @ \cup consumer.asks,
                   !.tools = @ \cup consumer.tools,
                   !.scope = @ \cup consumer.scope,
                   !.rules = @ \cup consumer.rules]

\* One turn of the loop over the subtasks, in the order of the plan.  st.into
\* maps an absorbed id to the subtask it went into.
Merge_FirstDependency(st, id) ==
  LET specs    == st.specs
      consumer == Named(specs, id)
      reused   == {specs[i].reuse : i \in DOMAIN specs}
      source   == IF consumer.deps = {} THEN {} ELSE {CHOOSE p \in consumer.deps : TRUE}
  IN  IF /\ Cardinality(DOMAIN st.into) < MaxMerges
         /\ id \notin DOMAIN st.into /\ id \notin reused
         /\ source # {} /\ source \cap DOMAIN st.into = {}
         /\ \A p \in source : Mergeable(Named(specs, p), consumer)
      THEN [specs |-> Each(LAMBDA spec : IF spec.id \in source THEN Joined(spec, consumer)
                                     ELSE spec, specs),
            into  |-> [d \in DOMAIN st.into \cup {id} |->
                         IF d = id THEN CHOOSE p \in source : TRUE ELSE st.into[d]]]
      ELSE st

Merge(st, id) ==
  LET specs    == st.specs
      consumer == Named(specs, id)
      reused   == {specs[i].reuse : i \in DOMAIN specs}
      source   == consumer.deps
  IN  IF /\ Cardinality(DOMAIN st.into) < MaxMerges
         /\ id \notin DOMAIN st.into /\ id \notin reused
         /\ Cardinality(source) = 1 /\ source \cap DOMAIN st.into = {}
         /\ \A p \in source : Mergeable(Named(specs, p), consumer)
      THEN [specs |-> Each(LAMBDA spec : IF spec.id \in source THEN Joined(spec, consumer)
                                     ELSE spec, specs),
            into  |-> [d \in DOMAIN st.into \cup {id} |->
                         IF d = id THEN CHOOSE p \in source : TRUE ELSE st.into[d]]]
      ELSE st

\* The dependencies on an absorbed subtask go to the one that absorbed it.
Redirected_Dropped(deps, into) == deps \ DOMAIN into
Redirected(deps, into) ==
  {IF dep \in DOMAIN into THEN into[dep] ELSE dep : dep \in deps}

Merges(specs) ==
  LET start == [specs |-> specs, into |-> [d \in {} |-> "none"]]
      st[n \in 0..Len(specs)] ==
        IF n = 0 THEN start
        ELSE CHOOSE new \in {Merge(old, specs[n].id) : old \in {st[n - 1]}} : TRUE
  IN  st

\* What is not absorbed, in its order.
Remaining(specs, absorbed) ==
  LET kept[n \in 0..Len(specs)] ==
        IF n = 0 THEN <<>>
        ELSE IF specs[n].id \in absorbed THEN kept[n - 1] ELSE Append(kept[n - 1], specs[n])
  IN  kept

Coalesced(specs) ==
  LET end  == Merges(specs)[Len(specs)]
      rest == Remaining(end.specs, DOMAIN end.into)[Len(specs)]
  IN  Each(LAMBDA spec : [spec EXCEPT !.deps = Redirected(@, end.into)], rest)

----------------------------------------------------------------------------
\* _lint_tool_scope: the standard tools the text asks for, unless no tool is
\* declared at all.
ToolsCompleted(spec) ==
  IF spec.tools = {} THEN spec ELSE [spec EXCEPT !.tools = @ \cup spec.asks]

\* _verification_rule_problem: no path, text, field or value to judge by.
Judgeable(rule) ==
  /\ rule.kind \in {"file_exists", "file_non_empty", "text_contains"} => rule.path # <<>>
  /\ rule.complete

Unsafe(path) == path[1] = "/" \/ \E i \in DOMAIN path : path[i] = ".."

\* _ensure_write_verification: what is declared to be written must be there.
Required(spec) ==
  LET plain == {path \in spec.scope : ~ Unsafe(path) /\ ~ IsPattern(path)}
      rule(kind, path) == [kind |-> kind, path |-> path, complete |-> TRUE]
  IN  {rule("file_exists", path) : path \in plain}
        \cup {rule("file_non_empty", path) : path \in {p \in plain : Name(p) \in File}}

RulesCompleted(spec) ==
  [spec EXCEPT !.rules = {rule \in @ : Judgeable(rule)} \cup Required(spec)]

Adopted(raw) ==
  Each(LAMBDA spec : RulesCompleted(ToolsCompleted(spec)), Coalesced(Cleaned(raw)))

----------------------------------------------------------------------------
\* _validate_plan_structure.
Structured(specs) ==
  /\ specs # <<>>
  /\ \A i \in DOMAIN specs : specs[i].id # ""
  /\ Cardinality(Ids(specs)) = Len(specs)
  /\ \A i \in DOMAIN specs : /\ specs[i].id \notin specs[i].deps
                             /\ specs[i].deps \subseteq Ids(specs)
                             /\ \A path \in specs[i].scope : ~ Unsafe(path)
  /\ Residual(specs) = {}

\* _propose_grants: the approved and assignable tools of each subtask.
Eligible(spec) == spec.tools \cap Approved \cap Assignable

Proposed(specs) == {[slot |-> specs[i].id, tools |-> Eligible(specs[i])] :
                      i \in {k \in DOMAIN specs : Eligible(specs[k]) # {}}}

\* _authorization_review_is_deterministic.
AuthorizedByRule(specs) ==
  /\ RiskBased
  /\ Proposed(specs) # {}
  /\ \A g \in Proposed(specs) : /\ g.tools # {} /\ g.tools \cap BroadTools = {}
                                /\ g.tools \subseteq Approved \cap Assignable
                                /\ g.slot \in Ids(specs)
                                /\ g.tools \subseteq Named(specs, g.slot).tools

\* _should_skip_plan_review: the first plan, of one or two subtasks with
\* nothing between them and nothing open.
Simple(specs) ==
  /\ merged = 0 /\ replans = 0 /\ version <= 1
  /\ specs # <<>> /\ Len(specs) <= 2
  /\ \A i \in DOMAIN specs : /\ specs[i].deps = {}
                             /\ specs[i].scope # {} => specs[i].rules # {}
                             /\ specs[i].tools \subseteq Approved \cap Assignable
  /\ \A i, j \in DOMAIN specs : i # j =>
       \A path \in specs[i].scope \cap specs[j].scope : IsPattern(path)

----------------------------------------------------------------------------
\* What build_deterministic_findings tells the reviewing model of a plan
\* (compute_plan_completeness) and of its grants (compute_tool_necessity).
PlanComplete(specs) ==
  /\ specs # <<>>
  /\ \A i, j \in DOMAIN specs : specs[i].id = specs[j].id => i = j
  /\ \A i \in DOMAIN specs : specs[i].id \notin specs[i].deps
                             /\ specs[i].deps \subseteq Ids(specs)
                             /\ specs[i].empty = {}
  /\ Residual(specs) = {}

GrantsMinimal(specs, proposed) ==
  /\ UNION {g.tools : g \in proposed} \subseteq UNION {specs[i].tools : i \in DOMAIN specs}
  /\ \A g \in proposed : g.tools # {} /\ g.tools \cap BroadTools = {}

----------------------------------------------------------------------------
PlanningInit ==
  /\ phase = "ask" /\ proposal = <<>> /\ plan = <<>> /\ merged = 0
  /\ parallel = Serial /\ version = 0 /\ replans = 0 /\ failures = 0
  /\ judges = {} /\ grants = {}

\* A timeout or a connection error of the supervisor costs no replan.
NetworkFails ==
  /\ phase = "ask"
  /\ failures' = failures + 1
  /\ phase' = IF failures' > MaxNetworkRetries THEN "offline" ELSE "ask"
  /\ UNCHANGED <<proposal, plan, merged, parallel, version, replans, judges, grants>>

\* _try_consume_replan_quota.
Refused ==
  /\ phase' = IF replans < MaxReplan THEN "ask" ELSE "exhausted"
  /\ replans' = IF replans < MaxReplan THEN replans + 1 ELSE replans

\* An answer without a usable list of subtasks leaves the plan as it was.
Unusable(raw) ==
  /\ ~ Extractable(raw)
  /\ Refused
  /\ proposal' = raw
  /\ UNCHANGED <<plan, merged, parallel, version, failures, judges, grants>>

Adopt(raw) ==
  /\ Extractable(raw)
  /\ phase' = "judge" /\ proposal' = raw
  /\ \E specs \in {Adopted(raw)} :
       /\ plan' = specs
       /\ merged' = Len(raw) - Len(specs)
       /\ parallel' = Decision(specs)
  /\ version' = version + 1
  /\ judges' = {} /\ grants' = {}
  /\ UNCHANGED <<replans, failures>>

\* _issue_grants, once the plan has passed.
Issue ==
  /\ phase' = "accepted"
  /\ grants' = Proposed(plan)
  /\ UNCHANGED replans

Settle(who, passed) ==
  /\ judges' = who
  /\ IF passed THEN Issue ELSE Refused /\ UNCHANGED grants
  /\ UNCHANGED <<proposal, plan, merged, parallel, version, failures>>

FindBroken == phase = "judge" /\ ~ Structured(plan) /\ Settle({"structure"}, FALSE)

SkipReview ==
  /\ phase = "judge" /\ Structured(plan) /\ Simple(plan)
  /\ Settle({"structure", "simple"}, TRUE)

\* _review_plan: the plan review, and the authorization review when there are
\* tools to grant that no rule settles; both must pass.
Review(planPasses, grantsPass) ==
  /\ phase = "judge" /\ Structured(plan) /\ ~ Simple(plan)
  /\ IF Proposed(plan) = {} \/ AuthorizedByRule(plan)
     THEN Settle({"structure", "plan_review"}, planPasses)
     ELSE Settle({"structure", "plan_review", "authorization_review"},
                 planPasses /\ grantsPass)

PlanningNext ==
  \/ NetworkFails
  \/ /\ phase = "ask"
     /\ \E raw \in IF replans = 0 THEN Proposals ELSE Revisions : Unusable(raw) \/ Adopt(raw)
  \/ FindBroken \/ SkipReview
  \/ \E planPasses, grantsPass \in BOOLEAN : Review(planPasses, grantsPass)
----------------------------------------------------------------------------
\* The order of a plan, by definition: what comes after a subtask is in every
\* set that holds what depends on it, and what depends on a member.
Before(specs) ==
  LET direct == {xy \in Ids(specs) \X Ids(specs) : xy[1] # xy[2] /\ xy[1] \in Named(specs, xy[2]).deps}
      Closed(S, x) == \A yz \in direct : yz[1] \in S \cup {x} => yz[2] \in S
  IN  {xy \in Ids(specs) \X Ids(specs) : \A S \in SUBSET Ids(specs) : Closed(S, xy[1]) => xy[2] \in S}

Acyclic(specs) == \A pair \in Before(specs) : pair[1] # pair[2]

Carriers(id) == {i \in DOMAIN plan : id \in plan[i].steps}

\* Nothing the supervisor asked for is lost or done twice on the way to an
\* accepted plan, and what had to come first still does, in the same subtask
\* or in one that is waited for: _coalesce_report_steps rewrites ids and
\* dependencies of a plan nobody proposed in that form.
PlanIsFaithful ==
  phase = "accepted" =>
    /\ \A id \in Ids(proposal) : Cardinality(Carriers(id)) = 1
    /\ \E before \in {Before(plan)} :
         /\ \A pair \in before : pair[1] # pair[2]
         /\ \A pair \in Before(proposal) :
              \A i \in Carriers(pair[1]), j \in Carriers(pair[2]) :
                i = j \/ <<plan[i].id, plan[j].id>> \in before

\* The validation refuses a plan for what the supervisor wrote, never for what
\* the adoption made of it: a replan is charged to the supervisor's quota.  The
\* findings a reviewing model is handed call a valid plan incomplete only for a
\* field that the supervisor left empty in a subtask that is still there, never
\* for what the merging made of two; and they call every grant minimal that the
\* rule lets pass without a model.
AdoptionKeepsValid ==
  phase = "judge" =>
    /\ Structured(plan) <=>
         /\ Acyclic(proposal)
         /\ \A i \in DOMAIN proposal : \A path \in proposal[i].scope : ~ Unsafe(path)
    /\ Structured(plan) /\ ~ PlanComplete(plan) =>
         \E i \in DOMAIN proposal : proposal[i].id \in Ids(plan) /\ proposal[i].empty # {}
    /\ AuthorizedByRule(plan) => GrantsMinimal(plan, Proposed(plan))

\* The files a declared path reaches, among those some proposal can name.
Plain(path) ==
  LET kept[n \in 0..Len(path)] ==
        IF n = 0 THEN <<>>
        ELSE IF path[n] \in {".", "*"} THEN kept[n - 1] ELSE Append(kept[n - 1], path[n])
  IN  kept[Len(path)]
Paths == UNION {UNION {raw[i].scope : i \in DOMAIN raw} : raw \in Proposals \cup Revisions}
Places == {Plain(path) : path \in Paths} \cup {Append(Plain(path), name) : path \in Paths, name \in File}
Reach(spec) == {place \in Places : \E path \in spec.scope : Below(place, Plain(path))}

\* The length of the longest chain of subtasks that come before one.
Depth(specs, id) ==
  LET first == {x \in Ids(specs) : <<x, id>> \in Before(specs)}
      chain(C) == \A x, y \in C : x = y \/ {<<x, y>>, <<y, x>>} \cap Before(specs) # {}
  IN  CHOOSE n \in 0..Cardinality(first) :
        /\ \E C \in SUBSET first : chain(C) /\ Cardinality(C) = n
        /\ \A C \in SUBSET first : chain(C) => Cardinality(C) <= n

\* Subtasks run side by side only if what they declare to write is declared,
\* for each that has a tool able to write, and no file lies in the reach of
\* two of one depth (runtime/parallelism.py, 22-24: two subtasks that rewrite
\* one file at the same time).
UnprovenNeverParallel ==
  (phase \in {"judge", "accepted"} /\ parallel.concurrency > 1) =>
    \A i, j \in DOMAIN plan :
      (/\ i # j
       /\ \A k \in {i, j} : plan[k].scope # {} \/ plan[k].tools \ ReadOnlyTools # {}
       /\ Depth(plan, plan[i].id) = Depth(plan, plan[j].id))
      => Reach(plan[i]) # {} /\ Reach(plan[j]) # {} /\ Reach(plan[i]) \cap Reach(plan[j]) = {}

\* What the comment there asks for, and the code does not give (README,
\* section 3): the scheduler starts whatever has its dependencies, and the
\* scopes are compared within one layer only.
UnorderedWritersApart ==
  (phase = "accepted" /\ parallel.concurrency > 1) =>
    \A i, j \in DOMAIN plan :
      (i # j /\ {<<plan[i].id, plan[j].id>>, <<plan[j].id, plan[i].id>>} \cap Before(plan) = {})
      => Reach(plan[i]) \cap Reach(plan[j]) = {}
=============================================================================
