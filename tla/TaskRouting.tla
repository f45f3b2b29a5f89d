------------------------------ MODULE TaskRouting ------------------------------
(***************************************************************************)
(* One request between its arrival and its answer or the full workflow:     *)
(* classification (router.py), the paths without tools (direct_answer.py,   *)
(* deep_reasoning.py), the schedule of a persistent task and the fast path   *)
(* that writes a single file (paths/).                                      *)
(*                                                                         *)
(* A request is a record of three texts, and of what the rules recognise in *)
(* the objective as a whole (plain: arithmetic or a greeting).  A text is a *)
(* set of clauses, and a clause says what the regular expressions find:     *)
(*   acts      a verb of action          on       it has a tool as object   *)
(*   writes    a verb of writing         promises an artefact that is there *)
(*   negated   "no", "both" (in both lists of negations), "loose" (only in  *)
(*             the router's: "no need to ...")                              *)
(*   files     the files it names        needs    literals to be contained  *)
(*   more      an action or a plural the fast path does not do              *)
(***************************************************************************)
EXTENDS Integers, FiniteSets

CONSTANTS
  Requests,
  EnableRouter,      \* settings.enable_router
  FastPathEnabled    \* settings.fast_path_single_file_enabled

TaskTypes   == {"direct_answer", "deep_reasoning", "persistent_task", "full_workflow"}
WithoutTool == {"direct_answer", "deep_reasoning"}

Unclassified == "unclassified"

VARIABLES
  request,
  class,       \* classification.task_type
  stage,       \* where the request is: route, answering, scheduling, fast_path,
               \* workflow (the engine took over), done
  answer,      \* status of the output; "none" before there is one
  sandbox      \* the files written for it, each with the literals it contains

routingVars == <<request, class, stage, answer, sandbox>>

Text(r) == r.objective \cup r.constraints \cup r.criteria

FilesIn(text) == UNION {c.files : c \in text}

\* An expression of digits and operators, or a greeting, has no clause with a
\* verb of action, and a text names finitely many files.
ASSUME RoutingAssumption ==
  /\ EnableRouter \in BOOLEAN /\ FastPathEnabled \in BOOLEAN
  /\ \A r \in Requests : /\ IsFiniteSet(FilesIn(r.objective))
                         /\ r.plain => \A c \in r.objective : ~ (c.acts /\ c.on)

----------------------------------------------------------------------------
\* _strip_negated_tool_clauses: a prohibition is no demand.
Stripped(text) == {c \in text : ~ (c.negated # "no" /\ c.acts)}

\* _needs_tool_execution: the constraints are not looked at.
NeedsTools(r) ==
  \/ \E c \in Stripped(r.objective) : c.acts /\ c.on
  \/ \E c \in Stripped(r.criteria) : c.promises

\* _rule_based_classify, asked only when there is nothing but the objective.
RuleApplies(r) == r.constraints = {} /\ r.criteria = {} /\ r.plain

\* The answer of the model: a type, under its name or an alias of it, or
\* nothing one can use (a failed call, no text, no JSON, another word).
Read(reply) == IF reply \in TaskTypes THEN reply ELSE "full_workflow"

\* classify: work for tools is never left to a path that has none.
Classified_AsRead(r, reply) == Read(reply)
Classified(r, reply) ==
  IF Read(reply) \in WithoutTool /\ NeedsTools(r) THEN "full_workflow" ELSE Read(reply)

----------------------------------------------------------------------------
\* detect_single_file_task: one file, a wish to write, and nothing else.
WantsWriting(text) == \E c \in text : c.negated # "both" /\ c.writes

SingleFile(r) ==
  /\ Cardinality(FilesIn(r.objective)) = 1
  /\ FilesIn(Text(r)) = FilesIn(r.objective)
  /\ WantsWriting(r.objective)
  /\ \A c \in Text(r) : ~ c.more

Target(r) == CHOOSE file \in FilesIn(r.objective) : TRUE

Literals(text) == UNION {c.needs : c \in text}

\* The literals of the criteria, or else of the objective.
RequiredContains(r) ==
  IF Literals(r.criteria) # {} THEN Literals(r.criteria) ELSE Literals(r.objective)

----------------------------------------------------------------------------
RoutingInit ==
  /\ request \in Requests
  /\ class = Unclassified /\ stage = "route" /\ answer = "none"
  /\ sandbox = [file \in {} |-> {}]

\* Where route sends a request of this class.
Dispatch(type) ==
  /\ class' = type
  /\ stage' = CASE type \in WithoutTool -> "answering"
               [] type = "persistent_task" -> "scheduling"
               [] type = "full_workflow" ->
                    IF EnableRouter /\ FastPathEnabled /\ SingleFile(request)
                    THEN "fast_path" ELSE "workflow"
  /\ UNCHANGED <<request, answer, sandbox>>

ClassifyByRule ==
  /\ stage = "route"
  /\ ~ EnableRouter \/ RuleApplies(request)
  /\ Dispatch(IF EnableRouter THEN "direct_answer" ELSE "full_workflow")

ClassifyByModel(reply) ==
  /\ stage = "route"
  /\ EnableRouter /\ ~ RuleApplies(request)
  /\ Dispatch(Classified(request, reply))

Finish(status) == stage' = "done" /\ answer' = status

\* _guard_no_tool_output: markup of a tool call means that the model only
\* pretends, and the workflow starts instead.
Guarded(reply, status) ==
  /\ IF reply = "markup" THEN stage' = "workflow" /\ UNCHANGED answer ELSE Finish(status)
  /\ UNCHANGED <<request, class, sandbox>>

\* One call without tools on either path: an exception makes the task fail, and
\* an empty answer still completes it.
AnswerDirectly(reply) ==
  /\ stage = "answering" /\ class = "direct_answer"
  /\ Guarded(reply, IF reply = "error" THEN "failed" ELSE "completed")

ReasonDeeply(reply) ==
  /\ stage = "answering" /\ class = "deep_reasoning"
  /\ Guarded(reply, IF reply = "error" THEN "failed" ELSE "completed")

\* _parse_schedule, _normalize_schedule: an event is refused, everything else
\* becomes a task, if need be one that runs once; see PeriodicTaskPoller.
Schedule(trigger) ==
  /\ stage = "scheduling"
  /\ Finish(IF trigger = "event" THEN "failed" ELSE "scheduled")
  /\ UNCHANGED <<request, class, sandbox>>

\* maybe_run_single_file_fast_path, what can stop it in the order of the
\* tests: content is the literals of the model's text, or why there is none.
Acceptable(content) == content.kind = "text" /\ RequiredContains(request) \subseteq content.has

\* _write_text_atomic: a temporary file takes the place of what was there.
Written(content) == [file \in {Target(request)} |-> content.has]

WriteFile(content) ==
  /\ stage = "fast_path" /\ Acceptable(content)
  /\ sandbox' = Written(content)
  /\ Finish("completed")
  /\ UNCHANGED <<request, class>>

\* The write goes to a temporary file first and is refused for a link or an
\* I/O error: nothing is there then.
FallBack(content, refused) ==
  /\ stage = "fast_path"
  /\ ~ Acceptable(content) \/ refused
  /\ stage' = "workflow"
  /\ UNCHANGED <<request, class, answer, sandbox>>

Replies  == TaskTypes \cup {"error", "illegal"}
Contents == {[kind |-> k, has |-> {}] : k \in {"error", "empty", "markup", "too_large"}}
              \cup {[kind |-> "text", has |-> h] : h \in SUBSET UNION {Literals(Text(r)) : r \in Requests}}

RoutingNext ==
  \/ ClassifyByRule
  \/ \E reply \in Replies : ClassifyByModel(reply)
  \/ \E reply \in {"error", "markup", "text", "empty"} : AnswerDirectly(reply) \/ ReasonDeeply(reply)
  \/ \E trigger \in {"once", "cron", "interval", "event"} : Schedule(trigger)
  \/ \E content \in Contents : WriteFile(content) \/ \E refused \in BOOLEAN : FallBack(content, refused)

----------------------------------------------------------------------------
\* What the classifier's own rule calls work for tools (router.py, 166-167):
\* the objective or the criteria ask, in a clause that forbids nothing, for an
\* action on a file or a command, or for an artefact.
Demanded(r) ==
  \/ \E c \in r.objective : c.negated = "no" /\ c.acts /\ c.on
  \/ \E c \in r.criteria : c.negated = "no" /\ c.promises

\* A request is answered as completed only by what could do it: work for tools
\* by the file that was written, with what it had to contain; and whatever
\* went on to the workflow or was answered in words left no file behind.
CompletedByTools ==
  /\ (answer = "completed" /\ Demanded(request)) =>
       /\ DOMAIN sandbox = FilesIn(Text(request)) /\ DOMAIN sandbox # {}
       /\ \A file \in DOMAIN sandbox :
            Literals(IF Literals(request.criteria) # {} THEN request.criteria
                     ELSE request.objective) \subseteq sandbox[file]
  /\ stage # "done" \/ class \in WithoutTool => DOMAIN sandbox = {}

\* What "strictly judged, otherwise None" (single_file.py, 180) promises, and
\* the rules do not give (README, section 3): a file that is only named to be
\* left alone, or to be read, is overwritten.
OnlyWantedFiles ==
  \A file \in DOMAIN sandbox :
    \E c \in request.objective : c.negated = "no" /\ c.writes /\ file \in c.files
=============================================================================
