------------------------------- MODULE PlanShape -------------------------------
(***************************************************************************)
(* The shape of a plan (runtime/parallelism.py): layers, write conflicts    *)
(* and the decision how many subtasks may run side by side.                 *)
(*                                                                         *)
(* A path is a sequence of segments: "." is the segment of a "./" in front, *)
(* ".." leaves its directory, and a last segment "*" stands for a pattern   *)
(* (fnmatch lets * match separators too).  The ratios of the code are kept  *)
(* as integer fractions, so a threshold is met exactly at equality.         *)
(***************************************************************************)
EXTENDS Integers, Sequences, FiniteSets

CONSTANTS
  MaxConcurrency,      \* settings.max_concurrency
  Objective,           \* settings.optimization_objective
  NetGainThreshold,    \* hundredths; 0 takes the default of the objective
  MinSpeedup           \* hundredths; 0 takes the default of the objective

ASSUME ShapeAssumption ==
  /\ MaxConcurrency \in Int
  /\ Objective \in {"time_first", "token_first"}
  /\ NetGainThreshold \in Nat /\ MinSpeedup \in Nat

ReadOnlyTools == {"read_file"}

LOCAL Greatest(S) == CHOOSE x \in S : \A y \in S : y <= x

----------------------------------------------------------------------------
\* _normalize_scope_path, _write_scope: leading "./" are taken off, and what
\* nothing is left of is dropped.
Normalized_AsWritten(path) == path
Normalized(path) ==
  LET from == CHOOSE i \in 1..Len(path) + 1 :
                /\ \A j \in 1..i - 1 : path[j] = "."
                /\ i <= Len(path) => path[i] # "."
  IN  SubSeq(path, from, Len(path))

WriteScope(spec) == {Normalized(path) : path \in spec.scope} \ {<<>>}

\* is_write_capable: no tools means none is declared, and is read-only here.
WriteCapable(spec) == WriteScope(spec) # {} \/ ~ spec.tools \subseteq ReadOnlyTools

Below(path, dir) == Len(dir) <= Len(path) /\ SubSeq(path, 1, Len(dir)) = dir

IsPattern(path) == path[Len(path)] = "*"

\* A pattern matches whatever lies below its directory, patterns included.
Matches(path, pattern) ==
  /\ IsPattern(pattern)
  /\ Len(path) >= Len(pattern) /\ Below(path, SubSeq(pattern, 1, Len(pattern) - 1))

Overlap(left, right) ==
  \/ Below(left, right) \/ Below(right, left)
  \/ Matches(left, right) \/ Matches(right, left)

\* _scopes_conflict: a scope that is not declared may be anything.
Conflict(one, other) ==
  \/ WriteScope(one) = {} \/ WriteScope(other) = {}
  \/ \E left \in WriteScope(one), right \in WriteScope(other) : Overlap(left, right)

----------------------------------------------------------------------------
Ids(plan) == {plan[i].id : i \in DOMAIN plan}

Named(plan, id) == plan[CHOOSE i \in DOMAIN plan : plan[i].id = id]

\* Dependencies on itself or on unknown subtasks do not count here.
Known(plan, id) == (Named(plan, id).deps \cap Ids(plan)) \ {id}

\* Kahn: what is resolved after n rounds.  _build_layers takes a round as a
\* layer; _cyclic_subtask_ids and _detect_cycles keep a queue, and end with
\* the same set.
Resolved(plan) ==
  LET round[n \in 0..Len(plan)] ==
        IF n = 0 THEN {}
        ELSE UNION {{id \in Ids(plan) : Known(plan, id) \subseteq done} : done \in {round[n - 1]}}
  IN  round

Residual(plan) == Ids(plan) \ Resolved(plan)[Len(plan)]

Layer(plan, n) == Resolved(plan)[n] \ Resolved(plan)[n - 1]

Width(plan) == Greatest({0} \cup {Cardinality(Layer(plan, n)) : n \in 1..Len(plan)})

\* The subtasks that share a layer with another: parallel_work.
ParallelWork(plan) ==
  Cardinality(UNION {Layer(plan, n) : n \in {k \in 1..Len(plan) : Cardinality(Layer(plan, k)) > 1}})

\* compile_plan_shape: the subtasks of one layer that may not run together.
WriteConflicts(plan) ==
  {pair \in Ids(plan) \X Ids(plan) :
     /\ pair[1] # pair[2]
     /\ \E n \in 1..Len(plan) : {pair[1], pair[2]} \subseteq Layer(plan, n)
     /\ WriteCapable(Named(plan, pair[1])) /\ WriteCapable(Named(plan, pair[2]))
     /\ Conflict(Named(plan, pair[1]), Named(plan, pair[2]))}

\* Duplicate ids, dependencies that name no subtask, a cycle.
ShapeValid(plan) ==
  /\ plan # <<>>
  /\ Cardinality(Ids(plan)) = Len(plan)
  /\ \A i \in DOMAIN plan : plan[i].deps \subseteq Ids(plan)
  /\ Residual(plan) = {}

----------------------------------------------------------------------------
\* _resolve_thresholds, in hundredths.
GainThreshold ==
  Greatest({100, IF NetGainThreshold > 0 THEN NetGainThreshold
                 ELSE IF Objective = "time_first" THEN 110 ELSE 130})
SpeedupFloor ==
  Greatest({100, IF MinSpeedup > 0 THEN MinSpeedup
                 ELSE IF Objective = "time_first" THEN 110 ELSE 100})

\* estimate_speedup: 1 / ((1 - p) + p / N) with p the share of parallel work,
\* here n * N / ((n - w) * N + w).
SpeedupAtLeast(plan, workers, hundredths) ==
  100 * Len(plan) * workers
    >= hundredths * ((Len(plan) - ParallelWork(plan)) * workers + ParallelWork(plan))

\* estimate_net_gain: 25 % for coordination and 10 % for merging are lost.
GainAtLeast(plan, workers, hundredths) ==
  27 * 100 * Len(plan) * workers
    >= 40 * hundredths * ((Len(plan) - ParallelWork(plan)) * workers + ParallelWork(plan))

Serial == [mode |-> "serial", concurrency |-> 1]

LOCAL Least(a, b) == IF a <= b THEN a ELSE b

\* Two workers at most, if two are fast enough.
Reduced(plan, mode, workers) ==
  IF SpeedupAtLeast(plan, Least(2, workers), SpeedupFloor)
  THEN [mode |-> mode, concurrency |-> Least(2, workers)] ELSE Serial

\* decide_parallelism: gate by gate, each of which keeps the plan serial.
Decision(plan) ==
  LET cap     == Greatest({1, MaxConcurrency})
      workers == Least(Width(plan), cap)
  IN  IF ~ ShapeValid(plan) \/ Width(plan) <= 1 \/ WriteConflicts(plan) # {}
      THEN Serial
      ELSE IF Width(plan) >= 3
      THEN IF GainAtLeast(plan, workers, GainThreshold)
              /\ SpeedupAtLeast(plan, workers, SpeedupFloor)
           THEN [mode |-> "fan_out", concurrency |-> workers]
           ELSE Reduced(plan, "limited", workers)
      ELSE IF cap >= 2 THEN Reduced(plan, "pair", workers) ELSE Serial
=============================================================================
