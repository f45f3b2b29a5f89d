------------------------ MODULE MCWorkflowPipeline ------------------------
(* Values for the model checker. *)
EXTENDS WorkflowPipeline, Sequences, TLC

CONSTANTS a, b

Chains == {a :> {} @@ b :> {a}}
All == Chains \cup {a :> {} @@ b :> {}}

---------------------------------------------------------------------------
(* The validation of the declarations behind Reusable (PlanReuse), over     *)
(* every plan of three subtasks 1, 2 and 3, of which 1 and 2 may depend on  *)
(* later ones, and every declaration of a new plan that renames, reorders   *)
(* and rewires them.  The tools of 1 are one generated tool, renamed since. *)

Validation == INSTANCE PlanReuse WITH NoSource <- 0, ToolId <- "t" :> 7 @@ "u" :> 7

Old == 1..3
OldPlans ==
  {[i \in Old |-> [brief |-> "b", deps |-> g[i], tools |-> {"t"}]] :
     g \in {g \in [Old -> SUBSET Old] : \A i \in Old : \A d \in g[i] : d > i}}
Archives ==
  UNION {[D -> {[ok |-> TRUE, artifacts |-> {"present"}],
                [ok |-> FALSE, artifacts |-> {}]}] : D \in {Old, Old \ {1}}}

NewPlans ==
  {[i \in Old |-> [id |-> ids[i], from |-> from[i], brief |-> "b", tools |-> {"u"},
                   deps |-> {ids[j] : j \in g[i]}]] :
     ids \in {<<1, 2, 3>>, <<2, 3, 1>>, <<1, 4, 3>>},
     from \in [Old -> 0..3],
     g \in {g \in [Old -> SUBSET Old] : \A i \in Old : \A d \in g[i] : d > i}}

\* Whatever is declared, nothing unsound is kept, and where names keep their
\* meaning nothing is kept that was built on something dropped.
ASSUME ValidationSound ==
  \A old \in OldPlans, archive \in Archives, new \in NewPlans :
    LET passed == Validation!Reused(new, old, archive)
    IN  /\ Validation!SoundSources(passed, old, archive)
        /\ Validation!Saturated(passed, new, old, archive)
        /\ Validation!NamesMeanTheSame(new, old) =>
             Validation!BuiltOnKept(passed, new, old, archive)

\* A new plan with the old names and dependencies keeps one of the sets of
\* Keepable, and any of them when it declares just these.
ASSUME KeepableJustified ==
  \A old \in OldPlans, archive \in Archives :
    LET good == {i \in DOMAIN archive : archive[i].ok}
        graph == [i \in Old |-> old[i].deps]
        Declaring(D) == [i \in Old |-> [old[i] EXCEPT !.tools = {"u"}] @@
                           [id |-> i, from |-> IF i \in D THEN i ELSE 0]]
        Kept(D) == {p[2] : p \in Validation!Reused(Declaring(D), old, archive)}
        sets == Keepable(good, Validation!Poisoned(old, archive), graph)
    IN  /\ \A D \in SUBSET Old : Kept(D) \in sets
        /\ \A D \in sets : Kept(D) = D
===========================================================================
