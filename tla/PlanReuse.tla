------------------------------ MODULE PlanReuse ------------------------------
(***************************************************************************)
(* Which results of the previous plan a new plan may keep                   *)
(* (planning_reuse.py, _validate_reuse_declarations; fingerprint.py).       *)
(*                                                                         *)
(* A specification has a brief (instructions, role and expected output),    *)
(* deps, tools and from: the source it declares, or NoSource.  old maps the *)
(* ids of the previous plan to their specifications, archive those that     *)
(* have a result to it: ok, and the artefacts it names, which are URLs,     *)
(* files still "present" or "missing" in the sandbox, or paths "outside".   *)
(* new is the new plan, a sequence of specifications with their ids.  What  *)
(* passed is a set of pairs <<new id, source>>.                             *)
(***************************************************************************)
EXTENDS Naturals, Sequences, FiniteSets

CONSTANTS
  NoSource,   \* an empty reuse_from
  ToolId      \* tool_id of the registered generated tools, by name

Succeeded(archive, id) == id \in DOMAIN archive /\ archive[id].ok

\* _downstream_closure: the seeds and all that depends on them.
DownstreamClosure(seeds, old) ==
  LET grow[n \in 0..Cardinality(DOMAIN old)] ==
        IF n = 0 THEN seeds
        ELSE grow[n - 1] \cup {id \in DOMAIN old : old[id].deps \cap grow[n - 1] # {}}
  IN  grow[Cardinality(DOMAIN old)]

Poisoned(old, archive) ==
  DownstreamClosure({id \in DOMAIN archive : ~archive[id].ok}, old)

ArtifactsHold(result) == result.artifacts \subseteq {"url", "present"}

ToolStableIds(names) ==
  {IF n \in DOMAIN ToolId THEN <<"generated", ToolId[n]>> ELSE <<"tool", n>> : n \in names}

ToolScopeCompatible(spec, source) == ToolStableIds(spec.tools) \subseteq ToolStableIds(source.tools)

\* The checks of one declaration that look at no other.
StaticallySound(spec, old, archive) ==
  /\ spec.from \in DOMAIN old \cap DOMAIN archive
  /\ archive[spec.from].ok
  /\ spec.from \notin Poisoned(old, archive)
  /\ ArtifactsHold(archive[spec.from])
  /\ ToolScopeCompatible(spec, old[spec.from])

----------------------------------------------------------------------------
Keepers(passed) == {p[1] : p \in passed}
Sources(passed) == {p[2] : p \in passed}

\* id_map and its reverse: a name nothing is known of stands for itself.
Renamed(map, id) ==
  IF id \in Sources(map) THEN (CHOOSE p \in map : p[2] = id)[1] ELSE id
FormerName(map, id) ==
  IF id \in Keepers(map) THEN (CHOOSE p \in map : p[1] = id)[2] ELSE id

FingerprintEquivalent(spec, source, map) ==
  /\ spec.brief = source.brief
  /\ {Renamed(map, d) : d \in source.deps} = spec.deps

\* A dependency that had succeeded is to be kept as well.
DependenciesSatisfied(spec, map, archive, passed) ==
  \A d \in spec.deps :
     Succeeded(archive, FormerName(map, d)) => d \in Keepers(passed)

\* One round over the declarations: the mapping is that of its beginning,
\* what has passed is looked up as it grows.
Round(map, new, old, archive) ==
  LET after[i \in 0..Len(new)] ==
        IF i = 0 THEN map
        ELSE LET spec == new[i]
                 passes == /\ StaticallySound(spec, old, archive)
                           /\ spec.id \notin Keepers(after[i - 1])
                           /\ FingerprintEquivalent(spec, old[spec.from], map)
                           /\ DependenciesSatisfied(spec, map, archive, after[i - 1])
                           /\ spec.from \notin Sources(after[i - 1])
             IN  IF passes THEN after[i - 1] \cup {<<spec.id, spec.from>>} ELSE after[i - 1]
  IN  after[Len(new)]

\* Every round but the last lets one pass at least.
Reused(new, old, archive) ==
  LET rounds[n \in 0..Len(new)] ==
        IF n = 0 THEN {} ELSE Round(rounds[n - 1], new, old, archive)
  IN  rounds[Len(new)]

----------------------------------------------------------------------------
(* What the validation promises *)

\* A result is used once, and only a success that no failure stands above.
SoundSources(passed, old, archive) ==
  /\ \A p, q \in passed : p[2] = q[2] => p = q
  /\ \A p \in passed : /\ Succeeded(archive, p[2])
                       /\ p[2] \notin Poisoned(old, archive)

\* Rule 5: what is kept was built on results that are kept too, under the
\* name the new plan gives them.
BuiltOnKept(passed, new, old, archive) ==
  \A p \in passed : \A d \in old[p[2]].deps :
     Succeeded(archive, d) =>
       \E q \in passed, i \in DOMAIN new :
         q[2] = d /\ new[i].id = p[1] /\ q[1] \in new[i].deps

\* No new subtask bears the name of an old one while it keeps the result of
\* another, or none at all.
NamesMeanTheSame(new, old) ==
  \A i \in DOMAIN new : new[i].id \in DOMAIN old => new[i].from \in {new[i].id, NoSource}

\* No declaration that could pass is left out.
Saturated(passed, new, old, archive) == Round(passed, new, old, archive) = passed
=============================================================================
