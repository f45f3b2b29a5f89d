-------------------------------- MODULE MCTaskIntake --------------------------------
(***************************************************************************)
(* Plans of up to three subtasks.  Every dependency graph (one dependency   *)
(* may name no subtask) for a producer, its report and a writer beside      *)
(* them; and seven graphs for every choice of three profiles.  Requests of  *)
(* one or two clauses in the objective, and one in the criteria.            *)
(***************************************************************************)
EXTENDS TaskIntake

Blank ==
  [id |-> "a", deps |-> {}, tools |-> {"write_file"}, scope |-> {}, family |-> "code",
   reuse |-> "none", rules |-> {}, names |-> {}, asks |-> {}, steps |-> {}, empty |-> {}]

TextIn(name) == [kind |-> "text_contains", path |-> <<name>>, complete |-> TRUE]

Profile ==
  [producer   |-> [Blank EXCEPT !.scope = {<<"data.csv">>}],
   dotted     |-> [Blank EXCEPT !.scope = {<<".", "data.csv">>},
                                !.empty = {"title", "instructions"}],
   reporter   |-> [Blank EXCEPT !.scope = {<<"out", "r.md">>}, !.names = {"data.csv"},
                                !.asks = {"read_file"}, !.rules = {TextIn("r.md")},
                                !.empty = {"title"}],
   directory  |-> [Blank EXCEPT !.scope = {<<"out">>}],
   pattern    |-> [Blank EXCEPT !.scope = {<<"out", "*">>}],
   undeclared |-> [Blank EXCEPT !.tools = {"write_and_run"}],
   free       |-> [Blank EXCEPT !.tools = {}],
   reader     |-> [Blank EXCEPT !.tools = {"read_file"}, !.family = "dynamic",
                                !.empty = {"role"}],
   broad      |-> [Blank EXCEPT !.tools = {"read_file", "shell", "supervise"}],
   unsafe     |-> [Blank EXCEPT !.scope = {<<"..", "x">>}, !.tools = {"read_file"}]]

At(profile, id, deps) == [Profile[profile] EXCEPT !.id = id, !.deps = deps, !.steps = {id}]

Triple(p, d) == <<At(p[1], "a", d[1]), At(p[2], "b", d[2]), At(p[3], "c", d[3])>>

Targets == {"a", "b", "c", "ghost"}

Graphs ==
  {<<{}, {}, {}>>, <<{}, {"a"}, {}>>, <<{}, {"a"}, {"b"}>>, <<{}, {"a"}, {"a"}>>, <<{}, {}, {"a", "b"}>>,
   <<{"c"}, {"a"}, {}>>, <<{"b"}, {"a"}, {}>>}

Shuffled == {<<"producer", "reporter", "directory">>, <<"reporter", "directory", "producer">>,
             <<"reporter", "reporter", "producer">>}

MCProposals ==
  {Triple(p, d) : p \in Shuffled, d \in [1..3 -> SUBSET Targets]}
  \cup {Triple(p, d) : p \in [1..3 -> DOMAIN Profile], d \in Graphs}
  \cup {<<At(p, "a", {}), At(q, "b", deps)>> :
          p, q \in DOMAIN Profile, deps \in {{}, {"a"}}}
  \cup {<<>>, <<At("producer", "", {})>>, <<At("producer", "a", {}), At("free", "a", {})>>}

MCRevisions ==
  {Triple(<<"producer", "reporter", "directory">>, d) : d \in Graphs}
  \cup {Triple(<<"producer", "directory", "pattern">>, <<{}, {}, {}>>), <<>>}

MCRegistered == {"read_file", "write_file", "write_and_run", "shell", "supervise"}
MCAssignable == {"read_file", "write_file", "write_and_run", "shell"}
MCFile       == {"data.csv", "r.md"}
MCReportFile == {"r.md"}

----------------------------------------------------------------------------
Silent ==
  [acts |-> FALSE, on |-> FALSE, writes |-> FALSE, promises |-> FALSE, negated |-> "no",
   files |-> {}, needs |-> {}, more |-> FALSE]

\* "a question", "write it to a.txt", "do not write a.txt", "no need to save
\* a.txt", "summarise b.txt", "write x", "run the tests", "save it in words".
Clause ==
  {Silent,
   [Silent EXCEPT !.writes = TRUE, !.acts = TRUE],
   [Silent EXCEPT !.writes = TRUE, !.acts = TRUE, !.on = TRUE, !.files = {"a.txt"}, !.needs = {"x"}],
   [Silent EXCEPT !.writes = TRUE, !.acts = TRUE, !.on = TRUE, !.files = {"a.txt"}, !.negated = "both"],
   [Silent EXCEPT !.writes = TRUE, !.acts = TRUE, !.on = TRUE, !.files = {"a.txt"}, !.negated = "loose"],
   [Silent EXCEPT !.files = {"b.txt"}],
   [Silent EXCEPT !.acts = TRUE, !.on = TRUE, !.more = TRUE]}

Criterion ==
  {[Silent EXCEPT !.promises = TRUE, !.files = {"a.txt"}, !.needs = {"y"}],
   [Silent EXCEPT !.promises = TRUE, !.files = {"a.txt"}, !.negated = "both", !.acts = TRUE],
   [Silent EXCEPT !.negated = "both"]}

Constraint == {Silent, [Silent EXCEPT !.files = {"b.txt"}]}

AtMostOne(S) == {{}} \cup {{x} : x \in S}

MCRequests ==
  {[objective |-> {c, d}, constraints |-> t, criteria |-> q, plain |-> FALSE] :
     c, d \in Clause, t \in AtMostOne(Constraint), q \in AtMostOne(Criterion)}
  \cup {[objective |-> {Silent}, constraints |-> {}, criteria |-> q, plain |-> TRUE] :
          q \in AtMostOne(Criterion)}

MCPlanned ==
  {[objective |-> {[Silent EXCEPT !.acts = TRUE, !.on = TRUE, !.more = TRUE]},
    constraints |-> {}, criteria |-> {}, plain |-> FALSE]}
=============================================================================
