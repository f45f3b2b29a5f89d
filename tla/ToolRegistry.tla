------------------------------ MODULE ToolRegistry ------------------------------
(***************************************************************************)
(* The generated tools: their sources and registry.json on disk, shared by  *)
(* all tasks; the copy of the registry that every task holds in memory; the *)
(* creation, check, review, trial and registration of a tool a plan lacks;  *)
(* the records of use and the quarantine; maintenance and administration.   *)
(* runtime/tool_registry.py, tool_lifecycle.py, tool_management.py,         *)
(* execution_tool_gap.py, and write_generated_tool of the code agent.       *)
(*                                                                          *)
(* A section under the lock file of registry.json is one step, or it times  *)
(* out (registry_write_lock); everything else interleaves.  What counts of  *)
(* a source is its hash.                                                    *)
(***************************************************************************)
EXTENDS Integers, FiniteSets

CONSTANTS
  Task,        \* running tasks, each with a ToolRegistry of its own
  Tool,        \* names of generated tools, numbered in the order of the file
  Code,        \* sources
  Safe,        \* those that pass the static check
  Correct,     \* those that pass their test cases
  NoFile,
  Threshold,   \* tool_failure_quarantine_threshold
  Faults,      \* of {"timeout", "crash"}
  MaxWrites, MaxUses, MaxAdmin   \* bounds: of writes, of uses, of administration

ASSUME ToolRegistryAssumption ==
  /\ Tool \subseteq Nat /\ Tool # {} /\ Safe \subseteq Code /\ Correct \subseteq Code /\ NoFile \notin Code
  /\ Threshold \in Nat \ {0} /\ Faults \subseteq {"timeout", "crash"}
  /\ MaxWrites \in Nat /\ MaxUses \in Nat /\ MaxAdmin \in Nat

VARIABLES
  source,    \* the file of each tool
  disk,      \* the manifests of registry.json
  mem,       \* _manifests of the registry of each task
  flow,      \* where each task is in _create_and_approve_tool
  done,      \* how often something was done, for the bounds and as the time
  reviewed,  \* history: the hashes a review has passed
  counted    \* history: uses recorded on disk, -1 once that was disturbed

vars == <<source, disk, mem, flow, done, reviewed, counted>>

Fresh(c) ==
  [hash |-> c, review |-> "pending", safety |-> "unchecked", verified |-> FALSE, uses |-> 0,
   used |-> 0, fails |-> 0, pinned |-> FALSE, deprecated |-> FALSE]

NoManifest == [hash |-> NoFile, review |-> "pending", safety |-> "unchecked", verified |-> FALSE,
               uses |-> 0, used |-> 0, fails |-> 0, pinned |-> FALSE, deprecated |-> FALSE]

\* The registry a task begins with: built-in tools only.
NoManifests == [t \in Tool |-> NoManifest]
Has(m) == m.hash # NoFile

\* _is_tool_ready: is_approved and is_safety_cleared.
Ready(m) == Has(m) /\ m.review = "approved" /\ m.safety = "passed" /\ m.verified

\* register_generated_tool accepts an approved tool only with its own source.
Registrable(m, t) == m.review = "approved" => source[t] = m.hash

------------------------------------------------------------------------------
(* The registry in memory and on disk. *)

\* load_generated_registry: entries in turn, up to the first that is refused.
Loaded(memory) ==
  [t \in Tool |->
     IF Has(disk[t]) /\ \A b \in Tool : b <= t /\ Has(disk[b]) => Registrable(disk[b], b)
     THEN disk[t] ELSE memory[t]]

\* _merge_usage: the content is the memory's, the use whichever side knows more.
Larger(a, b) == IF a >= b THEN a ELSE b
Merge_Mine(m, d) == m
Merge(m, d) ==
  [m EXCEPT !.uses = Larger(m.uses, d.uses), !.used = Larger(m.used, d.used),
            !.fails = IF d.used > m.used THEN d.fails ELSE m.fails]

\* What save_generated_registry writes: entries of others stay.
Saved(memory) ==
  [t \in Tool |-> IF ~Has(memory[t]) THEN disk[t]
                  ELSE IF Has(disk[t]) THEN Merge(memory[t], disk[t]) ELSE memory[t]]

\* The lock is got, or not within its ten seconds.
Save(memory) == \/ disk' = Saved(memory)
                \/ "timeout" \in Faults /\ UNCHANGED disk

Do(what) == done' = [done EXCEPT ![what] = @ + 1]

------------------------------------------------------------------------------
(* A tool that a plan lacks. *)

Goto(p, pc) == flow' = [flow EXCEPT ![p].pc = pc]
End(p, outcome) == flow' = [flow EXCEPT ![p].pc = "idle", ![p].outcome = outcome,
                                        ![p].m = NoManifest, ![p].snap = NoManifests]

\* A task ends, and the next one starts with an empty registry.
NewTask(p) ==
  /\ flow[p].pc = "idle" /\ mem[p] # NoManifests
  /\ mem' = [mem EXCEPT ![p] = NoManifests]
  /\ UNCHANGED <<source, disk, flow, done, reviewed, counted>>

\* _resolve_tool_gaps finds a tool that is not ready, and loads the file again.
NeedTool(p, t) ==
  /\ flow[p].pc = "idle" /\ ~Ready(mem[p][t])
  /\ mem' = [mem EXCEPT ![p] = Loaded(mem[p])]
  /\ LET m == mem'[p][t]
     IN  flow' = [flow EXCEPT ![p] =
           [pc      |-> IF Ready(m) THEN "idle" ELSE IF Has(m) THEN "check" ELSE "create",
            outcome |-> IF Ready(m) THEN "ready" ELSE "open",
            tool |-> t, attempt |-> 0, m |-> NoManifest, snap |-> NoManifests]]
  /\ UNCHANGED <<source, disk, done, reviewed, counted>>

\* The code agent overwrites the source, and loads the registry: an entry that
\* is refused stops it here.
AgentWrites(p) ==
  /\ flow[p].pc \in {"create", "fix"} /\ done.writes < MaxWrites
  /\ \E c \in Code :
       LET t == flow[p].tool
       IN  /\ source' = [source EXCEPT ![t] = c]
           /\ IF \A b \in Tool : disk[b].review = "approved" => source'[b] = disk[b].hash
              THEN flow' = [flow EXCEPT ![p].pc = "save", ![p].snap =
                              [disk EXCEPT ![t] = Fresh(c)]]
              ELSE End(p, "unresolved")
  /\ Do("writes")
  /\ UNCHANGED <<disk, mem, reviewed, counted>>

\* It registers the candidate and saves what it has loaded.
AgentSaves(p) ==
  /\ flow[p].pc = "save"
  /\ Save(flow[p].snap)
  /\ flow' = [flow EXCEPT ![p].pc = "sync", ![p].snap = NoManifests]
  /\ UNCHANGED <<source, mem, done, reviewed, counted>>

\* It fails, or claims to have written.
AgentFails(p) ==
  /\ flow[p].pc \in {"create", "fix", "sync"}
  /\ \/ End(p, "unresolved")
     \/ flow[p].pc # "sync" /\ Goto(p, "sync")
  /\ UNCHANGED <<source, disk, mem, done, reviewed, counted>>

\* What is still to do for a manifest.
Left(m) == IF m.review # "approved" THEN "review" ELSE IF ~m.verified THEN "verify" ELSE "register"

\* The registry is loaded; only a new candidate goes through the check.
Sync(p) ==
  /\ flow[p].pc = "sync"
  /\ mem' = [mem EXCEPT ![p] = Loaded(mem[p])]
  /\ LET m == mem'[p][flow[p].tool]
     IN  IF ~Has(m) THEN End(p, "unresolved")
         ELSE IF flow[p].attempt = 0 THEN Goto(p, "check")
         ELSE flow' = [flow EXCEPT ![p].pc = Left(m), ![p].m = m]
  /\ UNCHANGED <<source, disk, done, reviewed, counted>>

\* _ensure_tool_safety, and _persist_manifest whose failure is only logged.
CheckSafety(p) ==
  /\ flow[p].pc = "check"
  /\ LET t   == flow[p].tool
         old == mem[p][t]
         new == [old EXCEPT !.safety = IF source[t] \in Safe THEN "passed" ELSE "failed"]
     IN  IF old.safety = "passed"
         THEN /\ flow' = [flow EXCEPT ![p].pc = Left(old), ![p].m = old]
              /\ UNCHANGED <<mem, disk>>
         ELSE /\ IF Registrable(old, t)
                 THEN mem' = [mem EXCEPT ![p][t] = new] /\ Save(mem'[p])
                 ELSE UNCHANGED <<mem, disk>>
              /\ IF new.safety = "passed"
                 THEN LET m == mem'[p][t]
                      IN  flow' = [flow EXCEPT ![p].pc = Left(m), ![p].m = m]
                 ELSE End(p, "unresolved")
  /\ UNCHANGED <<source, done, reviewed, counted>>

\* The review agent; after its first refusal the code agent mends the tool.
Review(p) ==
  /\ flow[p].pc = "review"
  /\ \/ LET m == [flow[p].m EXCEPT !.review = "approved"]
        IN  /\ flow' = [flow EXCEPT ![p].pc = Left(m), ![p].m = m, ![p].attempt = @ + 1]
            /\ reviewed' = [reviewed EXCEPT ![flow[p].tool] = @ \cup {m.hash}]
     \/ /\ IF flow[p].attempt + 1 >= 2 THEN End(p, "unresolved")
           ELSE flow' = [flow EXCEPT ![p].pc = "fix", ![p].attempt = @ + 1]
        /\ UNCHANGED reviewed
  /\ UNCHANGED <<source, disk, mem, done, counted>>

\* The test cases, on the file as it is now.
Verify(p) ==
  /\ flow[p].pc = "verify"
  /\ IF source[flow[p].tool] \in Correct
     THEN flow' = [flow EXCEPT ![p].pc = "register", ![p].m = [@ EXCEPT !.verified = TRUE]]
     ELSE End(p, "unresolved")
  /\ UNCHANGED <<source, disk, mem, done, reviewed, counted>>

\* What is registered is what was reviewed and tried, not what the file has become.
Candidate_Rehashed(p) == [flow[p].m EXCEPT !.hash = source[flow[p].tool]]
Candidate(p) == flow[p].m

Register(p) ==
  /\ flow[p].pc = "register"
  /\ LET t == flow[p].tool
         m == Candidate(p)
     IN  \/ /\ ~Registrable(m, t)
            /\ End(p, "unresolved") /\ UNCHANGED <<mem, disk>>
         \/ /\ Registrable(m, t)
            /\ mem' = [mem EXCEPT ![p][t] = m]
            /\ \/ disk' = Saved(mem'[p]) /\ End(p, "ready")
               \/ "timeout" \in Faults /\ UNCHANGED disk /\ End(p, "unresolved")
  /\ UNCHANGED <<source, done, reviewed, counted>>

Flow(p) == AgentWrites(p) \/ AgentSaves(p) \/ AgentFails(p) \/ Sync(p) \/ CheckSafety(p)
           \/ Review(p) \/ Verify(p) \/ Register(p)

------------------------------------------------------------------------------
(* Use, maintenance, administration. *)

\* _apply_usage: failures in a row put the tool in quarantine.
Applied(m, ok) ==
  LET fails == IF ok THEN 0 ELSE m.fails + 1
      bad   == ~ok /\ fails >= Threshold /\ m.safety = "passed"
  IN  [m EXCEPT !.used = done.uses + 1, !.uses = @ + 1, !.fails = fails,
                !.safety = IF bad THEN "quarantined" ELSE @]

\* The handler runs a granted tool with its own source; record_tool_use.
Use(p, t) ==
  /\ flow[p].pc = "idle" /\ done.uses < MaxUses
  /\ Has(mem[p][t]) /\ mem[p][t].review = "approved" /\ source[t] = mem[p][t].hash
  /\ \E ok \in BOOLEAN :
       \/ LET new == Applied(Saved(mem[p])[t], ok)
          IN  /\ disk' = [Saved(mem[p]) EXCEPT ![t] = new]
              /\ mem' = [mem EXCEPT ![p][t] = new]
              /\ counted' = [counted EXCEPT ![t] = IF @ < 0 \/ ~Has(disk[t]) THEN -1 ELSE @ + 1]
       \/ /\ "timeout" \in Faults
          /\ mem' = [mem EXCEPT ![p][t] = Applied(mem[p][t], ok)]
          /\ counted' = [counted EXCEPT ![t] = -1]
          /\ UNCHANGED disk
  /\ Do("uses")
  /\ UNCHANGED <<source, flow, reviewed>>

Archivable(m) == m.deprecated \/ m.review # "approved" \/ m.safety \in {"failed", "quarantined"}

\* sweep_generated_tools: of the tools that are old enough; a crash in it
\* leaves sources moved and the file as it was.
Sweep ==
  /\ done.admin < MaxAdmin /\ Do("admin")
  /\ \E old \in SUBSET Tool :      \* neither used for long, nor in the plan
       LET due  == {t \in old : Has(disk[t]) /\ ~disk[t].pinned}
           gone == {t \in due : Archivable(disk[t])}
       IN  /\ due # {}
           /\ source' = [t \in Tool |-> IF t \in gone THEN NoFile ELSE source[t]]
           /\ \/ disk' = [t \in Tool |->
                            IF t \in gone THEN NoManifest
                            ELSE IF t \in due THEN [disk[t] EXCEPT !.deprecated = TRUE]
                            ELSE disk[t]]
              \/ "crash" \in Faults /\ gone # {} /\ UNCHANGED disk
           /\ counted' = [t \in Tool |-> IF t \in gone THEN -1 ELSE counted[t]]
  /\ UNCHANGED <<mem, flow, reviewed>>

\* _update_manifest, from the web console.
Administer ==
  /\ done.admin < MaxAdmin /\ Do("admin")
  /\ \E t \in Tool :
       /\ Has(disk[t])
       /\ \/ \E pinned \in BOOLEAN : disk' = [disk EXCEPT ![t].pinned = pinned]
          \/ /\ disk[t].safety = "quarantined"
             /\ disk' = [disk EXCEPT ![t].safety = "passed", ![t].fails = 0]
          \/ /\ disk[t].review = "approved"
             /\ disk' = [disk EXCEPT ![t].deprecated = TRUE]
  /\ UNCHANGED <<source, mem, flow, reviewed, counted>>

------------------------------------------------------------------------------
Init ==
  /\ source = [t \in Tool |-> NoFile] /\ disk = NoManifests
  /\ mem = [p \in Task |-> NoManifests]
  /\ flow = [p \in Task |-> [pc |-> "idle", outcome |-> "open", tool |-> CHOOSE t \in Tool : TRUE,
                             attempt |-> 0, m |-> NoManifest, snap |-> NoManifests]]
  /\ done = [writes |-> 0, uses |-> 0, admin |-> 0]
  /\ reviewed = [t \in Tool |-> {}] /\ counted = [t \in Tool |-> 0]

Next == \/ \E p \in Task : NewTask(p) \/ Flow(p) \/ \E t \in Tool : NeedTool(p, t) \/ Use(p, t)
        \/ Sweep \/ Administer

Spec == Init /\ [][Next]_vars

------------------------------------------------------------------------------
(* Properties. *)

Manifest ==
  [hash : Code \cup {NoFile}, review : {"pending", "approved"},
   safety : {"unchecked", "passed", "failed", "quarantined"}, verified : BOOLEAN,
   uses : Nat, used : Nat, fails : Nat,
   pinned : BOOLEAN, deprecated : BOOLEAN]

FlowState ==
  [pc : {"idle", "create", "fix", "save", "sync", "check", "review", "verify", "register"},
   outcome : {"open", "ready", "unresolved"}, tool : Tool, attempt : Nat,
   m : Manifest, snap : [Tool -> Manifest]]

TypeOK ==
  /\ source \in [Tool -> Code \cup {NoFile}]
  /\ disk \in [Tool -> Manifest] /\ mem \in [Task -> [Tool -> Manifest]]
  /\ flow \in [Task -> FlowState]
  /\ done \in [writes : Nat, uses : Nat, admin : Nat]
  /\ reviewed \in [Tool -> SUBSET (Code \cup {NoFile})] /\ counted \in [Tool -> Int]

\* Whatever registries are written back over each other: a source counts as
\* approved, on disk or in a task, only after a review of that very source.
ApprovedWasReviewed ==
  \A t \in Tool : \A m \in {disk[t]} \cup {mem[p][t] : p \in Task} :
    m.review = "approved" => m.hash \in reviewed[t]

\* No use is lost between the copies: what the file counts is what was recorded.
UsesCounted == \A t \in Tool : counted[t] >= 0 => disk[t].uses = counted[t]

\* A gap that is reported as resolved leaves a tool that is ready.
ResolvedIsReady ==
  [][\A p \in Task : flow'[p].outcome = "ready" /\ flow[p].pc = "register"
                      /\ flow'[p].pc = "idle" => Ready(mem'[p][flow'[p].tool])]_vars
===============================================================================
