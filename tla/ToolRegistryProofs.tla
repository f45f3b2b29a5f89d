-------------------------- MODULE ToolRegistryProofs --------------------------
(***************************************************************************)
(* Theorems about the tools of a task.  Of ToolRegistry, for any number of  *)
(* tasks, tools, sources and faults: type correctness, that wherever a tool *)
(* counts as approved a review has passed that very source, and that no use *)
(* is lost between the copies that count it.  Of ExternalMcp, for any       *)
(* number of calls, servers and connections: that an answer belongs to its  *)
(* call, a process is greeted first, and tools are as they were reported.   *)
(*                                                                          *)
(* Copies of a manifest travel: file to memory, memory to file, memory to   *)
(* the task that creates a tool, file to the code agent and back.  Sound    *)
(* says of a copy of the registry that each approval in it is backed; every *)
(* way of copying, merging or changing manifests keeps it so.               *)
(***************************************************************************)
EXTENDS ToolRegistry, ExternalMcp, TLAPS

\* Manifests tool t may have, given the reviews there have been.
Backed(t) == {m \in Manifest : m.review = "approved" => m.hash \in reviewed[t]}

Sound(tools) == /\ tools \in [Tool -> Manifest]
                   /\ \A t \in Tool : tools[t] \in Backed(t)

SoundFlow(f) == f \in FlowState /\ Sound(f.snap) /\ f.m \in Backed(f.tool)

Rest == /\ source \in [Tool -> Code \cup {NoFile}]
        /\ done \in [writes : Nat, uses : Nat, admin : Nat]
        /\ counted \in [Tool -> Int]

Inductive ==
  /\ Rest /\ reviewed \in [Tool -> SUBSET (Code \cup {NoFile})]
  /\ Sound(disk)
  /\ mem \in [Task -> [Tool -> Manifest]] /\ \A p \in Task : Sound(mem[p])
  /\ flow \in [Task -> FlowState] /\ \A p \in Task : SoundFlow(flow[p])

----------------------------------------------------------------------------
(***************************************************************************)
(* Manifests and copies of the registry.                                    *)
(***************************************************************************)
LEMMA BlankBacked ==
  ASSUME NEW t \in Tool
  PROVE  /\ NoManifest \in Backed(t)
         /\ \A c \in Code : Fresh(c) \in Backed(t)
BY DEF NoManifest, Fresh, Backed, Manifest

LEMMA BlankSound == Sound(NoManifests)
BY BlankBacked DEF Sound, NoManifests, Backed

\* A change that leaves hash and review alone.
LEMMA ChangedBacked ==
  ASSUME NEW t \in Tool, NEW m \in Backed(t), NEW n \in Manifest,
         n.hash = m.hash, n.review = m.review
  PROVE  n \in Backed(t)
BY DEF Backed

LEMMA MarkedBacked ==
  ASSUME NEW t \in Tool, NEW m \in Backed(t),
         NEW s \in {"unchecked", "passed", "failed", "quarantined"}, NEW b \in BOOLEAN
  PROVE  /\ [m EXCEPT !.safety = s] \in Backed(t)
         /\ [m EXCEPT !.verified = b] \in Backed(t)
         /\ [m EXCEPT !.pinned = b] \in Backed(t)
         /\ [m EXCEPT !.deprecated = b] \in Backed(t)
         /\ [m EXCEPT !.safety = s, !.fails = 0] \in Backed(t)
BY DEF Backed, Manifest

LEMMA MergedBacked ==
  ASSUME NEW t \in Tool, NEW m \in Backed(t), NEW d \in Manifest
  PROVE  Merge(m, d) \in Backed(t)
<1> DEFINE u == Larger(m.uses, d.uses)
           v == Larger(m.used, d.used)
           w == IF d.used > m.used THEN d.fails ELSE m.fails
<1>1. u \in Nat /\ v \in Nat /\ w \in Nat
  BY DEF Backed, Manifest, Larger
<1>2. Merge(m, d) = [m EXCEPT !.uses = u, !.used = v, !.fails = w]
  BY DEF Merge
<1> HIDE DEF u, v, w
<1> QED BY <1>1, <1>2 DEF Backed, Manifest

LEMMA AppliedBacked ==
  ASSUME NEW t \in Tool, NEW m \in Backed(t), NEW ok \in BOOLEAN, done.uses \in Nat
  PROVE  Applied(m, ok) \in Backed(t)
<1> DEFINE n    == done.uses + 1
           uses == m.uses + 1
           fails == IF ok THEN 0 ELSE m.fails + 1
           safety == IF ~ ok /\ fails >= Threshold /\ m.safety = "passed" THEN "quarantined"
                     ELSE m.safety
<1>1. n \in Nat /\ uses \in Nat /\ fails \in Nat
  BY DEF Backed, Manifest
<1>2. safety \in {"unchecked", "passed", "failed", "quarantined"}
  BY DEF Backed, Manifest
<1>3. Applied(m, ok) = [m EXCEPT !.used = n, !.uses = uses, !.fails = fails, !.safety = safety]
  BY DEF Applied
<1> HIDE DEF n, uses, fails, safety
<1> QED BY <1>1, <1>2, <1>3 DEF Backed, Manifest

LEMMA LoadedSound ==
  ASSUME Sound(disk), NEW memory, Sound(memory)
  PROVE  Sound(Loaded(memory))
BY DEF Sound, Loaded, Backed

LEMMA SavedSound ==
  ASSUME Sound(disk), NEW memory, Sound(memory)
  PROVE  Sound(Saved(memory))
<1>1. ASSUME NEW t \in Tool
      PROVE  Saved(memory)[t] \in Backed(t)
  BY MergedBacked DEF Sound, Saved, Backed
<1>2. Saved(memory) = [t \in Tool |-> Saved(memory)[t]]
  BY DEF Saved
<1> QED BY <1>1, <1>2 DEF Sound, Backed

LEMMA SetSound ==
  ASSUME NEW tools, Sound(tools), NEW t \in Tool, NEW m \in Backed(t)
  PROVE  Sound([tools EXCEPT ![t] = m])
BY DEF Sound, Backed

LEMMA SaveSound ==
  ASSUME Sound(disk), NEW memory, Sound(memory), Save(memory)
  PROVE  Sound(disk')
BY SavedSound DEF Save

----------------------------------------------------------------------------
(***************************************************************************)
(* The steps of a task.  What a step puts anywhere is backed by the reviews *)
(* there have been before it.                                               *)
(***************************************************************************)
LEMMA TaskStep ==
  ASSUME Inductive, NEW p \in Task, Rest', reviewed' = reviewed,
         Sound(disk'),
         NEW memory, Sound(memory), mem' = [mem EXCEPT ![p] = memory],
         NEW f, SoundFlow(f), flow' = [flow EXCEPT ![p] = f]
  PROVE  Inductive'
<1>1. Sound(disk)'
  BY DEF Sound, Backed
<1>2. mem' \in [Task -> [Tool -> Manifest]] /\ \A q \in Task : mem'[q] = IF q = p THEN memory ELSE mem[q]
  BY DEF Inductive, Sound
<1>3. flow' \in [Task -> FlowState] /\ \A q \in Task : flow'[q] = IF q = p THEN f ELSE flow[q]
  BY DEF Inductive, SoundFlow
<1>4. \A q \in Task : Sound(mem'[q]) /\ SoundFlow(flow'[q])
  BY <1>2, <1>3 DEF Inductive
<1>5. (\A q \in Task : Sound(mem[q]) /\ SoundFlow(flow[q]))'
  BY <1>4 DEF Sound, SoundFlow, Backed
<1> QED BY <1>1, <1>2, <1>3, <1>5 DEF Inductive

LEMMA EndSound ==
  ASSUME Inductive, NEW p \in Task, NEW o \in {"open", "ready", "unresolved"}
  PROVE  SoundFlow([flow[p] EXCEPT !.pc = "idle", !.outcome = o, !.m = NoManifest,
                                   !.snap = NoManifests])
<1>1. flow[p] \in FlowState /\ flow[p].tool \in Tool
  BY DEF Inductive, FlowState
<1>2. NoManifest \in Backed(flow[p].tool) /\ NoManifest \in Manifest /\ NoManifests \in [Tool -> Manifest]
  BY <1>1, BlankBacked, BlankSound DEF Sound, Backed
<1> QED BY <1>1, <1>2, BlankSound DEF SoundFlow, FlowState

\* The parts of the invariant a step of task p starts from.
LEMMA Given ==
  ASSUME Inductive, NEW p \in Task
  PROVE  /\ Rest /\ Sound(disk) /\ Sound(mem[p]) /\ SoundFlow(flow[p])
         /\ mem = [mem EXCEPT ![p] = mem[p]] /\ flow = [flow EXCEPT ![p] = flow[p]]
         /\ flow[p] \in FlowState /\ flow[p].tool \in Tool
         /\ \A t \in Tool : mem[p][t] \in Backed(t) /\ mem[p][t] \in Manifest
         /\ flow[p].m \in Backed(flow[p].tool)
         /\ flow[p].attempt \in Nat
BY DEF Inductive, SoundFlow, Sound, FlowState

LEMMA EndFlow ==
  ASSUME Inductive, NEW p \in Task, NEW o \in {"open", "ready", "unresolved"}, End(p, o)
  PROVE  \E f : SoundFlow(f) /\ flow' = [flow EXCEPT ![p] = f]
<1> DEFINE f == [flow[p] EXCEPT !.pc = "idle", !.outcome = o, !.m = NoManifest,
                                !.snap = NoManifests]
<1>1. flow' = [flow EXCEPT ![p] = f]
  BY Given DEF End, Inductive
<1>2. SoundFlow(f)
  BY EndSound
<1> HIDE DEF f
<1> QED BY <1>1, <1>2

\* Places in the creation of a tool.
Place == {"idle", "create", "fix", "save", "sync", "check", "review", "verify", "register"}

LEMMA MovedSound ==
  ASSUME NEW f, SoundFlow(f), NEW loc \in Place, NEW m \in Backed(f.tool), NEW n \in Nat
  PROVE  /\ SoundFlow([f EXCEPT !.pc = loc])
         /\ SoundFlow([f EXCEPT !.pc = loc, !.m = m])
         /\ SoundFlow([f EXCEPT !.pc = loc, !.attempt = n])
         /\ SoundFlow([f EXCEPT !.pc = loc, !.snap = NoManifests])
<1>1. f \in FlowState /\ f.tool \in Tool /\ m \in Manifest
  BY DEF SoundFlow, FlowState, Backed
<1>2. SoundFlow([f EXCEPT !.pc = loc])
  BY <1>1 DEF SoundFlow, FlowState, Place
<1>3. SoundFlow([f EXCEPT !.pc = loc, !.m = m])
  BY <1>1 DEF SoundFlow, FlowState, Place
<1>4. SoundFlow([f EXCEPT !.pc = loc, !.attempt = n])
  BY <1>1 DEF SoundFlow, FlowState, Place
<1>5. SoundFlow([f EXCEPT !.pc = loc, !.snap = NoManifests])
  <2>1. NoManifests \in [Tool -> Manifest]
    BY BlankSound DEF Sound
  <2> QED BY <1>1, <2>1, BlankSound DEF SoundFlow, FlowState, Place
<1> QED BY <1>2, <1>3, <1>4, <1>5

LEMMA LeftPlaced ==
  ASSUME NEW m
  PROVE  Left(m) \in Place
BY DEF Left, Place

LEMMA NewTaskStep ==
  ASSUME Inductive, NEW p \in Task, NewTask(p)
  PROVE  Inductive'
<1>1. Rest' /\ reviewed' = reviewed /\ disk' = disk /\ mem' = [mem EXCEPT ![p] = NoManifests] /\ flow' = flow
  BY Given DEF NewTask, Rest
<1> QED BY <1>1, Given, BlankSound, TaskStep

LEMMA NeedToolStep ==
  ASSUME Inductive, NEW p \in Task, NEW t \in Tool, NeedTool(p, t)
  PROVE  Inductive'
<1> DEFINE memory == Loaded(mem[p])
           m == mem'[p][t]
           f == [pc      |-> IF Ready(m) THEN "idle" ELSE IF Has(m) THEN "check" ELSE "create",
                 outcome |-> IF Ready(m) THEN "ready" ELSE "open",
                 tool |-> t, attempt |-> 0, m |-> NoManifest, snap |-> NoManifests]
<1>1. Rest' /\ reviewed' = reviewed /\ disk' = disk /\ mem' = [mem EXCEPT ![p] = memory]
      /\ flow' = [flow EXCEPT ![p] = f]
  BY Given DEF NeedTool, Rest
<1>2. Sound(memory)
  BY Given, LoadedSound
<1>3. SoundFlow(f)
  <2>1. NoManifest \in Backed(t) /\ NoManifest \in Manifest /\ NoManifests \in [Tool -> Manifest]
    BY BlankBacked, BlankSound DEF Sound, Backed
  <2> QED BY <2>1, BlankSound DEF SoundFlow, FlowState
<1> HIDE DEF memory, f
<1> QED BY <1>1, <1>2, <1>3, Given, TaskStep

LEMMA AgentWritesStep ==
  ASSUME Inductive, NEW p \in Task, AgentWrites(p)
  PROVE  Inductive'
<1> DEFINE t == flow[p].tool
<1>1. t \in Tool
  BY Given
<1>2. PICK c \in Code :
        /\ source' = [source EXCEPT ![t] = c]
        /\ \/ flow' = [flow EXCEPT ![p].pc = "save", ![p].snap = [disk EXCEPT ![t] = Fresh(c)]]
           \/ End(p, "unresolved")
  BY DEF AgentWrites
<1>3. /\ done' = [done EXCEPT !.writes = done.writes + 1]
      /\ UNCHANGED <<disk, mem, reviewed, counted>>
  BY DEF AgentWrites, Do
<1>4. Rest'
  BY <1>2, <1>3, Given DEF Rest
<1>5. CASE End(p, "unresolved")
  BY <1>3, <1>4, <1>5, EndFlow, Given, TaskStep
<1>6. CASE flow' = [flow EXCEPT ![p].pc = "save", ![p].snap = [disk EXCEPT ![t] = Fresh(c)]]
  <2> DEFINE snap == [disk EXCEPT ![t] = Fresh(c)]
             f == [flow[p] EXCEPT !.pc = "save", !.snap = snap]
  <2>1. Sound(snap) /\ snap \in [Tool -> Manifest]
    BY <1>1, Given, BlankBacked, SetSound DEF Sound
  <2>2. flow' = [flow EXCEPT ![p] = f]
    BY <1>6, Given DEF Inductive
  <2> HIDE DEF snap
  <2>3. SoundFlow(f)
    BY <2>1, Given DEF SoundFlow, FlowState
  <2> HIDE DEF f
  <2> QED BY <1>3, <1>4, <2>2, <2>3, Given, TaskStep
<1> QED BY <1>2, <1>5, <1>6

LEMMA AgentSavesStep ==
  ASSUME Inductive, NEW p \in Task, AgentSaves(p)
  PROVE  Inductive'
<1> DEFINE f == [flow[p] EXCEPT !.pc = "sync", !.snap = NoManifests]
<1>1. Rest' /\ reviewed' = reviewed /\ mem' = mem /\ flow' = [flow EXCEPT ![p] = f]
  BY Given DEF AgentSaves, Rest, Inductive
<1>2. Sound(disk')
  BY Given, SaveSound DEF AgentSaves, SoundFlow
<1>3. SoundFlow(f)
  BY Given, MovedSound DEF Place
<1> HIDE DEF f
<1> QED BY <1>1, <1>2, <1>3, Given, TaskStep

LEMMA AgentFailsStep ==
  ASSUME Inductive, NEW p \in Task, AgentFails(p)
  PROVE  Inductive'
<1>1. Rest' /\ UNCHANGED <<disk, mem, reviewed>>
  BY Given DEF AgentFails, Rest
<1>2. CASE End(p, "unresolved")
  BY <1>1, <1>2, EndFlow, Given, TaskStep
<1>3. CASE Goto(p, "sync")
  <2> DEFINE f == [flow[p] EXCEPT !.pc = "sync"]
  <2>1. flow' = [flow EXCEPT ![p] = f]
    BY <1>3, Given DEF Goto, Inductive
  <2>2. SoundFlow(f)
    BY Given, MovedSound DEF Place
  <2> HIDE DEF f
  <2> QED BY <1>1, <2>1, <2>2, Given, TaskStep
<1> QED BY <1>2, <1>3 DEF AgentFails

LEMMA SyncStep ==
  ASSUME Inductive, NEW p \in Task, Sync(p)
  PROVE  Inductive'
<1> DEFINE memory == Loaded(mem[p])
           m == mem'[p][flow[p].tool]
<1>1. Rest' /\ UNCHANGED <<disk, reviewed>> /\ mem' = [mem EXCEPT ![p] = memory]
  BY Given DEF Sync, Rest
<1>2. Sound(memory)
  BY Given, LoadedSound
<1>3. m \in Backed(flow[p].tool)
  BY <1>1, <1>2, Given DEF Sound, Inductive
<1> HIDE DEF memory, m
<1>4. CASE End(p, "unresolved")
  BY <1>1, <1>2, <1>4, EndFlow, TaskStep, Given
<1>5. CASE Goto(p, "check")
  <2> DEFINE f == [flow[p] EXCEPT !.pc = "check"]
  <2>1. flow' = [flow EXCEPT ![p] = f]
    BY <1>5, Given DEF Goto, Inductive
  <2>2. SoundFlow(f)
    BY Given, MovedSound DEF Place
  <2> HIDE DEF f
  <2> QED BY <1>1, <1>2, <2>1, <2>2, Given, TaskStep
<1>6. CASE flow' = [flow EXCEPT ![p].pc = Left(m), ![p].m = m]
  <2> DEFINE f == [flow[p] EXCEPT !.pc = Left(m), !.m = m]
  <2>1. flow' = [flow EXCEPT ![p] = f]
    BY <1>6, Given DEF Inductive
  <2>2. SoundFlow(f)
    BY <1>3, Given, MovedSound, LeftPlaced
  <2> HIDE DEF f
  <2> QED BY <1>1, <1>2, <2>1, <2>2, Given, TaskStep
<1> QED BY <1>4, <1>5, <1>6 DEF Sync, m

LEMMA CheckSafetyStep ==
  ASSUME Inductive, NEW p \in Task, CheckSafety(p)
  PROVE  Inductive'
<1> DEFINE t == flow[p].tool
           old == mem[p][t]
           new == [old EXCEPT !.safety = IF source[t] \in Safe THEN "passed" ELSE "failed"]
<1>1. t \in Tool /\ old \in Backed(t) /\ new \in Backed(t)
  BY Given, MarkedBacked
<1>2. Rest' /\ UNCHANGED reviewed
  BY Given DEF CheckSafety, Rest
<1>3. PICK memory : Sound(memory) /\ mem' = [mem EXCEPT ![p] = memory] /\ Sound(disk')
  <2>1. CASE UNCHANGED <<mem, disk>>
    BY <2>1, Given
  <2>2. CASE mem' = [mem EXCEPT ![p][t] = new] /\ Save(mem'[p])
    <3> DEFINE memory == [mem[p] EXCEPT ![t] = new]
    <3>1. Sound(memory)
      BY <1>1, Given, SetSound
    <3>2. mem' = [mem EXCEPT ![p] = memory] /\ mem'[p] = memory
      BY <2>2, Given DEF Inductive
    <3>3. Sound(disk')
      BY <2>2, <3>1, <3>2, Given, SaveSound
    <3> HIDE DEF memory
    <3> QED BY <3>1, <3>2, <3>3
  <2> QED BY <2>1, <2>2 DEF CheckSafety
<1>4. mem'[p][t] \in Backed(t)
  BY <1>1, <1>3, Given DEF Inductive, Sound
<1> HIDE DEF t, old, new
<1>5. CASE End(p, "unresolved")
  BY <1>2, <1>3, <1>5, EndFlow, TaskStep, Given
<1>6. CASE \E m \in Backed(t) : flow' = [flow EXCEPT ![p].pc = Left(m), ![p].m = m]
  <2>1. PICK m \in Backed(t) : flow' = [flow EXCEPT ![p].pc = Left(m), ![p].m = m]
    BY <1>6
  <2> DEFINE f == [flow[p] EXCEPT !.pc = Left(m), !.m = m]
  <2>2. flow' = [flow EXCEPT ![p] = f]
    BY <2>1, Given DEF Inductive
  <2>3. SoundFlow(f)
    BY Given, MovedSound, LeftPlaced DEF t
  <2> HIDE DEF f
  <2> QED BY <1>2, <1>3, <2>2, <2>3, Given, TaskStep
<1>7. \/ End(p, "unresolved")
      \/ flow' = [flow EXCEPT ![p].pc = Left(old), ![p].m = old]
      \/ flow' = [flow EXCEPT ![p].pc = Left(mem'[p][t]), ![p].m = mem'[p][t]]
  BY DEF CheckSafety, t, old
<1> QED BY <1>1, <1>4, <1>5, <1>6, <1>7

\* A review adds to what backs an approval, and never takes from it.
LEMMA MoreBacked ==
  ASSUME \A t \in Tool : reviewed[t] \subseteq reviewed'[t]
  PROVE  \A t \in Tool : \A m \in Backed(t) :
           m \in Manifest /\ (m.review = "approved" => m.hash \in reviewed'[t])
BY DEF Backed

LEMMA ReviewStep ==
  ASSUME Inductive, NEW p \in Task, Review(p)
  PROVE  Inductive'
<1> DEFINE t == flow[p].tool
           n == flow[p].attempt + 1
<1>1. Rest' /\ UNCHANGED <<disk, mem>> /\ n \in Nat /\ t \in Tool
  BY Given DEF Review, Rest
<1>2. CASE /\ UNCHANGED reviewed
           /\ \/ End(p, "unresolved")
              \/ flow' = [flow EXCEPT ![p].pc = "fix", ![p].attempt = n]
  <2>1. CASE End(p, "unresolved")
    BY <1>1, <1>2, <2>1, EndFlow, TaskStep, Given
  <2>2. CASE flow' = [flow EXCEPT ![p].pc = "fix", ![p].attempt = n]
    <3> DEFINE f == [flow[p] EXCEPT !.pc = "fix", !.attempt = n]
    <3>1. flow' = [flow EXCEPT ![p] = f]
      BY <2>2, Given DEF Inductive
    <3> HIDE DEF n
    <3>2. SoundFlow(f)
      BY <1>1, Given, MovedSound DEF Place
    <3> HIDE DEF f
    <3> QED BY <1>1, <1>2, <3>1, <3>2, Given, TaskStep
  <2> QED BY <1>2, <2>1, <2>2
<1>3. CASE LET m == [flow[p].m EXCEPT !.review = "approved"]
           IN /\ flow' = [flow EXCEPT ![p].pc = Left(m), ![p].m = m, ![p].attempt = n]
              /\ reviewed' = [reviewed EXCEPT ![t] = @ \cup {m.hash}]
  <2> DEFINE m == [flow[p].m EXCEPT !.review = "approved"]
             f == [flow[p] EXCEPT !.pc = Left(m), !.m = m, !.attempt = n]
  <2>1. m \in Manifest /\ m.hash \in Code \cup {NoFile}
    BY Given DEF Backed, Manifest
  <2>2. /\ reviewed' \in [Tool -> SUBSET (Code \cup {NoFile})]
        /\ \A u \in Tool : reviewed[u] \subseteq reviewed'[u]
        /\ m.hash \in reviewed'[t]
    BY <1>1, <1>3, <2>1 DEF Inductive
  <2>3. \A u \in Tool : \A o \in Backed(u) :
          o \in Manifest /\ (o.review = "approved" => o.hash \in reviewed'[u])
    BY <2>2, MoreBacked
  <2>4. flow' = [flow EXCEPT ![p] = f]
    BY <1>3, Given DEF Inductive
  <2> HIDE DEF m, n
  <2>5. f \in FlowState /\ f.tool = t /\ f.m = m /\ f.snap = flow[p].snap
    BY <1>1, <2>1, Given, LeftPlaced DEF FlowState, Place
  <2> HIDE DEF f
  <2>6. flow' \in [Task -> FlowState] /\ \A q \in Task : flow'[q] = IF q = p THEN f ELSE flow[q]
    BY <2>4, <2>5 DEF Inductive
  <2>7. Sound(disk)' /\ (\A q \in Task : Sound(mem[q]))'
    BY <1>1, <2>3 DEF Sound, Backed, Inductive
  <2>8. ASSUME NEW q \in Task
        PROVE  SoundFlow(flow[q])'
    <3>1. SoundFlow(flow[q]) /\ SoundFlow(flow[p])
      BY DEF Inductive
    <3>2. flow'[q].snap = flow[q].snap /\ flow'[q].tool = flow[q].tool
      BY <2>5, <2>6
    <3>3. Sound(flow[q].snap)'
      BY <2>3, <3>1, <3>2 DEF SoundFlow, Sound, Backed
    <3>4. (flow[q].m \in Backed(flow[q].tool))'
      <4>1. CASE q = p
        BY <2>1, <2>2, <2>5, <2>6, <4>1 DEF Backed
      <4>2. CASE q # p
        <5>1. flow[q].tool \in Tool /\ flow[q].m \in Backed(flow[q].tool)
          BY Given
        <5> QED BY <2>3, <2>6, <4>2, <5>1 DEF Backed
      <4> QED BY <4>1, <4>2
    <3> QED BY <2>6, <3>3, <3>4 DEF SoundFlow
  <2> QED BY <1>1, <2>2, <2>6, <2>7, <2>8 DEF Inductive
<1> QED BY <1>2, <1>3 DEF Review

LEMMA VerifyStep ==
  ASSUME Inductive, NEW p \in Task, Verify(p)
  PROVE  Inductive'
<1>1. Rest' /\ UNCHANGED <<disk, mem, reviewed>>
  BY Given DEF Verify, Rest
<1>2. CASE End(p, "unresolved")
  BY <1>1, <1>2, EndFlow, TaskStep, Given
<1>3. CASE flow' = [flow EXCEPT ![p].pc = "register", ![p].m = [@ EXCEPT !.verified = TRUE]]
  <2> DEFINE m == [flow[p].m EXCEPT !.verified = TRUE]
             f == [flow[p] EXCEPT !.pc = "register", !.m = m]
  <2>1. flow' = [flow EXCEPT ![p] = f]
    BY <1>3, Given DEF Inductive
  <2>2. m \in Backed(flow[p].tool)
    BY Given, MarkedBacked
  <2> HIDE DEF m
  <2>3. SoundFlow(f)
    BY <2>2, Given, MovedSound DEF Place
  <2> HIDE DEF f
  <2> QED BY <1>1, <2>1, <2>3, Given, TaskStep
<1> QED BY <1>2, <1>3 DEF Verify

LEMMA RegisterStep ==
  ASSUME Inductive, NEW p \in Task, Register(p)
  PROVE  Inductive'
<1> DEFINE t == flow[p].tool
           m == flow[p].m
           memory == [mem[p] EXCEPT ![t] = m]
<1>1. Rest' /\ UNCHANGED reviewed /\ t \in Tool /\ m \in Backed(t)
  BY Given DEF Register, Rest
<1>2. End(p, "unresolved") \/ End(p, "ready")
  BY DEF Register
<1>3. Sound(memory)
  BY <1>1, Given, SetSound
<1>4. CASE UNCHANGED <<mem, disk>>
  BY <1>1, <1>2, <1>4, EndFlow, TaskStep, Given
<1>5. CASE mem' = [mem EXCEPT ![p][t] = m] /\ (disk' = Saved(mem'[p]) \/ UNCHANGED disk)
  <2>1. mem' = [mem EXCEPT ![p] = memory] /\ mem'[p] = memory
    BY <1>5, Given DEF Inductive
  <2>2. Sound(disk')
    BY <1>3, <1>5, <2>1, Given, SavedSound
  <2> HIDE DEF memory
  <2> QED BY <1>1, <1>2, <1>3, <2>1, <2>2, EndFlow, TaskStep, Given
<1> QED BY <1>4, <1>5 DEF Register, Candidate

LEMMA UseStep ==
  ASSUME Inductive, NEW p \in Task, NEW t \in Tool, Use(p, t)
  PROVE  Inductive'
<1>1. UNCHANGED <<source, flow, reviewed>> /\ done' = [done EXCEPT !.uses = done.uses + 1]
      /\ done.uses \in Nat
  BY Given DEF Use, Do, Rest
<1>2. PICK ok \in BOOLEAN :
        \/ LET new == Applied(Saved(mem[p])[t], ok)
           IN  /\ disk' = [Saved(mem[p]) EXCEPT ![t] = new]
               /\ mem' = [mem EXCEPT ![p][t] = new]
               /\ counted' = [counted EXCEPT ![t] = IF @ < 0 \/ ~Has(disk[t]) THEN -1 ELSE @ + 1]
        \/ /\ mem' = [mem EXCEPT ![p][t] = Applied(mem[p][t], ok)]
           /\ counted' = [counted EXCEPT ![t] = -1]
           /\ UNCHANGED disk
  BY DEF Use
<1>3. Rest'
  <2>1. counted' \in [Tool -> Int]
    BY <1>2, Given DEF Rest
  <2> QED BY <1>1, <2>1, Given DEF Rest
<1>4. Sound(Saved(mem[p]))
  BY Given, SavedSound
<1>5. PICK new \in Backed(t) :
        /\ mem' = [mem EXCEPT ![p][t] = new]
        /\ disk' = disk \/ disk' = [Saved(mem[p]) EXCEPT ![t] = new]
  <2>1. Saved(mem[p])[t] \in Backed(t) /\ mem[p][t] \in Backed(t)
    BY <1>4, Given DEF Sound
  <2>2. Applied(Saved(mem[p])[t], ok) \in Backed(t) /\ Applied(mem[p][t], ok) \in Backed(t)
    BY <1>1, <2>1, AppliedBacked
  <2> QED BY <1>2, <2>2
<1>6. Sound(disk')
  BY <1>4, <1>5, Given, SetSound
<1> DEFINE memory == [mem[p] EXCEPT ![t] = new]
<1>7. Sound(memory)
  BY <1>5, Given, SetSound
<1>8. mem' = [mem EXCEPT ![p] = memory]
  BY <1>5, Given DEF Inductive
<1> HIDE DEF memory
<1> QED BY <1>1, <1>3, <1>6, <1>7, <1>8, Given, TaskStep

----------------------------------------------------------------------------
(***************************************************************************)
(* The steps that only touch the files, and the initial state.              *)
(***************************************************************************)
LEMMA FileStep ==
  ASSUME Inductive, Rest', UNCHANGED <<mem, flow, reviewed>>, Sound(disk')
  PROVE  Inductive'
BY DEF Inductive, Sound, SoundFlow, Backed

LEMMA SweepStep ==
  ASSUME Inductive, Sweep
  PROVE  Inductive'
<1>1. Rest /\ Sound(disk) /\ UNCHANGED <<mem, flow, reviewed>>
  BY DEF Inductive, Sweep
<1>2. Rest'
  <2>1. done' \in [writes : Nat, uses : Nat, admin : Nat]
    BY <1>1 DEF Sweep, Do, Rest
  <2>2. source' \in [Tool -> Code \cup {NoFile}] /\ counted' \in [Tool -> Int]
    BY <1>1 DEF Sweep, Rest
  <2> QED BY <2>1, <2>2 DEF Rest
<1>3. ASSUME NEW t \in Tool
      PROVE  NoManifest \in Backed(t) /\ disk[t] \in Backed(t)
             /\ [disk[t] EXCEPT !.deprecated = TRUE] \in Backed(t)
  BY <1>1, BlankBacked, MarkedBacked DEF Sound
<1>4. Sound(disk')
  <2>1. PICK old \in SUBSET Tool :
          LET due  == {t \in old : Has(disk[t]) /\ ~disk[t].pinned}
              gone == {t \in due : Archivable(disk[t])}
          IN  \/ disk' = [t \in Tool |-> IF t \in gone THEN NoManifest
                                        ELSE IF t \in due THEN [disk[t] EXCEPT !.deprecated = TRUE]
                                        ELSE disk[t]]
              \/ disk' = disk
    BY DEF Sweep
  <2>2. ASSUME NEW t \in Tool
        PROVE  disk'[t] \in {NoManifest, disk[t], [disk[t] EXCEPT !.deprecated = TRUE]}
    BY <2>1
  <2>3. disk' = [t \in Tool |-> disk'[t]]
    BY <1>1, <2>1 DEF Sound
  <2>4. \A t \in Tool : disk'[t] \in Backed(t)
    BY <1>3, <2>2
  <2> QED BY <2>3, <2>4 DEF Sound, Backed
<1> QED BY <1>1, <1>2, <1>4, FileStep

LEMMA AdministerStep ==
  ASSUME Inductive, Administer
  PROVE  Inductive'
<1>1. Rest /\ Sound(disk) /\ UNCHANGED <<mem, flow, reviewed>>
  BY DEF Inductive, Administer
<1>2. Rest'
  BY <1>1 DEF Administer, Do, Rest
<1>3. PICK t \in Tool :
        \/ \E pinned \in BOOLEAN : disk' = [disk EXCEPT ![t].pinned = pinned]
        \/ disk' = [disk EXCEPT ![t].safety = "passed", ![t].fails = 0]
        \/ disk' = [disk EXCEPT ![t].deprecated = TRUE]
  BY DEF Administer
<1>4. disk[t] \in Backed(t) /\ disk \in [Tool -> Manifest]
  BY <1>1 DEF Sound
<1>5. CASE \E pinned \in BOOLEAN : disk' = [disk EXCEPT ![t].pinned = pinned]
  <2>1. PICK pinned \in BOOLEAN : disk' = [disk EXCEPT ![t].pinned = pinned]
    BY <1>5
  <2> DEFINE m == [disk[t] EXCEPT !.pinned = pinned]
  <2>2. disk' = [disk EXCEPT ![t] = m]
    BY <1>4, <2>1
  <2>3. m \in Backed(t)
    BY <1>4, MarkedBacked
  <2> HIDE DEF m
  <2> QED BY <1>1, <1>2, <2>2, <2>3, SetSound, FileStep
<1>6. CASE disk' = [disk EXCEPT ![t].safety = "passed", ![t].fails = 0]
  <2> DEFINE m == [disk[t] EXCEPT !.safety = "passed", !.fails = 0]
  <2>1. disk' = [disk EXCEPT ![t] = m]
    BY <1>4, <1>6
  <2>2. m \in Backed(t)
    BY <1>4, MarkedBacked
  <2> HIDE DEF m
  <2> QED BY <1>1, <1>2, <2>1, <2>2, SetSound, FileStep
<1>7. CASE disk' = [disk EXCEPT ![t].deprecated = TRUE]
  <2> DEFINE m == [disk[t] EXCEPT !.deprecated = TRUE]
  <2>1. disk' = [disk EXCEPT ![t] = m]
    BY <1>4, <1>7
  <2>2. m \in Backed(t)
    BY <1>4, MarkedBacked
  <2> HIDE DEF m
  <2> QED BY <1>1, <1>2, <2>1, <2>2, SetSound, FileStep
<1> QED BY <1>3, <1>5, <1>6, <1>7

LEMMA InitInductive == Init => Inductive
<1> SUFFICES ASSUME Init PROVE Inductive
  OBVIOUS
<1>1. Sound(NoManifests)
  BY BlankSound
<1>2. (CHOOSE t \in Tool : TRUE) \in Tool
  BY ToolRegistryAssumption
<1>3. ASSUME NEW p \in Task
      PROVE  SoundFlow(flow[p]) /\ flow[p] \in FlowState
  <2> DEFINE t == CHOOSE u \in Tool : TRUE
  <2>1. flow[p] = [pc |-> "idle", outcome |-> "open", tool |-> t, attempt |-> 0,
                   m |-> NoManifest, snap |-> NoManifests]
    BY DEF Init
  <2> HIDE DEF t
  <2>2. t \in Tool /\ NoManifest \in Backed(t) /\ NoManifest \in Manifest
        /\ NoManifests \in [Tool -> Manifest]
    BY <1>1, <1>2, BlankBacked DEF t, Sound, Backed
  <2> QED BY <1>1, <2>1, <2>2 DEF SoundFlow, FlowState
<1>4. Rest /\ reviewed \in [Tool -> SUBSET (Code \cup {NoFile})]
  BY DEF Init, Rest
<1>5. flow = [p \in Task |-> flow[p]] /\ mem = [p \in Task |-> NoManifests] /\ disk = NoManifests
  BY DEF Init
<1> QED BY <1>1, <1>3, <1>4, <1>5 DEF Inductive, Sound

\* Every approval anywhere is backed by a review of that source.
THEOREM InductiveInvariant == Spec => []Inductive
<1>1. Inductive /\ [Next]_vars => Inductive'
  <2> SUFFICES ASSUME Inductive, [Next]_vars PROVE Inductive'
    OBVIOUS
  <2>1. CASE \E p \in Task : NewTask(p) \/ Flow(p) \/ \E t \in Tool : NeedTool(p, t) \/ Use(p, t)
    BY <2>1, NewTaskStep, NeedToolStep, UseStep, AgentWritesStep, AgentSavesStep, AgentFailsStep,
       SyncStep, CheckSafetyStep, ReviewStep, VerifyStep, RegisterStep DEF Flow
  <2>2. CASE Sweep \/ Administer
    BY <2>2, SweepStep, AdministerStep
  <2>3. CASE UNCHANGED vars
    BY <2>3 DEF vars, Inductive, Rest, Sound, SoundFlow, Backed
  <2> QED BY <2>1, <2>2, <2>3 DEF Next
<1> QED BY InitInductive, <1>1, PTL DEF Spec

\* Every variable keeps its type, for any tools and faults.
THEOREM TypeCorrect == Spec => []TypeOK
<1>1. Inductive => TypeOK
  BY DEF Inductive, TypeOK, Rest, Sound
<1> QED BY InductiveInvariant, <1>1, PTL

\* Whatever registries are written back over each other, a source counts as
\* approved only after a review of that very source (tool_registry.py,
\* execution_tool_gap.py).
THEOREM ApprovalsReviewed == Spec => []ApprovedWasReviewed
<1>1. Inductive => ApprovedWasReviewed
  BY DEF Inductive, ApprovedWasReviewed, Sound, Backed
<1> QED BY InductiveInvariant, <1>1, PTL

----------------------------------------------------------------------------
(***************************************************************************)
(* The count of uses.  As long as no lock timed out and no archive broke    *)
(* off, the file knows of every use; every copy of it knows of as many or   *)
(* fewer, so that a copy that is written back takes none away.              *)
(***************************************************************************)
KnowsLess(tools) ==
  /\ tools \in [Tool -> Manifest]
  /\ \A t \in Tool : counted[t] >= 0 => tools[t].uses <= disk[t].uses

FlowKnowsLess(f) ==
  /\ f \in FlowState /\ KnowsLess(f.snap)
  /\ counted[f.tool] >= 0 => f.m.uses <= disk[f.tool].uses

CopiesKnowLess ==
  /\ UsesCounted
  /\ \A t \in Tool : ~ Has(disk[t]) => disk[t].uses = 0
  /\ \A p \in Task : KnowsLess(mem[p]) /\ FlowKnowsLess(flow[p])

Accounted == Inductive /\ CopiesKnowLess

LEMMA Typed ==
  ASSUME Inductive
  PROVE  /\ \A t \in Tool : disk[t] \in Manifest /\ disk[t].uses \in Nat /\ counted[t] \in Int
         /\ NoManifest \in Manifest /\ NoManifest.uses = 0 /\ NoManifests \in [Tool -> Manifest]
         /\ \A t \in Tool : NoManifests[t].uses = 0
         /\ disk \in [Tool -> Manifest]
<1>1. NoManifest \in Manifest /\ NoManifest.uses = 0
  BY BlankBacked, ToolRegistryAssumption DEF Backed, NoManifest
<1> QED BY <1>1 DEF Inductive, Rest, Sound, Manifest, NoManifests

LEMMA SavedCounts ==
  ASSUME Accounted, NEW tools, KnowsLess(tools), NEW t \in Tool
  PROVE  /\ Saved(tools)[t] \in Manifest
         /\ counted[t] >= 0 => Saved(tools)[t].uses = disk[t].uses
         /\ ~ Has(Saved(tools)[t]) => Saved(tools)[t].uses = 0
         /\ Has(tools[t]) => Has(Saved(tools)[t])
<1> DEFINE m == tools[t]
           d == disk[t]
<1>1. /\ m \in Manifest /\ d \in Manifest /\ m.uses \in Nat /\ d.uses \in Nat
      /\ m.used \in Nat /\ d.used \in Nat /\ m.fails \in Nat /\ d.fails \in Nat
      /\ counted[t] >= 0 => m.uses <= d.uses
      /\ ~ Has(d) => d.uses = 0
  BY Typed DEF Accounted, CopiesKnowLess, KnowsLess, Manifest
<1>2. Saved(tools)[t] = IF ~ Has(m) THEN d ELSE IF Has(d) THEN Merge(m, d) ELSE m
  BY DEF Saved
<1> HIDE DEF m, d
<1>3. CASE Has(m) /\ Has(d)
  <2> DEFINE u == Larger(m.uses, d.uses)
             v == Larger(m.used, d.used)
             w == IF d.used > m.used THEN d.fails ELSE m.fails
  <2>1. u \in Nat /\ v \in Nat /\ w \in Nat /\ (m.uses <= d.uses => u = d.uses)
    BY <1>1 DEF Larger
  <2>2. Merge(m, d) = [m EXCEPT !.uses = u, !.used = v, !.fails = w]
    BY DEF Merge
  <2> HIDE DEF u, v, w
  <2>3. Merge(m, d) \in Manifest /\ Merge(m, d).uses = u /\ Merge(m, d).hash = m.hash
    BY <1>1, <2>1, <2>2 DEF Manifest
  <2> QED BY <1>1, <1>2, <1>3, <2>1, <2>3 DEF Has, d, m
<1>4. CASE ~ Has(m)
  BY <1>1, <1>2, <1>4 DEF d, m
<1>5. CASE Has(m) /\ ~ Has(d)
  BY <1>1, <1>2, <1>5 DEF d, m
<1> QED BY <1>3, <1>4, <1>5

LEMMA LoadedKnowsLess ==
  ASSUME Accounted, NEW tools, KnowsLess(tools)
  PROVE  KnowsLess(Loaded(tools))
BY Typed DEF Loaded, KnowsLess, Accounted

LEMMA SetKnowsLess ==
  ASSUME Accounted, NEW tools, KnowsLess(tools), NEW t \in Tool, NEW m \in Manifest,
         counted[t] >= 0 => m.uses <= disk[t].uses
  PROVE  KnowsLess([tools EXCEPT ![t] = m])
BY DEF KnowsLess

\* A step of task p that records no use.
LEMMA UnusedStep ==
  ASSUME Accounted, NEW p \in Task, counted' = counted,
         disk' = disk \/ \E tools : KnowsLess(tools) /\ disk' = Saved(tools),
         NEW memory, KnowsLess(memory), mem' = [mem EXCEPT ![p] = memory],
         NEW f, FlowKnowsLess(f), flow' = [flow EXCEPT ![p] = f]
  PROVE  CopiesKnowLess'
<1>1. ASSUME NEW t \in Tool
      PROVE  /\ counted[t] >= 0 => disk'[t].uses = disk[t].uses
             /\ ~ Has(disk'[t]) => disk'[t].uses = 0
  BY SavedCounts DEF Accounted, CopiesKnowLess
<1>2. \A q \in Task : KnowsLess(mem'[q]) /\ FlowKnowsLess(flow'[q])
  BY DEF Accounted, CopiesKnowLess, Inductive
<1>3. ASSUME NEW q \in Task
      PROVE  KnowsLess(mem[q])' /\ FlowKnowsLess(flow[q])'
  <2>1. flow'[q].tool \in Tool
    BY <1>2 DEF FlowKnowsLess, FlowState
  <2> QED BY <1>1, <1>2, <2>1 DEF KnowsLess, FlowKnowsLess
<1> QED BY <1>1, <1>3 DEF Accounted, CopiesKnowLess, UsesCounted

\* What a step of task p starts from, and the ends and places it may go to.
LEMMA KnownGiven ==
  ASSUME Accounted, NEW p \in Task
  PROVE  /\ KnowsLess(mem[p]) /\ FlowKnowsLess(flow[p]) /\ KnowsLess(NoManifests) /\ KnowsLess(disk)
         /\ mem = [mem EXCEPT ![p] = mem[p]] /\ flow = [flow EXCEPT ![p] = flow[p]]
         /\ flow[p] \in FlowState /\ flow[p].tool \in Tool /\ flow[p].m \in Manifest
         /\ flow[p].attempt \in Nat
         /\ \A t \in Tool : mem[p][t] \in Manifest
         /\ \A o \in {"open", "ready", "unresolved"} :
              FlowKnowsLess([flow[p] EXCEPT !.pc = "idle", !.outcome = o, !.m = NoManifest,
                                            !.snap = NoManifests])
<1>1. KnowsLess(mem[p]) /\ FlowKnowsLess(flow[p]) /\ flow[p] \in FlowState
  BY DEF Accounted, CopiesKnowLess, FlowKnowsLess
<1>2. KnowsLess(NoManifests) /\ KnowsLess(disk)
  BY Typed DEF Accounted, KnowsLess
<1>3. ASSUME NEW o \in {"open", "ready", "unresolved"}
      PROVE  FlowKnowsLess([flow[p] EXCEPT !.pc = "idle", !.outcome = o, !.m = NoManifest,
                                           !.snap = NoManifests])
  <2> DEFINE f == [flow[p] EXCEPT !.pc = "idle", !.outcome = o, !.m = NoManifest,
                                  !.snap = NoManifests]
  <2>1. /\ f \in FlowState /\ f.snap = NoManifests /\ f.m = NoManifest /\ f.tool = flow[p].tool
        /\ f.tool \in Tool
    BY <1>1, Typed DEF Accounted, FlowState
  <2> HIDE DEF f
  <2>2. FlowKnowsLess(f)
    BY <1>2, <2>1, Typed DEF Accounted, FlowKnowsLess
  <2> QED BY <2>2 DEF f
<1> QED BY <1>1, <1>2, <1>3 DEF Accounted, Inductive, FlowState, KnowsLess

LEMMA MovedKnowsLess ==
  ASSUME Accounted, NEW f, FlowKnowsLess(f), NEW loc \in Place, NEW n \in Nat, NEW m \in Manifest,
         counted[f.tool] >= 0 => m.uses <= disk[f.tool].uses, NEW snap, KnowsLess(snap)
  PROVE  /\ FlowKnowsLess([f EXCEPT !.pc = loc])
         /\ FlowKnowsLess([f EXCEPT !.pc = loc, !.m = m])
         /\ FlowKnowsLess([f EXCEPT !.pc = loc, !.m = m, !.attempt = n])
         /\ FlowKnowsLess([f EXCEPT !.pc = loc, !.attempt = n])
         /\ FlowKnowsLess([f EXCEPT !.pc = loc, !.snap = snap])
<1>1. f \in FlowState
  BY DEF FlowKnowsLess
<1>2. snap \in [Tool -> Manifest]
  BY DEF KnowsLess
<1>3. FlowKnowsLess([f EXCEPT !.pc = loc])
  BY <1>1 DEF FlowKnowsLess, FlowState, Place
<1>4. FlowKnowsLess([f EXCEPT !.pc = loc, !.m = m])
  BY <1>1 DEF FlowKnowsLess, FlowState, Place
<1>5. FlowKnowsLess([f EXCEPT !.pc = loc, !.m = m, !.attempt = n])
  BY <1>1 DEF FlowKnowsLess, FlowState, Place
<1>6. FlowKnowsLess([f EXCEPT !.pc = loc, !.attempt = n])
  BY <1>1 DEF FlowKnowsLess, FlowState, Place
<1>7. FlowKnowsLess([f EXCEPT !.pc = loc, !.snap = snap])
  BY <1>1, <1>2 DEF FlowKnowsLess, FlowState, Place
<1> QED BY <1>3, <1>4, <1>5, <1>6, <1>7

\* A step of task p that ends its flow.
LEMMA EndedStep ==
  ASSUME Accounted, NEW p \in Task, counted' = counted,
         disk' = disk \/ \E tools : KnowsLess(tools) /\ disk' = Saved(tools),
         NEW memory, KnowsLess(memory), mem' = [mem EXCEPT ![p] = memory],
         NEW o \in {"open", "ready", "unresolved"}, End(p, o)
  PROVE  CopiesKnowLess'
<1> DEFINE f == [flow[p] EXCEPT !.pc = "idle", !.outcome = o, !.m = NoManifest,
                                !.snap = NoManifests]
<1>1. flow' = [flow EXCEPT ![p] = f]
  BY DEF End, Accounted, Inductive
<1>2. FlowKnowsLess(f)
  BY KnownGiven
<1> HIDE DEF f
<1> QED BY <1>1, <1>2, UnusedStep

LEMMA NewTaskCounts ==
  ASSUME Accounted, NEW p \in Task, NewTask(p)
  PROVE  CopiesKnowLess'
BY KnownGiven, UnusedStep DEF NewTask

LEMMA NeedToolCounts ==
  ASSUME Accounted, NEW p \in Task, NEW t \in Tool, NeedTool(p, t)
  PROVE  CopiesKnowLess'
<1> DEFINE memory == Loaded(mem[p])
           m == mem'[p][t]
           f == [pc      |-> IF Ready(m) THEN "idle" ELSE IF Has(m) THEN "check" ELSE "create",
                 outcome |-> IF Ready(m) THEN "ready" ELSE "open",
                 tool |-> t, attempt |-> 0, m |-> NoManifest, snap |-> NoManifests]
<1>1. UNCHANGED <<disk, counted>> /\ mem' = [mem EXCEPT ![p] = memory] /\ flow' = [flow EXCEPT ![p] = f]
  BY DEF NeedTool
<1>2. KnowsLess(memory)
  BY KnownGiven, LoadedKnowsLess
<1>3. FlowKnowsLess(f)
  <2>1. f \in FlowState /\ f.snap = NoManifests /\ f.m = NoManifest /\ f.tool = t
    BY Typed DEF Accounted, FlowState
  <2> HIDE DEF f
  <2>2. KnowsLess(NoManifests) /\ NoManifest.uses = 0 /\ disk[t].uses \in Nat
    BY KnownGiven, Typed DEF Accounted
  <2> QED BY <2>1, <2>2 DEF FlowKnowsLess
<1> HIDE DEF memory, f
<1> QED BY <1>1, <1>2, <1>3, UnusedStep

LEMMA AgentWritesCounts ==
  ASSUME Accounted, NEW p \in Task, AgentWrites(p)
  PROVE  CopiesKnowLess'
<1> DEFINE t == flow[p].tool
<1>1. t \in Tool /\ UNCHANGED <<disk, mem, counted>>
  BY KnownGiven DEF AgentWrites
<1>2. PICK c \in Code : \/ flow' = [flow EXCEPT ![p].pc = "save", ![p].snap = [disk EXCEPT ![t] = Fresh(c)]]
                        \/ End(p, "unresolved")
  BY DEF AgentWrites
<1>3. CASE End(p, "unresolved")
  BY <1>1, <1>3, KnownGiven, EndedStep
<1>4. CASE flow' = [flow EXCEPT ![p].pc = "save", ![p].snap = [disk EXCEPT ![t] = Fresh(c)]]
  <2> DEFINE snap == [disk EXCEPT ![t] = Fresh(c)]
             f == [flow[p] EXCEPT !.pc = "save", !.snap = snap]
  <2>1. flow' = [flow EXCEPT ![p] = f]
    BY <1>4 DEF Accounted, Inductive
  <2>2. Fresh(c) \in Manifest /\ Fresh(c).uses = 0
    BY <1>1, BlankBacked DEF Backed, Fresh
  <2>3. KnowsLess(snap)
    <3>1. KnowsLess(disk) /\ disk[t].uses \in Nat
      BY <1>1, KnownGiven, Typed DEF Accounted
    <3>2. Fresh(c).uses <= disk[t].uses
      BY <2>2, <3>1
    <3> QED BY <1>1, <2>2, <3>1, <3>2, SetKnowsLess
  <2> HIDE DEF snap
  <2>4. FlowKnowsLess(f)
    BY <2>3, KnownGiven, MovedKnowsLess DEF Place, FlowKnowsLess
  <2> HIDE DEF f
  <2> QED BY <1>1, <2>1, <2>4, KnownGiven, UnusedStep
<1> QED BY <1>2, <1>3, <1>4

LEMMA AgentSavesCounts ==
  ASSUME Accounted, NEW p \in Task, AgentSaves(p)
  PROVE  CopiesKnowLess'
<1> DEFINE f == [flow[p] EXCEPT !.pc = "sync", !.snap = NoManifests]
<1>1. /\ UNCHANGED <<mem, counted>> /\ flow' = [flow EXCEPT ![p] = f]
      /\ disk' = Saved(flow[p].snap) \/ disk' = disk
  BY DEF AgentSaves, Save, Accounted, Inductive
<1>2. KnowsLess(flow[p].snap)
  BY KnownGiven DEF FlowKnowsLess
<1>3. FlowKnowsLess(f)
  BY KnownGiven, MovedKnowsLess DEF Place, FlowKnowsLess
<1> HIDE DEF f
<1> QED BY <1>1, <1>2, <1>3, KnownGiven, UnusedStep

LEMMA AgentFailsCounts ==
  ASSUME Accounted, NEW p \in Task, AgentFails(p)
  PROVE  CopiesKnowLess'
<1>1. UNCHANGED <<disk, mem, counted>>
  BY DEF AgentFails
<1>2. CASE End(p, "unresolved")
  BY <1>1, <1>2, KnownGiven, EndedStep
<1>3. CASE Goto(p, "sync")
  <2> DEFINE f == [flow[p] EXCEPT !.pc = "sync"]
  <2>1. flow' = [flow EXCEPT ![p] = f]
    BY <1>3 DEF Goto, Accounted, Inductive
  <2>2. FlowKnowsLess(f)
    BY KnownGiven, MovedKnowsLess DEF Place, FlowKnowsLess
  <2> HIDE DEF f
  <2> QED BY <1>1, <2>1, <2>2, KnownGiven, UnusedStep
<1> QED BY <1>2, <1>3 DEF AgentFails

LEMMA SyncCounts ==
  ASSUME Accounted, NEW p \in Task, Sync(p)
  PROVE  CopiesKnowLess'
<1> DEFINE memory == Loaded(mem[p])
           t == flow[p].tool
           m == memory[t]
<1>1. UNCHANGED <<disk, counted>> /\ mem' = [mem EXCEPT ![p] = memory] /\ mem'[p] = memory
  BY DEF Sync, Accounted, Inductive
<1>2. KnowsLess(memory) /\ t \in Tool
  BY KnownGiven, LoadedKnowsLess
<1>3. m \in Manifest /\ (counted[t] >= 0 => m.uses <= disk[t].uses)
  BY <1>2 DEF KnowsLess
<1>4. \/ End(p, "unresolved") \/ Goto(p, "check")
      \/ flow' = [flow EXCEPT ![p].pc = Left(m), ![p].m = m]
  BY <1>1 DEF Sync
<1> HIDE DEF memory, t, m
<1>5. CASE End(p, "unresolved")
  BY <1>1, <1>2, <1>5, EndedStep
<1>6. CASE Goto(p, "check")
  <2> DEFINE f == [flow[p] EXCEPT !.pc = "check"]
  <2>1. flow' = [flow EXCEPT ![p] = f]
    BY <1>6 DEF Goto, Accounted, Inductive
  <2>2. FlowKnowsLess(f)
    BY KnownGiven, MovedKnowsLess DEF Place, FlowKnowsLess
  <2> HIDE DEF f
  <2> QED BY <1>1, <1>2, <2>1, <2>2, UnusedStep
<1>7. CASE flow' = [flow EXCEPT ![p].pc = Left(m), ![p].m = m]
  <2> DEFINE f == [flow[p] EXCEPT !.pc = Left(m), !.m = m]
  <2>1. flow' = [flow EXCEPT ![p] = f]
    BY <1>7 DEF Accounted, Inductive
  <2>2. FlowKnowsLess(f)
    BY <1>2, <1>3, KnownGiven, MovedKnowsLess, LeftPlaced DEF t
  <2> HIDE DEF f
  <2> QED BY <1>1, <1>2, <2>1, <2>2, UnusedStep
<1> QED BY <1>4, <1>5, <1>6, <1>7

LEMMA CheckSafetyCounts ==
  ASSUME Accounted, NEW p \in Task, CheckSafety(p)
  PROVE  CopiesKnowLess'
<1> DEFINE t == flow[p].tool
           old == mem[p][t]
           new == [old EXCEPT !.safety = IF source[t] \in Safe THEN "passed" ELSE "failed"]
<1>1. /\ t \in Tool /\ old \in Manifest /\ new \in Manifest /\ new.uses = old.uses
      /\ counted[t] >= 0 => old.uses <= disk[t].uses
  <2>1. t \in Tool /\ old \in Manifest /\ (counted[t] >= 0 => old.uses <= disk[t].uses)
    BY KnownGiven DEF KnowsLess
  <2>2. new \in Manifest /\ new.uses = old.uses
    BY <2>1 DEF Manifest
  <2> QED BY <2>1, <2>2
<1>2. counted' = counted
  BY DEF CheckSafety
<1>3. PICK memory : /\ KnowsLess(memory) /\ mem' = [mem EXCEPT ![p] = memory]
                    /\ disk' = disk \/ disk' = Saved(memory)
  <2>1. CASE UNCHANGED <<mem, disk>>
    BY <2>1, KnownGiven
  <2>2. CASE mem' = [mem EXCEPT ![p][t] = new] /\ Save(mem'[p])
    <3> DEFINE memory == [mem[p] EXCEPT ![t] = new]
    <3>1. KnowsLess(memory)
      BY <1>1, KnownGiven, SetKnowsLess
    <3>2. mem' = [mem EXCEPT ![p] = memory] /\ mem'[p] = memory
      BY <2>2 DEF Accounted, Inductive
    <3> HIDE DEF memory
    <3> QED BY <2>2, <3>1, <3>2 DEF Save
  <2> QED BY <2>1, <2>2 DEF CheckSafety
<1>4. mem'[p][t] \in Manifest /\ (counted[t] >= 0 => mem'[p][t].uses <= disk[t].uses)
  BY <1>1, <1>3 DEF Accounted, Inductive, KnowsLess
<1> HIDE DEF t, old, new
<1>5. \/ End(p, "unresolved")
      \/ flow' = [flow EXCEPT ![p].pc = Left(old), ![p].m = old]
      \/ flow' = [flow EXCEPT ![p].pc = Left(mem'[p][t]), ![p].m = mem'[p][t]]
  BY DEF CheckSafety, t, old
<1>6. CASE End(p, "unresolved")
  BY <1>2, <1>3, <1>6, EndedStep
<1>7. CASE \E m \in Manifest : /\ counted[t] >= 0 => m.uses <= disk[t].uses
                               /\ flow' = [flow EXCEPT ![p].pc = Left(m), ![p].m = m]
  <2>1. PICK m \in Manifest : /\ counted[t] >= 0 => m.uses <= disk[t].uses
                              /\ flow' = [flow EXCEPT ![p].pc = Left(m), ![p].m = m]
    BY <1>7
  <2> DEFINE f == [flow[p] EXCEPT !.pc = Left(m), !.m = m]
  <2>2. flow' = [flow EXCEPT ![p] = f]
    BY <2>1 DEF Accounted, Inductive
  <2>3. FlowKnowsLess(f)
    BY <2>1, KnownGiven, MovedKnowsLess, LeftPlaced DEF t
  <2> HIDE DEF f
  <2> QED BY <1>2, <1>3, <2>2, <2>3, UnusedStep
<1> QED BY <1>1, <1>4, <1>5, <1>6, <1>7

LEMMA ReviewCounts ==
  ASSUME Accounted, NEW p \in Task, Review(p)
  PROVE  CopiesKnowLess'
<1> DEFINE n == flow[p].attempt + 1
           m == [flow[p].m EXCEPT !.review = "approved"]
<1>1. UNCHANGED <<disk, mem, counted>> /\ n \in Nat
  <2>1. flow[p].attempt \in Nat
    BY KnownGiven
  <2> QED BY <2>1 DEF Review
<1>2. m \in Manifest /\ m.uses = flow[p].m.uses
  BY KnownGiven DEF Manifest
<1>3. \/ End(p, "unresolved")
      \/ flow' = [flow EXCEPT ![p].pc = "fix", ![p].attempt = n]
      \/ flow' = [flow EXCEPT ![p].pc = Left(m), ![p].m = m, ![p].attempt = n]
  BY DEF Review
<1> DEFINE f == [flow[p] EXCEPT !.pc = "fix", !.attempt = n]
           g == [flow[p] EXCEPT !.pc = Left(m), !.m = m, !.attempt = n]
<1> HIDE DEF n, m
<1>4. FlowKnowsLess(f) /\ FlowKnowsLess(g)
  <2>1. /\ FlowKnowsLess(flow[p]) /\ "fix" \in Place /\ Left(m) \in Place /\ KnowsLess(NoManifests)
        /\ counted[flow[p].tool] >= 0 => m.uses <= disk[flow[p].tool].uses
    BY <1>2, KnownGiven, LeftPlaced DEF Place, FlowKnowsLess
  <2>2. FlowKnowsLess(f)
    BY <1>1, <1>2, <2>1, MovedKnowsLess
  <2>3. FlowKnowsLess(g)
    BY <1>1, <1>2, <2>1, MovedKnowsLess
  <2> QED BY <2>2, <2>3
<1>5. End(p, "unresolved") \/ flow' = [flow EXCEPT ![p] = f] \/ flow' = [flow EXCEPT ![p] = g]
  BY <1>3 DEF Accounted, Inductive
<1> HIDE DEF f, g
<1> QED BY <1>1, <1>4, <1>5, KnownGiven, EndedStep, UnusedStep

LEMMA VerifyCounts ==
  ASSUME Accounted, NEW p \in Task, Verify(p)
  PROVE  CopiesKnowLess'
<1> DEFINE m == [flow[p].m EXCEPT !.verified = TRUE]
           f == [flow[p] EXCEPT !.pc = "register", !.m = m]
<1>1. UNCHANGED <<disk, mem, counted>>
  BY DEF Verify
<1>2. m \in Manifest /\ m.uses = flow[p].m.uses
  BY KnownGiven DEF Manifest
<1>3. End(p, "unresolved") \/ flow' = [flow EXCEPT ![p] = f]
  BY DEF Verify, Accounted, Inductive
<1> HIDE DEF m
<1>4. FlowKnowsLess(f)
  BY <1>2, KnownGiven, MovedKnowsLess DEF Place, FlowKnowsLess
<1> HIDE DEF f
<1> QED BY <1>1, <1>3, <1>4, KnownGiven, EndedStep, UnusedStep

LEMMA RegisterCounts ==
  ASSUME Accounted, NEW p \in Task, Register(p)
  PROVE  CopiesKnowLess'
<1> DEFINE t == flow[p].tool
           m == flow[p].m
           memory == [mem[p] EXCEPT ![t] = m]
<1>1. counted' = counted /\ (End(p, "unresolved") \/ End(p, "ready"))
  BY DEF Register
<1>2. KnowsLess(memory)
  BY KnownGiven, SetKnowsLess DEF FlowKnowsLess
<1>3. CASE UNCHANGED <<mem, disk>>
  BY <1>1, <1>3, KnownGiven, EndedStep
<1>4. CASE mem' = [mem EXCEPT ![p][t] = m] /\ (disk' = Saved(mem'[p]) \/ UNCHANGED disk)
  <2>1. mem' = [mem EXCEPT ![p] = memory] /\ mem'[p] = memory
    BY <1>4 DEF Accounted, Inductive
  <2> HIDE DEF memory
  <2> QED BY <1>1, <1>2, <1>4, <2>1, EndedStep
<1> QED BY <1>3, <1>4 DEF Register, Candidate

\* A use that is recorded adds one to the file and to what was counted.
LEMMA UseCounts ==
  ASSUME Accounted, NEW p \in Task, NEW t \in Tool, Use(p, t)
  PROVE  CopiesKnowLess'
<1> DEFINE saved == Saved(mem[p])
<1>1. flow' = flow /\ done.uses \in Nat
  BY DEF Use, Accounted, Inductive, Rest
<1>2. /\ saved \in [Tool -> Manifest]
      /\ \A b \in Tool : counted[b] >= 0 => saved[b].uses = disk[b].uses
      /\ \A b \in Tool : ~ Has(saved[b]) => saved[b].uses = 0
  <2>1. saved = [b \in Tool |-> saved[b]]
    BY DEF Saved
  <2> QED BY <2>1, KnownGiven, SavedCounts
<1>3. ASSUME NEW m \in Manifest, NEW ok \in BOOLEAN
      PROVE  Applied(m, ok) \in Manifest /\ Applied(m, ok).uses = m.uses + 1
             /\ Applied(m, ok).hash = m.hash
  <2> DEFINE n    == done.uses + 1
             uses == m.uses + 1
             fails == IF ok THEN 0 ELSE m.fails + 1
             safety == IF ~ ok /\ fails >= Threshold /\ m.safety = "passed" THEN "quarantined"
                       ELSE m.safety
  <2>1. n \in Nat /\ uses \in Nat /\ fails \in Nat
    BY <1>1 DEF Manifest
  <2>2. safety \in {"unchecked", "passed", "failed", "quarantined"}
    BY DEF Manifest
  <2>3. Applied(m, ok) = [m EXCEPT !.used = n, !.uses = uses, !.fails = fails, !.safety = safety]
    BY DEF Applied
  <2>4. uses = m.uses + 1
    OBVIOUS
  <2> HIDE DEF n, uses, fails, safety
  <2> QED BY <2>1, <2>2, <2>3, <2>4 DEF Manifest
<1>4. PICK ok \in BOOLEAN :
        \/ LET new == Applied(saved[t], ok)
           IN  /\ disk' = [saved EXCEPT ![t] = new]
               /\ mem' = [mem EXCEPT ![p][t] = new]
               /\ counted' = [counted EXCEPT ![t] = IF @ < 0 \/ ~Has(disk[t]) THEN -1 ELSE @ + 1]
        \/ /\ mem' = [mem EXCEPT ![p][t] = Applied(mem[p][t], ok)]
           /\ counted' = [counted EXCEPT ![t] = -1]
           /\ UNCHANGED disk
  BY DEF Use
<1> HIDE DEF saved
<1>5. PICK new \in Manifest :
        /\ mem' = [mem EXCEPT ![p][t] = new]
        /\ \A b \in Tool : b # t => counted'[b] = counted[b]
        /\ \/ /\ disk' = [saved EXCEPT ![t] = new] /\ Has(new)
              /\ counted'[t] >= 0 => /\ counted[t] >= 0 /\ counted'[t] = counted[t] + 1
                                     /\ new.uses = disk[t].uses + 1
           \/ disk' = disk /\ counted'[t] = -1
  <2>1. counted \in [Tool -> Int]
    BY DEF Accounted, Inductive, Rest
  <2>2. saved[t] \in Manifest /\ Has(saved[t])
    BY <1>2, KnownGiven, SavedCounts DEF Use, saved
  <2>3. CASE /\ disk' = [saved EXCEPT ![t] = Applied(saved[t], ok)]
             /\ mem' = [mem EXCEPT ![p][t] = Applied(saved[t], ok)]
             /\ counted' = [counted EXCEPT ![t] = IF @ < 0 \/ ~Has(disk[t]) THEN -1 ELSE @ + 1]
    <3> DEFINE new == Applied(saved[t], ok)
    <3>1. new \in Manifest /\ new.uses = saved[t].uses + 1 /\ Has(new)
      BY <1>3, <2>2 DEF Has
    <3>2. disk' = [saved EXCEPT ![t] = new] /\ mem' = [mem EXCEPT ![p][t] = new]
      BY <2>3
    <3> HIDE DEF new
    <3>3. \A b \in Tool : b # t => counted'[b] = counted[b]
      BY <2>1, <2>3
    <3>4. counted'[t] >= 0 => counted[t] >= 0 /\ counted'[t] = counted[t] + 1
      <4>1. counted'[t] = IF counted[t] < 0 \/ ~Has(disk[t]) THEN -1 ELSE counted[t] + 1
        BY <2>1, <2>3
      <4> QED BY <2>1, <4>1
    <3>5. counted'[t] >= 0 => new.uses = disk[t].uses + 1
      BY <1>2, <3>1, <3>4
    <3> QED BY <3>1, <3>2, <3>3, <3>4, <3>5
  <2>4. CASE /\ mem' = [mem EXCEPT ![p][t] = Applied(mem[p][t], ok)]
             /\ counted' = [counted EXCEPT ![t] = -1]
             /\ UNCHANGED disk
    <3>1. Applied(mem[p][t], ok) \in Manifest
      BY <1>3, KnownGiven
    <3>2. counted'[t] = -1 /\ \A b \in Tool : b # t => counted'[b] = counted[b]
      BY <2>1, <2>4
    <3> QED BY <2>4, <3>1, <3>2
  <2> QED BY <1>4, <2>3, <2>4
<1>6. ASSUME NEW b \in Tool
      PROVE  /\ counted'[b] >= 0 => /\ counted[b] >= 0 /\ disk'[b].uses = counted'[b]
                                    /\ disk[b].uses <= disk'[b].uses
             /\ ~ Has(disk'[b]) => disk'[b].uses = 0
             /\ counted'[t] >= 0 => new.uses <= disk'[t].uses
  <2>1. disk[b].uses \in Nat /\ counted[b] \in Int /\ disk[b] \in Manifest
        /\ (counted[b] >= 0 => disk[b].uses = counted[b])
        /\ (~ Has(disk[b]) => disk[b].uses = 0) /\ new.uses \in Nat
    BY Typed DEF Accounted, CopiesKnowLess, UsesCounted, Manifest
  <2>2. CASE /\ disk' = [saved EXCEPT ![t] = new] /\ Has(new)
             /\ counted'[t] >= 0 => /\ counted[t] >= 0 /\ counted'[t] = counted[t] + 1
                                    /\ new.uses = disk[t].uses + 1
    <3>1. disk'[t] = new /\ (b # t => disk'[b] = saved[b] /\ counted'[b] = counted[b])
      BY <1>2, <1>5, <2>2
    <3> QED BY <1>2, <2>1, <2>2, <3>1 DEF Accounted, CopiesKnowLess, UsesCounted
  <2>3. CASE disk' = disk /\ counted'[t] = -1
    BY <1>5, <2>1, <2>3
  <2> QED BY <1>5, <2>2, <2>3
<1>7. ASSUME NEW q \in Task
      PROVE  KnowsLess(mem[q])' /\ FlowKnowsLess(flow[q])'
  <2>1. KnowsLess(mem[q]) /\ FlowKnowsLess(flow[q]) /\ flow[q].tool \in Tool
    BY KnownGiven
  <2>2. \A b \in Tool : /\ mem[q][b].uses \in Nat /\ flow[q].snap[b].uses \in Nat
                        /\ disk[b].uses \in Nat /\ flow[q].m.uses \in Nat
    BY <2>1, Typed DEF KnowsLess, FlowKnowsLess, FlowState, Manifest, Accounted
  <2>3. mem'[q] \in [Tool -> Manifest]
        /\ \A b \in Tool : mem'[q][b] = IF q = p /\ b = t THEN new ELSE mem[q][b]
    BY <1>5, KnownGiven DEF Accounted, Inductive
  <2>4. \A b \in Tool : counted'[b] >= 0 => disk'[b].uses \in Nat
    <3>1. counted' \in [Tool -> Int]
      BY UseStep DEF Accounted, Inductive, Rest
    <3>2. \A b \in Tool : counted'[b] >= 0 => counted'[b] \in Nat
      BY <3>1
    <3> QED BY <1>6, <3>2
  <2>5. KnowsLess(mem[q])'
    BY <1>6, <2>1, <2>2, <2>3, <2>4 DEF KnowsLess
  <2>6. FlowKnowsLess(flow[q])'
    BY <1>1, <1>6, <2>1, <2>2, <2>4 DEF KnowsLess, FlowKnowsLess
  <2> QED BY <2>5, <2>6
<1> QED BY <1>6, <1>7 DEF CopiesKnowLess, UsesCounted

\* Maintenance and administration keep the count of what they keep.
LEMMA FileCounts ==
  ASSUME Accounted, Sweep \/ Administer
  PROVE  CopiesKnowLess'
<1>1. UNCHANGED <<mem, flow>>
  BY DEF Sweep, Administer
<1>2. disk \in [Tool -> Manifest] /\ counted \in [Tool -> Int]
  BY Typed DEF Accounted, Inductive, Rest
<1>3. ASSUME NEW t \in Tool
      PROVE  /\ counted'[t] >= 0 => counted'[t] = counted[t] /\ disk'[t].uses = disk[t].uses
             /\ ~ Has(disk'[t]) => disk'[t].uses = 0
  <2>1. disk[t] \in Manifest /\ (~ Has(disk[t]) => disk[t].uses = 0)
        /\ NoManifest.uses = 0
    BY Typed DEF Accounted, CopiesKnowLess
  <2>2. CASE Sweep
    <3>1. PICK old \in SUBSET Tool :
            LET due  == {u \in old : Has(disk[u]) /\ ~disk[u].pinned}
                gone == {u \in due : Archivable(disk[u])}
            IN  /\ \/ disk' = [u \in Tool |-> IF u \in gone THEN NoManifest
                                             ELSE IF u \in due THEN [disk[u] EXCEPT !.deprecated = TRUE]
                                             ELSE disk[u]]
                   \/ disk' = disk
                /\ counted' = [u \in Tool |-> IF u \in gone THEN -1 ELSE counted[u]]
      BY <2>2 DEF Sweep
    <3>2. \/ disk'[t] = NoManifest /\ counted'[t] = -1
          \/ /\ disk'[t] \in {disk[t], [disk[t] EXCEPT !.deprecated = TRUE]}
             /\ counted'[t] \in {counted[t], -1}
      BY <3>1
    <3> QED BY <1>2, <2>1, <3>2 DEF Manifest, Has
  <2>3. CASE Administer
    <3>1. counted' = counted
      BY <2>3 DEF Administer
    <3>2. PICK u \in Tool :
            \/ \E pinned \in BOOLEAN : disk' = [disk EXCEPT ![u].pinned = pinned]
            \/ disk' = [disk EXCEPT ![u].safety = "passed", ![u].fails = 0]
            \/ disk' = [disk EXCEPT ![u].deprecated = TRUE]
      BY <2>3 DEF Administer
    <3>3. \/ disk'[t] = disk[t]
          \/ \E pinned \in BOOLEAN : disk'[t] = [disk[t] EXCEPT !.pinned = pinned]
          \/ disk'[t] = [disk[t] EXCEPT !.safety = "passed", !.fails = 0]
          \/ disk'[t] = [disk[t] EXCEPT !.deprecated = TRUE]
      BY <1>2, <3>2
    <3> QED BY <2>1, <3>1, <3>3 DEF Manifest, Has
  <2> QED BY <2>2, <2>3
<1>4. ASSUME NEW q \in Task
      PROVE  KnowsLess(mem[q])' /\ FlowKnowsLess(flow[q])'
  <2>1. KnowsLess(mem[q]) /\ FlowKnowsLess(flow[q]) /\ flow[q].tool \in Tool
    BY KnownGiven
  <2> QED BY <1>1, <1>3, <2>1 DEF KnowsLess, FlowKnowsLess
<1> QED BY <1>3, <1>4 DEF Accounted, CopiesKnowLess, UsesCounted

LEMMA InitAccounted == Init => Accounted
<1> SUFFICES ASSUME Init PROVE Accounted
  OBVIOUS
<1>1. Inductive
  BY InitInductive
<1>2. disk = NoManifests /\ \A t \in Tool : disk[t].uses = 0 /\ counted[t] = 0
  BY <1>1, Typed DEF Init
<1>3. ASSUME NEW p \in Task
      PROVE  KnowsLess(mem[p]) /\ FlowKnowsLess(flow[p])
  <2>1. mem[p] = NoManifests /\ flow[p].snap = NoManifests /\ flow[p].m = NoManifest
    BY DEF Init
  <2>2. flow[p] \in FlowState /\ flow[p].tool \in Tool
    BY <1>1, Given
  <2> QED BY <1>1, <1>2, <2>1, <2>2, Typed DEF KnowsLess, FlowKnowsLess
<1> QED BY <1>1, <1>2, <1>3 DEF Accounted, CopiesKnowLess, UsesCounted

\* No use is lost when the copies of the registry are written back over each
\* other: what the file counts is what was recorded (tool_registry.py:_merge_usage).
THEOREM NoUseLost == Spec => []UsesCounted
<1>1. ASSUME Accounted, [Next]_vars
      PROVE  CopiesKnowLess'
  <2>1. CASE \E p \in Task : NewTask(p) \/ Flow(p) \/ \E t \in Tool : NeedTool(p, t) \/ Use(p, t)
    BY <1>1, <2>1, NewTaskCounts, NeedToolCounts, UseCounts, AgentWritesCounts, AgentSavesCounts,
       AgentFailsCounts, SyncCounts, CheckSafetyCounts, ReviewCounts, VerifyCounts, RegisterCounts
       DEF Flow
  <2>2. CASE Sweep \/ Administer
    BY <1>1, <2>2, FileCounts
  <2>3. CASE UNCHANGED vars
    BY <1>1, <2>3 DEF vars, Accounted, CopiesKnowLess, UsesCounted, KnowsLess, FlowKnowsLess
  <2> QED BY <1>1, <2>1, <2>2, <2>3 DEF Next
<1>2. Inductive /\ CopiesKnowLess /\ [Next]_vars => CopiesKnowLess'
  BY <1>1 DEF Accounted
<1>3. Init => CopiesKnowLess
  BY InitAccounted DEF Accounted
<1>4. CopiesKnowLess => UsesCounted
  BY DEF CopiesKnowLess
<1> QED BY InductiveInvariant, <1>2, <1>3, <1>4, PTL DEF Spec

----------------------------------------------------------------------------
(***************************************************************************)
(* External servers.  What a request finds in its process rests on the lock *)
(* of its connection: only the request that holds it changes the process,   *)
(* and the connection counts as greeted only after that process has the     *)
(* notification.                                                            *)
(***************************************************************************)
ServerConnection ==
  [server : Server \cup {Nobody}, allowed : SUBSET ExternalTool, holder : Request \cup {Nobody},
   child : Child \cup {0}, greeted : BOOLEAN]

ChildProcess ==
  [state : {"none", "alive", "dead", "gone"}, inbox : SUBSET Message,
   out : Seq(Message \cup {Noise}), ready : BOOLEAN, early : BOOLEAN, noise : Nat]

RequestState ==
  [pc : UnderLock \cup {"none", "waits", "posting", "answered", "failed"},
   on : Connection \cup {0}, lines : Nat, got : Message \cup {Noise}]

Signatures == SUBSET ((Server \cup {Nobody}) \X Nat)

Manager ==
  [at : {"idle", "signed", "listing", "working"}, signature : Signatures, taken : Signatures,
   scanned : [Server -> ServerManifest], todo : SUBSET Server, current : Connection \cup {0},
   found : SUBSET Name, report : SUBSET Name, loaded : SUBSET Name, torn : BOOLEAN,
   cut : BOOLEAN]

McpTypeOK ==
  /\ directory \in [Server -> ServerManifest] /\ edits \in Nat
  /\ manager \in Manager
  /\ registry \in [Name -> Connection \cup {0}]
  /\ connection \in [Connection -> ServerConnection]
  /\ child \in [Child -> ChildProcess]
  /\ request \in [Request -> RequestState]

\* A request that works with a process has the lock of its connection, and
\* the process has the notification of a greeting before the connection counts
\* as greeted.
GreetedUnderLock ==
  /\ \A r \in Request :
       /\ request[r].pc # "none" => On(r) \in Connection
       /\ request[r].pc \in UnderLock => connection[On(r)].holder = r
       /\ request[r].pc \in {"greeting", "announcing", "reading"} => ChildOf(r) \in Child
       /\ request[r].pc = "announcing" => child[ChildOf(r)].ready
  /\ \A k \in Connection :
       connection[k].greeted /\ connection[k].child # 0 => child[connection[k].child].ready

ExchangeSound == McpTypeOK /\ GreetedUnderLock /\ AnswersMatch /\ InitializedFirst

\* Tools of servers whose manifest, as the refresh has read it, allows them.
Allowed(names) ==
  \A n \in names : LET m == manager.scanned[n[1]] IN Enabled(m) /\ n[2] \in m.tools

\* A manifest that was read is not younger than the one that is there, and says
\* the same if it was written at the same time.
ReadBefore ==
  \A s \in Server :
    LET m == manager.scanned[s]
    IN  /\ m.written <= directory[s].written /\ directory[s].written <= edits
        /\ m.written = directory[s].written => /\ m.state = directory[s].state
                                               /\ m.tools = directory[s].tools

\* A signature is of the directory as it was read.
OfScan(signature) == signature \in {Signature(manager.scanned), NoSignature}

\* What a refresh has taken up so far, and that one that was cut off is not
\* taken for done unless the directory has another signature than it had then.
RefreshSound ==
  /\ ReadBefore
  /\ {n \in Name : registry[n] # 0} = manager.loaded
  /\ manager.at # "listing" => manager.current = 0
  /\ \/ manager.at \in {"signed", "listing"}
     \/ manager.at = "idle" /\ manager.cut
     => manager.taken # manager.signature \/ manager.taken = NoSignature
  /\ manager.at = "working" /\ manager.cut => manager.taken # manager.signature
  /\ manager.at # "listing" /\ ~ manager.cut =>
       /\ manager.report = manager.loaded /\ Allowed(manager.report)
       /\ ~ manager.torn => OfScan(manager.signature)
  /\ manager.at = "listing" =>
       /\ manager.found = manager.loaded /\ Allowed(manager.found)
       /\ \A s \in manager.todo : Enabled(manager.scanned[s])
       /\ ~ manager.torn => OfScan(manager.taken)
       /\ manager.current # 0 =>
            LET k == connection[manager.current]
            IN /\ k.server \in Server /\ Enabled(manager.scanned[k.server])
               /\ k.allowed = manager.scanned[k.server].tools

McpInductive == ExchangeSound /\ RefreshSound

LEMMA RequestFacts ==
  /\ 0 \notin Connection /\ 0 \notin Child /\ Nobody \notin Request /\ Connection \subseteq Request
  /\ \A r \in Request : /\ [of |-> r, kind |-> "call"] \in Message
                        /\ [of |-> r, kind |-> "initialize"] \in Message
  /\ Noise \notin Message
BY McpAssumption DEF Connection, Child, Request, Message, Noise

\* What the steps of a request do to the processes.
Grown ==
  /\ child' \in [Child -> ChildProcess]
  /\ \A c \in Child : ~ child'[c].early /\ (child[c].ready => child'[c].ready)

LEMMA WrittenGrown ==
  ASSUME ExchangeSound, NEW c \in Child, NEW m \in Message,
         m.kind = "call" => child[c].ready, child' = Written(c, m)
  PROVE  Grown
<1>1. CASE child[c].state # "alive"
  BY <1>1 DEF Written, Grown, ExchangeSound, McpTypeOK, InitializedFirst
<1>2. CASE child[c].state = "alive"
  <2> DEFINE new == [child[c] EXCEPT !.inbox = @ \cup {m},
                                     !.early = @ \/ (m.kind = "call" /\ ~ child[c].ready)]
  <2>1. child[c] \in ChildProcess /\ ~ child[c].early /\ child[c].ready \in BOOLEAN
    BY DEF ExchangeSound, McpTypeOK, InitializedFirst, ChildProcess
  <2>2. child' = [child EXCEPT ![c] = new]
    BY <1>2 DEF Written, ExchangeSound, McpTypeOK
  <2>3. new \in ChildProcess /\ ~ new.early /\ new.ready = child[c].ready
    BY <2>1 DEF ChildProcess
  <2> HIDE DEF new
  <2> QED BY <2>2, <2>3 DEF Grown, ExchangeSound, McpTypeOK, InitializedFirst
<1> QED BY <1>1, <1>2

LEMMA RestGrown ==
  ASSUME ExchangeSound, NEW r \in Request, HasLine(r), child' = RestOf(r)
  PROVE  Grown
<1> DEFINE c == ChildOf(r)
           new == [child[c] EXCEPT !.out = Tail(@)]
<1>1. c \in Child /\ child[c] \in ChildProcess /\ ~ child[c].early
  BY DEF ExchangeSound, McpTypeOK, InitializedFirst, HasLine, GreetedUnderLock
<1>2. child' = [child EXCEPT ![c] = new]
  BY <1>1 DEF RestOf, ExchangeSound, McpTypeOK
<1>3. Tail(child[c].out) \in Seq(Message \cup {Noise})
  BY <1>1 DEF ChildProcess, HasLine
<1>4. new \in ChildProcess /\ ~ new.early /\ new.ready = child[c].ready
  BY <1>1, <1>3 DEF ChildProcess
<1> HIDE DEF new, c
<1> QED BY <1>2, <1>4 DEF Grown, ExchangeSound, McpTypeOK, InitializedFirst

\* A request that leaves gives the lock back if it has it.
LEMMA LeavesSound ==
  ASSUME ExchangeSound, NEW r \in Request, request[r].pc # "none", Grown,
         NEW pc \in {"failed", "answered"}, NEW got \in Message \cup {Noise}, Leaves(r, pc, got),
         pc = "answered" => got = [of |-> r, kind |-> "call"],
         directory' = directory, edits' = edits, manager' \in Manager, registry' = registry
  PROVE  ExchangeSound'
<1> DEFINE k == On(r)
           q == [request[r] EXCEPT !.pc = pc, !.got = got]
           e == [connection[k] EXCEPT !.holder = IF @ = r THEN Nobody ELSE @]
<1>1. k \in Connection /\ request[r] \in RequestState /\ connection[k] \in ServerConnection
  BY DEF ExchangeSound, McpTypeOK, GreetedUnderLock
<1>2. request' = [request EXCEPT ![r] = q] /\ connection' = [connection EXCEPT ![k] = e]
  BY <1>1 DEF Leaves, ExchangeSound, McpTypeOK
<1>3. q \in RequestState /\ q.pc = pc /\ q.got = got /\ q.on = k
  BY <1>1 DEF RequestState, On
<1>4. e \in ServerConnection /\ e.child = connection[k].child /\ e.greeted = connection[k].greeted
      /\ e.holder = IF connection[k].holder = r THEN Nobody ELSE connection[k].holder
  BY <1>1 DEF ServerConnection
<1> HIDE DEF q, e, k
<1>5. McpTypeOK'
  BY <1>2, <1>3, <1>4 DEF ExchangeSound, McpTypeOK, Grown
<1>6. /\ \A s \in Request : request'[s] = IF s = r THEN q ELSE request[s]
      /\ \A j \in Connection : connection'[j] = IF j = k THEN e ELSE connection[j]
  BY <1>2 DEF ExchangeSound, McpTypeOK
<1>7. /\ \A c \in Child : child[c].ready => child'[c].ready
      /\ \A j \in Connection : /\ connection'[j].child = connection[j].child
                               /\ connection'[j].greeted = connection[j].greeted
                               /\ connection[j].child \in Child \cup {0}
  BY <1>4, <1>6 DEF Grown, ExchangeSound, McpTypeOK, ServerConnection
<1>8. ASSUME NEW s \in Request
      PROVE  /\ request'[s].pc # "none" => request'[s].on \in Connection
             /\ request'[s].pc \in UnderLock => connection'[request'[s].on].holder = s
             /\ request'[s].pc \in {"greeting", "announcing", "reading"} =>
                  connection'[request'[s].on].child \in Child
             /\ request'[s].pc = "announcing" => child'[connection'[request'[s].on].child].ready
  <2>1. CASE s = r
    BY <1>1, <1>3, <1>6, <2>1 DEF UnderLock, k
  <2>2. CASE s # r
    BY <1>4, <1>6, <1>7, <2>2 DEF ExchangeSound, GreetedUnderLock, On, ChildOf, UnderLock
  <2> QED BY <2>1, <2>2
<1>9. GreetedUnderLock'
  BY <1>7, <1>8 DEF ExchangeSound, GreetedUnderLock, On, ChildOf
<1>10. AnswersMatch' /\ InitializedFirst'
  BY <1>3, <1>6 DEF ExchangeSound, AnswersMatch, InitializedFirst, Grown
<1> QED BY <1>5, <1>9, <1>10 DEF ExchangeSound

\* What a request may do to its connection when it goes on to pc.
Holds(r, pc, old, new) ==
  /\ new \in ServerConnection
  /\ pc \in UnderLock => new.holder = r
  /\ old.holder \in {r, new.holder, Nobody}
  /\ new.child = old.child \/ (new.child \in Child /\ ~ new.greeted /\ new.holder = r)
  /\ pc \in {"greeting", "announcing", "reading"} => new.child \in Child
  /\ pc = "announcing" \/ (new.greeted /\ new.child # 0) => child'[new.child].ready

\* A request that goes on, with the lock or for the lock.
LEMMA GoesSound ==
  ASSUME ExchangeSound, NEW r \in Request, Grown, On(r) \in Connection,
         NEW pc \in UnderLock \cup {"waits"}, Goes(r, pc),
         NEW e, connection' = [connection EXCEPT ![On(r)] = e], Holds(r, pc, connection[On(r)], e),
         UNCHANGED <<directory, edits, manager, registry>>
  PROVE  ExchangeSound'
<1> DEFINE k == On(r)
           q == [request[r] EXCEPT !.pc = pc, !.lines = 0]
<1>1. k \in Connection /\ request[r] \in RequestState /\ connection[k] \in ServerConnection
  BY DEF ExchangeSound, McpTypeOK
<1>2. request' = [request EXCEPT ![r] = q]
  BY <1>1 DEF Goes, ExchangeSound, McpTypeOK
<1>3. q \in RequestState /\ q.pc = pc /\ q.on = k
  BY <1>1 DEF RequestState, On
<1> HIDE DEF q
<1>4. connection' = [connection EXCEPT ![k] = e] /\ Holds(r, pc, connection[k], e)
  OBVIOUS
<1> HIDE DEF k
<1>5. McpTypeOK'
  BY <1>2, <1>3, <1>4 DEF ExchangeSound, McpTypeOK, Grown, Holds
<1>6. /\ \A s \in Request : request'[s] = IF s = r THEN q ELSE request[s]
      /\ \A j \in Connection : connection'[j] = IF j = k THEN e ELSE connection[j]
  BY <1>2, <1>4 DEF ExchangeSound, McpTypeOK
<1>7. \A c \in Child : child[c].ready => child'[c].ready
  BY DEF Grown
<1>8. \A j \in Connection : connection[j].child \in Child \cup {0}
  BY DEF ExchangeSound, McpTypeOK, ServerConnection
<1>9. ASSUME NEW s \in Request
      PROVE  /\ request'[s].pc # "none" => request'[s].on \in Connection
             /\ request'[s].pc \in UnderLock => connection'[request'[s].on].holder = s
             /\ request'[s].pc \in {"greeting", "announcing", "reading"} =>
                  connection'[request'[s].on].child \in Child
             /\ request'[s].pc = "announcing" => child'[connection'[request'[s].on].child].ready
  <2>1. CASE s = r
    BY <1>1, <1>3, <1>4, <1>6, <2>1 DEF Holds
  <2>2. CASE s # r /\ request[s].on = k /\ request[s].pc \in UnderLock
    <3>1. connection[k].holder = s
      BY <2>2 DEF ExchangeSound, GreetedUnderLock, On
    <3>2. s # Nobody /\ e.holder = s
      BY <1>4, <2>2, <3>1, RequestFacts DEF Holds
    <3>3. e.child = connection[k].child
      BY <1>4, <2>2, <3>2 DEF Holds
    <3> QED BY <1>1, <1>6, <1>7, <1>8, <2>2, <3>2, <3>3
            DEF ExchangeSound, GreetedUnderLock, On, ChildOf, UnderLock
  <2>3. CASE s # r /\ (request[s].on # k \/ request[s].pc \notin UnderLock)
    BY <1>6, <1>7, <1>8, <2>3 DEF ExchangeSound, GreetedUnderLock, On, ChildOf, UnderLock
  <2> QED BY <2>1, <2>2, <2>3
<1>10. ASSUME NEW j \in Connection, connection'[j].greeted, connection'[j].child # 0
       PROVE  child'[connection'[j].child].ready
  BY <1>4, <1>6, <1>7, <1>8, <1>10 DEF ExchangeSound, GreetedUnderLock, Holds
<1>11. GreetedUnderLock'
  BY <1>9, <1>10 DEF GreetedUnderLock, On, ChildOf
<1>12. AnswersMatch' /\ InitializedFirst'
  BY <1>3, <1>6 DEF ExchangeSound, AnswersMatch, InitializedFirst, Grown, UnderLock
<1> QED BY <1>5, <1>11, <1>12 DEF ExchangeSound

LEMMA AcquireSound ==
  ASSUME ExchangeSound, NEW r \in Request, Acquire(r)
  PROVE  ExchangeSound'
<1> DEFINE k == On(r)
           c == connection[k].child
           e == [connection[k] EXCEPT !.holder = r]
<1>1. k \in Connection /\ connection[k] \in ServerConnection
  BY DEF Acquire, ExchangeSound, McpTypeOK, GreetedUnderLock
<1>2. connection' = [connection EXCEPT ![k] = e]
  BY <1>1 DEF Acquire, ExchangeSound, McpTypeOK
<1>3. e \in ServerConnection /\ e.holder = r /\ e.child = c /\ e.greeted = connection[k].greeted
  BY <1>1 DEF ServerConnection
<1>4. UNCHANGED <<directory, edits, manager, registry>> /\ connection[k].holder = Nobody
  BY DEF Acquire
<1>5. e.greeted /\ c # 0 => child[c].ready
  BY <1>1, <1>3 DEF ExchangeSound, GreetedUnderLock
<1>6. c \in Child \cup {0}
  BY <1>1 DEF ServerConnection
<1> HIDE DEF e
<1>7. CASE Runs(k) /\ connection[k].greeted /\ Calls(r)
  <2>1. c \in Child /\ child[c].ready
    BY <1>3, <1>5, <1>6, <1>7 DEF Runs
  <2>2. Grown
    BY <1>7, <2>1, WrittenGrown, RequestFacts DEF Calls, ChildOf
  <2>3. Goes(r, "reading")
    BY <1>7 DEF Calls
  <2> HIDE DEF c
  <2>4. child'[c].ready
    BY <2>1, <2>2 DEF Grown
  <2>5. Holds(r, "reading", connection[k], e)
    BY <1>3, <1>4, <2>1, <2>4 DEF Holds, c
  <2> QED BY <1>1, <1>2, <1>4, <2>2, <2>3, <2>5, GoesSound DEF UnderLock
<1>8. CASE Runs(k) /\ ~ connection[k].greeted /\ Greets(r)
  <2>1. c \in Child
    BY <1>6, <1>8 DEF Runs
  <2>2. Grown
    BY <1>8, <2>1, WrittenGrown, RequestFacts DEF Greets, ChildOf
  <2>3. Goes(r, "greeting") /\ ~ e.greeted
    BY <1>3, <1>8 DEF Greets
  <2>4. Holds(r, "greeting", connection[k], e)
    BY <1>3, <1>4, <2>1, <2>3 DEF Holds
  <2> QED BY <1>1, <1>2, <1>4, <2>2, <2>3, <2>4, GoesSound DEF UnderLock
<1>9. CASE ~ Runs(k) /\ Goes(r, "spawning") /\ UNCHANGED child
  <2>1. Grown
    BY <1>9 DEF Grown, ExchangeSound, McpTypeOK, InitializedFirst
  <2>2. Goes(r, "spawning") /\ (e.greeted /\ c # 0 => child'[c].ready)
    BY <1>5, <1>9
  <2>3. Holds(r, "spawning", connection[k], e)
    BY <1>3, <1>4, <2>2 DEF Holds
  <2> QED BY <1>1, <1>2, <1>4, <2>1, <2>2, <2>3, GoesSound DEF UnderLock
<1> QED BY <1>7, <1>8, <1>9 DEF Acquire

LEMMA SpawnedSound ==
  ASSUME ExchangeSound, NEW r \in Request, NEW c \in Child, Spawned(r, c)
  PROVE  ExchangeSound'
<1> DEFINE k == On(r)
           e == [connection[k] EXCEPT !.child = c, !.greeted = FALSE]
           new == [child[c] EXCEPT !.state = "alive",
                                   !.inbox = {[of |-> r, kind |-> "initialize"]}]
<1>1. k \in Connection /\ connection[k] \in ServerConnection /\ connection[k].holder = r
  BY DEF Spawned, ExchangeSound, McpTypeOK, GreetedUnderLock, UnderLock
<1>2. connection' = [connection EXCEPT ![k] = e]
  BY <1>1 DEF Spawned, ExchangeSound, McpTypeOK
<1>3. e \in ServerConnection /\ e.holder = r /\ e.child = c /\ ~ e.greeted
  BY <1>1 DEF ServerConnection
<1>4. Grown
  <2>1. child[c] \in ChildProcess /\ ~ child[c].early /\ child[c].ready \in BOOLEAN
    BY DEF ExchangeSound, McpTypeOK, InitializedFirst, ChildProcess
  <2>2. child' = [child EXCEPT ![c] = new]
    BY DEF Spawned, ExchangeSound, McpTypeOK
  <2>3. new \in ChildProcess /\ ~ new.early /\ new.ready = child[c].ready
    BY <2>1, RequestFacts DEF ChildProcess
  <2> HIDE DEF new
  <2> QED BY <2>2, <2>3 DEF Grown, ExchangeSound, McpTypeOK, InitializedFirst
<1>5. Goes(r, "greeting") /\ UNCHANGED <<directory, edits, manager, registry>>
  BY DEF Spawned
<1> HIDE DEF e, new
<1>6. Holds(r, "greeting", connection[k], e)
  BY <1>1, <1>3 DEF Holds
<1> QED BY <1>1, <1>2, <1>4, <1>5, <1>6, GoesSound DEF UnderLock

LEMMA SkipLineSound ==
  ASSUME ExchangeSound, NEW r \in Request, SkipLine(r)
  PROVE  ExchangeSound'
<1>1. Grown /\ UNCHANGED <<directory, edits, manager, registry>> /\ request[r].pc # "none"
  BY RestGrown DEF SkipLine, HasLine
<1>2. CASE Leaves(r, "failed", Noise)
  BY <1>1, <1>2, LeavesSound DEF ExchangeSound, McpTypeOK
<1>3. CASE request' = [request EXCEPT ![r].lines = @ + 1] /\ UNCHANGED connection
  <2> DEFINE q == [request[r] EXCEPT !.lines = @ + 1]
  <2>1. q \in RequestState /\ q.pc = request[r].pc /\ q.on = request[r].on /\ q.got = request[r].got
    BY DEF ExchangeSound, McpTypeOK, RequestState
  <2>2. request' = [request EXCEPT ![r] = q]
    BY <1>3 DEF ExchangeSound, McpTypeOK
  <2> HIDE DEF q
  <2>3. McpTypeOK'
    BY <1>1, <1>3, <2>1, <2>2 DEF ExchangeSound, McpTypeOK, Grown
  <2>4. \A s \in Request : /\ request'[s].pc = request[s].pc /\ request'[s].on = request[s].on
                           /\ request'[s].got = request[s].got
    BY <2>1, <2>2 DEF ExchangeSound, McpTypeOK
  <2>5. \A j \in Connection : connection[j].child \in Child \cup {0}
    BY DEF ExchangeSound, McpTypeOK, ServerConnection
  <2>6. GreetedUnderLock'
    BY <1>1, <1>3, <2>4, <2>5 DEF ExchangeSound, GreetedUnderLock, On, ChildOf, Grown
  <2> QED BY <1>1, <2>3, <2>4, <2>6 DEF ExchangeSound, AnswersMatch, InitializedFirst, Grown
<1> QED BY <1>2, <1>3 DEF SkipLine

LEMMA GreetedSound ==
  ASSUME ExchangeSound, NEW r \in Request, Greeted(r)
  PROVE  ExchangeSound'
<1> DEFINE k == On(r)
           c == ChildOf(r)
<1>1. /\ k \in Connection /\ connection[k] \in ServerConnection /\ connection[k].holder = r
      /\ c \in Child /\ c = connection[k].child /\ request[r].pc # "none" /\ HasLine(r)
      /\ UNCHANGED <<directory, edits, manager, registry>>
  BY DEF Greeted, ExchangeSound, McpTypeOK, GreetedUnderLock, UnderLock, ChildOf
<1>2. CASE Leaves(r, "failed", Noise) /\ child' = RestOf(r)
  BY <1>1, <1>2, RestGrown, LeavesSound DEF ExchangeSound, McpTypeOK
<1>3. CASE /\ Goes(r, "announcing") /\ UNCHANGED connection
           /\ child' = [RestOf(r) EXCEPT ![c].ready = TRUE]
  <2> DEFINE new == [child[c] EXCEPT !.out = Tail(@), !.ready = TRUE]
  <2>1. child' = [child EXCEPT ![c] = new]
    BY <1>1, <1>3 DEF RestOf, ExchangeSound, McpTypeOK
  <2>2. new \in ChildProcess /\ ~ new.early /\ new.ready
    <3>1. child[c] \in ChildProcess /\ ~ child[c].early
      BY <1>1 DEF ExchangeSound, McpTypeOK, InitializedFirst
    <3>2. Tail(child[c].out) \in Seq(Message \cup {Noise})
      BY <1>1, <3>1 DEF ChildProcess, HasLine
    <3> QED BY <3>1, <3>2 DEF ChildProcess
  <2> HIDE DEF new
  <2>3. Grown /\ child'[c].ready
    BY <1>1, <2>1, <2>2 DEF Grown, ExchangeSound, McpTypeOK, InitializedFirst
  <2>4. connection' = [connection EXCEPT ![k] = connection[k]]
    BY <1>1, <1>3 DEF ExchangeSound, McpTypeOK
  <2> HIDE DEF c
  <2>5. Holds(r, "announcing", connection[k], connection[k])
    BY <1>1, <2>3 DEF Holds
  <2> QED BY <1>1, <1>3, <2>3, <2>4, <2>5, GoesSound DEF UnderLock
<1> QED BY <1>2, <1>3 DEF Greeted

LEMMA AnnouncedSound ==
  ASSUME ExchangeSound, NEW r \in Request, Announced(r)
  PROVE  ExchangeSound'
<1> DEFINE k == On(r)
           c == ChildOf(r)
           e == [connection[k] EXCEPT !.greeted = TRUE]
<1>1. /\ k \in Connection /\ connection[k] \in ServerConnection /\ connection[k].holder = r
      /\ c \in Child /\ c = connection[k].child /\ child[c].ready
      /\ UNCHANGED <<directory, edits, manager, registry>> /\ Goes(r, "reading")
      /\ child' = Written(c, [of |-> r, kind |-> "call"])
  BY DEF Announced, ExchangeSound, McpTypeOK, GreetedUnderLock, UnderLock, ChildOf, Calls
<1>2. connection' = [connection EXCEPT ![k] = e]
  BY <1>1 DEF Announced, ExchangeSound, McpTypeOK
<1>3. e \in ServerConnection /\ e.holder = r /\ e.child = c
  BY <1>1 DEF ServerConnection
<1> HIDE DEF c, e
<1>4. Grown /\ child'[c].ready
  BY <1>1, WrittenGrown, RequestFacts DEF Grown
<1>5. Holds(r, "reading", connection[k], e)
  BY <1>1, <1>3, <1>4 DEF Holds
<1> QED BY <1>1, <1>2, <1>4, <1>5, GoesSound DEF UnderLock

LEMMA ExchangeStepSound ==
  ASSUME ExchangeSound, NEW r \in Request, Exchange(r)
  PROVE  ExchangeSound'
<1>1. CASE Acquire(r) \/ SkipLine(r) \/ Greeted(r) \/ Announced(r) \/ \E c \in Child : Spawned(r, c)
  BY <1>1, AcquireSound, SkipLineSound, GreetedSound, AnnouncedSound, SpawnedSound
<1>2. CASE Replied(r)
  <2>1. /\ Grown /\ UNCHANGED <<directory, edits, manager, registry>>
        /\ Leaves(r, "answered", [of |-> r, kind |-> "call"])
    BY <1>2, RestGrown DEF Replied, Matches, Wanted
  <2> QED BY <1>2, <2>1, LeavesSound, RequestFacts DEF Replied, ExchangeSound, McpTypeOK
<1>3. CASE Breaks(r) \/ HttpAnswers(r) \/ HttpFails(r)
  <2>1. /\ Grown /\ UNCHANGED <<directory, edits, manager, registry>> /\ request[r].pc # "none"
    BY <1>3 DEF Breaks, HttpAnswers, HttpFails, Busy, UnderLock, Grown, ExchangeSound, McpTypeOK,
                InitializedFirst
  <2>2. Leaves(r, "failed", Noise) \/ Leaves(r, "answered", [of |-> r, kind |-> "call"])
    <3>1. ASSUME NEW m \in Message, m.kind = "call", m.of = r
          PROVE  m = [of |-> r, kind |-> "call"]
      BY <3>1 DEF Message
    <3> QED BY <1>3, <3>1 DEF Breaks, HttpAnswers, HttpFails
  <2> QED BY <2>1, <2>2, LeavesSound, RequestFacts DEF ExchangeSound, McpTypeOK
<1>4. CASE \E n \in Name : CallTool(r, n)
  <2>1. PICK n \in Name : CallTool(r, n)
    BY <1>4
  <2> DEFINE q == [request[r] EXCEPT !.pc = Posted(n[1]), !.on = registry[n]]
  <2>2. registry[n] \in Connection /\ request' = [request EXCEPT ![r] = q]
        /\ UNCHANGED <<directory, edits, manager, registry, connection, child>>
    BY <2>1 DEF CallTool, ExchangeSound, McpTypeOK
  <2>3. q \in RequestState /\ q.pc \in {"waits", "posting"} /\ q.on \in Connection
    BY <2>2 DEF ExchangeSound, McpTypeOK, RequestState, Posted
  <2> HIDE DEF q
  <2>4. McpTypeOK'
    BY <2>2, <2>3 DEF ExchangeSound, McpTypeOK
  <2>5. \A s \in Request : request'[s] = IF s = r THEN q ELSE request[s]
    BY <2>2 DEF ExchangeSound, McpTypeOK
  <2>6. GreetedUnderLock'
    BY <2>2, <2>3, <2>5 DEF ExchangeSound, GreetedUnderLock, On, ChildOf, UnderLock
  <2> QED BY <2>2, <2>3, <2>4, <2>5, <2>6 DEF ExchangeSound, AnswersMatch, InitializedFirst
<1> QED BY <1>1, <1>2, <1>3, <1>4 DEF Exchange

\* Steps that leave connections, processes and requests alone.
LEMMA QuietSound ==
  ASSUME ExchangeSound, UNCHANGED <<connection, child, request>>,
         directory' \in [Server -> ServerManifest], edits' \in Nat, manager' \in Manager,
         registry' \in [Name -> Connection \cup {0}]
  PROVE  ExchangeSound'
BY DEF ExchangeSound, McpTypeOK, GreetedUnderLock, AnswersMatch, InitializedFirst, On, ChildOf

LEMMA ProcessStepSound ==
  ASSUME ExchangeSound, NEW c \in Child, Serves(c) \/ Chatters(c) \/ Exits(c)
  PROVE  ExchangeSound'
<1>1. child[c] \in ChildProcess /\ UNCHANGED <<directory, edits, manager, registry, connection, request>>
  BY DEF ExchangeSound, McpTypeOK, Serves, Chatters, Exits
<1>2. PICK new : /\ child' = [child EXCEPT ![c] = new] /\ new \in ChildProcess
                 /\ new.early = child[c].early /\ new.ready = child[c].ready
  <2>1. CASE Serves(c)
    <3>1. PICK m \in child[c].inbox :
            child' = [child EXCEPT ![c].inbox = @ \ {m}, ![c].out = Append(@, m)]
      BY <2>1 DEF Serves
    <3> DEFINE new == [child[c] EXCEPT !.inbox = @ \ {m}, !.out = Append(@, m)]
    <3>2. child' = [child EXCEPT ![c] = new]
      BY <3>1 DEF ExchangeSound, McpTypeOK
    <3>3. Append(child[c].out, m) \in Seq(Message \cup {Noise})
      BY <1>1, <3>1 DEF ChildProcess
    <3>4. new \in ChildProcess /\ new.early = child[c].early /\ new.ready = child[c].ready
      BY <1>1, <3>3 DEF ChildProcess
    <3> HIDE DEF new
    <3> QED BY <3>2, <3>4
  <2>2. CASE Chatters(c)
    <3> DEFINE n == child[c].noise + 1
               new == [child[c] EXCEPT !.noise = n, !.out = Append(@, Noise)]
    <3>1. child' = [child EXCEPT ![c] = new]
      BY <2>2 DEF Chatters, ExchangeSound, McpTypeOK
    <3>2. Append(child[c].out, Noise) \in Seq(Message \cup {Noise}) /\ n \in Nat
      BY <1>1 DEF ChildProcess
    <3> HIDE DEF n
    <3>3. new \in ChildProcess /\ new.early = child[c].early /\ new.ready = child[c].ready
      BY <1>1, <3>2 DEF ChildProcess
    <3> HIDE DEF new
    <3> QED BY <3>1, <3>3
  <2>3. CASE Exits(c)
    <3> DEFINE dead == [child[c] EXCEPT !.state = "dead", !.inbox = {}]
               gone == [child[c] EXCEPT !.state = "gone"]
    <3>1. child' = [child EXCEPT ![c] = dead] \/ child' = [child EXCEPT ![c] = gone]
      BY <2>3 DEF Exits, ExchangeSound, McpTypeOK
    <3>2. /\ dead \in ChildProcess /\ dead.early = child[c].early /\ dead.ready = child[c].ready
          /\ gone \in ChildProcess /\ gone.early = child[c].early /\ gone.ready = child[c].ready
      BY <1>1 DEF ChildProcess
    <3> HIDE DEF dead, gone
    <3> QED BY <3>1, <3>2
  <2> QED BY <2>1, <2>2, <2>3
<1>3. child' \in [Child -> ChildProcess]
      /\ \A d \in Child : child'[d].early = child[d].early /\ child'[d].ready = child[d].ready
  BY <1>2 DEF ExchangeSound, McpTypeOK
<1>4. McpTypeOK'
  BY <1>1, <1>3 DEF ExchangeSound, McpTypeOK
<1>5. \A k \in Connection : connection[k].child \in Child \cup {0}
  BY DEF ExchangeSound, McpTypeOK, ServerConnection
<1>6. GreetedUnderLock'
  BY <1>1, <1>3, <1>5 DEF ExchangeSound, GreetedUnderLock, On, ChildOf
<1> QED BY <1>1, <1>3, <1>4, <1>6 DEF ExchangeSound, AnswersMatch, InitializedFirst

LEMMA ConnectSound ==
  ASSUME ExchangeSound, NEW s \in Server, NEW k \in Connection, Connect(s, k)
  PROVE  ExchangeSound'
<1> DEFINE e == [connection[k] EXCEPT !.server = s, !.allowed = manager.scanned[s].tools]
           q == [request[k] EXCEPT !.pc = Posted(s), !.on = k]
           m == [manager EXCEPT !.current = k, !.todo = @ \ {s}]
<1>1. k \in Request /\ UNCHANGED <<directory, edits, registry, child>>
  BY RequestFacts DEF Connect
<1>2. connection' = [connection EXCEPT ![k] = e] /\ request' = [request EXCEPT ![k] = q] /\ manager' = m
  BY <1>1 DEF Connect, ExchangeSound, McpTypeOK
<1>3. e \in ServerConnection /\ e.holder = connection[k].holder /\ e.child = connection[k].child
      /\ e.greeted = connection[k].greeted
  BY DEF ExchangeSound, McpTypeOK, ServerConnection, Manager, ServerManifest
<1>4. q \in RequestState /\ q.pc \in {"waits", "posting"} /\ q.on = k
  BY <1>1 DEF ExchangeSound, McpTypeOK, RequestState, Posted
<1>5. m \in Manager
  BY DEF ExchangeSound, McpTypeOK, Manager
<1> HIDE DEF e, q, m
<1>6. McpTypeOK'
  BY <1>1, <1>2, <1>3, <1>4, <1>5 DEF ExchangeSound, McpTypeOK
<1>7. /\ \A r \in Request : request'[r] = IF r = k THEN q ELSE request[r]
      /\ \A j \in Connection : /\ connection'[j].child = connection[j].child
                               /\ connection'[j].holder = connection[j].holder
                               /\ connection'[j].greeted = connection[j].greeted
  BY <1>1, <1>2, <1>3 DEF ExchangeSound, McpTypeOK
<1>8. GreetedUnderLock'
  BY <1>1, <1>4, <1>7 DEF ExchangeSound, GreetedUnderLock, On, ChildOf, UnderLock
<1> QED BY <1>1, <1>4, <1>6, <1>7, <1>8 DEF ExchangeSound, AnswersMatch, InitializedFirst

LEMMA EndTaskSound ==
  ASSUME ExchangeSound, EndTask
  PROVE  ExchangeSound'
<1>1. UNCHANGED <<directory, edits, registry, child>> /\ manager' \in Manager
  BY DEF EndTask, ExchangeSound, McpTypeOK, Manager
<1>2. CASE manager.current # 0 /\ Busy(manager.current)
  <2>1. manager.current \in Request /\ request[manager.current].pc # "none"
        /\ Leaves(manager.current, "failed", Noise)
    BY <1>2, RequestFacts DEF EndTask, ExchangeSound, McpTypeOK, Manager, Busy, UnderLock
  <2>2. Grown
    BY <1>1 DEF Grown, ExchangeSound, McpTypeOK, InitializedFirst
  <2> QED BY <1>1, <2>1, <2>2, LeavesSound
<1>3. CASE UNCHANGED <<connection, request>>
  BY <1>1, <1>3, QuietSound DEF ExchangeSound, McpTypeOK
<1> QED BY <1>2, <1>3 DEF EndTask

\* What Exchange leaves to the refresh: its manager, and what its connection
\* is for.
LEMMA ExchangeLeaves ==
  ASSUME ExchangeSound, NEW r \in Request, Exchange(r)
  PROVE  /\ UNCHANGED <<directory, edits, manager, registry>>
         /\ \A k \in Connection : /\ connection'[k].server = connection[k].server
                                  /\ connection'[k].allowed = connection[k].allowed
<1>1. UNCHANGED <<directory, edits, manager, registry>>
  BY DEF Exchange, Acquire, SkipLine, Greeted, Announced, Replied, Breaks, HttpAnswers, HttpFails,
         Spawned, CallTool
<1>2. \/ UNCHANGED connection
      \/ \E k : \/ \E h : connection' = [connection EXCEPT ![k].holder = h]
               \/ connection' = [connection EXCEPT ![k].greeted = TRUE]
               \/ \E c : connection' = [connection EXCEPT ![k].child = c, ![k].greeted = FALSE]
  BY DEF Exchange, Acquire, SkipLine, Greeted, Announced, Replied, Breaks, HttpAnswers, HttpFails,
         Spawned, CallTool, Leaves
<1>3. connection \in [Connection -> ServerConnection]
  BY DEF ExchangeSound, McpTypeOK
<1>4. ASSUME NEW k \in Connection
      PROVE  connection'[k].server = connection[k].server /\ connection'[k].allowed = connection[k].allowed
  <2>1. connection[k] \in ServerConnection
    BY <1>3
  <2>2. \/ connection'[k] = connection[k]
        \/ \E h : connection'[k] = [connection[k] EXCEPT !.holder = h]
        \/ connection'[k] = [connection[k] EXCEPT !.greeted = TRUE]
        \/ \E c : connection'[k] = [connection[k] EXCEPT !.child = c, !.greeted = FALSE]
    BY <1>2, <1>3
  <2> QED BY <2>1, <2>2 DEF ServerConnection
<1> QED BY <1>1, <1>4

----------------------------------------------------------------------------
(***************************************************************************)
(* External servers: the refresh at the start of a task.                    *)
(***************************************************************************)
LEMMA SignatureFacts ==
  /\ \A d \in [Server -> ServerManifest] : Signature(d) \in Signatures /\ Signature(d) # NoSignature
  /\ NoSignature \in Signatures
<1>1. ASSUME NEW d \in [Server -> ServerManifest]
      PROVE  Signature(d) \in Signatures /\ Signature(d) # NoSignature
  <2>1. \A s \in Server : d[s].written \in Nat
    BY DEF ServerManifest
  <2>2. Signature(d) \in Signatures
    BY <2>1 DEF Signature, Signatures
  <2>3. <<Nobody, 0>> \notin Signature(d)
    BY McpAssumption DEF Signature
  <2> QED BY <2>2, <2>3 DEF NoSignature
<1>2. NoSignature \in Signatures
  BY DEF NoSignature, Signatures
<1> QED BY <1>1, <1>2

\* A signature tells which manifests are there, and when they were written.
LEMMA SignatureTells ==
  ASSUME NEW a \in [Server -> ServerManifest], NEW b \in [Server -> ServerManifest],
         Signature(a) = Signature(b), NEW s \in Server
  PROVE  a[s].there = b[s].there /\ (a[s].there => a[s].written = b[s].written)
<1>1. ASSUME NEW c \in [Server -> ServerManifest], NEW d \in [Server -> ServerManifest],
             Signature(c) = Signature(d), c[s].there
      PROVE  d[s].there /\ c[s].written = d[s].written
  <2>1. <<s, c[s].written>> \in Signature(c)
    BY <1>1 DEF Signature
  <2>2. PICK t \in {u \in Server : d[u].there} : <<s, c[s].written>> = <<t, d[t].written>>
    BY <1>1, <2>1 DEF Signature
  <2> QED BY <2>2
<1>2. a[s].there \in BOOLEAN /\ b[s].there \in BOOLEAN
  BY DEF ServerManifest
<1>3. a[s].there => b[s].there /\ a[s].written = b[s].written
  BY <1>1
<1>4. b[s].there => a[s].there
  BY <1>1
<1> QED BY <1>2, <1>3, <1>4

LEMMA ExchangeRefresh ==
  ASSUME ExchangeSound, RefreshSound, UNCHANGED <<directory, edits, manager, registry>>,
         \A k \in Connection : /\ connection'[k].server = connection[k].server
                              /\ connection'[k].allowed = connection[k].allowed
  PROVE  RefreshSound'
<1>1. manager.current \in Connection \cup {0}
  BY DEF ExchangeSound, McpTypeOK, Manager
<1> QED BY <1>1 DEF RefreshSound, Allowed, OfScan, ReadBefore

LEMMA EditRefresh ==
  ASSUME ExchangeSound, RefreshSound, NEW s \in Server, Edit(s)
  PROVE  ExchangeSound' /\ RefreshSound'
<1>1. /\ edits \in Nat /\ edits' = edits + 1 /\ directory \in [Server -> ServerManifest]
      /\ UNCHANGED <<manager, registry, connection, child, request>> /\ manager \in Manager
      /\ registry \in [Name -> Connection \cup {0}]
  BY DEF Edit, ExchangeSound, McpTypeOK
<1>2. PICK m \in ServerManifest :
        /\ directory' = [directory EXCEPT ![s] = m]
        /\ \/ m.written = edits + 1
           \/ /\ m.written = directory[s].written /\ m.state = directory[s].state
              /\ m.tools = directory[s].tools
  <2>1. CASE directory' = [directory EXCEPT ![s].there = ~ @]
    <3> DEFINE m == [directory[s] EXCEPT !.there = ~ @]
    <3>1. m \in ServerManifest /\ m.written = directory[s].written
          /\ m.state = directory[s].state /\ m.tools = directory[s].tools
      BY <1>1 DEF ServerManifest
    <3>2. directory' = [directory EXCEPT ![s] = m]
      BY <1>1, <2>1
    <3> QED BY <3>1, <3>2
  <2>2. CASE \E state \in ManifestState, tools \in SUBSET ExternalTool :
               directory' = [directory EXCEPT ![s] = [there |-> TRUE, written |-> edits',
                                                      state |-> state, tools |-> tools]]
    <3>1. PICK state \in ManifestState, tools \in SUBSET ExternalTool :
            directory' = [directory EXCEPT ![s] = [there |-> TRUE, written |-> edits',
                                                   state |-> state, tools |-> tools]]
      BY <2>2
    <3> DEFINE m == [there |-> TRUE, written |-> edits + 1, state |-> state, tools |-> tools]
    <3>2. m \in ServerManifest /\ m.written = edits + 1
      BY <1>1 DEF ServerManifest
    <3>3. directory' = [directory EXCEPT ![s] = m]
      BY <1>1, <3>1
    <3> QED BY <3>2, <3>3
  <2> QED BY <2>1, <2>2 DEF Edit
<1>3. directory' \in [Server -> ServerManifest]
      /\ \A t \in Server : directory'[t] = IF t = s THEN m ELSE directory[t]
  BY <1>1, <1>2
<1>4. ReadBefore'
  <2>1. \A t \in Server : /\ directory[t].written \in Nat /\ manager.scanned[t].written \in Nat
                          /\ manager.scanned[t].written <= directory[t].written
                          /\ directory[t].written <= edits
    BY <1>1 DEF RefreshSound, ReadBefore, Manager, ServerManifest
  <2> SUFFICES ASSUME NEW t \in Server
               PROVE  /\ manager.scanned[t].written <= directory'[t].written
                      /\ directory'[t].written <= edits + 1
                      /\ manager.scanned[t].written = directory'[t].written =>
                           /\ manager.scanned[t].state = directory'[t].state
                           /\ manager.scanned[t].tools = directory'[t].tools
    BY <1>1 DEF ReadBefore
  <2>2. CASE t = s /\ m.written = edits + 1
    BY <1>1, <1>3, <2>1, <2>2
  <2>3. CASE t # s \/ m.written # edits + 1
    <3>1. /\ directory'[t].written = directory[t].written
          /\ directory'[t].state = directory[t].state /\ directory'[t].tools = directory[t].tools
      BY <1>2, <1>3, <2>3
    <3> QED BY <1>1, <2>1, <3>1 DEF RefreshSound, ReadBefore
  <2> QED BY <2>2, <2>3
<1>5. RefreshSound'
  BY <1>1, <1>4 DEF RefreshSound, Allowed, OfScan
<1> QED BY <1>1, <1>3, <1>5, QuietSound

LEMMA BeginTaskRefresh ==
  ASSUME ExchangeSound, RefreshSound, BeginTask
  PROVE  ExchangeSound' /\ RefreshSound'
<1>1. /\ UNCHANGED <<directory, edits, registry, connection, child, request>>
      /\ manager \in Manager /\ registry \in [Name -> Connection \cup {0}] /\ edits \in Nat
      /\ directory \in [Server -> ServerManifest] /\ manager.at = "idle"
  BY DEF BeginTask, ExchangeSound, McpTypeOK
<1>2. PICK sign \in directory_signature :
        manager' = IF sign = manager.signature /\ sign # NoSignature
                   THEN [manager EXCEPT !.at = "working"]
                   ELSE [manager EXCEPT !.at = "signed", !.taken = sign]
  BY DEF BeginTask
<1>3. sign \in Signatures
  BY <1>1, SignatureFacts DEF directory_signature
<1>4. CASE sign = manager.signature /\ sign # NoSignature
  <2>1. manager' = [manager EXCEPT !.at = "working"]
    BY <1>2, <1>4
  <2>2. manager' \in Manager
    BY <1>1, <2>1 DEF Manager
  <2>3. RefreshSound'
    BY <1>1, <1>4, <2>1 DEF RefreshSound, Allowed, OfScan, ReadBefore, Manager
  <2> QED BY <1>1, <2>2, <2>3, QuietSound
<1>5. CASE ~ (sign = manager.signature /\ sign # NoSignature)
  <2>1. manager' = [manager EXCEPT !.at = "signed", !.taken = sign]
    BY <1>2, <1>5
  <2>2. manager' \in Manager
    BY <1>1, <1>3, <2>1 DEF Manager
  <2>3. RefreshSound'
    BY <1>1, <1>5, <2>1 DEF RefreshSound, Allowed, OfScan, ReadBefore, Manager
  <2> QED BY <1>1, <2>2, <2>3, QuietSound
<1> QED BY <1>4, <1>5

LEMMA ScanRefresh ==
  ASSUME ExchangeSound, RefreshSound, Scan
  PROVE  ExchangeSound' /\ RefreshSound'
<1> DEFINE here == {s \in Server : Enabled(directory[s])}
           torn == manager.taken \notin directory_signature
<1>1. /\ manager.at = "signed" /\ UNCHANGED <<directory, edits, connection, child, request>>
      /\ registry' = [n \in Name |-> IF n \in manager.loaded THEN 0 ELSE registry[n]]
      /\ manager' = [manager EXCEPT
           !.at = "listing", !.scanned = directory, !.found = {}, !.loaded = {},
           !.torn = torn, !.todo = here]
  BY DEF Scan, Unregistered
<1>2. /\ manager \in Manager /\ directory \in [Server -> ServerManifest] /\ edits \in Nat
      /\ registry \in [Name -> Connection \cup {0}]
  BY DEF ExchangeSound, McpTypeOK
<1>3. here \in SUBSET Server /\ torn \in BOOLEAN /\ \A s \in here : Enabled(directory[s])
  OBVIOUS
<1>4. ~ torn => manager.taken \in {Signature(directory), NoSignature}
  BY DEF directory_signature
<1> HIDE DEF here, torn
<1>5. /\ manager' \in Manager /\ manager'.at = "listing" /\ manager'.scanned = directory
      /\ manager'.found = {} /\ manager'.loaded = {} /\ manager'.current = manager.current
      /\ manager'.todo = here /\ manager'.torn = torn
      /\ manager'.signature = manager.signature /\ manager'.taken = manager.taken
  BY <1>1, <1>2, <1>3 DEF Manager
<1>6. registry' \in [Name -> Connection \cup {0}] /\ \A n \in Name : registry'[n] = 0
  BY <1>1, <1>2 DEF RefreshSound
<1>7. manager.current = 0 /\ (manager.taken # manager.signature \/ manager.taken = NoSignature)
  BY <1>1 DEF RefreshSound
<1>8. ReadBefore'
  <2>1. \A s \in Server : directory[s].written \in Nat /\ directory[s].written <= edits
    BY <1>2 DEF RefreshSound, ReadBefore, ServerManifest
  <2> QED BY <1>1, <1>2, <1>5, <2>1 DEF ReadBefore
<1>9. RefreshSound'
  BY <1>1, <1>3, <1>4, <1>5, <1>6, <1>7, <1>8 DEF RefreshSound, Allowed, OfScan
<1> QED BY <1>1, <1>2, <1>5, <1>6, <1>9, QuietSound

LEMMA ConnectRefresh ==
  ASSUME ExchangeSound, RefreshSound, NEW s \in Server, NEW k \in Connection, Connect(s, k)
  PROVE  RefreshSound'
<1>1. /\ UNCHANGED <<directory, edits, registry>> /\ manager.at = "listing" /\ s \in manager.todo
      /\ manager' = [manager EXCEPT !.current = k, !.todo = @ \ {s}]
      /\ connection' = [connection EXCEPT ![k].server = s, ![k].allowed = manager.scanned[s].tools]
  BY DEF Connect
<1>2. manager \in Manager /\ connection[k] \in ServerConnection /\ connection \in [Connection -> ServerConnection]
  BY DEF ExchangeSound, McpTypeOK
<1>3. connection'[k].server = s /\ connection'[k].allowed = manager.scanned[s].tools
  BY <1>1, <1>2 DEF ServerConnection
<1>4. /\ manager'.at = "listing" /\ manager'.todo = manager.todo \ {s} /\ manager'.current = k
      /\ manager'.signature = manager.signature /\ manager'.taken = manager.taken
      /\ manager'.scanned = manager.scanned /\ manager'.found = manager.found
      /\ manager'.loaded = manager.loaded /\ manager'.torn = manager.torn
  BY <1>1, <1>2 DEF Manager
<1> QED BY <1>1, <1>3, <1>4 DEF RefreshSound, Allowed, OfScan, ReadBefore

LEMMA ListedRefresh ==
  ASSUME ExchangeSound, RefreshSound, NEW k \in Connection, Listed(k)
  PROVE  ExchangeSound' /\ RefreshSound'
<1>1. PICK offered \in SUBSET ExternalTool :
        LET names == list_tools(k, offered) \ OwnName
        IN /\ registry' = Registered(names, k)
           /\ manager' = [manager EXCEPT !.current = 0, !.found = @ \cup names,
                                         !.loaded = @ \cup names]
  BY DEF Listed
<1> DEFINE names == list_tools(k, offered) \ OwnName
<1>2. /\ manager.at = "listing" /\ manager.current = k /\ k # 0
      /\ UNCHANGED <<directory, edits, connection, child, request>>
  BY RequestFacts DEF Listed
<1>3. manager \in Manager /\ registry \in [Name -> Connection \cup {0}]
  BY DEF ExchangeSound, McpTypeOK
<1>4. /\ connection[k].server \in Server /\ Enabled(manager.scanned[connection[k].server])
      /\ connection[k].allowed = manager.scanned[connection[k].server].tools
  BY <1>2 DEF RefreshSound
<1>5. names \subseteq Name /\ Allowed(names)
  BY <1>4 DEF list_tools, Name, Allowed
<1> HIDE DEF names
<1>6. /\ registry' = [n \in Name |-> IF n \in names THEN k ELSE registry[n]]
      /\ manager' = [manager EXCEPT !.current = 0, !.found = @ \cup names, !.loaded = @ \cup names]
  BY <1>1 DEF names, Registered
<1>7. /\ manager' \in Manager /\ manager'.at = "listing" /\ manager'.current = 0
      /\ manager'.found = manager.found \cup names /\ manager'.loaded = manager.loaded \cup names
      /\ manager'.signature = manager.signature /\ manager'.taken = manager.taken
      /\ manager'.scanned = manager.scanned /\ manager'.todo = manager.todo
      /\ manager'.torn = manager.torn
  BY <1>2, <1>3, <1>5, <1>6 DEF Manager
<1>8. registry' \in [Name -> Connection \cup {0}]
      /\ {n \in Name : registry'[n] # 0} = {n \in Name : registry[n] # 0} \cup names
  BY <1>2, <1>3, <1>5, <1>6
<1>9. RefreshSound'
  BY <1>2, <1>5, <1>7, <1>8 DEF RefreshSound, Allowed, OfScan, ReadBefore
<1> QED BY <1>2, <1>7, <1>8, <1>9, QuietSound DEF ExchangeSound, McpTypeOK

LEMMA NotListedRefresh ==
  ASSUME ExchangeSound, RefreshSound, NEW k \in Connection, NotListed(k)
  PROVE  ExchangeSound' /\ RefreshSound'
<1>1. /\ manager \in Manager /\ manager' = [manager EXCEPT !.current = 0]
      /\ UNCHANGED <<directory, edits, registry, connection, child, request>>
  BY DEF NotListed, ExchangeSound, McpTypeOK
<1>2. manager' \in Manager
  BY <1>1 DEF Manager
<1>3. RefreshSound'
  BY <1>1 DEF RefreshSound, Allowed, OfScan, ReadBefore, Manager
<1> QED BY <1>1, <1>2, <1>3, QuietSound DEF ExchangeSound, McpTypeOK

LEMMA EndRefreshRefresh ==
  ASSUME ExchangeSound, RefreshSound, EndRefresh
  PROVE  ExchangeSound' /\ RefreshSound'
<1>1. /\ manager \in Manager /\ manager.at = "listing" /\ manager.current = 0
      /\ manager' = [manager EXCEPT !.at = "working", !.signature = manager.taken,
                                    !.report = manager.found, !.cut = FALSE]
      /\ UNCHANGED <<directory, edits, registry, connection, child, request>>
  BY DEF EndRefresh, RefreshEnds, ExchangeSound, McpTypeOK
<1>2. manager' \in Manager
  BY <1>1 DEF Manager
<1>3. RefreshSound'
  BY <1>1 DEF RefreshSound, Allowed, OfScan, ReadBefore, Manager
<1> QED BY <1>1, <1>2, <1>3, QuietSound DEF ExchangeSound, McpTypeOK

LEMMA EndTaskRefresh ==
  ASSUME ExchangeSound, RefreshSound, EndTask
  PROVE  RefreshSound'
<1>1. /\ manager \in Manager /\ manager.at \in {"listing", "working"}
      /\ manager' = [manager EXCEPT !.at = "idle", !.current = 0,
                                    !.cut = @ \/ manager.at = "listing"]
      /\ UNCHANGED <<directory, edits, registry>>
  BY DEF EndTask, ExchangeSound, McpTypeOK
<1>2. /\ manager'.at = "idle" /\ manager'.current = 0
      /\ manager'.signature = manager.signature /\ manager'.taken = manager.taken
      /\ manager'.scanned = manager.scanned /\ manager'.loaded = manager.loaded
      /\ manager'.report = manager.report /\ manager'.torn = manager.torn
      /\ manager'.cut = (manager.cut \/ manager.at = "listing")
  BY <1>1 DEF Manager
<1> QED BY <1>1, <1>2 DEF RefreshSound, Allowed, OfScan, ReadBefore

\* What the refresh keeps gives what a task is promised.
LEMMA SoundAsReported ==
  ASSUME ExchangeSound, RefreshSound
  PROVE  ToolsAsReported
<1>1. /\ manager \in Manager /\ directory \in [Server -> ServerManifest]
      /\ manager.scanned \in [Server -> ServerManifest]
  BY DEF ExchangeSound, McpTypeOK, Manager
<1>2. CASE manager.at = "working" /\ manager.cut
  BY <1>2 DEF RefreshSound, ToolsAsReported
<1>3. CASE manager.at = "working" /\ ~ manager.cut
  <2>1. /\ {n \in Name : registry[n] # 0} = manager.report /\ Allowed(manager.report)
        /\ ~ manager.torn => OfScan(manager.signature)
    BY <1>3 DEF RefreshSound
  <2>2. ASSUME Signature(directory) = manager.signature, ~ manager.torn, NEW s \in Server,
               directory[s].there \/ manager.scanned[s].there
        PROVE  manager.scanned[s] = directory[s]
    <3>1. Signature(directory) = Signature(manager.scanned)
      BY <1>1, <2>1, <2>2, SignatureFacts DEF OfScan
    <3>2. /\ directory[s].there = manager.scanned[s].there
          /\ directory[s].written = manager.scanned[s].written
      BY <1>1, <2>2, <3>1, SignatureTells
    <3>3. /\ directory[s].state = manager.scanned[s].state
          /\ directory[s].tools = manager.scanned[s].tools
      BY <3>2 DEF RefreshSound, ReadBefore
    <3>4. directory[s] \in ServerManifest /\ manager.scanned[s] \in ServerManifest
      BY <1>1
    <3> QED BY <3>2, <3>3, <3>4 DEF ServerManifest
  <2>3. AsReported
    BY <2>1, <2>2 DEF AsReported, Allowed
  <2> QED BY <1>3, <2>3 DEF ToolsAsReported
<1> QED BY <1>1, <1>2, <1>3 DEF ToolsAsReported, Manager

LEMMA McpInitial == McpInit => McpInductive
<1> SUFFICES ASSUME McpInit PROVE McpInductive
  OBVIOUS
<1>1. directory \in [Server -> ServerManifest] /\ edits = 0
      /\ \A s \in Server : directory[s].written = 0
  <2> DEFINE First == {[there |-> there, written |-> 0, state |-> state, tools |-> ExternalTool] :
                         there \in BOOLEAN, state \in ManifestState}
  <2>1. \A m \in First : m \in ServerManifest /\ m.written = 0
    BY DEF ServerManifest
  <2>2. directory \in [Server -> First] /\ edits = 0
    BY DEF McpInit
  <2> QED BY <2>1, <2>2
<1>2. <<>> \in Seq(Message \cup {Noise})
  OBVIOUS
<1>3. McpTypeOK
  <2>1. manager \in Manager
    BY <1>1, SignatureFacts DEF McpInit, Manager
  <2>2. connection \in [Connection -> ServerConnection]
    BY DEF McpInit, ServerConnection
  <2>3. child \in [Child -> ChildProcess]
    BY <1>2 DEF McpInit, ChildProcess
  <2>4. request \in [Request -> RequestState]
    BY DEF McpInit, RequestState
  <2>5. registry \in [Name -> Connection \cup {0}] /\ edits \in Nat
    BY <1>1 DEF McpInit
  <2> QED BY <1>1, <2>1, <2>2, <2>3, <2>4, <2>5 DEF McpTypeOK
<1>4. GreetedUnderLock /\ AnswersMatch /\ InitializedFirst
  BY DEF McpInit, GreetedUnderLock, AnswersMatch, InitializedFirst, UnderLock
<1>5. RefreshSound
  BY <1>1 DEF McpInit, RefreshSound, Allowed, OfScan, ReadBefore
<1> QED BY <1>3, <1>4, <1>5 DEF McpInductive, ExchangeSound

LEMMA McpStep == McpInductive /\ [McpNext]_mcpVars => McpInductive'
<1> SUFFICES ASSUME ExchangeSound, RefreshSound, [McpNext]_mcpVars
             PROVE  ExchangeSound' /\ RefreshSound'
  BY DEF McpInductive
<1>1. CASE Refresh
  BY <1>1, BeginTaskRefresh, ScanRefresh, EndRefreshRefresh, EndTaskSound, EndTaskRefresh,
     ListedRefresh, NotListedRefresh, ConnectSound, ConnectRefresh DEF Refresh
<1>2. CASE \E s \in Server : Edit(s)
  BY <1>2, EditRefresh
<1>3. CASE \E r \in Request : Exchange(r)
  BY <1>3, ExchangeStepSound, ExchangeLeaves, ExchangeRefresh
<1>4. CASE \E c \in Child : Serves(c) \/ Chatters(c) \/ Exits(c)
  <2>1. UNCHANGED <<directory, edits, manager, registry, connection>>
    BY <1>4 DEF Serves, Chatters, Exits
  <2> QED BY <1>4, <2>1, ProcessStepSound, ExchangeRefresh
<1>5. CASE UNCHANGED mcpVars
  BY <1>5, QuietSound, ExchangeRefresh DEF mcpVars, ExchangeSound, McpTypeOK
<1> QED BY <1>1, <1>2, <1>3, <1>4, <1>5 DEF McpNext

\* Requests and processes, and refreshes, keep what they rely on, for any
\* servers, calls and changes of the directory.
THEOREM McpInductiveInvariant == McpSpec => []McpInductive
BY McpInitial, McpStep, PTL DEF McpSpec

\* Every variable of the external servers keeps its type.
THEOREM McpTypeCorrect == McpSpec => []McpTypeOK
<1>1. McpInductive => McpTypeOK
  BY DEF McpInductive, ExchangeSound
<1> QED BY McpInductiveInvariant, <1>1, PTL

\* A request is answered with its own answer, no process gets a request before
\* it was greeted, and the tools of a task are those the last refresh reported, of
\* servers that the manifests enable, unless a refresh of another state of the
\* directory was cut off since (mcp/external.py, mcp/directory.py).
THEOREM ExternalToolsAreSound == McpSpec => []ExternalToolsSound
<1>1. McpInductive => ExternalToolsSound
  BY SoundAsReported DEF McpInductive, ExchangeSound, ExternalToolsSound
<1> QED BY McpInductiveInvariant, <1>1, PTL
=============================================================================
