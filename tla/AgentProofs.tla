------------------------------ MODULE AgentProofs ------------------------------
(***************************************************************************)
(* Theorems about the agents that work on a subtask, for every number of    *)
(* subtasks, agents, calls, batches and attempts, any lifetimes, files and  *)
(* verification rules.                                                      *)
(*                                                                          *)
(* Delegation: type correctness, that a risky tool works only on an         *)
(* approval that stands, and that no tool works on a revoked credential.    *)
(* The last rests on Belongs (an agent is used only while its subtask runs, *)
(* and credentials are revoked only when none of the batch runs); the one   *)
(* before it on approvals never losing the status "approved".               *)
(*                                                                          *)
(* SubtaskExecution: type correctness, that a success has tool calls of its *)
(* own attempt, that what is staged from the script cache was recorded,     *)
(* that the phase the page shows is the one of the status, and that a       *)
(* success stays backed by the files.  ExecutionSound says which attempts   *)
(* may be successful and which agent may have made a call.                  *)
(*                                                                          *)
(* CodeAgentRun with ContextCompaction: type correctness, that receipts are *)
(* backed, and that what the model is sent is paired and of its own run.    *)
(* What a folding does is said of any list that stands for the beginning of *)
(* a history (StandsFor); RunSound is the invariant of a run.               *)
(*                                                                          *)
(* AgentStream: that no tool is cut before its window has passed, although  *)
(* an output without a call_id may be taken for another tool's entry.  Each *)
(* tool at work always has an entry of its own that lasts as long (Matches).*)
(* And that each call is settled once: its card is running exactly as long  *)
(* as it is pending (CardsOf).                                              *)
(***************************************************************************)
EXTENDS Delegation, SubtaskExecution, CodeAgentRun, AgentStream, FiniteSetTheorems,
        SequenceTheorems, WellFoundedInduction, TLAPS

InUse == {"thinking"} \cup Calling

\* An agent has a grant of its slot, and is used only while its subtask runs.
Belongs ==
  /\ \A s \in Slot : grants[s] # <<>>
  /\ \A a \in Agent : agent[a].at # "none" =>
       agent[a].slot \in Slot /\ agent[a].grant \in DOMAIN grants[agent[a].slot]
  /\ \A a \in Agent : agent[a].at \in InUse => stage[agent[a].slot] = "running"

Inductive == TypeOK /\ Belongs /\ WorksOnApproval /\ NoWorkOnRevoked

----------------------------------------------------------------------------
(***************************************************************************)
(* The steps of an agent.                                                   *)
(***************************************************************************)

\* The record r may replace the one of agent a in this step.
Fits(a, r) ==
  /\ agent[a].at # "none" /\ r.at # "none"
  /\ r.slot = agent[a].slot /\ r.grant = agent[a].grant
  /\ r.at \in InUse => agent[a].at \in InUse \/ stage[agent[a].slot] = "running"
  /\ r.at \in Calling => agent[a].at \in Calling \/ Bound(a)
  /\ r.at = "working" /\ r.key \in Key => approval'[r.key].status = "approved"

Replaced(a) == \E r \in AgentState : agent' = [agent EXCEPT ![a] = r] /\ Fits(a, r)

\* What was approved stays approved.
Kept == /\ approval' \in [Key -> ApprovalState]
        /\ \A k \in Key : approval[k].status = "approved" => approval'[k].status = "approved"

LEMMA AgentTyped ==
  ASSUME TypeOK, NEW a \in Agent
  PROVE  agent \in [Agent -> AgentState] /\ agent[a] \in AgentState
BY DEF TypeOK

\* Places of an agent that differ.
LEMMA Places ==
  /\ InUse = {"thinking", "notifying", "waiting", "working"}
  /\ Calling = {"notifying", "waiting", "working"}
  /\ At = {"none", "ready", "thinking", "notifying", "waiting", "working"}
BY DEF InUse, Calling, Waiting, At

LEMMA RequestKeeps ==
  ASSUME TypeOK, NEW k \in Key, approval' = Requested(k)
  PROVE  Kept
<1>1. [status |-> "pending", left |-> Timeout] \in ApprovalState
  BY DelegationAssumption DEF ApprovalState
<1> QED BY <1>1 DEF Requested, Kept, TypeOK

LEMMA ExpiryKeeps ==
  ASSUME TypeOK, NEW k, approval' = Expire(k)
  PROVE  Kept
<1>1. [status |-> "expired", left |-> 0] \in ApprovalState
  BY DEF ApprovalState
<1> QED BY <1>1 DEF Expire, Kept, TypeOK

LEMMA NothingKeeps ==
  ASSUME TypeOK, approval' = approval
  PROVE  Kept
BY DEF Kept, TypeOK

\* Execution, its end and its being cut off, and the return of a tool.
LEMMA UseFits ==
  ASSUME TypeOK, NEW a \in Agent, ExecuteSubagent(a) \/ EndExecution(a) \/ CutOff(a) \/ ToolReturns(a)
  PROVE  Replaced(a) /\ Kept
<1>1. agent \in [Agent -> AgentState] /\ agent[a] \in AgentState
  BY AgentTyped
<1>2. Kept
  BY NothingKeeps DEF ExecuteSubagent, EndExecution, CutOff, ToolReturns
<1>3. CASE ExecuteSubagent(a)
  <2> DEFINE n == agent[a].attempts + 1
             r == [agent[a] EXCEPT !.attempts = n, !.at = "thinking", !.calls = 0]
  <2>1. n \in Nat
    BY <1>1 DEF AgentState
  <2>2. agent' = [agent EXCEPT ![a] = r] /\ agent[a].at = "ready" /\ stage[agent[a].slot] = "running"
    BY <1>1, <1>3 DEF ExecuteSubagent
  <2> HIDE DEF n
  <2>3. r \in AgentState /\ r.at = "thinking" /\ r.slot = agent[a].slot /\ r.grant = agent[a].grant
    BY <1>1, <2>1, Places DEF AgentState
  <2>4. Fits(a, r)
    BY <2>2, <2>3, Places DEF Fits
  <2> QED BY <1>2, <2>2, <2>3, <2>4 DEF Replaced
<1>4. CASE EndExecution(a)
  <2> DEFINE r == [agent[a] EXCEPT !.at = "ready"]
  <2>1. agent' = [agent EXCEPT ![a] = r] /\ agent[a].at = "thinking"
    BY <1>1, <1>4 DEF EndExecution
  <2>2. r \in AgentState /\ r.at = "ready" /\ r.slot = agent[a].slot /\ r.grant = agent[a].grant
    BY <1>1, Places DEF AgentState
  <2>3. Fits(a, r)
    BY <2>1, <2>2, Places DEF Fits
  <2> QED BY <1>2, <2>1, <2>2, <2>3 DEF Replaced
<1>5. CASE CutOff(a)
  <2> DEFINE r == [agent[a] EXCEPT !.at = "ready", !.key = Plain, !.left = 0]
  <2>1. agent' = [agent EXCEPT ![a] = r] /\ agent[a].at \in InUse
    BY <1>1, <1>5 DEF CutOff, Executing, InUse
  <2>2. r \in AgentState /\ r.at = "ready" /\ r.slot = agent[a].slot /\ r.grant = agent[a].grant
    BY <1>1, Places DEF AgentState
  <2>3. Fits(a, r)
    BY <2>1, <2>2, Places DEF Fits
  <2> QED BY <1>2, <2>1, <2>2, <2>3 DEF Replaced
<1>6. CASE ToolReturns(a)
  <2> DEFINE r == [agent[a] EXCEPT !.at = "thinking", !.key = Plain]
  <2>1. agent' = [agent EXCEPT ![a] = r] /\ agent[a].at = "working"
    BY <1>1, <1>6 DEF ToolReturns
  <2>2. r \in AgentState /\ r.at = "thinking" /\ r.slot = agent[a].slot /\ r.grant = agent[a].grant
    BY <1>1, Places DEF AgentState
  <2>3. Fits(a, r)
    BY <2>1, <2>2, Places DEF Fits
  <2> QED BY <1>2, <2>1, <2>2, <2>3 DEF Replaced
<1> QED BY <1>3, <1>4, <1>5, <1>6

\* The waits behind a risky call.
LEMMA WaitFits ==
  ASSUME TypeOK, NEW a \in Agent, Notified(a) \/ Poll(a) \/ GiveUp(a)
  PROVE  Replaced(a) /\ Kept
<1>1. agent \in [Agent -> AgentState] /\ agent[a] \in AgentState
  BY AgentTyped
<1>2. CASE Notified(a)
  <2> DEFINE r == [agent[a] EXCEPT !.at = "waiting", !.left = Timeout]
  <2>1. agent' = [agent EXCEPT ![a] = r] /\ agent[a].at = "notifying"
    BY <1>1, <1>2 DEF Notified
  <2>2. r \in AgentState /\ r.at = "waiting" /\ r.slot = agent[a].slot /\ r.grant = agent[a].grant
    BY <1>1, Places, DelegationAssumption DEF AgentState
  <2>3. Fits(a, r)
    BY <2>1, <2>2, Places DEF Fits
  <2> QED BY <1>2, <2>1, <2>2, <2>3, NothingKeeps DEF Replaced, Notified
<1> DEFINE go   == [agent[a] EXCEPT !.at = "working", !.left = 0]
           back == [agent[a] EXCEPT !.at = "thinking", !.key = Plain, !.left = 0]
<1>3. /\ go \in AgentState /\ go.at = "working" /\ go.key = agent[a].key
      /\ go.slot = agent[a].slot /\ go.grant = agent[a].grant
  BY <1>1, Places DEF AgentState
<1>4. /\ back \in AgentState /\ back.at = "thinking"
      /\ back.slot = agent[a].slot /\ back.grant = agent[a].grant
  BY <1>1, Places DEF AgentState
<1>5. CASE Poll(a) \/ GiveUp(a)
  <2>1. agent[a].at = "waiting" /\ Kept
    BY <1>5, NothingKeeps, ExpiryKeeps DEF Poll, GiveUp
  <2>2. \/ agent' = [agent EXCEPT ![a] = go] /\ approval'[agent[a].key].status = "approved"
        \/ agent' = [agent EXCEPT ![a] = back]
    BY <1>1, <1>5 DEF Poll, GiveUp
  <2>3. approval'[agent[a].key].status = "approved" => Fits(a, go)
    BY <1>3, <2>1, Places DEF Fits
  <2>4. Fits(a, back)
    BY <1>4, <2>1, Places DEF Fits
  <2> HIDE DEF go, back
  <2> QED BY <1>3, <1>4, <2>1, <2>2, <2>3, <2>4 DEF Replaced
<1> QED BY <1>2, <1>5

\* A call goes to work at once only if it is plain or already approved.
LEMMA AuthorizedWork ==
  ASSUME NEW k \in Key \cup {Plain}
  PROVE  /\ Authorized(k) \in {"working", "notifying", "waiting", "thinking"}
         /\ Authorized(k) = "working" /\ k \in Key => approval[k].status = "approved"
<1>1. CASE k = Plain
  BY <1>1, DelegationAssumption DEF Authorized
<1>2. CASE k \in Key
  <2>1. k # Plain
    BY <1>2, DelegationAssumption
  <2> QED BY <1>2, <2>1 DEF Authorized
<1> QED BY <1>1, <1>2

LEMMA CallFits ==
  ASSUME TypeOK, NEW a \in Agent, NEW k \in Key \cup {Plain}, Call(a, k)
  PROVE  Replaced(a) /\ Kept
<1>1. agent \in [Agent -> AgentState] /\ agent[a] \in AgentState
  BY AgentTyped
<1>2. Kept
  BY RequestKeeps, NothingKeeps DEF Call
<1> DEFINE next == IF Permitted(a) THEN Authorized(k) ELSE "thinking"
           key  == IF next = "thinking" THEN Plain ELSE k
           left == IF next = "waiting" THEN Timeout ELSE 0
           n    == agent[a].calls + 1
           r    == [agent[a] EXCEPT !.calls = n, !.at = next, !.key = key, !.left = left]
<1>3. agent' = [agent EXCEPT ![a] = r] /\ agent[a].at = "thinking"
  BY <1>1 DEF Call
<1>4. /\ next \in {"working", "notifying", "waiting", "thinking"}
      /\ next # "thinking" => Bound(a)
      /\ next = "working" /\ k \in Key => approval[k].status = "approved"
  BY AuthorizedWork DEF Permitted
<1>5. key \in Key \cup {Plain} /\ key \in {k, Plain} /\ left \in Nat /\ n \in Nat
  BY <1>1, DelegationAssumption DEF AgentState
<1> HIDE DEF next, key, left, n
<1>6. /\ r \in AgentState /\ r.at = next /\ r.key = key
      /\ r.slot = agent[a].slot /\ r.grant = agent[a].grant
  BY <1>1, <1>4, <1>5, Places DEF AgentState
<1>7. key \in Key => key = k
  BY <1>5, DelegationAssumption
<1>8. Fits(a, r)
  BY <1>2, <1>3, <1>4, <1>6, <1>7, Places DEF Fits, Kept
<1> QED BY <1>2, <1>3, <1>6, <1>8 DEF Replaced

LEMMA UseStep ==
  ASSUME TypeOK, NEW a \in Agent, Use(a)
  PROVE  /\ Replaced(a) /\ Kept
         /\ UNCHANGED <<stage, grants, created, active, windows>>
         /\ released' \subseteq Agent
<1>1. Replaced(a) /\ Kept
  BY UseFits, WaitFits, CallFits DEF Use
<1>2. UNCHANGED <<stage, grants, created, active, windows>> /\ released' \subseteq Agent
  BY DEF Use, ExecuteSubagent, EndExecution, CutOff, Call, Notified, Poll, GiveUp, ToolReturns,
         TypeOK
<1> QED BY <1>1, <1>2

\* An agent's step keeps the invariant.
LEMMA UseInductive ==
  ASSUME Inductive, NEW a \in Agent, Use(a)
  PROVE  Inductive'
<1> USE DEF Inductive
<1>1. /\ UNCHANGED <<stage, grants, created, active, windows>> /\ released' \subseteq Agent
      /\ approval' \in [Key -> ApprovalState]
      /\ \A k \in Key : approval[k].status = "approved" => approval'[k].status = "approved"
  BY UseStep DEF Kept
<1>2. PICK r \in AgentState : agent' = [agent EXCEPT ![a] = r] /\ Fits(a, r)
  BY UseStep DEF Replaced
<1>3. agent \in [Agent -> AgentState]
  BY AgentTyped
<1>4. agent'[a] = r /\ \A b \in Agent \ {a} : agent'[b] = agent[b]
  BY <1>2, <1>3
<1>5. TypeOK'
  BY <1>1, <1>2, <1>3 DEF TypeOK
<1>6. Belongs'
  <2> SUFFICES ASSUME NEW b \in Agent
               PROVE  /\ agent'[b].at # "none" =>
                           /\ agent'[b].slot \in Slot
                           /\ agent'[b].grant \in DOMAIN grants[agent'[b].slot]
                      /\ agent'[b].at \in InUse => stage[agent'[b].slot] = "running"
    BY <1>1 DEF Belongs
  <2>1. CASE b = a
    BY <1>2, <1>4, <2>1 DEF Fits, Belongs
  <2>2. CASE b # a
    BY <1>4, <2>2 DEF Belongs
  <2> QED BY <2>1, <2>2
<1>7. WorksOnApproval'
  <2> SUFFICES ASSUME NEW b \in Agent, agent'[b].at = "working", agent'[b].key \in Key
               PROVE  approval'[agent'[b].key].status = "approved"
    BY DEF WorksOnApproval
  <2>1. CASE b = a
    BY <1>2, <1>4, <2>1 DEF Fits
  <2>2. CASE b # a
    BY <1>1, <1>4, <2>2 DEF WorksOnApproval
  <2> QED BY <2>1, <2>2
<1>8. NoWorkOnRevoked'
  <2> SUFFICES ASSUME NEW b \in Agent, agent'[b].at \in Calling
               PROVE  ~ grants[agent'[b].slot][agent'[b].grant].revoked
    BY <1>1 DEF NoWorkOnRevoked
  <2>1. CASE b = a
    BY <1>2, <1>4, <2>1 DEF Fits, NoWorkOnRevoked, Bound
  <2>2. CASE b # a
    BY <1>4, <2>2 DEF NoWorkOnRevoked
  <2> QED BY <2>1, <2>2
<1> QED BY <1>5, <1>6, <1>7, <1>8

----------------------------------------------------------------------------
(***************************************************************************)
(* The grants of a batch.                                                   *)
(***************************************************************************)
LEMMA FreshTyped == Fresh \in Grant
BY DelegationAssumption DEF Fresh, Grant

\* A sequence of grants that are replaced one by one stays one.
LEMMA SameLength ==
  ASSUME NEW gs \in Seq(Grant), NEW hs, DOMAIN hs = DOMAIN gs, hs = [i \in DOMAIN gs |-> hs[i]],
         \A i \in DOMAIN gs : hs[i] \in Grant
  PROVE  hs \in Seq(Grant) /\ (gs # <<>> => hs # <<>>)
<1>1. DOMAIN gs = 1..Len(gs) /\ Len(gs) \in Nat
  BY LenProperties
<1>2. hs \in [1..Len(gs) -> Grant]
  BY <1>1
<1>3. hs \in Seq(Grant)
  BY <1>1, <1>2, IsASeq
<1>4. gs # <<>> => 1 \in DOMAIN hs
  BY <1>1, EmptySeq
<1>5. hs = <<>> => 1 \notin DOMAIN hs
  OBVIOUS
<1> QED BY <1>3, <1>4, <1>5

LEMMA RenewedGrants ==
  ASSUME TypeOK, NEW slots
  PROVE  /\ Renewed(slots) \in [Slot -> Seq(Grant)]
         /\ \A s \in Slot : grants[s] # <<>> => Renewed(slots)[s] # <<>>
         /\ \A s \in Slot : DOMAIN grants[s] \subseteq DOMAIN Renewed(slots)[s]
<1>1. \A s \in Slot : grants[s] \in Seq(Grant)
  BY DEF TypeOK
<1>2. ASSUME NEW s \in Slot
      PROVE  /\ Append(grants[s], Fresh) \in Seq(Grant) /\ Append(grants[s], Fresh) # <<>>
             /\ DOMAIN grants[s] \subseteq DOMAIN Append(grants[s], Fresh)
  BY <1>1, FreshTyped, AppendProperties, LenProperties
<1>3. CASE Renewed(slots) = grants
  BY <1>3 DEF TypeOK
<1>4. CASE Renewed(slots) = [s \in Slot |-> Append(grants[s], Fresh)]
  BY <1>2, <1>4
<1> QED BY <1>3, <1>4 DEF Renewed

LEMMA RevokedGrants ==
  ASSUME NEW gs \in Seq(Grant)
  PROVE  RevokeAll(gs) \in Seq(Grant) /\ (gs # <<>> => RevokeAll(gs) # <<>>)
         /\ DOMAIN RevokeAll(gs) = DOMAIN gs
<1>1. [left |-> 0, revoked |-> TRUE] \in Grant
  BY DEF Grant
<1>2. RevokeAll(gs) = [i \in DOMAIN gs |-> RevokeAll(gs)[i]] /\ DOMAIN RevokeAll(gs) = DOMAIN gs
      /\ \A i \in DOMAIN gs : RevokeAll(gs)[i] \in Grant
  BY <1>1 DEF RevokeAll
<1> QED BY <1>2, SameLength

Aged(gs) == [i \in DOMAIN gs |-> [gs[i] EXCEPT !.left = Down(@)]]

LEMMA AgedGrants ==
  ASSUME NEW gs \in Seq(Grant)
  PROVE  /\ Aged(gs) \in Seq(Grant) /\ (gs # <<>> => Aged(gs) # <<>>)
         /\ DOMAIN Aged(gs) = DOMAIN gs
         /\ \A i \in DOMAIN gs : Aged(gs)[i].revoked = gs[i].revoked
<1>1. ASSUME NEW i \in DOMAIN gs
      PROVE  /\ [gs[i] EXCEPT !.left = Down(@)] \in Grant
             /\ [gs[i] EXCEPT !.left = Down(@)].revoked = gs[i].revoked
  <2>1. gs[i] \in Grant
    BY ElementOfSeq, LenProperties
  <2>2. Down(gs[i].left) \in Nat
    BY <2>1 DEF Down, Grant
  <2> QED BY <2>1, <2>2 DEF Grant
<1>2. Aged(gs) = [i \in DOMAIN gs |-> Aged(gs)[i]] /\ DOMAIN Aged(gs) = DOMAIN gs
      /\ \A i \in DOMAIN gs : Aged(gs)[i] \in Grant /\ Aged(gs)[i].revoked = gs[i].revoked
  BY <1>1 DEF Aged
<1> QED BY <1>2, SameLength

----------------------------------------------------------------------------
(***************************************************************************)
(* The steps of the batch, the creator, the human and the clock.            *)
(***************************************************************************)
LEMMA NoAgentTyped == NoAgent \in AgentState
BY Places DEF NoAgent, AgentState

LEMMA InitInductive == Init => Inductive
<1> SUFFICES ASSUME Init PROVE Inductive
  OBVIOUS
<1>1. agent \in [Agent -> AgentState] /\ \A a \in Agent : agent[a].at = "none"
  BY NoAgentTyped DEF Init, NoAgent
<1>2. <<Fresh>> \in Seq(Grant) /\ <<Fresh>> # <<>>
  BY FreshTyped
<1>3. NoApproval \in ApprovalState
  BY DEF NoApproval, ApprovalState
<1>4. TypeOK
  <2>1. grants \in [Slot -> Seq(Grant)]
    BY <1>2 DEF Init
  <2>2. created \in 0..MaxCreated
    BY DelegationAssumption DEF Init
  <2> QED BY <1>1, <1>3, <2>1, <2>2 DEF TypeOK, Init
<1>5. Belongs
  BY <1>1, <1>2, Places DEF Belongs, Init
<1>6. WorksOnApproval /\ NoWorkOnRevoked
  BY <1>1, Places DEF WorksOnApproval, NoWorkOnRevoked
<1> QED BY <1>4, <1>5, <1>6 DEF Inductive

\* When nothing of the batch runs, no agent is in use, and grants may be
\* renewed and revoked.
LEMMA WindowInductive ==
  ASSUME Inductive, \A s \in Slot : stage[s] # "running",
         stage' \in [Slot -> {"out", "pending", "running", "done"}],
         grants' \in [Slot -> Seq(Grant)], windows' \in Nat,
         \A s \in Slot : grants'[s] # <<>> /\ DOMAIN grants[s] \subseteq DOMAIN grants'[s],
         UNCHANGED <<agent, created, active, released, approval>>
  PROVE  Inductive'
<1> USE DEF Inductive
<1>1. \A a \in Agent : agent[a].at \notin InUse
  BY Places DEF Belongs
<1>2. TypeOK'
  BY DEF TypeOK
<1>3. Belongs'
  BY <1>1 DEF Belongs
<1>4. WorksOnApproval' /\ NoWorkOnRevoked'
  BY <1>1, Places DEF WorksOnApproval, NoWorkOnRevoked
<1> QED BY <1>2, <1>3, <1>4

LEMMA BatchInductive ==
  ASSUME Inductive, Batch
  PROVE  Inductive'
<1>1. TypeOK /\ \A s \in Slot : grants[s] # <<>>
  BY DEF Inductive, Belongs
<1>2. CASE \E b \in SUBSET Slot \ {{}} : OpenWindow(b)
  <2>1. PICK b \in SUBSET Slot \ {{}} : OpenWindow(b)
    BY <1>2
  <2>2. /\ stage' \in [Slot -> {"out", "pending", "running", "done"}]
        /\ \A s \in Slot : stage[s] # "running"
    BY <2>1 DEF OpenWindow, InWindow
  <2>3. windows' \in Nat
    BY <1>1, <2>1 DEF OpenWindow, TypeOK
  <2>4. grants' = Renewed(b) /\ UNCHANGED <<agent, created, active, released, approval>>
    BY <2>1 DEF OpenWindow
  <2> QED BY <1>1, <2>2, <2>3, <2>4, RenewedGrants, WindowInductive
<1>3. CASE CloseWindow
  <2>1. /\ stage' \in [Slot -> {"out", "pending", "running", "done"}]
        /\ \A s \in Slot : stage[s] # "running"
    BY <1>3 DEF CloseWindow
  <2>2. windows' \in Nat /\ UNCHANGED <<agent, created, active, released, approval>>
    BY <1>1, <1>3 DEF CloseWindow, TypeOK
  <2>3. \A s \in Slot : grants[s] \in Seq(Grant)
    BY <1>1 DEF TypeOK
  <2>4. /\ grants' \in [Slot -> Seq(Grant)]
        /\ \A s \in Slot : grants'[s] # <<>> /\ DOMAIN grants[s] \subseteq DOMAIN grants'[s]
    BY <1>1, <1>3, <2>3, RevokedGrants DEF CloseWindow
  <2> QED BY <2>1, <2>2, <2>4, WindowInductive
<1> QED BY <1>2, <1>3 DEF Batch

LEMMA SubtaskInductive ==
  ASSUME Inductive, NEW s \in Slot, StartSubtask(s) \/ EndSubtask(s)
  PROVE  Inductive'
<1> USE DEF Inductive
<1>1. UNCHANGED <<grants, agent, created, released, approval, windows>>
  BY DEF StartSubtask, EndSubtask
<1>2. /\ stage' \in [Slot -> {"out", "pending", "running", "done"}]
      /\ \A t \in Slot \ {s} : stage'[t] = stage[t]
  BY DEF StartSubtask, EndSubtask, TypeOK
<1>3. active' \subseteq Slot \cup Agent
  BY DEF StartSubtask, EndSubtask, TypeOK
<1>4. \A a \in Agent : agent[a].at \in InUse => agent[a].slot # s
  BY Places DEF StartSubtask, EndSubtask, Executing, Belongs, InUse
<1>5. TypeOK'
  BY <1>1, <1>2, <1>3 DEF TypeOK
<1>6. Belongs'
  BY <1>1, <1>2, <1>4, Places DEF Belongs
<1>7. WorksOnApproval' /\ NoWorkOnRevoked'
  BY <1>1 DEF WorksOnApproval, NoWorkOnRevoked
<1> QED BY <1>5, <1>6, <1>7

LEMMA CreateInductive ==
  ASSUME Inductive, NEW s \in Slot, CreateSubagent(s)
  PROVE  Inductive'
<1> USE DEF Inductive
<1> DEFINE a == created + 1
           r == [NoAgent EXCEPT !.slot = s, !.grant = Len(grants[s]), !.at = "ready"]
<1>1. a \in Agent /\ a \in 0..MaxCreated
  BY DelegationAssumption DEF CreateSubagent, TypeOK, Agent
<1>2. Len(grants[s]) \in Nat /\ Len(grants[s]) \in DOMAIN grants[s]
  <2>1. grants[s] \in Seq(Grant) /\ grants[s] # <<>>
    BY DEF TypeOK, Belongs
  <2> QED BY <2>1, LenProperties, EmptySeq
<1>3. r \in AgentState /\ r.at = "ready" /\ r.slot = s /\ r.grant = Len(grants[s])
  BY <1>2, NoAgentTyped, Places DEF AgentState, NoAgent
<1>4. /\ agent' = [agent EXCEPT ![a] = r] /\ created' = a /\ active' = active \cup {a}
      /\ UNCHANGED <<stage, grants, released, approval, windows>>
  BY DEF CreateSubagent
<1>5. agent \in [Agent -> AgentState]
  BY DEF TypeOK
<1> HIDE DEF a, r
<1>6. agent'[a] = r /\ \A b \in Agent \ {a} : agent'[b] = agent[b]
  BY <1>1, <1>4, <1>5
<1>7. TypeOK'
  BY <1>1, <1>3, <1>4 DEF TypeOK
<1>8. Belongs'
  BY <1>2, <1>3, <1>4, <1>6, Places DEF Belongs
<1>9. WorksOnApproval' /\ NoWorkOnRevoked'
  BY <1>3, <1>4, <1>6, Places DEF WorksOnApproval, NoWorkOnRevoked
<1> QED BY <1>7, <1>8, <1>9

LEMMA DecideInductive ==
  ASSUME Inductive, NEW k \in Key, Decide(k)
  PROVE  Inductive'
<1> USE DEF Inductive
<1>1. UNCHANGED <<stage, grants, agent, created, active, released, windows>>
  BY DEF Decide
<1>2. approval' \in [Key -> ApprovalState]
  BY DEF Decide, TypeOK, ApprovalState
<1>3. \A j \in Key : approval[j].status = "approved" => approval'[j].status = "approved"
  BY DEF Decide, TypeOK
<1>4. TypeOK'
  BY <1>1, <1>2 DEF TypeOK
<1>5. Belongs' /\ NoWorkOnRevoked'
  BY <1>1 DEF Belongs, NoWorkOnRevoked
<1>6. WorksOnApproval'
  BY <1>1, <1>3 DEF WorksOnApproval
<1> QED BY <1>4, <1>5, <1>6

LEMMA TickInductive ==
  ASSUME Inductive, Tick
  PROVE  Inductive'
<1> USE DEF Inductive
<1>1. UNCHANGED <<stage, created, active, released, windows>>
  BY DEF Tick
<1>2. ASSUME NEW a \in Agent
      PROVE  /\ agent'[a] \in AgentState
             /\ agent'[a].at = agent[a].at /\ agent'[a].key = agent[a].key
             /\ agent'[a].slot = agent[a].slot /\ agent'[a].grant = agent[a].grant
  <2>1. agent[a] \in AgentState
    BY DEF TypeOK
  <2>2. Down(agent[a].left) \in Nat
    BY <2>1 DEF Down, AgentState
  <2>3. agent'[a] = [agent[a] EXCEPT !.left = Down(agent[a].left)]
    BY DEF Tick
  <2> QED BY <2>1, <2>2, <2>3 DEF AgentState
<1>3. ASSUME NEW k \in Key
      PROVE  approval'[k] \in ApprovalState /\ approval'[k].status = approval[k].status
  <2>1. approval[k] \in ApprovalState
    BY DEF TypeOK
  <2>2. Down(approval[k].left) \in Nat
    BY <2>1 DEF Down, ApprovalState
  <2>3. approval'[k] = [approval[k] EXCEPT !.left = Down(approval[k].left)]
    BY DEF Tick
  <2> QED BY <2>1, <2>2, <2>3 DEF ApprovalState
<1>4. ASSUME NEW s \in Slot
      PROVE  /\ grants'[s] \in Seq(Grant) /\ (grants[s] # <<>> => grants'[s] # <<>>)
             /\ DOMAIN grants'[s] = DOMAIN grants[s]
             /\ \A i \in DOMAIN grants[s] : grants'[s][i].revoked = grants[s][i].revoked
  <2>1. grants'[s] = Aged(grants[s]) /\ grants[s] \in Seq(Grant)
    BY DEF Tick, Aged, TypeOK
  <2> QED BY <2>1, AgedGrants
<1>5. /\ agent' = [a \in Agent |-> agent'[a]] /\ approval' = [k \in Key |-> approval'[k]]
      /\ grants' = [s \in Slot |-> grants'[s]]
  BY DEF Tick
<1>6. TypeOK'
  BY <1>1, <1>2, <1>3, <1>4, <1>5 DEF TypeOK
<1>7. Belongs'
  BY <1>1, <1>2, <1>4 DEF Belongs
<1>8. WorksOnApproval'
  BY <1>2, <1>3 DEF WorksOnApproval
<1>9. NoWorkOnRevoked'
  BY <1>2, <1>4, Places DEF NoWorkOnRevoked, Belongs
<1> QED BY <1>6, <1>7, <1>8, <1>9

LEMMA StutterInductive ==
  ASSUME Inductive, UNCHANGED vars
  PROVE  Inductive'
BY DEF vars, Inductive, TypeOK, Belongs, WorksOnApproval, NoWorkOnRevoked

----------------------------------------------------------------------------
\* Whatever the batches, agents, humans and clocks do, what Belongs says holds.
THEOREM InductiveInvariant == Spec => []Inductive
<1>1. Inductive /\ [Next]_vars => Inductive'
  <2> SUFFICES ASSUME Inductive, [Next]_vars PROVE Inductive'
    OBVIOUS
  <2>1. CASE Batch
    BY <2>1, BatchInductive
  <2>2. CASE Subtasks
    BY <2>2, SubtaskInductive, CreateInductive DEF Subtasks
  <2>3. CASE \E a \in Agent : Use(a)
    BY <2>3, UseInductive
  <2>4. CASE \E k \in Key : Decide(k)
    BY <2>4, DecideInductive
  <2>5. CASE Tick
    BY <2>5, TickInductive
  <2> QED BY <2>1, <2>2, <2>3, <2>4, <2>5, StutterInductive DEF Next
<1> QED BY InitInductive, <1>1, PTL DEF Spec

\* Every variable keeps its type, for any number of agents and batches.
THEOREM TypeCorrect == Spec => []TypeOK
BY InductiveInvariant, PTL DEF Inductive

\* A risky tool works only on an approval that stands, whatever the order of the
\* human's decision, the expiry and the polls of several calls (approvals.py).
THEOREM ToolsApproved == Spec => []WorksOnApproval
BY InductiveInvariant, PTL DEF Inductive

\* No tool works on a revoked credential, also when the agent's slot has a new
\* grant (verify_grant and the agent's own binding).
THEOREM RevokedIsDead == Spec => []NoWorkOnRevoked
BY InductiveInvariant, PTL DEF Inductive

----------------------------------------------------------------------------
\* What an attempt that is at work, waits for a replacement or is over has come to.
JobSound(s) ==
  /\ job[s].pc = "ready" => job[s].attempt < MaxAttempts
  /\ job[s].ok => job[s].pc \in {"reporting", "done"}

JobsSound == \A s \in Subtask : JobSound(s)

\* Calls of the first batch are of the agent that is at work now or of one before it.
CallsOfThisBatch ==
  batch.count = 1 => \A c \in calls : c.agent <= job[c.subtask].agent

ExecutionSound == ExecutionTypeOK /\ JobsSound /\ CallsOfThisBatch

----------------------------------------------------------------------------
\* The steps of a job, by what they make of it.
LEMMA FreshJobTyped == FreshJob \in JobState /\ [FreshJob EXCEPT !.agent = 1] \in JobState
<1>1. FreshJob \in JobState
  BY ExecutionAssumption DEF FreshJob, JobState, Pc
<1> QED
  BY <1>1 DEF JobState

LEMMA CompletedTyped ==
  ASSUME ExecutionTypeOK, NEW s \in Subtask
  PROVE  /\ Completed(s) \in [subtask : Subtask, attempt : 0..MaxAttempts, agent : 0..1]
         /\ Completed(s).subtask = s /\ Completed(s).agent = job[s].agent
         /\ Completed(s).attempt = job[s].attempt
BY DEF ExecutionTypeOK, JobState, Completed

\* One job is replaced by another that is sound, of the same agent.
JobStep(s, j) ==
  /\ j \in JobState /\ job' = [job EXCEPT ![s] = j]
  /\ j.pc = "ready" => j.attempt < MaxAttempts
  /\ j.ok => j.pc \in {"reporting", "done"}
  /\ j.agent = job[s].agent

LEMMA JobStepSound ==
  ASSUME ExecutionTypeOK, JobsSound, NEW s \in Subtask, NEW j, JobStep(s, j)
  PROVE  /\ job' \in [Subtask -> JobState] /\ JobsSound'
         /\ \A t \in Subtask : job'[t].agent = job[t].agent
         /\ \A t \in Subtask : t # s => job'[t] = job[t]
         /\ job'[s] = j
BY DEF ExecutionTypeOK, JobsSound, JobSound, JobStep

\* The calls of the batch after a step that keeps the agents.
LEMMA CallsKept ==
  ASSUME ExecutionSound, batch' = batch,
         \A t \in Subtask : job'[t].agent = job[t].agent,
         calls' = calls \/ \E s \in Subtask : calls' = calls \cup {Completed(s)}
  PROVE  /\ calls' \subseteq [subtask : Subtask, attempt : 0..MaxAttempts, agent : 0..1]
         /\ CallsOfThisBatch'
<1>1. \A c \in calls : c \in [subtask : Subtask, attempt : 0..MaxAttempts, agent : 0..1]
  BY DEF ExecutionSound, ExecutionTypeOK
<1>2. \A s \in Subtask : job[s].agent \in 0..1
  BY DEF ExecutionSound, ExecutionTypeOK, JobState
<1>3. CASE calls' = calls
  BY <1>1, <1>3 DEF ExecutionSound, CallsOfThisBatch
<1>4. ASSUME NEW s \in Subtask, calls' = calls \cup {Completed(s)}
      PROVE  /\ calls' \subseteq [subtask : Subtask, attempt : 0..MaxAttempts, agent : 0..1]
             /\ CallsOfThisBatch'
  <2>1. calls' \subseteq [subtask : Subtask, attempt : 0..MaxAttempts, agent : 0..1]
    BY <1>1, <1>4, CompletedTyped DEF ExecutionSound
  <2>2. ASSUME batch'.count = 1, NEW c \in calls' PROVE c.agent <= job'[c.subtask].agent
    <3>1. CASE c \in calls
      BY <1>1, <2>2, <3>1 DEF ExecutionSound, CallsOfThisBatch
    <3>2. CASE c = Completed(s)
      BY <1>2, <3>2, CompletedTyped DEF ExecutionSound
    <3> QED
      BY <1>4, <2>2, <3>1, <3>2
  <2> QED
    BY <2>1, <2>2 DEF CallsOfThisBatch
<1> QED
  BY <1>3, <1>4

\* What a step leaves alone.
LEMMA FailedJob ==
  ASSUME ExecutionTypeOK, JobsSound, NEW s \in Subtask, Running(s), Failed(s)
  PROVE  \E j : JobStep(s, j) /\ ~ j.ok /\ j.pc \in {"ready", "requested", "done", "reporting"}
<1>1. job[s] \in JobState /\ ~ job[s].ok /\ job \in [Subtask -> JobState]
  BY DEF ExecutionTypeOK, JobsSound, JobSound, Running
<1>2. \E pc \in Pc : /\ job' = [job EXCEPT ![s].pc = pc]
                     /\ pc = "ready" => job[s].attempt < MaxAttempts
                     /\ pc \in {"ready", "requested", "done", "reporting"}
  BY DEF Failed, Pc
<1>3. PICK pc \in Pc : /\ job' = [job EXCEPT ![s].pc = pc]
                       /\ pc = "ready" => job[s].attempt < MaxAttempts
                       /\ pc \in {"ready", "requested", "done", "reporting"}
  BY <1>2
<1> DEFINE j == [job[s] EXCEPT !.pc = pc]
<1>4. j \in JobState /\ j.pc = pc /\ j.attempt = job[s].attempt /\ j.ok = job[s].ok
      /\ j.agent = job[s].agent
  BY <1>1 DEF JobState
<1>5. job' = [job EXCEPT ![s] = j]
  BY <1>1, <1>3
<1> QED
  BY <1>1, <1>3, <1>4, <1>5 DEF JobStep

LEMMA QuotaOfFailed ==
  ASSUME ExecutionTypeOK, NEW s \in Subtask, Failed(s)
  PROVE  /\ quota' \in [replacements : 0..MaxReplacements, reworks : 0..MaxReworks, replans : 0..MaxReplans]
         /\ quota'.reworks = quota.reworks
<1>1. CASE quota.replacements > 0 /\ quota' = [quota EXCEPT !.replacements = @ - 1]
  <2>1. quota.replacements \in 0..MaxReplacements
    BY DEF ExecutionTypeOK
  <2> DEFINE n == quota.replacements - 1
  <2>2. n \in 0..MaxReplacements
    BY <1>1, <2>1, ExecutionAssumption
  <2>3. quota' = [quota EXCEPT !.replacements = n]
    BY <1>1
  <2> HIDE DEF n
  <2> QED
    BY <2>2, <2>3 DEF ExecutionTypeOK
<1>2. CASE UNCHANGED quota
  BY <1>2 DEF ExecutionTypeOK
<1> QED
  BY <1>1, <1>2 DEF Failed

----------------------------------------------------------------------------
(* The script cache. *)

LEMMA StagedTyped ==
  ASSUME ExecutionTypeOK
  PROVE  /\ Staged \in [File -> Entry]
         /\ \A f \in File :
              \/ Staged[f] = disk[f]
              \/ /\ disk[f] = NoFile /\ Stageable(f)
                 /\ Staged[f] = [what |-> index[f], by |-> "staged"]
<1>1. \A f \in File : Stageable(f) =>
        [what |-> store[<<f, index[f]>>], by |-> "staged"] = [what |-> index[f], by |-> "staged"]
        /\ [what |-> index[f], by |-> "staged"] \in Entry
  BY DEF Stageable, ExecutionTypeOK, Entry
<1>2. \A f \in File : Staged[f] = IF Stageable(f)
                          THEN [what |-> index[f], by |-> "staged"] ELSE disk[f]
  BY <1>1 DEF Staged
<1>3. Staged \in [File -> Entry]
  BY <1>1 DEF Staged, ExecutionTypeOK
<1> QED
  BY <1>2, <1>3 DEF Stageable

LEMMA RecordTyped ==
  ASSUME ExecutionTypeOK, NEW files, files \cap Script \subseteq File, Record(files)
  PROVE  /\ DOMAIN index' \subseteq Script /\ index' \in [DOMAIN index' -> Content]
         /\ DOMAIN store' \subseteq Script \X Content /\ store' \in [DOMAIN store' -> Content]
         /\ DOMAIN store \subseteq DOMAIN store'
<1> DEFINE new    == {f \in files \cap Script : disk[f].what \notin {"absent", "empty"}}
           digest == [f \in new |-> disk[f].what]
<1>1. CASE index' = Indexed(digest) /\ store' = WithBytes(digest)
  <2>1. \A f \in new : f \in Script /\ digest[f] \in Content
    <3>1. ASSUME NEW f \in new PROVE f \in Script /\ disk[f].what \in Content
      <4>1. disk[f] \in Entry /\ disk[f].what # "absent"
        BY DEF ExecutionTypeOK
      <4> QED
        BY <4>1 DEF Entry, NoFile
    <3> QED
      BY <3>1
  <2>2. DOMAIN digest = new
    OBVIOUS
  <2> HIDE DEF digest, new
  <2>3. DOMAIN index' = new \cup DOMAIN index /\ \A f \in DOMAIN index' : index'[f] \in Content
    BY <1>1, <2>1, <2>2 DEF Indexed, ExecutionTypeOK
  <2>4. index' \in [DOMAIN index' -> Content]
    BY <1>1, <2>3 DEF Indexed
  <2>5. DOMAIN store' = DOMAIN store \cup {<<f, digest[f]>> : f \in new}
    BY <1>1, <2>2 DEF WithBytes
  <2>6. \A f \in new : <<f, digest[f]>>[2] \in Content /\ <<f, digest[f]>> \in Script \X Content
    BY <2>1
  <2>7. \A e \in DOMAIN store' : store'[e] \in Content
    BY <1>1, <2>2, <2>5, <2>6 DEF WithBytes, ExecutionTypeOK
  <2>8. store' \in [DOMAIN store' -> Content]
    BY <1>1, <2>7 DEF WithBytes
  <2> QED
    BY <2>1, <2>3, <2>4, <2>5, <2>6, <2>8 DEF ExecutionTypeOK
<1>2. CASE UNCHANGED <<index, store>>
  BY <1>2 DEF ExecutionTypeOK
<1> QED
  BY <1>1, <1>2 DEF Record

----------------------------------------------------------------------------
(* The status and the graph of phases. *)

View == [status : DOMAIN PhaseOf \cup {"human_required"}, phase : Phase]

AtWork == {"executing", "replacement_requested", "replacement_executing"}

\* A plan no subtask of which is dispatched.
Planned == {[status |-> "planning", phase |-> "planning"],
            [status |-> "plan_review", phase |-> "reviewing_plan"]}

\* What the graph may show of a plan that keeps every result.
Behind(v) == /\ v.status \in {"aggregating", "result_review", "completed"}
             /\ v.phase \in {"planning", "reviewing_plan"}

\* Up to the first rework: what the view is while a batch runs, is planned, and is over.
ViewSound ==
  quota.reworks = MaxReworks =>
    \/ engine = "batch" /\ batch.entered /\ view.status \in AtWork /\ Mirrors(view)
    \/ engine = "batch" /\ ~ batch.entered /\ AllDone /\ view \in Planned
    \/ engine = "planning" /\ AllDone /\ view = [status |-> "replanning", phase |-> "planning"]
    \/ /\ engine \in {"aggregating", "review"} /\ AllDone /\ AllGood
       /\ view.status = IF engine = "aggregating" THEN "aggregating" ELSE "result_review"
       /\ Mirrors(view) \/ (~ batch.entered /\ Behind(view))
    \/ engine = "over" /\ AllDone /\ (Mirrors(view) \/ (~ batch.entered /\ AllGood /\ Behind(view)))

LEMMA PhaseTable ==
  /\ DOMAIN PhaseOf = {"planning", "replanning", "plan_review", "executing", "replacement_requested",
        "replacement_executing", "decomposition_issue", "aggregating", "result_review",
        "completed_provisional", "completed"}
  /\ PhaseOf["planning"] = "planning" /\ PhaseOf["replanning"] = "planning"
  /\ PhaseOf["plan_review"] = "reviewing_plan" /\ PhaseOf["executing"] = "executing"
  /\ PhaseOf["replacement_requested"] = "replacing_agent"
  /\ PhaseOf["replacement_executing"] = "executing"
  /\ PhaseOf["decomposition_issue"] = "monitoring" /\ PhaseOf["aggregating"] = "aggregating"
  /\ PhaseOf["result_review"] = "reviewing_result"
  /\ PhaseOf["completed_provisional"] = "reviewing_result" /\ PhaseOf["completed"] = "completed"
BY DEF PhaseOf

LEMMA SourceTable ==
  /\ Sources["planning"] = {"idle", "classifying", "reviewing_plan", "granting_permissions",
                            "monitoring", "reworking"}
  /\ Sources["reviewing_plan"] = {"planning", "granting_permissions"}
  /\ Sources["executing"] = {"reviewing_plan", "granting_permissions", "planning", "monitoring",
                             "replacing_agent", "creating_tool", "reworking"}
  /\ Sources["monitoring"] = {"executing", "replacing_agent"}
  /\ Sources["replacing_agent"] = {"executing", "monitoring"}
  /\ Sources["aggregating"] = {"executing", "monitoring", "replacing_agent", "creating_tool"}
  /\ Sources["reviewing_result"] = {"aggregating", "executing"}
  /\ Sources["completed"] = Phase \ {"idle", "reviewing_plan", "completed"}
BY DEF Sources, MonitorFrom

LEMMA MovedTyped ==
  ASSUME NEW v \in View, NEW status \in DOMAIN PhaseOf \cup {"human_required"}
  PROVE  Moved(v, status) \in View
<1>1. ASSUME status \in DOMAIN PhaseOf PROVE PhaseOf[status] \in Phase
  BY <1>1, PhaseTable DEF Phase
<1>2. Advanced(v.phase, status) \in Phase
  BY <1>1 DEF Advanced, View
<1> QED
  BY <1>2 DEF Moved, View

LEMMA WorkMirrors ==
  ASSUME NEW v \in View, v.status \in AtWork, Mirrors(v), NEW status \in AtWork
  PROVE  Mirrors(Moved(v, status)) /\ Moved(v, status).status = status
BY PhaseTable, SourceTable DEF Mirrors, Moved, Advanced, AtWork, View, Phase

LEMMA FailureMirrors ==
  ASSUME NEW v \in View, v \in Planned \/ (v.status \in AtWork /\ Mirrors(v))
  PROVE  /\ Through(v, "decomposition_issue", "replanning")
              = [status |-> "replanning", phase |-> "planning"]
         /\ Mirrors(Through(v, "decomposition_issue", "human_required"))
<1> DEFINE w == Moved(v, "decomposition_issue")
<1>1. /\ w.status = "decomposition_issue" /\ w = [status |-> w.status, phase |-> w.phase]
      /\ w.phase \in {"monitoring", "planning", "reviewing_plan"}
  BY PhaseTable, SourceTable DEF Mirrors, Moved, Advanced, AtWork, View, Planned
<1> HIDE DEF w
<1>2. Moved(w, "replanning") = [status |-> "replanning", phase |-> "planning"]
  BY <1>1, PhaseTable, SourceTable DEF Moved, Advanced
<1>3. Moved(w, "human_required").status = "human_required"
  BY <1>1 DEF Moved
<1> QED
  BY <1>2, <1>3, PhaseTable DEF Through, Mirrors, w

LEMMA AggregateMirrors ==
  ASSUME NEW v \in View, v \in Planned \/ (v.status \in AtWork /\ Mirrors(v)),
         NEW status \in {"aggregating", "completed"}
  PROVE  /\ Moved(v, status).status = status
         /\ Mirrors(Moved(v, status)) \/ (v \in Planned /\ Behind(Moved(v, status)))
<1>1. CASE v \in Planned
  BY <1>1, PhaseTable, SourceTable DEF Mirrors, Moved, Advanced, Planned, Behind, Phase
<1>2. CASE v.status \in AtWork /\ Mirrors(v)
  BY <1>2, PhaseTable, SourceTable DEF Mirrors, Moved, Advanced, AtWork, View, Phase
<1> QED
  BY <1>1, <1>2

LEMMA ReviewMirrors ==
  ASSUME NEW v \in View, v.status \in {"aggregating", "result_review"}, Mirrors(v) \/ Behind(v),
         NEW status \in {"result_review", "completed"}, status # v.status
  PROVE  /\ Moved(v, status).status = status
         /\ Mirrors(Moved(v, status)) \/ (~ Mirrors(v) /\ Behind(Moved(v, status)))
<1>1. CASE Mirrors(v)
  BY <1>1, PhaseTable, SourceTable DEF Mirrors, Moved, Advanced, View, Phase
<1>2. CASE Behind(v)
  BY <1>2, PhaseTable, SourceTable DEF Mirrors, Moved, Advanced, Behind, Phase
<1> QED
  BY <1>1, <1>2

LEMMA ReplanMirrors ==
  LET v == [status |-> "replanning", phase |-> "planning"]
      w == [status |-> "plan_review", phase |-> "reviewing_plan"]
  IN  Moved(v, "plan_review") = w
BY PhaseTable, SourceTable DEF Moved, Advanced

LEMMA EnterMirrors ==
  ASSUME NEW v \in Planned
  PROVE  Moved(v, "executing") = [status |-> "executing", phase |-> "executing"]
BY PhaseTable, SourceTable DEF Moved, Advanced, Planned

----------------------------------------------------------------------------
(* The steps of a subtask. *)

\* What every step of the attempt at s leaves behind: the job has made a step, the
\* status and the batch stay, and no call is forgotten.
Attempted(s, j) ==
  /\ JobStep(s, j) /\ job[s].pc \in {"ready", "first", "repair"} /\ ~ job[s].ok
  /\ UNCHANGED <<view, engine, batch>> /\ quota'.reworks = quota.reworks
  /\ calls \subseteq calls' /\ DOMAIN store \subseteq DOMAIN store'

LEMMA BeginStep ==
  ASSUME ExecutionSound, NEW s \in Subtask, Begin(s)
  PROVE  ExecutionSound' /\ \E j : Attempted(s, j) /\ ~ j.ok
<1> DEFINE n == job[s].attempt + 1
           j == [job[s] EXCEPT !.pc = "first", !.attempt = n, !.used = FALSE]
<1>1. job[s] \in JobState /\ ~ job[s].ok /\ job[s].attempt < MaxAttempts /\ job \in [Subtask -> JobState]
      /\ job[s].pc = "ready"
  BY DEF ExecutionSound, ExecutionTypeOK, JobsSound, JobSound, Begin
<1>2. n \in 0..MaxAttempts
  BY <1>1, ExecutionAssumption DEF JobState
<1>3. job' = [job EXCEPT ![s] = j]
  BY <1>1 DEF Begin
<1> HIDE DEF n
<1>4. j \in JobState /\ j.pc = "first" /\ j.ok = job[s].ok /\ j.agent = job[s].agent
  BY <1>1, <1>2 DEF JobState, Pc
<1> HIDE DEF j
<1>5. JobStep(s, j)
  BY <1>1, <1>3, <1>4 DEF JobStep
<1>6. Attempted(s, j) /\ ~ j.ok
  BY <1>1, <1>4, <1>5 DEF Attempted, Begin
<1>7. disk' \in [File -> Entry]
  BY StagedTyped DEF ExecutionSound, Begin
<1>8. calls' \subseteq [subtask : Subtask, attempt : 0..MaxAttempts, agent : 0..1] /\ CallsOfThisBatch'
  BY <1>5, CallsKept, JobStepSound DEF ExecutionSound, Begin
<1>9. job' \in [Subtask -> JobState] /\ JobsSound'
  BY <1>5, JobStepSound DEF ExecutionSound
<1>10. ExecutionTypeOK'
  BY <1>7, <1>8, <1>9 DEF ExecutionSound, ExecutionTypeOK, Begin
<1> QED
  BY <1>6, <1>8, <1>9, <1>10 DEF ExecutionSound

\* A tool writes or deletes one file: what it spoils is in the history, unless the
\* file is the subtask's own.
ToolChanged(s, f, entry) ==
  /\ disk' = [disk EXCEPT ![f] = entry]
  /\ spoiled' = Spoilt(f) \/ (f \in Output(s) /\ UNCHANGED spoiled)

LEMMA ToolEffect ==
  ASSUME NEW s \in Subtask, UseTool(s)
  PROVE  \/ UNCHANGED <<disk, spoiled>>
         \/ \E f \in File, entry \in Entry : entry.by # "staged" /\ ToolChanged(s, f, entry)
<1>1. \A c \in Written[s] : /\ [what |-> c, by |-> "agent"] \in Entry
                             /\ [what |-> c, by |-> "agent"].by # "staged"
  BY ExecutionAssumption DEF Entry
<1>2. NoFile \in Entry /\ NoFile.by # "staged"
  BY DEF Entry, NoFile
<1>3. Output(s) \subseteq File
  BY ExecutionAssumption DEF Output
<1>4. CASE WriteChecked(s)
  <2>1. PICK f \in Allowed(s), c \in Written[s] :
          /\ disk' = [disk EXCEPT ![f] = [what |-> c, by |-> "agent"]]
          /\ spoiled' = IF Scope[s] = {} THEN Spoilt(f) ELSE spoiled
    BY <1>4 DEF WriteChecked
  <2>2. f \in File /\ ToolChanged(s, f, [what |-> c, by |-> "agent"])
    BY <1>3, <2>1 DEF Allowed, ToolChanged
  <2> QED
    BY <1>1, <2>2
<1>5. CASE RunUnchecked(s)
  <2>1. PICK f \in File, entry \in {[what |-> c, by |-> "agent"] : c \in Written[s]} \cup {NoFile} :
          disk' = [disk EXCEPT ![f] = entry] /\ spoiled' = Spoilt(f)
    BY <1>5 DEF RunUnchecked
  <2>2. entry \in Entry /\ entry.by # "staged"
    BY <1>1, <1>2, <2>1
  <2> QED
    BY <2>1, <2>2 DEF ToolChanged
<1> QED
  BY <1>4, <1>5 DEF UseTool

LEMMA UseToolStep ==
  ASSUME ExecutionSound, NEW s \in Subtask, UseTool(s)
  PROVE  ExecutionSound' /\ \E j : Attempted(s, j) /\ ~ j.ok
<1> DEFINE j == [job[s] EXCEPT !.used = TRUE]
<1>1. job[s] \in JobState /\ ~ job[s].ok /\ job \in [Subtask -> JobState]
      /\ job[s].pc \in {"first", "repair"}
  BY DEF ExecutionSound, ExecutionTypeOK, JobsSound, JobSound, UseTool, Running
<1>2. job' = [job EXCEPT ![s] = j]
  BY <1>1 DEF UseTool
<1>3. j \in JobState /\ j.pc = job[s].pc /\ j.ok = job[s].ok /\ j.agent = job[s].agent
  BY <1>1 DEF JobState
<1> HIDE DEF j
<1>4. JobStep(s, j)
  BY <1>1, <1>2, <1>3 DEF JobStep
<1>5. calls' = calls \/ calls' = calls \cup {Completed(s)}
  BY DEF UseTool
<1>6. Attempted(s, j) /\ ~ j.ok
  BY <1>1, <1>3, <1>4, <1>5 DEF Attempted, UseTool
<1>7. disk' \in [File -> Entry] /\ spoiled' \subseteq Subtask
  <2>1. \A f \in File : Spoilt(f) \subseteq Subtask
    BY DEF Spoilt, ExecutionSound, ExecutionTypeOK
  <2> QED
    BY <2>1, ToolEffect DEF ToolChanged, ExecutionSound, ExecutionTypeOK
<1>8. calls' \subseteq [subtask : Subtask, attempt : 0..MaxAttempts, agent : 0..1] /\ CallsOfThisBatch'
  BY <1>4, <1>5, CallsKept, JobStepSound DEF ExecutionSound, UseTool
<1>9. job' \in [Subtask -> JobState] /\ JobsSound'
  BY <1>4, JobStepSound DEF ExecutionSound
<1>10. ExecutionTypeOK'
  BY <1>7, <1>8, <1>9 DEF ExecutionSound, ExecutionTypeOK, UseTool
<1> QED
  BY <1>6, <1>8, <1>9, <1>10 DEF ExecutionSound

LEMMA RaisesStep ==
  ASSUME ExecutionSound, NEW s \in Subtask, Raises(s)
  PROVE  ExecutionSound' /\ \E j : Attempted(s, j) /\ ~ j.ok
<1>1. ~ job[s].ok /\ job[s].pc \in {"first", "repair"}
  BY DEF ExecutionSound, ExecutionTypeOK, JobsSound, JobSound, Raises, Running
<1>2. PICK j : JobStep(s, j) /\ ~ j.ok
  BY FailedJob DEF ExecutionSound, Raises
<1>3. /\ quota' \in [replacements : 0..MaxReplacements, reworks : 0..MaxReworks, replans : 0..MaxReplans]
      /\ quota'.reworks = quota.reworks
  BY QuotaOfFailed DEF ExecutionSound, Raises
<1>4. Attempted(s, j)
  BY <1>1, <1>2, <1>3 DEF Attempted, Raises
<1>5. calls' \subseteq [subtask : Subtask, attempt : 0..MaxAttempts, agent : 0..1] /\ CallsOfThisBatch'
  BY <1>2, CallsKept, JobStepSound DEF ExecutionSound, Raises
<1>6. job' \in [Subtask -> JobState] /\ JobsSound'
  BY <1>2, JobStepSound DEF ExecutionSound
<1>7. ExecutionTypeOK'
  BY <1>3, <1>5, <1>6 DEF ExecutionSound, ExecutionTypeOK, Raises
<1> QED
  BY <1>2, <1>4, <1>5, <1>6, <1>7 DEF ExecutionSound

\* The job of an attempt whose answer is accepted, if it succeeded.
ByAnswer(s, j) ==
  j.ok => /\ j.attempt = job[s].attempt
          /\ \E a \in Answers : Accepted(s, a, calls')

\* An answer is accepted, or the attempt is repaired or has failed.
LEMMA AnsweredStep ==
  ASSUME ExecutionSound, NEW s \in Subtask, AttemptAnswered(s)
  PROVE  /\ ExecutionSound'
         /\ \E j : Attempted(s, j) /\ ByAnswer(s, j)
<1>1. /\ job[s] \in JobState /\ ~ job[s].ok /\ job \in [Subtask -> JobState]
      /\ job[s].pc \in {"first", "repair"} /\ UNCHANGED <<disk, view, engine, batch>>
  BY DEF ExecutionSound, ExecutionTypeOK, JobsSound, JobSound, AttemptAnswered, Running
<1>2. PICK a \in Answers :
        LET log == IF s \in Direct THEN calls \cup {Completed(s)} ELSE calls IN
        /\ calls' = log
        /\ \/ Accepted(s, a, log) /\ Succeeded(s, a) /\ spoiled' = spoiled \ {s}
           \/ /\ ~ Accepted(s, a, log)
              /\ IF Claims(s, a) /\ job[s].pc = "first" /\ MaxRepairs > 0
                 THEN Repair(s) /\ UNCHANGED quota
                 ELSE Failed(s)
              /\ UNCHANGED <<index, store, spoiled>>
  BY DEF AttemptAnswered
<1>3. /\ calls' = calls \/ calls' = calls \cup {Completed(s)}
      /\ spoiled' \in {spoiled, spoiled \ {s}}
  BY <1>2
<1> DEFINE TypedQuota == /\ quota' \in [replacements : 0..MaxReplacements, reworks : 0..MaxReworks,
                                         replans : 0..MaxReplans]
                         /\ quota'.reworks = quota.reworks
           TypedCache == /\ DOMAIN index' \subseteq Script /\ index' \in [DOMAIN index' -> Content]
                         /\ DOMAIN store' \subseteq Script \X Content
                         /\ store' \in [DOMAIN store' -> Content] /\ DOMAIN store \subseteq DOMAIN store'
           Good(j)    == /\ JobStep(s, j)
                         /\ j.ok => j.attempt = job[s].attempt /\ Accepted(s, a, calls')
<1>4. (\E j : Good(j)) /\ TypedQuota /\ TypedCache
  <2>1. ASSUME Accepted(s, a, calls'), Succeeded(s, a)
        PROVE  (\E j : Good(j)) /\ TypedQuota /\ TypedCache
    <3> DEFINE pc == IF job[s].agent = 0 THEN "done" ELSE "reporting"
               j  == [job[s] EXCEPT !.ok = TRUE, !.pc = pc]
    <3>1. job' = [job EXCEPT ![s] = j]
      BY <1>1, <2>1 DEF Succeeded
    <3>2. pc \in {"done", "reporting"}
      OBVIOUS
    <3> HIDE DEF pc
    <3>3. /\ j \in JobState /\ j.pc = pc /\ j.ok /\ j.agent = job[s].agent
          /\ j.attempt = job[s].attempt
      BY <1>1, <3>2 DEF JobState, Pc
    <3> HIDE DEF j
    <3>4. Good(j)
      BY <2>1, <3>1, <3>2, <3>3 DEF JobStep
    <3>5. TypedQuota
      BY <2>1 DEF Succeeded, ExecutionSound, ExecutionTypeOK
    <3>6. TypedCache
      <4>1. Record({a.named} \cup {f \in File : {f} \in Scope[s]})
        BY <2>1 DEF Succeeded
      <4>2. ({a.named} \cup {f \in File : {f} \in Scope[s]}) \cap Script \subseteq File
        BY ExecutionAssumption
      <4> QED
        BY <4>1, <4>2, RecordTyped DEF ExecutionSound
    <3> QED
      BY <3>4, <3>5, <3>6
  <2>2. ASSUME Repair(s), UNCHANGED <<quota, index, store>>
        PROVE  (\E j : Good(j)) /\ TypedQuota /\ TypedCache
    <3> DEFINE j == [job[s] EXCEPT !.pc = "repair", !.used = FALSE]
    <3>1. job' = [job EXCEPT ![s] = j]
      BY <1>1, <2>2 DEF Repair
    <3>2. j \in JobState /\ j.pc = "repair" /\ j.ok = job[s].ok /\ j.agent = job[s].agent
      BY <1>1 DEF JobState, Pc
    <3> HIDE DEF j
    <3>3. Good(j)
      BY <1>1, <3>1, <3>2 DEF JobStep
    <3> QED
      BY <2>2, <3>3 DEF ExecutionSound, ExecutionTypeOK
  <2>3. ASSUME Failed(s), UNCHANGED <<index, store>>
        PROVE  (\E j : Good(j)) /\ TypedQuota /\ TypedCache
    <3>1. PICK j : JobStep(s, j) /\ ~ j.ok
      BY <2>3, FailedJob, <1>1 DEF ExecutionSound, Running
    <3>2. Good(j)
      BY <3>1
    <3>3. TypedQuota
      BY <2>3, QuotaOfFailed DEF ExecutionSound
    <3> QED
      BY <2>3, <3>2, <3>3 DEF ExecutionSound, ExecutionTypeOK
  <2> QED
    BY <1>2, <2>1, <2>2, <2>3
<1>5. PICK j : Good(j)
  BY <1>4
<1>6. Attempted(s, j)
  BY <1>1, <1>3, <1>4, <1>5 DEF Attempted
<1>7. calls' \subseteq [subtask : Subtask, attempt : 0..MaxAttempts, agent : 0..1] /\ CallsOfThisBatch'
  BY <1>1, <1>3, <1>5, CallsKept, JobStepSound DEF ExecutionSound
<1>8. job' \in [Subtask -> JobState] /\ JobsSound'
  BY <1>5, JobStepSound DEF ExecutionSound
<1>9. ExecutionTypeOK'
  <2>1. spoiled' \subseteq Subtask
    BY <1>3 DEF ExecutionSound, ExecutionTypeOK
  <2> QED
    BY <1>1, <1>4, <1>7, <1>8, <2>1 DEF ExecutionSound, ExecutionTypeOK
<1>10. ByAnswer(s, j)
  BY <1>5 DEF ByAnswer
<1> QED
  BY <1>6, <1>7, <1>8, <1>9, <1>10 DEF ExecutionSound

\* What a notification of the replacement leaves behind.
ViewNotified(s, j) ==
  /\ j \in JobState /\ job' = [job EXCEPT ![s] = j]
  /\ job[s].pc \in {"requested", "created", "reporting"}
  /\ j.pc = "ready" => j.attempt < MaxAttempts
  /\ j.ok => /\ j.pc \in {"reporting", "done"}
             /\ job[s].ok /\ j.attempt = job[s].attempt /\ j.agent = job[s].agent
  /\ job[s].agent <= j.agent
  /\ UNCHANGED <<disk, calls, index, store, quota, engine, batch, spoiled>>
  /\ view' \in {view} \cup {Moved(view, status) : status \in AtWork}

LEMMA ViewNotifiedSound ==
  ASSUME ExecutionSound, NEW s \in Subtask, NEW j, ViewNotified(s, j)
  PROVE  ExecutionSound'
<1>1. job' \in [Subtask -> JobState] /\ JobsSound'
  BY DEF ViewNotified, ExecutionSound, ExecutionTypeOK, JobsSound, JobSound
<1>2. view' \in View
  <2>1. view \in View
    BY DEF ExecutionSound, ExecutionTypeOK, View
  <2>2. AtWork \subseteq DOMAIN PhaseOf
    BY PhaseTable DEF AtWork
  <2> QED
    BY <2>1, <2>2, MovedTyped DEF ViewNotified
<1>3. ExecutionTypeOK'
  BY <1>1, <1>2 DEF ViewNotified, ExecutionSound, ExecutionTypeOK, View
<1>4. CallsOfThisBatch'
  <2>1. ASSUME batch.count = 1, NEW c \in calls PROVE c.agent <= job'[c.subtask].agent
    <3>1. c.subtask \in Subtask /\ c.agent \in 0..1 /\ c.agent <= job[c.subtask].agent
      BY <2>1 DEF ExecutionSound, ExecutionTypeOK, CallsOfThisBatch
    <3>2. job \in [Subtask -> JobState] /\ job' = [job EXCEPT ![s] = j]
      BY DEF ViewNotified, ExecutionSound, ExecutionTypeOK
    <3>3. CASE c.subtask = s
      <4>1. job'[s] = j /\ job[s].agent \in 0..1 /\ j.agent \in 0..1 /\ job[s].agent <= j.agent
        BY <3>2 DEF ViewNotified, JobState
      <4> QED
        BY <3>1, <3>3, <4>1
    <3>4. CASE c.subtask # s
      BY <3>1, <3>2, <3>4
    <3> QED
      BY <3>3, <3>4
  <2> QED
    BY <2>1 DEF ViewNotified, CallsOfThisBatch
<1> QED
  BY <1>1, <1>3, <1>4 DEF ExecutionSound

LEMMA NotificationStep ==
  ASSUME ExecutionSound, NEW s \in Subtask, ReplacementRequested(s) \/ Created(s) \/ Reported(s)
  PROVE  \E j : ViewNotified(s, j)
<1>1. job[s] \in JobState /\ job \in [Subtask -> JobState] /\ JobSound(s)
  BY DEF ExecutionSound, ExecutionTypeOK, JobsSound
<1>2. job[s].agent <= job[s].agent
  BY <1>1 DEF JobState
<1>3. ASSUME NEW pc \in {"created", "reporting", "done"},
             job[s].pc \in {"requested", "created", "reporting"},
             job' = [job EXCEPT ![s].pc = pc],
             job[s].ok => pc \in {"reporting", "done"},
             UNCHANGED <<disk, calls, index, store, quota, engine, batch, spoiled>>,
             view' \in {view} \cup {Moved(view, status) : status \in AtWork}
      PROVE  \E j : ViewNotified(s, j)
  <2> DEFINE j == [job[s] EXCEPT !.pc = pc]
  <2>1. job' = [job EXCEPT ![s] = j]
    BY <1>1, <1>3
  <2>2. /\ j \in JobState /\ j.pc = pc /\ j.ok = job[s].ok /\ j.agent = job[s].agent
        /\ j.attempt = job[s].attempt
    BY <1>1 DEF JobState, Pc
  <2> HIDE DEF j
  <2>3. ViewNotified(s, j)
    BY <1>2, <1>3, <2>1, <2>2 DEF ViewNotified
  <2> QED
    BY <2>3
<1>4. CASE ReplacementRequested(s)
  <2>1. ~ job[s].ok
    BY <1>1, <1>4 DEF ReplacementRequested, Notify, JobSound
  <2> QED
    BY <1>3, <1>4, <2>1 DEF ReplacementRequested, Notify, AtWork
<1>5. CASE Created(s)
  <2>1. /\ ~ job[s].ok /\ job[s].pc = "created"
        /\ UNCHANGED <<disk, calls, index, store, quota, engine, batch, spoiled>>
    BY <1>1, <1>5 DEF Created, JobSound
  <2>2. CASE job' = [job EXCEPT ![s].pc = "reporting"] /\ UNCHANGED view
    BY <1>3, <2>1, <2>2
  <2>3. CASE /\ job' = [job EXCEPT ![s] = [FreshJob EXCEPT !.agent = 1]]
             /\ view' = Moved(view, "replacement_executing")
    <3> DEFINE j == [FreshJob EXCEPT !.agent = 1]
    <3>1. j \in JobState /\ j.pc = "ready" /\ ~ j.ok /\ j.agent = 1 /\ j.attempt = 0
      BY FreshJobTyped DEF FreshJob
    <3>2. job' = [job EXCEPT ![s] = j]
      BY <2>3
    <3> HIDE DEF j
    <3>3. job[s].agent <= j.agent /\ j.attempt < MaxAttempts
      BY <1>1, <3>1, ExecutionAssumption DEF JobState
    <3>4. ViewNotified(s, j)
      BY <2>1, <2>3, <3>1, <3>2, <3>3 DEF ViewNotified, AtWork
    <3> QED
      BY <3>4
  <2> QED
    BY <1>5, <2>2, <2>3 DEF Created
<1>6. CASE Reported(s)
  BY <1>3, <1>6 DEF Reported, Notify, AtWork
<1> QED
  BY <1>4, <1>5, <1>6

----------------------------------------------------------------------------
(* The end of a batch. *)

\* A batch keeps the results it does not make again, and is entered unless nothing
\* of it is dispatched.
LEMMA ExecuteSound ==
  ASSUME ExecutionSound, NEW S \in SUBSET Subtask, NEW from \in View, Execute(S, from)
  PROVE  /\ job' \in [Subtask -> JobState] /\ JobsSound' /\ view' \in View
         /\ batch' \in [count : Nat \ {0}, entered : BOOLEAN] /\ batch'.count # 1
         /\ engine' = "batch" /\ CallsOfThisBatch'
         /\ \A s \in Subtask : job'[s].ok => job[s].ok
         /\ \/ batch'.entered /\ view' = Moved(from, "executing")
            \/ /\ ~ batch'.entered /\ view' = from
               /\ \A s \in Subtask : job'[s].pc = "done" \/ (s \notin S /\ job'[s] = job[s])
<1>1. PICK gaps \in Unready(S) :
        /\ job' = Jobs(S, gaps, job)
        /\ view' = Entered(from, S, gaps)
        /\ batch' = [count |-> batch.count + 1, entered |-> ~ S \subseteq gaps]
        /\ engine' = "batch"
  BY DEF Execute
<1> DEFINE gap == [FreshJob EXCEPT !.pc = "done"]
<1>2. gap \in JobState /\ gap.pc = "done" /\ ~ gap.ok
  BY FreshJobTyped DEF JobState, Pc, FreshJob
<1>3. \A s \in Subtask : job'[s] = IF s \in gaps THEN gap
                                  ELSE IF s \in S THEN FreshJob ELSE job[s]
  BY <1>1 DEF Jobs
<1>4. job \in [Subtask -> JobState] /\ DOMAIN job' = Subtask /\ FreshJob \in JobState
  BY <1>1, FreshJobTyped DEF Jobs, ExecutionSound, ExecutionTypeOK
<1> HIDE DEF gap
<1>5. \A s \in Subtask : job'[s] \in JobState
  BY <1>2, <1>3, <1>4
<1>6. job' \in [Subtask -> JobState]
  BY <1>1, <1>5 DEF Jobs
<1>7. FreshJob.pc = "ready" /\ FreshJob.attempt < MaxAttempts /\ ~ FreshJob.ok
  BY ExecutionAssumption DEF FreshJob
<1>8. JobsSound'
  BY <1>2, <1>3, <1>7 DEF ExecutionSound, JobsSound, JobSound
<1>9. \A s \in Subtask : job'[s].ok => job[s].ok
  BY <1>2, <1>3, <1>7
<1>10. view' \in View
  BY <1>1, MovedTyped, PhaseTable DEF Entered
<1>11. /\ batch' \in [count : Nat \ {0}, entered : BOOLEAN] /\ batch'.count # 1
       /\ batch'.entered = ~ S \subseteq gaps
  <2>1. batch.count \in Nat \ {0}
    BY DEF ExecutionSound, ExecutionTypeOK
  <2>2. batch.count + 1 \in Nat \ {0} /\ batch.count + 1 # 1
    BY <2>1
  <2> QED
    BY <1>1, <2>2
<1>12. \/ batch'.entered /\ view' = Moved(from, "executing")
       \/ /\ ~ batch'.entered /\ view' = from
          /\ \A s \in Subtask : job'[s].pc = "done" \/ (s \notin S /\ job'[s] = job[s])
  <2>1. CASE S \subseteq gaps
    <3>1. \A s \in Subtask : job'[s].pc = "done" \/ (s \notin S /\ job'[s] = job[s])
      BY <1>2, <1>3, <2>1
    <3> QED
      BY <1>1, <1>11, <2>1, <3>1 DEF Entered
  <2>2. CASE ~ S \subseteq gaps
    BY <1>1, <1>11, <2>2 DEF Entered
  <2> QED
    BY <2>1, <2>2
<1> QED
  BY <1>1, <1>6, <1>8, <1>9, <1>10, <1>11, <1>12 DEF CallsOfThisBatch

BatchAction == Decompose \/ Replanned \/ Aggregate \/ Review \/ Concluded \/ Rework

\* The end of a batch leaves the jobs alone, or starts another one.
LEMMA BatchStep ==
  ASSUME ExecutionSound, BatchAction
  PROVE  /\ ExecutionSound' /\ UNCHANGED <<disk, calls, index, store, spoiled>>
         /\ \/ UNCHANGED <<job, batch>>
            \/ batch'.count # 1 /\ \A s \in Subtask : job'[s].ok => job[s].ok
<1>1. view \in View /\ quota \in [replacements : 0..MaxReplacements, reworks : 0..MaxReworks,
                                  replans : 0..MaxReplans]
  BY DEF ExecutionSound, ExecutionTypeOK, View
<1>2. \A x, y \in DOMAIN PhaseOf \cup {"human_required"} :
        Moved(view, x) \in View /\ Through(view, x, y) \in View
  BY <1>1, MovedTyped DEF Through
<1>3. CASE Decompose
  <2>1. view' \in View /\ engine' \in EngineState
    BY <1>2, <1>3, PhaseTable DEF Decompose, EngineState
  <2>2. quota' \in [replacements : 0..MaxReplacements, reworks : 0..MaxReworks,
                    replans : 0..MaxReplans]
    <3>1. CASE quota.replans > 0 /\ quota' = [quota EXCEPT !.replans = @ - 1]
      <4> DEFINE n == quota.replans - 1
      <4>1. n \in 0..MaxReplans /\ quota' = [quota EXCEPT !.replans = n]
        BY <1>1, <3>1, ExecutionAssumption
      <4> HIDE DEF n
      <4> QED
        BY <1>1, <4>1
    <3> QED
      BY <1>1, <1>3, <3>1 DEF Decompose
  <2> QED
    BY <1>3, <2>1, <2>2 DEF Decompose, ExecutionSound, ExecutionTypeOK, JobsSound, JobSound,
                            CallsOfThisBatch, View
<1>4. CASE Replanned
  <2>1. PICK kept \in SUBSET {s \in Subtask : job[s].ok} :
          Execute(Subtask \ kept, Moved(view, "plan_review"))
    BY <1>4 DEF Replanned
  <2>2. Moved(view, "plan_review") \in View /\ Subtask \ kept \in SUBSET Subtask
    BY <1>2, PhaseTable
  <2> QED
    BY <1>4, <2>1, <2>2, ExecuteSound DEF Replanned, ExecutionSound, ExecutionTypeOK, View, EngineState
<1>5. CASE Aggregate \/ Review \/ Concluded
  <2>1. view' \in View /\ engine' \in EngineState
    BY <1>2, <1>5, PhaseTable DEF Aggregate, Review, Concluded, EngineState
  <2>2. UNCHANGED <<disk, job, calls, index, store, quota, batch, spoiled>>
    BY <1>5 DEF Aggregate, Review, Concluded
  <2> QED
    BY <2>1, <2>2 DEF ExecutionSound, ExecutionTypeOK, JobsSound, JobSound, CallsOfThisBatch, View
<1>6. CASE Rework
  <2>1. PICK S \in SUBSET Subtask : Execute(S, view)
    BY <1>6 DEF Rework
  <2> DEFINE n == quota.reworks - 1
  <2>2. n \in 0..MaxReworks /\ quota' = [quota EXCEPT !.reworks = n]
    BY <1>1, <1>6, ExecutionAssumption DEF Rework
  <2> HIDE DEF n
  <2>3. quota' \in [replacements : 0..MaxReplacements, reworks : 0..MaxReworks,
                    replans : 0..MaxReplans]
    BY <1>1, <2>2
  <2> QED
    BY <1>1, <1>6, <2>1, <2>3, ExecuteSound DEF Rework, ExecutionSound, ExecutionTypeOK, View, EngineState
<1> QED
  BY <1>3, <1>4, <1>5, <1>6 DEF BatchAction

----------------------------------------------------------------------------
(* Every step. *)

Quiet == UNCHANGED <<disk, job, calls, index, store, batch>>

\* An attempt makes a step, and if it succeeds its answer was accepted.
AttemptStep(s, j) ==
  /\ Begin(s) \/ UseTool(s) \/ AttemptAnswered(s) \/ Raises(s)
  /\ Attempted(s, j)
  /\ j.ok => /\ j.attempt = job[s].attempt
             /\ \E a \in Answers : Accepted(s, a, calls')
             /\ UNCHANGED disk

BatchEnds ==
  /\ BatchAction /\ UNCHANGED <<disk, calls, index, store, spoiled>>
  /\ Quiet \/ (batch'.count # 1 /\ \A s \in Subtask : job'[s].ok => job[s].ok)

LEMMA ExecutionStep ==
  ASSUME ExecutionSound, [ExecutionNext]_executionVars
  PROVE  /\ ExecutionSound'
         /\ \/ \E s \in Subtask : \E j : AttemptStep(s, j)
            \/ \E s \in Subtask : \E j : ViewNotified(s, j)
            \/ BatchEnds \/ UNCHANGED executionVars
<1>1. ASSUME NEW s \in Subtask, Begin(s) \/ UseTool(s) \/ Raises(s)
      PROVE  ExecutionSound' /\ \E j : AttemptStep(s, j)
  <2>1. ExecutionSound' /\ \E j : Attempted(s, j) /\ ~ j.ok
    BY <1>1, BeginStep, UseToolStep, RaisesStep
  <2> QED
    BY <1>1, <2>1 DEF AttemptStep
<1>2. ASSUME NEW s \in Subtask, AttemptAnswered(s)
      PROVE  ExecutionSound' /\ \E j : AttemptStep(s, j)
  <2>1. UNCHANGED disk
    BY <1>2 DEF AttemptAnswered
  <2>2. PICK j : Attempted(s, j) /\ ByAnswer(s, j)
    BY <1>2, AnsweredStep
  <2>3. AttemptStep(s, j)
    BY <1>2, <2>1, <2>2 DEF AttemptStep, ByAnswer
  <2> QED
    BY <1>2, <2>3, AnsweredStep
<1>3. ASSUME NEW s \in Subtask, ReplacementRequested(s) \/ Created(s) \/ Reported(s)
      PROVE  ExecutionSound' /\ \E j : ViewNotified(s, j)
  <2>1. PICK j : ViewNotified(s, j)
    BY <1>3, NotificationStep
  <2> QED
    BY <2>1, ViewNotifiedSound
<1>4. ASSUME BatchAction PROVE ExecutionSound' /\ BatchEnds
  BY <1>4, BatchStep DEF Quiet, BatchEnds
<1>5. ASSUME UNCHANGED executionVars PROVE ExecutionSound'
  BY <1>5 DEF executionVars, ExecutionSound, ExecutionTypeOK, JobsSound, JobSound, CallsOfThisBatch
<1> QED
  BY <1>1, <1>2, <1>3, <1>4, <1>5 DEF ExecutionNext, BatchAction

LEMMA NoSuccessYet == ExecutionInit => \A s \in Subtask : ~ job[s].ok
<1> SUFFICES ASSUME ExecutionInit PROVE \A s \in Subtask : ~ job[s].ok
  OBVIOUS
<1>1. PICK gaps \in Unready(Subtask) : job = Jobs(Subtask, gaps, <<>>)
  BY DEF ExecutionInit
<1> DEFINE gap == [FreshJob EXCEPT !.pc = "done"]
<1>2. ~ gap.ok /\ ~ FreshJob.ok
  BY DEF FreshJob
<1> HIDE DEF gap
<1>3. \A s \in Subtask : job[s] = IF s \in gaps THEN gap ELSE FreshJob
  BY <1>1 DEF Jobs, gap
<1> QED
  BY <1>2, <1>3

LEMMA ExecutionStart == ExecutionInit => ExecutionSound /\ ViewSound
<1> SUFFICES ASSUME ExecutionInit PROVE ExecutionSound /\ ViewSound
  OBVIOUS
<1> DEFINE start == [status |-> "received", phase |-> "idle"]
           gap   == [FreshJob EXCEPT !.pc = "done"]
<1>1. FirstPlanned = Planned
  <2>1. Moved(start, "planning") = [status |-> "planning", phase |-> "planning"]
    BY PhaseTable, SourceTable DEF Moved, Advanced
  <2>2. Moved([status |-> "planning", phase |-> "planning"], "plan_review")
          = [status |-> "plan_review", phase |-> "reviewing_plan"]
    BY PhaseTable, SourceTable DEF Moved, Advanced
  <2> QED
    BY <2>1, <2>2 DEF FirstPlanned, Planned
<1>2. PICK gaps \in Unready(Subtask), planned \in Planned :
        /\ job = Jobs(Subtask, gaps, <<>>)
        /\ view = Entered(planned, Subtask, gaps)
        /\ batch = [count |-> 1, entered |-> ~ Subtask \subseteq gaps]
  BY <1>1 DEF ExecutionInit
<1>3. gap \in JobState /\ gap.pc = "done" /\ ~ gap.ok
  BY FreshJobTyped DEF JobState, Pc, FreshJob
<1>4. /\ job = [s \in Subtask |-> IF s \in gaps THEN gap ELSE FreshJob]
      /\ \A s \in Subtask : job[s] = IF s \in gaps THEN gap ELSE FreshJob
  BY <1>2 DEF Jobs
<1> HIDE DEF gap
<1>5. job \in [Subtask -> JobState]
  BY <1>3, <1>4, FreshJobTyped
<1>6. FreshJob.attempt < MaxAttempts /\ ~ FreshJob.ok
  BY ExecutionAssumption DEF FreshJob
<1>7. JobsSound
  BY <1>3, <1>4, <1>6 DEF JobsSound, JobSound
<1>8. ViewSound /\ view \in View
  <2>1. CASE Subtask \subseteq gaps
    <3>1. view \in Planned /\ ~ batch.entered /\ AllDone
      BY <1>2, <1>3, <1>4, <2>1 DEF Entered, AllDone
    <3> QED
      BY <3>1, PhaseTable DEF ViewSound, ExecutionInit, Planned, View, Phase
  <2>2. CASE ~ Subtask \subseteq gaps
    <3>1. view = [status |-> "executing", phase |-> "executing"] /\ batch.entered
      BY <1>2, <2>2, EnterMirrors DEF Entered
    <3> QED
      BY <3>1, PhaseTable DEF ViewSound, ExecutionInit, Mirrors, AtWork, View, Phase
  <2> QED
    BY <2>1, <2>2
<1>9. quota \in [replacements : 0..MaxReplacements, reworks : 0..MaxReworks, replans : 0..MaxReplans]
  BY ExecutionAssumption DEF ExecutionInit
<1>10. ExecutionTypeOK
  BY <1>2, <1>5, <1>8, <1>9, ExecutionAssumption DEF ExecutionInit, ExecutionTypeOK, View, EngineState
<1> QED
  BY <1>7, <1>8, <1>10 DEF ExecutionInit, ExecutionSound, CallsOfThisBatch

\* Type correctness of the attempts, their calls, the cache and the status
\* (execution_coordinator.py, runtime/script_cache.py, state_machine.py): for any
\* plan, an attempt is never beyond its limit, and the quotas never below zero.
THEOREM ExecutionTypeCorrect == ExecutionSpec => []ExecutionTypeOK
<1>1. ExecutionSound /\ [ExecutionNext]_executionVars => ExecutionSound'
  BY ExecutionStep
<1>2. ExecutionSound => ExecutionTypeOK
  BY DEF ExecutionSound
<1> QED
  BY <1>1, <1>2, ExecutionStart, PTL DEF ExecutionSpec

LEMMA ExecutionIsSound == ExecutionSpec => []ExecutionSound
<1>1. ExecutionSound /\ [ExecutionNext]_executionVars => ExecutionSound'
  BY ExecutionStep
<1> QED
  BY <1>1, ExecutionStart, PTL DEF ExecutionSpec

----------------------------------------------------------------------------
(* A success of the first agent in the first batch rests on a call of that   *)
(* attempt.                                                                  *)
LEMMA EvidenceStep ==
  ASSUME ExecutionSound, EvidenceOfThisAttempt, [ExecutionNext]_executionVars
  PROVE  EvidenceOfThisAttempt'
<1>1. \A t \in Subtask : job[t] \in JobState /\ JobSound(t)
  BY DEF ExecutionSound, ExecutionTypeOK, JobsSound
<1>2. ExecutionSound'
  BY ExecutionStep
<1>3. ASSUME NEW s \in Subtask, NEW j, Attempted(s, j),
             j.ok => /\ j.attempt = job[s].attempt
                     /\ \E a \in Answers : Accepted(s, a, calls')
      PROVE  EvidenceOfThisAttempt'
  <2>1. /\ \A t \in Subtask : t # s => job'[t] = job[t]
        /\ job'[s] = j /\ j.agent = job[s].agent /\ batch' = batch /\ calls \subseteq calls'
    BY <1>3, JobStepSound DEF Attempted, JobStep, ExecutionSound
  <2>2. ASSUME NEW t \in Subtask, t # s, job'[t].ok, job'[t].agent = 0, batch'.count = 1, Scope[t] # {}
        PROVE  Completed(t)' \in calls'
    BY <2>1, <2>2 DEF EvidenceOfThisAttempt, Completed
  <2>3. ASSUME j.ok, j.agent = 0, batch'.count = 1, Scope[s] # {} PROVE Completed(s)' \in calls'
    <3>1. PICK c \in calls' : c.subtask = s /\ c.attempt = job[s].attempt
      BY <1>3, <2>3 DEF Accepted, Evident
    <3>2. c \in [subtask : Subtask, attempt : 0..MaxAttempts, agent : 0..1] /\ c.agent <= job'[s].agent
      BY <1>2, <2>3, <3>1 DEF ExecutionSound, ExecutionTypeOK, CallsOfThisBatch
    <3>3. c.agent = 0
      BY <2>1, <2>3, <3>2
    <3>4. c = [subtask |-> s, attempt |-> job'[s].attempt, agent |-> job'[s].agent]
      BY <1>3, <2>1, <2>3, <3>1, <3>2, <3>3
    <3> QED
      BY <3>1, <3>4 DEF Completed
  <2> QED
    BY <2>1, <2>2, <2>3 DEF EvidenceOfThisAttempt
<1>4. ASSUME NEW s \in Subtask, NEW j, ViewNotified(s, j)
      PROVE  EvidenceOfThisAttempt'
  <2>1. /\ \A t \in Subtask : t # s => job'[t] = job[t]
        /\ job'[s] = j /\ UNCHANGED <<batch, calls>>
        /\ j.ok => job[s].ok /\ j.attempt = job[s].attempt /\ j.agent = job[s].agent
    BY <1>4 DEF ViewNotified, ExecutionSound, ExecutionTypeOK
  <2> QED
    BY <2>1 DEF EvidenceOfThisAttempt, Completed
<1>5. CASE batch'.count # 1
  BY <1>5 DEF EvidenceOfThisAttempt
<1>6. CASE Quiet \/ UNCHANGED executionVars
  BY <1>6 DEF Quiet, executionVars, EvidenceOfThisAttempt, Completed
<1>7. ASSUME NEW s \in Subtask, NEW j, AttemptStep(s, j) PROVE EvidenceOfThisAttempt'
  BY <1>3, <1>7 DEF AttemptStep
<1>8. CASE BatchEnds
  BY <1>5, <1>6, <1>8 DEF BatchEnds
<1> QED
  BY <1>4, <1>6, <1>7, <1>8, ExecutionStep

\* A success of the original agent's first batch that declares output rests on a
\* tool call of that very attempt, for any plan and any answers
\* (_enforce_tool_evidence, execution_coordinator.py).
THEOREM SuccessHasEvidence == ExecutionSpec => []EvidenceOfThisAttempt
<1>1. ExecutionInit => EvidenceOfThisAttempt
  BY NoSuccessYet DEF EvidenceOfThisAttempt
<1>2. ExecutionSound /\ EvidenceOfThisAttempt /\ [ExecutionNext]_executionVars => EvidenceOfThisAttempt'
  BY EvidenceStep
<1> QED
  BY <1>1, <1>2, ExecutionIsSound, PTL DEF ExecutionSpec

----------------------------------------------------------------------------
(* What is staged was recorded. *)
LEMMA StagedStep ==
  ASSUME ExecutionSound, StagedWereRecorded, [ExecutionNext]_executionVars
  PROVE  StagedWereRecorded'
<1>1. disk \in [File -> Entry]
  BY DEF ExecutionSound, ExecutionTypeOK
<1>2. CASE DOMAIN store \subseteq DOMAIN store' /\ UNCHANGED disk
  BY <1>2 DEF StagedWereRecorded
<1>3. ASSUME NEW s \in Subtask, Begin(s) PROVE StagedWereRecorded'
  <2>1. disk' = Staged /\ UNCHANGED <<store, index>>
    BY <1>3 DEF Begin
  <2>2. ASSUME NEW f \in File, disk'[f].by = "staged" PROVE <<f, disk'[f].what>> \in DOMAIN store'
    <3>1. CASE Staged[f] = disk[f]
      BY <2>1, <2>2, <3>1 DEF StagedWereRecorded
    <3>2. CASE Stageable(f) /\ Staged[f] = [what |-> index[f], by |-> "staged"]
      BY <2>1, <2>2, <3>2 DEF Stageable
    <3> QED
      BY <3>1, <3>2, StagedTyped DEF ExecutionSound
  <2> QED
    BY <2>2 DEF StagedWereRecorded
<1>4. ASSUME NEW s \in Subtask, UseTool(s) PROVE StagedWereRecorded'
  <2>1. UNCHANGED <<store, index>>
    BY <1>4 DEF UseTool
  <2>2. ASSUME NEW f \in File, disk'[f].by = "staged" PROVE disk'[f] = disk[f]
    BY <1>1, <1>4, <2>2, ToolEffect DEF ToolChanged
  <2> QED
    BY <2>1, <2>2 DEF StagedWereRecorded
<1>5. ASSUME NEW s \in Subtask, NEW j, AttemptStep(s, j), AttemptAnswered(s) \/ Raises(s)
      PROVE  StagedWereRecorded'
  <2>1. DOMAIN store \subseteq DOMAIN store' /\ UNCHANGED disk
    BY <1>5 DEF AttemptStep, Attempted, AttemptAnswered, Raises
  <2> QED
    BY <1>2, <2>1
<1>6. ASSUME NEW s \in Subtask, NEW j, AttemptStep(s, j) PROVE StagedWereRecorded'
  BY <1>3, <1>4, <1>5, <1>6 DEF AttemptStep
<1>7. ASSUME NEW s \in Subtask, NEW j, ViewNotified(s, j) PROVE StagedWereRecorded'
  BY <1>2, <1>7 DEF ViewNotified
<1>8. CASE BatchEnds \/ UNCHANGED executionVars
  BY <1>2, <1>8 DEF BatchEnds, executionVars
<1> QED
  BY <1>6, <1>7, <1>8, ExecutionStep

\* A script the sandbox got from the cache has the content of some success that
\* was recorded under this objective, for any cache and index this run finds
\* (stage_cached_scripts, runtime/script_cache.py).
THEOREM StagedAreRecorded == ExecutionSpec => []StagedWereRecorded
<1>1. ExecutionInit => StagedWereRecorded
  BY ExecutionAssumption DEF ExecutionInit, StagedWereRecorded
<1>2. ExecutionSound /\ StagedWereRecorded /\ [ExecutionNext]_executionVars => StagedWereRecorded'
  BY StagedStep
<1> QED
  BY <1>1, <1>2, ExecutionIsSound, PTL DEF ExecutionSpec

----------------------------------------------------------------------------
(* The graph of phases follows the status. *)
LEMMA ViewStep ==
  ASSUME ExecutionSound, ViewSound, [ExecutionNext]_executionVars
  PROVE  ViewSound'
<1>1. view \in View /\ MaxReworks \in Nat /\ quota.reworks \in 0..MaxReworks
  BY ExecutionAssumption DEF ExecutionSound, ExecutionTypeOK, View
<1>2. /\ Mirrors(view)' <=> Mirrors(view')
      /\ Behind(view)' <=> Behind(view')
  BY DEF Mirrors, Behind
<1>3. CASE UNCHANGED executionVars
  BY <1>3 DEF executionVars, ViewSound, AllDone, AllGood, Mirrors, Behind
<1>4. ASSUME NEW s \in Subtask, NEW j, AttemptStep(s, j) PROVE ViewSound'
  <2>1. quota'.reworks = quota.reworks /\ UNCHANGED <<view, engine, batch>> /\ ~ AllDone
    BY <1>4 DEF AttemptStep, Attempted, AllDone
  <2> QED
    BY <1>2, <2>1 DEF ViewSound
<1>5. ASSUME NEW s \in Subtask, NEW j, ViewNotified(s, j) PROVE ViewSound'
  <2>1. UNCHANGED <<quota, engine, batch>> /\ ~ AllDone
    BY <1>5 DEF ViewNotified, AllDone
  <2>2. ASSUME quota.reworks = MaxReworks
        PROVE  engine = "batch" /\ batch.entered /\ view'.status \in AtWork /\ Mirrors(view')
    <3>1. engine = "batch" /\ batch.entered /\ view.status \in AtWork /\ Mirrors(view)
      BY <2>1, <2>2 DEF ViewSound
    <3> QED
      BY <1>1, <1>5, <3>1, WorkMirrors DEF ViewNotified
  <2> QED
    BY <1>2, <2>1, <2>2 DEF ViewSound
<1>6. ASSUME BatchAction, quota'.reworks = MaxReworks, ViewSound, quota.reworks = MaxReworks,
             ~ Rework
      PROVE  ViewSound'
  <2>1. CASE Decompose
    <3>1. /\ AllDone' /\ batch' = batch
          /\ view \in Planned \/ (view.status \in AtWork /\ Mirrors(view))
      BY <1>6, <2>1 DEF ViewSound, Decompose, AllDone
    <3>2. \/ engine' = "planning" /\ view' = [status |-> "replanning", phase |-> "planning"]
          \/ engine' = "over" /\ Mirrors(view')
      BY <1>1, <2>1, <3>1, FailureMirrors DEF Decompose
    <3> QED
      BY <1>2, <3>1, <3>2 DEF ViewSound
  <2>2. CASE Replanned
    <3>1. AllDone /\ view = [status |-> "replanning", phase |-> "planning"]
      BY <1>6, <2>2 DEF ViewSound, Replanned
    <3> DEFINE from == Moved(view, "plan_review")
    <3>2. from = [status |-> "plan_review", phase |-> "reviewing_plan"]
      BY <3>1, ReplanMirrors
    <3>3. from \in Planned /\ from \in View
      BY <3>2, PhaseTable DEF Planned, View, Phase
    <3>4. PICK kept \in SUBSET {s \in Subtask : job[s].ok} : Execute(Subtask \ kept, from)
      BY <2>2 DEF Replanned
    <3> HIDE DEF from
    <3>5. /\ engine' = "batch"
          /\ \/ batch'.entered /\ view' = Moved(from, "executing")
             \/ /\ ~ batch'.entered /\ view' = from
                /\ \A s \in Subtask : job'[s].pc = "done" \/ job'[s] = job[s]
      BY <3>3, <3>4, ExecuteSound
    <3>6. CASE batch'.entered /\ view' = Moved(from, "executing")
      <4>1. view' = [status |-> "executing", phase |-> "executing"]
        BY <3>3, <3>6, EnterMirrors
      <4> QED
        BY <3>5, <3>6, <4>1, PhaseTable DEF ViewSound, AtWork, Mirrors
    <3>7. CASE /\ ~ batch'.entered /\ view' = from
               /\ \A s \in Subtask : job'[s].pc = "done" \/ job'[s] = job[s]
      <4>1. AllDone'
        BY <3>1, <3>7 DEF AllDone
      <4> QED
        BY <3>3, <3>5, <3>7, <4>1 DEF ViewSound, Planned
    <3> QED
      BY <3>5, <3>6, <3>7
  <2>3. CASE Aggregate
    <3>1. /\ AllDone' /\ AllGood' /\ batch' = batch
          /\ (view \in Planned /\ ~ batch.entered) \/ (view.status \in AtWork /\ Mirrors(view))
      BY <1>6, <2>3 DEF ViewSound, Aggregate, AllDone, AllGood
    <3>2. PICK status \in {"aggregating", "completed"} :
            /\ view' = Moved(view, status)
            /\ engine' = IF status = "aggregating" THEN "aggregating" ELSE "over"
      BY <2>3 DEF Aggregate
    <3>3. view \notin Planned \/ ~ (view.status \in AtWork)
      BY DEF Planned, AtWork
    <3>4. view'.status = status /\ (Mirrors(view') \/ (view \in Planned /\ Behind(view')))
      BY <1>1, <3>1, <3>2, AggregateMirrors
    <3> QED
      BY <1>2, <3>1, <3>2, <3>3, <3>4 DEF ViewSound
  <2>4. CASE Review \/ Concluded
    <3>1. /\ AllDone' /\ AllGood' /\ batch' = batch
          /\ view.status = IF engine = "aggregating" THEN "aggregating" ELSE "result_review"
          /\ Mirrors(view) \/ (~ batch.entered /\ Behind(view))
      BY <1>6, <2>4 DEF ViewSound, Review, Concluded, AllDone, AllGood
    <3>2. CASE engine' = "over" /\ view' = Moved(view, "human_required")
      <4>1. view'.status = "human_required"
        BY <3>1, <3>2 DEF Moved
      <4> QED
        BY <1>2, <3>1, <3>2, <4>1, PhaseTable DEF ViewSound, Mirrors
    <3>3. CASE \E status \in {"result_review", "completed"} :
                 /\ view' = Moved(view, status) /\ status # view.status
                 /\ engine' = IF status = "result_review" THEN "review" ELSE "over"
      <4>1. PICK status \in {"result_review", "completed"} :
                 /\ view' = Moved(view, status) /\ status # view.status
                 /\ engine' = IF status = "result_review" THEN "review" ELSE "over"
        BY <3>3
      <4>2. view'.status = status /\ (Mirrors(view') \/ (~ Mirrors(view) /\ Behind(view')))
        BY <1>1, <3>1, <4>1, ReviewMirrors
      <4> QED
        BY <1>2, <3>1, <4>1, <4>2 DEF ViewSound
    <3>4. CASE Review
      BY <3>1, <3>3, <3>4 DEF Review
    <3>5. CASE Concluded
      BY <3>1, <3>2, <3>3, <3>5 DEF Concluded
    <3> QED
      BY <2>4, <3>4, <3>5
  <2> QED
    BY <1>6, <2>1, <2>2, <2>3, <2>4 DEF BatchAction
<1>7. CASE BatchEnds
  <2>1. CASE Rework
    <3> DEFINE n == quota.reworks - 1
    <3>1. quota.reworks > 0 /\ quota' = [quota EXCEPT !.reworks = n]
      BY <2>1 DEF Rework
    <3> HIDE DEF n
    <3>2. quota'.reworks = n
      BY <3>1 DEF ExecutionSound, ExecutionTypeOK
    <3>3. n # MaxReworks
      BY <1>1, <3>1 DEF n
    <3> QED
      BY <3>2, <3>3 DEF ViewSound
  <2>2. CASE ~ Rework
    <3>1. quota'.reworks = quota.reworks
      BY <1>7, <2>2 DEF BatchEnds, BatchAction, Decompose, Replanned, Aggregate, Review, Concluded,
                        ExecutionSound, ExecutionTypeOK
    <3>2. CASE quota.reworks = MaxReworks
      BY <1>6, <1>7, <2>2, <3>1, <3>2 DEF BatchEnds
    <3>3. CASE quota.reworks # MaxReworks
      BY <3>1, <3>3 DEF ViewSound
    <3> QED
      BY <3>2, <3>3
  <2> QED
    BY <2>1, <2>2
<1> QED
  BY <1>3, <1>4, <1>5, <1>7, ExecutionStep

\* Up to the first rework the graph of phases follows the status of the task,
\* through any number of replacements at the same time, batches that fail, subtasks
\* without their tools and new plans: transition() of state_machine.py drops none of
\* their transitions, but those of a plan that keeps every result.
THEOREM PhaseFollowsStatus == ExecutionSpec => []PhaseMirrors
<1>1. ExecutionSound /\ ViewSound /\ [ExecutionNext]_executionVars => ViewSound'
  BY ViewStep
<1>2. ViewSound => PhaseMirrors
  BY PhaseTable DEF ViewSound, PhaseMirrors, Planned, Behind, Mirrors
<1> QED
  BY <1>1, <1>2, ExecutionStart, ExecutionIsSound, PTL DEF ExecutionSpec

----------------------------------------------------------------------------
(* Success stays backed by the sandbox. *)

\* A file that is not in W is as it was, or was not there before.
Within(W, d, e) == \A f \in File : f \in W \/ e[f] = d[f] \/ d[f] = NoFile

LEMMA StaysBacked ==
  ASSUME NEW s \in Subtask, NEW d \in [File -> Entry], NEW e \in [File -> Entry], NEW W,
         Within(W, d, e), Judged(s) \cap W = {}, Backed(s, d)
  PROVE  Backed(s, e)
<1> USE DEF Judged
<1>1. ASSUME NEW entry \in Scope[s] PROVE \E f \in entry \cap DOMAIN e : Usable(e[f])
  <2>1. PICK f \in entry \cap DOMAIN d : Usable(d[f])
    BY DEF Backed, Missing
  <2>2. f \in File /\ d[f] # NoFile /\ f \in Output(s)
    BY <2>1 DEF Usable, NoFile, Output
  <2>3. e[f] = d[f]
    BY <2>2 DEF Within
  <2> QED
    BY <2>1, <2>2, <2>3
<1>2. ASSUME NEW rule \in Rules[s], rule.path \in File
      PROVE  Passes(rule, e, [ran |-> "none", prints |-> "empty"])
  <2>1. Passes(rule, d, [ran |-> "none", prints |-> "empty"])
    BY <1>2 DEF Backed
  <2>2. rule.path # "none" /\ rule.kind # "exit_code"
    BY <1>2, ExecutionAssumption
  <2>3. Found(rule, d)
    BY <2>1, <2>2 DEF Passes, Document
  <2>4. e[rule.path] = d[rule.path]
    BY <1>2, <2>3 DEF Within, Found
  <2>5. Found(rule, e)
    BY <2>3, <2>4, <1>2 DEF Found
  <2> QED
    BY <2>1, <2>2, <2>3, <2>4, <2>5 DEF Passes, Document
<1> QED
  BY <1>1, <1>2 DEF Backed, Missing

LEMMA AcceptedBacked ==
  ASSUME NEW s \in Subtask, NEW a, NEW log, Accepted(s, a, log)
  PROVE  Backed(s, disk)
<1>1. ASSUME NEW rule \in Rules[s], rule.path \in File
      PROVE  Passes(rule, disk, [ran |-> "none", prints |-> "empty"])
  <2>1. Passes(rule, disk, [ran |-> a.ran, prints |-> a.prints])
    BY DEF Accepted, RulesHold
  <2>2. rule.path # "none" /\ rule.kind # "exit_code"
    BY <1>1, ExecutionAssumption
  <2> QED
    BY <2>1, <2>2 DEF Passes, Document
<1> QED
  BY <1>1 DEF Accepted, ScopeMet, Backed

\* A success that no unchecked tool has spoiled before or in this step.
LEMMA BackedStep ==
  ASSUME ScopesApart, ExecutionSound, SuccessBacked, [ExecutionNext]_executionVars
  PROVE  SuccessBacked'
<1>1. /\ disk \in [File -> Entry] /\ disk' \in [File -> Entry] /\ ExecutionSound'
      /\ \A s \in Subtask \ spoiled : job[s].ok => Backed(s, disk)
  BY ExecutionStep DEF ExecutionSound, ExecutionTypeOK, SuccessBacked
<1>2. SuccessBacked' <=> \A s \in Subtask \ spoiled' : job'[s].ok => Backed(s, disk')
  BY DEF SuccessBacked, Backed
<1>3. ASSUME NEW s \in Subtask, NEW j, AttemptStep(s, j) PROVE SuccessBacked'
  <2>1. job'[s] = j /\ \A t \in Subtask : t # s => job'[t] = job[t]
    BY <1>3, JobStepSound DEF AttemptStep, Attempted, ExecutionSound
  <2>2. ASSUME j.ok PROVE Backed(s, disk')
    BY <1>3, <2>2, AcceptedBacked DEF AttemptStep
  <2>3. ASSUME NEW t \in Subtask \ spoiled', t # s, job'[t].ok
        PROVE  t \notin spoiled /\ \E W : Within(W, disk, disk') /\ Judged(t) \cap W = {}
    <3>1. CASE Begin(s)
      <4>1. Within({}, disk, disk')
        BY <3>1, StagedTyped DEF Begin, Within, ExecutionSound
      <4> QED
        BY <2>3, <3>1, <4>1 DEF Begin
    <3>2. CASE AttemptAnswered(s) \/ Raises(s)
      <4>1. disk' = disk /\ spoiled' \in {spoiled, spoiled \ {s}}
        BY <3>2 DEF AttemptAnswered, Raises
      <4>2. Within({}, disk, disk')
        BY <4>1 DEF Within
      <4> QED
        BY <2>3, <4>1, <4>2
    <3>3. CASE UseTool(s)
      <4>1. CASE UNCHANGED <<disk, spoiled>>
        <5>1. Within({}, disk, disk')
          BY <4>1 DEF Within
        <5> QED
          BY <2>3, <4>1, <5>1
      <4>2. ASSUME NEW f \in File, NEW entry, ToolChanged(s, f, entry)
            PROVE  t \notin spoiled /\ \E W : Within(W, disk, disk') /\ Judged(t) \cap W = {}
        <5>1. Within({f}, disk, disk')
          BY <1>1, <4>2 DEF Within, ToolChanged
        <5>2. job[t].ok
          BY <2>1, <2>3
        <5>3. Judged(t) \cap Output(s) = {}
          BY <2>3 DEF ScopesApart, Judged
        <5>4. t \notin spoiled /\ f \notin Judged(t)
          BY <2>3, <4>2, <5>2, <5>3 DEF ToolChanged, Spoilt
        <5> QED
          BY <5>1, <5>4
      <4> QED
        BY <3>3, <4>1, <4>2, ToolEffect
    <3> QED
      BY <1>3, <3>1, <3>2, <3>3 DEF AttemptStep
  <2>4. ASSUME NEW t \in Subtask \ spoiled', t # s, job'[t].ok PROVE Backed(t, disk')
    <3>1. PICK W : Within(W, disk, disk') /\ Judged(t) \cap W = {}
      BY <2>3, <2>4
    <3>2. Backed(t, disk)
      BY <1>1, <2>1, <2>3, <2>4
    <3> QED
      BY <1>1, <3>1, <3>2, StaysBacked
  <2> QED
    BY <1>2, <2>1, <2>2, <2>4
<1>4. ASSUME NEW s \in Subtask, NEW j, ViewNotified(s, j) PROVE SuccessBacked'
  <2>1. /\ UNCHANGED <<disk, spoiled>> /\ job'[s] = j
        /\ \A t \in Subtask : t # s => job'[t] = job[t]
        /\ j.ok => job[s].ok
    BY <1>4 DEF ViewNotified, ExecutionSound, ExecutionTypeOK
  <2> QED
    BY <1>1, <1>2, <2>1
<1>5. CASE BatchEnds
  <2>1. UNCHANGED <<disk, spoiled>> /\ \A s \in Subtask : job'[s].ok => job[s].ok
    BY <1>5 DEF BatchEnds, Quiet
  <2> QED
    BY <1>1, <1>2, <2>1
<1>6. CASE UNCHANGED executionVars
  BY <1>1, <1>2, <1>6 DEF executionVars
<1> QED
  BY <1>3, <1>4, <1>5, <1>6, ExecutionStep

\* In a plan whose subtasks declare and are judged by different files, a success
\* stays backed by the sandbox through the attempts, repairs, checked writes and
\* replacements of the others, staged scripts and later batches, until a tool that is
\* not held to a scope (run_in_sandbox, any tool of the supervisor, a write without a
\* scope) changes a file it was judged by (_enforce_write_scope, _enforce_verification,
\* execution_coordinator.py; path_allowed, runtime/write_scope.py).
THEOREM SuccessStaysBacked == ASSUME ScopesApart PROVE ExecutionSpec => []SuccessBacked
<1>1. ExecutionInit => SuccessBacked
  BY NoSuccessYet DEF SuccessBacked
<1>2. ExecutionSound /\ SuccessBacked /\ [ExecutionNext]_executionVars => SuccessBacked'
  BY BackedStep
<1> QED
  BY <1>1, <1>2, ExecutionIsSound, PTL DEF ExecutionSpec

----------------------------------------------------------------------------
(***************************************************************************)
(* The code agent: what is kept of a list.                                  *)
(***************************************************************************)

\* A set of numbers that is not empty has a least one.
LEMMA LeastNumber ==
  ASSUME NEW hits \in SUBSET Nat, hits # {}
  PROVE  \E i \in hits : \A j \in hits : i <= j
<1>1. PICK i \in hits : \A j \in hits : ~ (<<j, i>> \in OpToRel(<, Nat))
  BY WFMin, NatLessThanWellFounded
<1>2. ASSUME NEW j \in hits PROVE i <= j
  <2>1. j \in Nat /\ i \in Nat /\ <<j, i>> \in Nat \X Nat
    OBVIOUS
  <2>2. ~ (j < i)
    BY <1>1, <2>1 DEF OpToRel
  <2> QED
    BY <2>1, <2>2
<1> QED
  BY <1>2

LEMMA IndicesFinite ==
  ASSUME NEW n \in Nat, NEW K \in SUBSET (1..n)
  PROVE  IsFiniteSet(K) /\ Cardinality(K) \in Nat
<1>1. IsFiniteSet(1..n)
  BY FS_Interval
<1> QED
  BY <1>1, FS_Subset, FS_CardinalityType

UpTo(K, i) == {j \in K : j <= i}

LEMMA UpToFinite ==
  ASSUME NEW n \in Nat, NEW K \in SUBSET (1..n), NEW i
  PROVE  IsFiniteSet(UpTo(K, i)) /\ Cardinality(UpTo(K, i)) \in Nat
<1>1. UpTo(K, i) \in SUBSET (1..n)
  BY DEF UpTo
<1> QED
  BY <1>1, IndicesFinite

\* The rank of a larger index is larger.
LEMMA RankGrows ==
  ASSUME NEW n \in Nat, NEW K \in SUBSET (1..n), NEW i \in K, NEW j \in K, i < j
  PROVE  Cardinality(UpTo(K, i)) < Cardinality(UpTo(K, j))
<1>0. i \in 1..n /\ j \in 1..n /\ \A k \in K : k \in 1..n
  OBVIOUS
<1>1. UpTo(K, i) \subseteq UpTo(K, j) /\ j \in UpTo(K, j) /\ j \notin UpTo(K, i)
  <2>1. ~ (j <= i) /\ j <= j
    BY <1>0
  <2>2. \A k \in K : k <= i => k <= j
    BY <1>0
  <2> QED
    BY <2>1, <2>2 DEF UpTo
<1>2. IsFiniteSet(UpTo(K, j)) /\ Cardinality(UpTo(K, i)) \in Nat /\ Cardinality(UpTo(K, j)) \in Nat
  BY UpToFinite
<1>3. Cardinality(UpTo(K, i)) <= Cardinality(UpTo(K, j))
      /\ (Cardinality(UpTo(K, j)) = Cardinality(UpTo(K, i)) => UpTo(K, j) = UpTo(K, i))
  BY <1>1, <1>2, FS_Subset
<1> QED
  BY <1>1, <1>2, <1>3

LEMMA RankBounded ==
  ASSUME NEW n \in Nat, NEW K \in SUBSET (1..n), NEW i \in K
  PROVE  Cardinality(UpTo(K, i)) \in 1..Cardinality(K)
<1>1. IsFiniteSet(K) /\ Cardinality(K) \in Nat /\ Cardinality(UpTo(K, i)) \in Nat
  BY IndicesFinite, UpToFinite
<1>2. UpTo(K, i) \subseteq K /\ UpTo(K, i) # {}
  BY DEF UpTo
<1>3. Cardinality(UpTo(K, i)) <= Cardinality(K) /\ IsFiniteSet(UpTo(K, i))
  BY <1>1, <1>2, FS_Subset
<1>4. Cardinality(UpTo(K, i)) # 0
  BY <1>2, <1>3, FS_EmptySet
<1> QED
  BY <1>1, <1>3, <1>4

\* Every rank up to the size of the set is taken.
LEMMA RankTaken ==
  ASSUME NEW n \in Nat, NEW K \in SUBSET (1..n), NEW k \in 1..Cardinality(K)
  PROVE  \E i \in K : Cardinality(UpTo(K, i)) = k
<1> DEFINE bad == {m \in Nat : \E L \in SUBSET (1..m) : \E r \in 1..Cardinality(L) :
                                 \A i \in L : Cardinality(UpTo(L, i)) # r}
<1>1. SUFFICES ASSUME bad # {} PROVE FALSE
  BY <1>1
<1>2. bad \in SUBSET Nat
  OBVIOUS
<1>3. PICK m \in bad : \A j \in bad : m <= j
  BY <1>1, <1>2, LeastNumber
<1>4. m \in Nat
  OBVIOUS
<1>5. PICK L \in SUBSET (1..m) : \E r \in 1..Cardinality(L) :
                                 \A i \in L : Cardinality(UpTo(L, i)) # r
  OBVIOUS
<1>6. PICK r \in 1..Cardinality(L) : \A i \in L : Cardinality(UpTo(L, i)) # r
  BY <1>5
<1>7. IsFiniteSet(L) /\ Cardinality(L) \in Nat
  BY <1>4, IndicesFinite
<1>8. m # 0
  <2>1. ASSUME m = 0 PROVE FALSE
    <3>1. L = {}
      BY <2>1
    <3> QED
      BY <1>6, <3>1, FS_EmptySet
  <2> QED
    BY <2>1
<1> DEFINE l == m - 1
<1>9. l \in Nat /\ l \notin bad
  <2> HIDE DEF bad
  <2> QED
    BY <1>3, <1>4, <1>8
<1>10. CASE m \notin L
  <2>1. L \in SUBSET (1..l)
    BY <1>4, <1>10
  <2> QED
    BY <1>6, <1>9, <2>1
<1>11. CASE m \in L
  <2> DEFINE M == L \ {m}
  <2>1. M \in SUBSET (1..l)
    BY <1>4
  <2>2. Cardinality(M) = Cardinality(L) - 1 /\ IsFiniteSet(M)
    BY <1>7, <1>11, FS_RemoveElement
  <2>3. UpTo(L, m) = L
    <3>1. \A i \in L : i <= m
      BY <1>4
    <3> QED
      BY <3>1 DEF UpTo
  <2>4. r # Cardinality(L)
    BY <1>6, <1>11, <2>3
  <2>5. r \in 1..Cardinality(M)
    BY <1>7, <2>2, <2>4
  <2>6. PICK i \in M : Cardinality(UpTo(M, i)) = r
    BY <1>9, <2>1, <2>5
  <2>7. UpTo(M, i) = UpTo(L, i)
    BY <1>4, <2>1 DEF UpTo
  <2> QED
    BY <1>6, <2>6, <2>7
<1> QED
  BY <1>10, <1>11

\* The indices kept, in order: each once, in growing order.
LEMMA NthInOrder ==
  ASSUME NEW n \in Nat, NEW K \in SUBSET (1..n)
  PROVE  /\ \A k \in 1..Cardinality(K) : NthOf(K, k) \in K
         /\ \A k, l \in 1..Cardinality(K) : k < l => NthOf(K, k) < NthOf(K, l)
         /\ \A i \in K : \E k \in 1..Cardinality(K) : NthOf(K, k) = i
<1>0. Cardinality(K) \in Nat
  BY IndicesFinite
<1>1. ASSUME NEW k \in 1..Cardinality(K)
      PROVE  NthOf(K, k) \in K /\ Cardinality(UpTo(K, NthOf(K, k))) = k
  <2>1. \E i \in K : Cardinality(UpTo(K, i)) = k
    BY RankTaken
  <2>2. NthOf(K, k) = CHOOSE i \in K : Cardinality(UpTo(K, i)) = k
    BY DEF NthOf, UpTo
  <2> QED
    BY <2>1, <2>2
<1>2. ASSUME NEW k \in 1..Cardinality(K), NEW l \in 1..Cardinality(K), k < l
      PROVE  NthOf(K, k) < NthOf(K, l)
  <2> DEFINE i == NthOf(K, k)
             j == NthOf(K, l)
  <2>1. i \in K /\ j \in K /\ Cardinality(UpTo(K, i)) = k /\ Cardinality(UpTo(K, j)) = l
    BY <1>1
  <2>2. i \in Nat /\ j \in Nat
    <3>1. \A h \in K : h \in Nat
      OBVIOUS
    <3> QED
      BY <2>1, <3>1
  <2> HIDE DEF i, j
  <2>3. ~ (j < i)
    BY <1>2, <2>1, RankGrows, <1>0
  <2>4. i # j
    BY <1>2, <2>1, <1>0
  <2>5. i < j
    BY <2>2, <2>3, <2>4
  <2> QED
    BY <2>5 DEF i, j
<1>3. ASSUME NEW i \in K PROVE \E k \in 1..Cardinality(K) : NthOf(K, k) = i
  <2> DEFINE k == Cardinality(UpTo(K, i))
             j == NthOf(K, k)
  <2>1. k \in 1..Cardinality(K)
    BY RankBounded
  <2>2. j \in K /\ Cardinality(UpTo(K, j)) = Cardinality(UpTo(K, i))
    BY <1>1, <2>1
  <2>3. i \in Nat /\ j \in Nat /\ Cardinality(UpTo(K, i)) \in Nat
    <3>1. \A h \in K : h \in Nat
      OBVIOUS
    <3> QED
      BY <2>2, <3>1, UpToFinite
  <2> HIDE DEF j
  <2>4. ~ (i < j) /\ ~ (j < i)
    <3>1. i < j => Cardinality(UpTo(K, i)) < Cardinality(UpTo(K, j))
      BY <2>2, RankGrows
    <3>2. j < i => Cardinality(UpTo(K, j)) < Cardinality(UpTo(K, i))
      BY <2>2, RankGrows
    <3> QED
      BY <2>2, <2>3, <3>1, <3>2
  <2>5. j = i
    BY <2>3, <2>4
  <2> QED
    BY <2>1, <2>5 DEF j
<1> QED
  BY <1>1, <1>2, <1>3

\* What is kept is a list of items of the list, at growing indices, all of those kept.
LEMMA KeptInOrder ==
  ASSUME NEW T, NEW P \in Seq(T), NEW K \in SUBSET (DOMAIN P)
  PROVE  /\ Keeping(P, K) \in Seq(T) /\ Len(Keeping(P, K)) = Cardinality(K)
         /\ Cardinality(K) \in Nat
         /\ \E place \in [1..Cardinality(K) -> K] :
              /\ \A k \in 1..Cardinality(K) : Keeping(P, K)[k] = P[place[k]]
              /\ \A k, l \in 1..Cardinality(K) : k < l => place[k] < place[l]
              /\ \A i \in K : \E k \in 1..Cardinality(K) : place[k] = i
<1> DEFINE place == [k \in 1..Cardinality(K) |-> NthOf(K, k)]
<1>1. Len(P) \in Nat /\ DOMAIN P = 1..Len(P) /\ K \in SUBSET (1..Len(P))
  BY LenProperties
<1>2. Cardinality(K) \in Nat
  BY <1>1, IndicesFinite
<1>3. /\ \A k \in 1..Cardinality(K) : NthOf(K, k) \in K
      /\ \A k, l \in 1..Cardinality(K) : k < l => NthOf(K, k) < NthOf(K, l)
      /\ \A i \in K : \E k \in 1..Cardinality(K) : NthOf(K, k) = i
  BY <1>1, NthInOrder
<1>4. \A k \in 1..Cardinality(K) : P[NthOf(K, k)] \in T
  BY <1>1, <1>3, ElementOfSeq
<1>5. Keeping(P, K) \in [1..Cardinality(K) -> T]
  BY <1>4 DEF Keeping
<1>6. Keeping(P, K) \in Seq(T)
  BY <1>2, <1>5, SeqDef
<1>7. Len(Keeping(P, K)) = Cardinality(K)
  BY <1>2, <1>5, <1>6, LenProperties
<1>8. place \in [1..Cardinality(K) -> K]
  BY <1>3
<1>9. /\ \A k \in 1..Cardinality(K) : Keeping(P, K)[k] = P[place[k]]
      /\ \A k, l \in 1..Cardinality(K) : k < l => place[k] < place[l]
      /\ \A i \in K : \E k \in 1..Cardinality(K) : place[k] = i
  BY <1>3 DEF Keeping
<1> QED
  BY <1>2, <1>6, <1>7, <1>8, <1>9

\* Nothing changes when all is kept.
LEMMA AllKept ==
  ASSUME NEW T, NEW P \in Seq(T)
  PROVE  Keeping(P, DOMAIN P) = P
<1>1. Len(P) \in Nat /\ DOMAIN P = 1..Len(P)
  BY LenProperties
<1> DEFINE n == Len(P)
           K == 1..n
<1>2. Cardinality(K) = n
  BY <1>1, FS_Interval
<1>3. ASSUME NEW k \in K PROVE NthOf(K, k) = k
  <2>1. NthOf(K, k) \in K
    BY <1>1, <1>2, NthInOrder
  <2>2. ASSUME NEW i \in K PROVE Cardinality({j \in K : j <= i}) = i
    <3>1. {j \in K : j <= i} = 1..i
      BY <1>1
    <3>2. i \in Int /\ 1 <= i
      BY <1>1
    <3>3. Cardinality(1..i) = i
      BY <3>2, FS_Interval
    <3> QED
      BY <3>1, <3>3
  <2> QED
    BY <2>1, <2>2 DEF NthOf
<1>4. Keeping(P, K) = [k \in 1..n |-> P[k]]
  BY <1>2, <1>3 DEF Keeping
<1>5. P = [k \in 1..n |-> P[k]]
  BY <1>1, LenProperties
<1> QED
  BY <1>1, <1>4, <1>5

----------------------------------------------------------------------------
(* Histories. *)

ToolKinds == {"read", "write", "both", "run"}
Items == [kind : {"task", "note", "message", "call", "output", "summary"}, run : Nat,
          id : Nat, tool : ToolKinds \cup {"none", "noted"}, receipt : BOOLEAN]

Tasks == {Task(FALSE), Task(TRUE)}

IsAction(p)    == p.kind \in {"call", "output"}
Same(p, q)     == p.kind = q.kind /\ p.id = q.id
Alike(p, q)    == Same(p, q) /\ p.run = q.run
Replies(q, p)  == p.kind = "call" /\ q.kind = "output" /\ q.id = p.id

\* Each action is there once, and a call comes before its output.
InOrder(items) ==
  /\ \A i, j \in DOMAIN items : IsAction(items[i]) /\ Same(items[i], items[j]) => i = j
  /\ \A i \in DOMAIN items : items[i].kind = "output" =>
       \E j \in DOMAIN items : j < i /\ Replies(items[i], items[j])

AllAnswered(items) ==
  \A i \in DOMAIN items : items[i].kind = "call" =>
    \E j \in DOMAIN items : Replies(items[j], items[i])

\* A history of run r.
History(items, r) ==
  /\ items \in Seq(Items) /\ InOrder(items)
  /\ \A i \in DOMAIN items :
       /\ items[i].kind = "task" <=> i = 1
       /\ items[i].kind # "summary"
       /\ items[i].run \in {0, r}
       /\ IF IsAction(items[i]) THEN items[i].run = r /\ items[i].id > 0 ELSE items[i].id = 0
       /\ items[i].kind = "output" => IsAction(items[i - 1])

\* What the model is asked with: all calls have their outputs.
Askable(items) ==
  /\ items # <<>> /\ AllAnswered(items)
  /\ Len(items) = 1 \/ \E i \in DOMAIN items : items[i].kind = "output"

\* The list stands for the first n items: what is left of them is in order, a
\* call is left with its output, and without only if that one comes later.
StandsFor(list, items, n) ==
  /\ list \in Seq(Items) /\ list # <<>> /\ list[1].kind = "task" /\ InOrder(list)
  /\ \A i \in DOMAIN list : list[i] = Summary \/ \E k \in 1..n : Alike(list[i], items[k])
  /\ \A i \in DOMAIN list, k \in 1..n : Replies(items[k], list[i]) =>
       \E j \in DOMAIN list : Replies(list[j], list[i])
  /\ \A j \in 1..n, k \in DOMAIN items : k > n /\ Replies(items[k], items[j]) =>
       \E i \in DOMAIN list : Replies(items[k], list[i])

\* What the model is sent.
Whole(items, r) ==
  /\ items \in Seq(Items) /\ InOrder(items) /\ AllAnswered(items)
  /\ items # <<>> => items[1].kind = "task"
  /\ \A i \in DOMAIN items : items[i].run \in {0, r}

----------------------------------------------------------------------------
(* The invariant of a run. *)

\* The history of run r with open calls of this turn; ids beyond those of earlier
\* turns belong to the open calls, which are its last items.
EarlierId(r, open, n) == n <= r.ids - open

SourceSound(S, r, open) ==
  /\ History(S, r.number)
  /\ S # <<>> => S[1] \in Tasks
  /\ \A i \in DOMAIN S :
       /\ S[i].id <= r.ids
       /\ S[i].kind = "output" => EarlierId(r, open, S[i].id)
  /\ r.phase = "model" => Askable(S)
  /\ r.phase = "tools" =>
       /\ open > 0 /\ open < Len(S) /\ open <= r.ids
       /\ \A i \in 1..open :
            S[Len(S) - open + i].kind = "call" /\ S[Len(S) - open + i].id = r.ids - open + i
       /\ \A i \in DOMAIN S : S[i].kind = "call" /\ EarlierId(r, open, S[i].id) =>
            \E j \in DOMAIN S : Replies(S[j], S[i])
  /\ r.phase # "tools" => open = 0
  /\ r.phase # "ended" => r.number > 0

\* A state of the folding stands for the beginning of the history, or for that
\* of a history that is over, which its marker tells.
StateSound(st, S, r, open) ==
  /\ st.frozen \in Seq(Items) /\ st.count \in Nat /\ st.marker \in Items
  /\ st.count = 0 => st.frozen = <<>>
  /\ st.count > 0 =>
       \/ st.count = 1 /\ StandsFor(st.frozen, <<Task(FALSE)>>, 1)
       \/ /\ IsAction(st.marker) /\ st.marker.run \in 1..r.number
          /\ st.marker.run = r.number => EarlierId(r, open, st.marker.id)
          /\ Valid(st, S) => StandsFor(st.frozen, S, st.count)

StatesSound(c, S, r, open) ==
  c = [f \in Tasks |-> c[f]] /\ \A f \in Tasks : StateSound(c[f], S, r, open)

HistorySound ==
  /\ SourceSound(source, run, Len(turn))
  /\ StatesSound(comp, source, run, Len(turn))
  /\ Whole(sent, run.number)

\* What the ledger calls read has been given; nothing is open between two turns.
ReadsSound == \A l \in ledger.reads.lines : <<ledger.reads.digest, l>> \in given

ReadsGiven ==
  /\ ReadsSound
  /\ run.phase # "tools" => turn = <<>>

----------------------------------------------------------------------------
(* What a part of a folded history stands for is not lost. *)

LEMMA KeptStands ==
  ASSUME NEW S, NEW n \in Nat, NEW P, StandsFor(P, S, n), NEW K \in SUBSET (DOMAIN P), 1 \in K,
         \A i, j \in DOMAIN P :
            IsAction(P[i]) /\ IsAction(P[j]) /\ P[i].id = P[j].id /\ i \in K => j \in K,
         \A i \in DOMAIN P, j \in 1..n, k \in DOMAIN S :
            k > n /\ Replies(S[k], S[j]) /\ Replies(S[k], P[i]) => i \in K
  PROVE  StandsFor(Keeping(P, K), S, n)
<1> DEFINE Q == Keeping(P, K)
           m == Cardinality(K)
<1>1. P \in Seq(Items) /\ Len(P) \in Nat /\ DOMAIN P = 1..Len(P) /\ InOrder(P)
  BY LenProperties DEF StandsFor
<1>2. Q \in Seq(Items) /\ Len(Q) = m /\ m \in Nat
  BY <1>1, KeptInOrder
<1>3. PICK place \in [1..m -> K] :
        /\ \A k \in 1..m : Q[k] = P[place[k]]
        /\ \A k, l \in 1..m : k < l => place[k] < place[l]
        /\ \A i \in K : \E k \in 1..m : place[k] = i
  BY <1>1, KeptInOrder
<1>4. DOMAIN Q = 1..m
  BY <1>2, LenProperties
<1> HIDE DEF Q, m
<1>5. \A k \in 1..m : place[k] \in K /\ place[k] \in DOMAIN P /\ place[k] \in Nat
  BY <1>1, <1>3
<1>6. \A k, l \in 1..m : place[k] < place[l] => k < l
  <2> SUFFICES ASSUME NEW k \in 1..m, NEW l \in 1..m, place[k] < place[l] PROVE k < l
    OBVIOUS
  <2>1. k \in Nat /\ l \in Nat /\ place[k] \in Nat /\ place[l] \in Nat
    BY <1>2, <1>5
  <2>2. k # l /\ ~ (l < k)
    <3>1. l < k => place[l] < place[k]
      BY <1>3
    <3> QED
      BY <2>1, <3>1
  <2> QED
    BY <2>1, <2>2
<1>7. \A k, l \in 1..m : place[k] = place[l] => k = l
  <2> SUFFICES ASSUME NEW k \in 1..m, NEW l \in 1..m, place[k] = place[l] PROVE k = l
    OBVIOUS
  <2>1. k \in Nat /\ l \in Nat /\ place[k] \in Nat /\ place[l] \in Nat
    BY <1>2, <1>5
  <2>2. (k < l => place[k] < place[l]) /\ (l < k => place[l] < place[k])
    BY <1>3
  <2> QED
    BY <2>1, <2>2
<1>8. 1 \in 1..m /\ place[1] = 1
  <2>1. PICK k \in 1..m : place[k] = 1
    BY <1>3
  <2>2. 1 \in 1..m
    BY <1>2
  <2>3. 1 < k => place[1] < place[k]
    BY <1>3, <2>2
  <2>4. place[1] \in 1..Len(P)
    BY <1>1, <1>5, <2>2
  <2> QED
    BY <1>2, <2>1, <2>2, <2>3, <2>4
<1>9. Q # <<>> /\ Q[1].kind = "task"
  <2>1. P[1].kind = "task"
    BY DEF StandsFor
  <2> QED
    BY <1>2, <1>3, <1>8, <2>1, EmptySeq
<1>10. InOrder(Q)
  <2>1. ASSUME NEW i \in 1..m, NEW j \in 1..m, IsAction(Q[i]), Same(Q[i], Q[j]) PROVE i = j
    <3>1. place[i] = place[j]
      BY <1>1, <1>3, <1>5, <2>1 DEF InOrder
    <3> QED
      BY <1>7, <3>1
  <2>2. ASSUME NEW i \in 1..m, Q[i].kind = "output"
        PROVE  \E j \in 1..m : j < i /\ Replies(Q[i], Q[j])
    <3>1. P[place[i]].kind = "output"
      BY <1>3, <2>2
    <3>2. PICK h \in DOMAIN P : h < place[i] /\ Replies(P[place[i]], P[h])
      BY <1>1, <1>5, <3>1 DEF InOrder
    <3>3. h \in K
      BY <1>5, <3>1, <3>2 DEF Replies, IsAction
    <3>4. PICK j \in 1..m : place[j] = h
      BY <1>3, <3>3
    <3>5. Q[j] = P[h] /\ Q[i] = P[place[i]] /\ j < i
      BY <1>3, <1>6, <3>2, <3>4
    <3> QED
      BY <3>2, <3>5
  <2> QED
    BY <1>4, <2>1, <2>2 DEF InOrder
<1>11. \A i \in 1..m : Q[i] = Summary \/ \E k \in 1..n : Alike(Q[i], S[k])
  BY <1>3, <1>5 DEF StandsFor
<1>12. ASSUME NEW i \in 1..m, NEW k \in 1..n, Replies(S[k], Q[i])
       PROVE  \E j \in 1..m : Replies(Q[j], Q[i])
  <2>1. Q[i] = P[place[i]] /\ place[i] \in K /\ place[i] \in DOMAIN P
    BY <1>3, <1>5
  <2>2. PICK h \in DOMAIN P : Replies(P[h], P[place[i]])
    BY <1>12, <2>1 DEF StandsFor
  <2>3. h \in K
    BY <2>1, <2>2 DEF Replies, IsAction
  <2>4. PICK j \in 1..m : place[j] = h
    BY <1>3, <2>3
  <2> QED
    BY <1>3, <2>1, <2>2, <2>4
<1>13. ASSUME NEW j \in 1..n, NEW k \in DOMAIN S, k > n, Replies(S[k], S[j])
       PROVE  \E i \in 1..m : Replies(S[k], Q[i])
  <2>1. PICK h \in DOMAIN P : Replies(S[k], P[h])
    BY <1>13 DEF StandsFor
  <2>2. h \in K
    BY <1>13, <2>1
  <2>3. PICK i \in 1..m : place[i] = h
    BY <1>3, <2>2
  <2> QED
    BY <1>3, <2>1, <2>3
<1> QED
  BY <1>2, <1>4, <1>9, <1>10, <1>11, <1>12, <1>13 DEF StandsFor, Q

LEMMA ActionKinds ==
  /\ \A p : IsAction(p) <=> p.kind = "call" \/ p.kind = "output"
  /\ ~ IsAction(Summary) /\ Summary \in Items
  /\ Summary.kind = "summary" /\ Summary.run = 0 /\ Summary.id = 0
BY DEF IsAction, Summary, Item, Items, ToolKinds

LEMMA ReceiptsStand ==
  ASSUME NEW S, NEW r, History(S, r), NEW n \in 1..Len(S)
  PROVE  StandsFor(Receipts(SubSeq(S, 1, n)), S, n)
<1> DEFINE P == SubSeq(S, 1, n)
           Q == Receipts(P)
<1>1. S \in Seq(Items) /\ Len(S) \in Nat /\ DOMAIN S = 1..Len(S) /\ InOrder(S)
      /\ S \in [1..Len(S) -> Items] /\ n \in Nat /\ n > 0 /\ n <= Len(S)
  BY LenProperties DEF History
<1>2. P \in Seq(Items) /\ Len(P) = n /\ \A i \in 1..n : P[i] = S[i]
  BY <1>1, SubSeqProperties
<1>3. DOMAIN P = 1..n
  BY <1>2, LenProperties
<1> HIDE DEF P
<1>4. ASSUME NEW i \in 1..n PROVE Q[i] \in Items /\ Alike(Q[i], S[i])
  <2>1. S[i] \in Items
    BY <1>1
  <2>2. [S[i] EXCEPT !.receipt = TRUE] \in Items /\ Alike([S[i] EXCEPT !.receipt = TRUE], S[i])
    BY <2>1 DEF Items, Alike, Same
  <2>3. Alike(S[i], S[i])
    BY DEF Alike, Same
  <2>4. Q[i] = S[i] \/ Q[i] = [S[i] EXCEPT !.receipt = TRUE]
    BY <1>2, <1>3 DEF Receipts
  <2> QED
    BY <2>1, <2>2, <2>3, <2>4
<1>5. DOMAIN Q = 1..n
  BY <1>3 DEF Receipts
<1>6. Q = [i \in 1..n |-> Q[i]]
  BY <1>5 DEF Receipts
<1> HIDE DEF Q
<1>7. Q \in [1..n -> Items]
  BY <1>4, <1>6
<1>8. Q \in Seq(Items) /\ Len(Q) = n
  <2>1. Q \in Seq(Items)
    BY <1>1, <1>7, SeqDef
  <2>2. Len(Q) \in Nat /\ DOMAIN Q = 1..Len(Q)
    BY <2>1, LenProperties
  <2> QED
    BY <1>1, <1>5, <2>1, <2>2
<1>9. 1 \in 1..n /\ 1 \in DOMAIN S
  BY <1>1
<1>10. Q # <<>> /\ Q[1].kind = "task"
  <2>1. S[1].kind = "task"
    BY <1>9 DEF History
  <2>2. Q[1].kind = S[1].kind
    BY <1>4, <1>9 DEF Alike, Same
  <2> QED
    BY <1>1, <1>8, <2>1, <2>2, EmptySeq
<1>11. \A i \in 1..n : /\ i \in DOMAIN S
                       /\ Q[i].kind = S[i].kind /\ Q[i].id = S[i].id
  BY <1>1, <1>4 DEF Alike, Same
<1>12. InOrder(Q)
  <2>1. ASSUME NEW i \in 1..n, NEW j \in 1..n, IsAction(Q[i]), Same(Q[i], Q[j]) PROVE i = j
    BY <1>1, <1>11, <2>1 DEF InOrder, IsAction, Same
  <2>2. ASSUME NEW i \in 1..n, Q[i].kind = "output"
        PROVE  \E j \in 1..n : j < i /\ Replies(Q[i], Q[j])
    <3>1. PICK j \in DOMAIN S : j < i /\ Replies(S[i], S[j])
      BY <1>1, <1>11, <2>2 DEF InOrder
    <3>2. j \in 1..n
      BY <1>1, <3>1
    <3> QED
      BY <1>11, <3>1, <3>2 DEF Replies
  <2> QED
    BY <1>5, <2>1, <2>2 DEF InOrder
<1>13. \A i \in 1..n, k \in 1..n : Replies(S[k], Q[i]) => \E j \in 1..n : Replies(Q[j], Q[i])
  BY <1>11 DEF Replies
<1>14. \A j \in 1..n, k \in DOMAIN S : k > n /\ Replies(S[k], S[j]) =>
         \E i \in 1..n : Replies(S[k], Q[i])
  BY <1>11 DEF Replies
<1>15. \A i \in 1..n : Q[i] = Summary \/ \E k \in 1..n : Alike(Q[i], S[k])
  BY <1>4
<1> QED
  BY <1>5, <1>8, <1>10, <1>12, <1>13, <1>14, <1>15 DEF StandsFor, Q, P

LEMMA SummaryStands ==
  ASSUME NEW S, NEW n \in Nat, NEW P, StandsFor(P, S, n)
  PROVE  StandsFor(<<Head(P), Summary>> \o Tail(P), S, n)
<1> DEFINE F == <<Head(P), Summary>>
           Q == F \o Tail(P)
           m == Len(P)
           to(i) == IF i = 1 THEN 1 ELSE i + 1
<1>1. /\ P \in Seq(Items) /\ P # <<>> /\ m \in Nat /\ DOMAIN P = 1..m /\ InOrder(P)
      /\ P[1].kind = "task"
  BY LenProperties DEF StandsFor
<1>2. m > 0 /\ 1 \in 1..m
  BY <1>1, EmptySeq
<1>3. Head(P) = P[1] /\ P[1] \in Items
  BY <1>1, <1>2, ElementOfSeq
<1>4. F \in Seq(Items) /\ Len(F) = 2 /\ F[1] = P[1] /\ F[2] = Summary
  <2>1. Head(P) \in Items /\ Summary \in Items
    BY <1>3, ActionKinds
  <2> QED
    BY <1>3, <2>1
<1>5. Tail(P) \in Seq(Items) /\ Len(Tail(P)) = m - 1 /\ \A i \in 1..(m - 1) : Tail(P)[i] = P[i + 1]
  BY <1>1, HeadTailProperties
<1> HIDE DEF F
<1>6. /\ Q \in Seq(Items) /\ Len(Q) = m + 1
      /\ \A i \in 1..(m + 1) : Q[i] = IF i <= 2 THEN F[i] ELSE Tail(P)[i - 2]
  <2>1. /\ Q \in Seq(Items) /\ Len(Q) = Len(F) + Len(Tail(P))
        /\ \A i \in 1..(Len(F) + Len(Tail(P))) :
             Q[i] = IF i <= Len(F) THEN F[i] ELSE Tail(P)[i - Len(F)]
    BY <1>4, <1>5, ConcatProperties
  <2>2. Len(F) + Len(Tail(P)) = m + 1
    BY <1>1, <1>4, <1>5
  <2> QED
    BY <1>4, <2>1, <2>2
<1>7. DOMAIN Q = 1..(m + 1)
  BY <1>6, LenProperties
<1> HIDE DEF Q
<1>8. Q[1] = P[1] /\ Q[2] = Summary /\ \A i \in 3..(m + 1) : Q[i] = P[i - 1]
  <2>1. ASSUME NEW i \in 3..(m + 1) PROVE Q[i] = P[i - 1]
    <3>1. i - 2 \in 1..(m - 1) /\ (i - 2) + 1 = i - 1 /\ ~ (i <= 2) /\ i \in 1..(m + 1)
      BY <1>1
    <3> QED
      BY <1>5, <1>6, <3>1
  <2> QED
    BY <1>1, <1>2, <1>4, <1>6, <2>1
<1>9. \A i \in 1..m : to(i) \in 1..(m + 1) /\ to(i) # 2 /\ Q[to(i)] = P[i]
  <2> SUFFICES ASSUME NEW i \in 1..m
               PROVE to(i) \in 1..(m + 1) /\ to(i) # 2 /\ Q[to(i)] = P[i]
    OBVIOUS
  <2>1. CASE i = 1
    BY <1>1, <1>8, <2>1
  <2>2. CASE i # 1
    <3>1. i + 1 \in 3..(m + 1) /\ (i + 1) - 1 = i
      BY <1>1, <2>2
    <3> QED
      BY <1>1, <1>8, <2>2, <3>1
  <2> QED
    BY <2>1, <2>2
<1>10. \A k \in 1..(m + 1) : k = 2 \/ \E i \in 1..m : to(i) = k
  <2> SUFFICES ASSUME NEW k \in 1..(m + 1), k # 2 PROVE \E i \in 1..m : to(i) = k
    OBVIOUS
  <2>1. CASE k = 1
    BY <1>2, <2>1
  <2>2. CASE k # 1
    <3>1. k - 1 \in 1..m /\ k - 1 # 1 /\ (k - 1) + 1 = k
      BY <1>1, <2>2
    <3> QED
      BY <3>1
  <2> QED
    BY <2>1, <2>2
<1>11. \A i, j \in 1..m : j < i => to(j) < to(i)
  BY <1>1
<1> HIDE DEF to
<1>12. InOrder(Q)
  <2>1. ASSUME NEW k \in 1..(m + 1), NEW l \in 1..(m + 1), IsAction(Q[k]), Same(Q[k], Q[l])
        PROVE  k = l
    <3>1. IsAction(Q[l])
      BY <2>1 DEF IsAction, Same
    <3>2. k # 2 /\ l # 2
      BY <1>8, <2>1, <3>1, ActionKinds
    <3>3. PICK i \in 1..m : to(i) = k
      BY <1>10, <3>2
    <3>4. PICK j \in 1..m : to(j) = l
      BY <1>10, <3>2
    <3>5. Q[k] = P[i] /\ Q[l] = P[j]
      BY <1>9, <3>3, <3>4
    <3>6. i = j
      BY <1>1, <2>1, <3>5 DEF InOrder
    <3> QED
      BY <3>3, <3>4, <3>6
  <2>2. ASSUME NEW k \in 1..(m + 1), Q[k].kind = "output"
        PROVE  \E l \in 1..(m + 1) : l < k /\ Replies(Q[k], Q[l])
    <3>1. k # 2
      BY <1>8, <2>2, ActionKinds
    <3>2. PICK i \in 1..m : to(i) = k
      BY <1>10, <3>1
    <3>3. Q[k] = P[i]
      BY <1>9, <3>2
    <3>4. PICK j \in 1..m : j < i /\ Replies(P[i], P[j])
      BY <1>1, <2>2, <3>3 DEF InOrder
    <3>5. Q[to(j)] = P[j] /\ to(j) \in 1..(m + 1) /\ to(j) < k
      BY <1>9, <1>11, <3>2, <3>4
    <3> QED
      BY <3>3, <3>4, <3>5
  <2> QED
    BY <1>7, <2>1, <2>2 DEF InOrder
<1>13. \A k \in 1..(m + 1) : Q[k] = Summary \/ \E i \in 1..n : Alike(Q[k], S[i])
  <2> SUFFICES ASSUME NEW k \in 1..(m + 1), k # 2
               PROVE  Q[k] = Summary \/ \E i \in 1..n : Alike(Q[k], S[i])
    BY <1>8
  <2>1. PICK i \in 1..m : to(i) = k
    BY <1>10
  <2>2. Q[k] = P[i]
    BY <1>9, <2>1
  <2> QED
    BY <1>1, <2>2 DEF StandsFor
<1>14. ASSUME NEW k \in 1..(m + 1), NEW i \in 1..n, Replies(S[i], Q[k])
       PROVE  \E l \in 1..(m + 1) : Replies(Q[l], Q[k])
  <2>1. k # 2
    BY <1>8, <1>14, ActionKinds DEF Replies
  <2>2. PICK h \in 1..m : to(h) = k
    BY <1>10, <2>1
  <2>3. Q[k] = P[h]
    BY <1>9, <2>2
  <2>4. PICK j \in 1..m : Replies(P[j], P[h])
    BY <1>1, <1>14, <2>3 DEF StandsFor
  <2> QED
    BY <1>9, <2>3, <2>4
<1>15. ASSUME NEW j \in 1..n, NEW k \in DOMAIN S, k > n, Replies(S[k], S[j])
       PROVE  \E l \in 1..(m + 1) : Replies(S[k], Q[l])
  <2>1. PICK i \in 1..m : Replies(S[k], P[i])
    BY <1>1, <1>15 DEF StandsFor
  <2> QED
    BY <1>9, <2>1
<1>16. Q # <<>> /\ Q[1].kind = "task"
  BY <1>1, <1>6, <1>8, EmptySeq
<1>17. StandsFor(Q, S, n)
  BY <1>6, <1>7, <1>12, <1>13, <1>14, <1>15, <1>16 DEF StandsFor
<1> QED
  BY <1>17 DEF Q, F

----------------------------------------------------------------------------
(* What the model is sent is whole. *)

\* The rest of a history after what a list stands for.
After(S, n) == SubSeq(S, n + 1, Len(S))

LEMMA RestOf ==
  ASSUME NEW S, S \in Seq(Items), NEW n \in 0..Len(S)
  PROVE  /\ Len(S) \in Nat /\ DOMAIN S = 1..Len(S)
         /\ After(S, n) \in Seq(Items) /\ Len(After(S, n)) = Len(S) - n
         /\ DOMAIN After(S, n) = 1..(Len(S) - n)
         /\ \A i \in 1..(Len(S) - n) : n + i \in DOMAIN S /\ After(S, n)[i] = S[n + i]
<1>1. Len(S) \in Nat /\ DOMAIN S = 1..Len(S) /\ S \in [1..Len(S) -> Items] /\ n \in Nat /\ n <= Len(S)
  BY LenProperties
<1>2. \A i \in (n + 1)..Len(S) : S[i] \in Items
  BY <1>1
<1>3. /\ After(S, n) \in Seq(Items)
      /\ Len(After(S, n)) = IF n + 1 <= Len(S) THEN Len(S) - (n + 1) + 1 ELSE 0
      /\ \A i \in 1..(Len(S) - (n + 1) + 1) : After(S, n)[i] = S[(n + 1) + i - 1]
  <2>1. n + 1 \in Int /\ Len(S) \in Int
    BY <1>1
  <2> QED
    BY <1>2, <2>1, SubSeqProperties DEF After
<1>4. Len(After(S, n)) = Len(S) - n
  <2>1. CASE n = Len(S)
    BY <1>1, <1>3, <2>1
  <2>2. CASE n < Len(S)
    <3>1. n + 1 <= Len(S) /\ Len(S) - (n + 1) + 1 = Len(S) - n
      BY <1>1, <2>2
    <3> QED
      BY <1>3, <3>1
  <2>3. n = Len(S) \/ n < Len(S)
    <3>1. n \in Nat /\ Len(S) \in Nat /\ n <= Len(S)
      BY <1>1
    <3> QED
      BY <3>1
  <2> QED
    BY <2>1, <2>2, <2>3
<1>5. \A i \in 1..(Len(S) - n) : n + i \in DOMAIN S /\ After(S, n)[i] = S[n + i]
  <2> SUFFICES ASSUME NEW i \in 1..(Len(S) - n) PROVE n + i \in DOMAIN S /\ After(S, n)[i] = S[n + i]
    OBVIOUS
  <2>1. (n + 1) + i - 1 = n + i /\ n + i \in DOMAIN S /\ i \in 1..(Len(S) - (n + 1) + 1)
    BY <1>1
  <2> QED
    BY <1>3, <2>1
<1> QED
  BY <1>1, <1>3, <1>4, <1>5, LenProperties

LEMMA StandsWhole ==
  ASSUME NEW S, NEW r \in Nat, History(S, r), AllAnswered(S), S # <<>>,
         NEW n \in 0..Len(S), NEW F,
         n = 0 => F = <<>>,
         n > 0 => StandsFor(F, S, n)
  PROVE  Whole(F \o After(S, n), r)
<1> DEFINE T == After(S, n)
           Q == F \o T
           f == Len(F)
           t == Len(S) - n
<1>1. S \in Seq(Items) /\ InOrder(S)
  BY DEF History
<1>2. /\ Len(S) \in Nat /\ DOMAIN S = 1..Len(S) /\ T \in Seq(Items) /\ Len(T) = t
      /\ \A i \in 1..t : n + i \in DOMAIN S /\ T[i] = S[n + i]
  BY <1>1, RestOf
<1>3. n \in Nat /\ n <= Len(S) /\ t \in Nat
  BY <1>2
<1>4. F \in Seq(Items) /\ f \in Nat /\ DOMAIN F = 1..f /\ (f > 0 => n > 0 /\ StandsFor(F, S, n))
      /\ (n > 0 => f > 0) /\ InOrder(F)
  <2>1. CASE n = 0
    <3>1. F = <<>> /\ F \in Seq(Items) /\ f = 0 /\ DOMAIN F = 1..0
      BY <2>1, EmptySeq, LenProperties
    <3> QED
      BY <2>1, <3>1 DEF InOrder
  <2>2. CASE n # 0
    <3>1. StandsFor(F, S, n)
      BY <1>3, <2>2
    <3>2. F \in Seq(Items) /\ F # <<>> /\ InOrder(F)
      BY <3>1 DEF StandsFor
    <3> QED
      BY <1>3, <2>2, <3>1, <3>2, LenProperties, EmptySeq
  <2> QED
    BY <2>1, <2>2
<1> HIDE DEF T, t
<1>5. /\ Q \in Seq(Items) /\ Len(Q) = f + t
      /\ \A i \in 1..(f + t) : Q[i] = IF i <= f THEN F[i] ELSE T[i - f]
  <2>1. /\ Q \in Seq(Items) /\ Len(Q) = Len(F) + Len(T)
        /\ \A i \in 1..(Len(F) + Len(T)) : Q[i] = IF i <= Len(F) THEN F[i] ELSE T[i - Len(F)]
    <3>1. F \in Seq(Items) /\ T \in Seq(Items)
      BY <1>2, <1>4
    <3> QED
      BY <3>1, ConcatProperties
  <2> QED
    BY <1>2, <2>1
<1>6. DOMAIN Q = 1..(f + t)
  BY <1>5, LenProperties
<1> HIDE DEF Q, f
<1>7. \A i \in 1..f : i \in 1..(f + t) /\ Q[i] = F[i]
  BY <1>3, <1>4, <1>5
<1> DEFINE to(k) == f + k - n
<1>8. ASSUME NEW k \in DOMAIN S, k > n PROVE to(k) \in 1..(f + t) /\ Q[to(k)] = S[k]
  <2>1. k - n \in 1..t /\ to(k) \in 1..(f + t) /\ ~ (to(k) <= f) /\ to(k) - f = k - n /\ n + (k - n) = k
    BY <1>2, <1>3, <1>4, <1>8 DEF t
  <2> QED
    BY <1>2, <1>5, <2>1
<1>9. ASSUME NEW i \in 1..(f + t), ~ (i \in 1..f)
      PROVE  \E k \in DOMAIN S : k > n /\ to(k) = i
  <2>1. i - f \in 1..t /\ n + (i - f) > n /\ to(n + (i - f)) = i
    BY <1>3, <1>4, <1>9
  <2> QED
    BY <1>2, <2>1
<1>10. \A k, l \in DOMAIN S : k < l => to(k) < to(l)
  BY <1>2, <1>3, <1>4
<1>11. \A i \in 1..f, k \in DOMAIN S : k > n => i < to(k)
  BY <1>2, <1>3, <1>4
<1> HIDE DEF to
\* An action of the list is one of the items it stands for.
<1>12. ASSUME NEW i \in 1..f, IsAction(F[i])
       PROVE  \E k \in DOMAIN S : k <= n /\ Same(F[i], S[k]) /\ IsAction(S[k])
  <2>1. f > 0 /\ n > 0
    BY <1>4
  <2>2. PICK k \in 1..n : Alike(F[i], S[k])
    BY <1>4, <1>12, <2>1, ActionKinds DEF StandsFor
  <2>3. k \in DOMAIN S /\ k <= n
    BY <1>2, <1>3
  <2> QED
    BY <1>12, <2>2, <2>3 DEF Alike, Same, IsAction
<1>13. ASSUME NEW i \in 1..f, NEW k \in DOMAIN S, k > n, IsAction(F[i]), Same(F[i], S[k])
       PROVE  FALSE
  <2>1. PICK j \in DOMAIN S : j <= n /\ Same(F[i], S[j]) /\ IsAction(S[j])
    BY <1>12, <1>13
  <2>2. Same(S[j], S[k])
    BY <1>13, <2>1 DEF Same
  <2>3. j = k
    BY <1>1, <2>1, <2>2 DEF InOrder
  <2> QED
    BY <1>2, <1>3, <1>13, <2>1, <2>3
<1>14. ASSUME NEW i \in 1..(f + t), NEW j \in 1..(f + t), IsAction(Q[i]), Same(Q[i], Q[j])
       PROVE  i = j
  <2>1. IsAction(Q[j]) /\ Same(Q[j], Q[i])
    BY <1>14 DEF IsAction, Same
  <2>2. CASE i \in 1..f /\ j \in 1..f
    <3>1. Q[i] = F[i] /\ Q[j] = F[j]
      BY <1>7, <2>2
    <3> QED
      BY <1>4, <1>14, <2>2, <3>1 DEF InOrder
  <2>3. CASE i \in 1..f /\ j \notin 1..f
    BY <1>7, <1>8, <1>9, <1>13, <1>14, <2>3
  <2>4. CASE i \notin 1..f /\ j \in 1..f
    BY <1>7, <1>8, <1>9, <1>13, <2>1, <2>4
  <2>5. CASE i \notin 1..f /\ j \notin 1..f
    <3>1. PICK k \in DOMAIN S : k > n /\ to(k) = i
      BY <1>9, <2>5
    <3>2. PICK l \in DOMAIN S : l > n /\ to(l) = j
      BY <1>9, <2>5
    <3>3. Q[i] = S[k] /\ Q[j] = S[l]
      BY <1>8, <3>1, <3>2
    <3>4. k = l
      BY <1>1, <1>14, <3>3 DEF InOrder
    <3> QED
      BY <3>1, <3>2, <3>4
  <2> QED
    BY <2>2, <2>3, <2>4, <2>5
<1>15. ASSUME NEW i \in 1..(f + t), Q[i].kind = "output"
       PROVE  \E j \in 1..(f + t) : j < i /\ Replies(Q[i], Q[j])
  <2>1. CASE i \in 1..f
    <3>1. PICK j \in 1..f : j < i /\ Replies(F[i], F[j])
      BY <1>4, <1>7, <1>15, <2>1 DEF InOrder
    <3> QED
      BY <1>7, <2>1, <3>1
  <2>2. CASE i \notin 1..f
    <3>1. PICK k \in DOMAIN S : k > n /\ to(k) = i
      BY <1>9, <2>2
    <3>2. Q[i] = S[k]
      BY <1>8, <3>1
    <3>3. PICK j \in DOMAIN S : j < k /\ Replies(S[k], S[j])
      BY <1>1, <1>15, <3>2 DEF InOrder
    <3>4. CASE j > n
      BY <1>8, <1>10, <3>1, <3>2, <3>3, <3>4
    <3>5. CASE ~ (j > n)
      <4>1. j \in 1..n /\ n > 0
        BY <1>2, <1>3, <3>3, <3>5
      <4>2. PICK h \in 1..f : Replies(S[k], F[h])
        BY <1>4, <3>1, <3>3, <4>1 DEF StandsFor
      <4> QED
        BY <1>7, <1>11, <3>1, <3>2, <4>2
    <3> QED
      BY <3>4, <3>5
  <2> QED
    BY <2>1, <2>2
<1>16. ASSUME NEW i \in 1..(f + t), Q[i].kind = "call"
       PROVE  \E j \in 1..(f + t) : Replies(Q[j], Q[i])
  <2>1. CASE i \in 1..f
    <3>1. IsAction(F[i]) /\ Q[i] = F[i] /\ F[i].kind = "call"
      BY <1>7, <1>16, <2>1 DEF IsAction
    <3>2. PICK k \in DOMAIN S : k <= n /\ Same(F[i], S[k]) /\ IsAction(S[k])
      BY <1>12, <2>1, <3>1
    <3>3. PICK l \in DOMAIN S : Replies(S[l], S[k])
      BY <3>1, <3>2 DEF AllAnswered, Same
    <3>4. Replies(S[l], F[i])
      BY <3>1, <3>2, <3>3 DEF Replies, Same
    <3>5. CASE l > n
      BY <1>8, <3>1, <3>4, <3>5
    <3>6. CASE ~ (l > n)
      <4>1. l \in 1..n /\ n > 0
        BY <1>2, <1>3, <3>6
      <4>2. PICK j \in 1..f : Replies(F[j], F[i])
        BY <1>4, <2>1, <3>4, <4>1 DEF StandsFor
      <4> QED
        BY <1>7, <3>1, <4>2
    <3> QED
      BY <3>5, <3>6
  <2>2. CASE i \notin 1..f
    <3>1. PICK k \in DOMAIN S : k > n /\ to(k) = i
      BY <1>9, <2>2
    <3>2. Q[i] = S[k]
      BY <1>8, <3>1
    <3>3. PICK l \in DOMAIN S : Replies(S[l], S[k])
      BY <1>16, <3>2 DEF AllAnswered
    <3>4. PICK j \in DOMAIN S : j < l /\ Replies(S[l], S[j])
      BY <1>1, <3>3 DEF InOrder, Replies
    <3>5. j = k
      BY <1>1, <3>3, <3>4 DEF InOrder, Replies, Same, IsAction
    <3>6. l > n
      BY <1>2, <1>3, <3>1, <3>4, <3>5
    <3> QED
      BY <1>8, <3>2, <3>3, <3>6
  <2> QED
    BY <2>1, <2>2
<1>17. Q # <<>> => Q[1].kind = "task"
  <2> SUFFICES ASSUME Q # <<>> PROVE Q[1].kind = "task"
    OBVIOUS
  <2>1. CASE n = 0
    <3>1. f = 0
      BY <1>3, <1>4, <2>1
    <3>2. Len(S) \in Nat \ {0}
      BY <1>1, EmptySeq
    <3>3. 1 \in DOMAIN S /\ to(1) = 1
      BY <1>2, <2>1, <3>1, <3>2 DEF to
    <3>4. Q[1] = S[1]
      BY <1>8, <2>1, <3>3
    <3> QED
      BY <3>3, <3>4 DEF History
  <2>2. CASE n # 0
    <3>1. 1 \in 1..f /\ StandsFor(F, S, n)
      BY <1>3, <1>4, <2>2
    <3> QED
      BY <1>7, <3>1 DEF StandsFor
  <2> QED
    BY <2>1, <2>2
<1>18. ASSUME NEW i \in 1..(f + t) PROVE Q[i].run \in {0, r}
  <2>1. CASE i \in 1..f
    <3>1. f > 0 /\ n > 0 /\ Q[i] = F[i]
      BY <1>4, <1>7, <2>1
    <3>2. F[i] = Summary \/ \E k \in 1..n : Alike(F[i], S[k])
      BY <1>4, <2>1, <3>1 DEF StandsFor
    <3>3. \A k \in 1..n : k \in DOMAIN S
      BY <1>2, <1>3
    <3>4. \A k \in DOMAIN S : S[k].run \in {0, r}
      BY DEF History
    <3> QED
      BY <3>1, <3>2, <3>3, <3>4, ActionKinds DEF Alike
  <2>2. CASE i \notin 1..f
    <3>1. PICK k \in DOMAIN S : k > n /\ to(k) = i
      BY <1>9, <2>2
    <3> QED
      BY <1>8, <3>1 DEF History
  <2> QED
    BY <2>1, <2>2
<1>19. InOrder(Q) /\ AllAnswered(Q)
  BY <1>6, <1>14, <1>15, <1>16 DEF InOrder, AllAnswered
<1>20. Whole(Q, r)
  BY <1>5, <1>6, <1>17, <1>18, <1>19 DEF Whole
<1> QED
  BY <1>20 DEF Q, T

----------------------------------------------------------------------------
(* The cut. *)

LEMMA GreatestIndex ==
  ASSUME NEW n \in Nat, NEW hits \in SUBSET (1..n), hits # {}
  PROVE  \E i \in hits : \A j \in hits : j <= i
<1> DEFINE bounds == {u \in Nat : \A j \in hits : j <= u}
<1>1. \A j \in hits : j \in Nat /\ j > 0 /\ j <= n
  OBVIOUS
<1>2. n \in bounds /\ bounds \in SUBSET Nat
  BY <1>1
<1>3. PICK u \in bounds : \A v \in bounds : u <= v
  BY <1>2, LeastNumber
<1>4. u \in Nat /\ \A j \in hits : j <= u
  OBVIOUS
<1>5. u \in hits
  <2>1. ASSUME u \notin hits PROVE FALSE
    <3>1. u > 0
      <4>1. PICK h \in hits : h > 0 /\ h <= u /\ h \in Nat
        BY <1>1, <1>4
      <4> QED
        BY <1>4, <4>1
    <3>2. u - 1 \in Nat
      BY <1>4, <3>1
    <3>3. \A j \in hits : j <= u - 1
      BY <1>1, <1>4, <2>1
    <3>4. u - 1 \in bounds
      BY <3>2, <3>3
    <3>5. u <= u - 1
      BY <1>3, <3>4
    <3> QED
      BY <1>4, <3>5
  <2> QED
    BY <2>1
<1> QED
  BY <1>4, <1>5

LEMMA GreaterOfTwo ==
  ASSUME NEW a \in Nat, NEW b \in Nat
  PROVE  Max({a, b}) \in {a, b} /\ Max({a, b}) >= a /\ Max({a, b}) >= b
<1>1. \E m \in {a, b} : \A c \in {a, b} : m >= c
  <2>1. CASE a >= b
    BY <2>1
  <2>2. CASE b >= a
    BY <2>2
  <2> QED
    BY <2>1, <2>2
<1>2. Max({a, b}) \in {a, b} /\ \A c \in {a, b} : Max({a, b}) >= c
  BY <1>1 DEF Max
<1> QED
  BY <1>2

\* The folding cuts before an output, after another action, or where it cut last.
LEMMA CutSound ==
  ASSUME NEW S, NEW r, History(S, r), Askable(S), NEW start \in 0..Len(S),
         start \in {0, 1} \/ IsAction(S[start]), Cut(S, start) > 0
  PROVE  Cut(S, start) \in 1..Len(S) /\ (Cut(S, start) = 1 \/ IsAction(S[Cut(S, start)]))
<1> DEFINE outputs == {i \in DOMAIN S : S[i].kind = "output"}
           keep == Max({1, KeepOutputs})
           Recent(n) == {i \in outputs : Cardinality({j \in outputs : j > i}) < n}
           runs == {i \in outputs : S[i].tool \in Executes}
           latest == IF runs = {} THEN {} ELSE {Max(runs)}
           kept == Recent(keep) \cup (latest \cap Recent(keep + 1))
<1>1. S \in Seq(Items) /\ Len(S) \in Nat /\ DOMAIN S = 1..Len(S) /\ S # <<>>
  BY LenProperties DEF History, Askable
<1>2. Cut(S, start) = IF outputs = {} THEN Len(S) ELSE Max({start, Min(kept) - 1})
  BY DEF Cut
<1>3. CASE outputs = {}
  <2>1. Len(S) = 1
    BY <1>3 DEF Askable
  <2> QED
    BY <1>2, <1>3, <2>1
<1>4. CASE outputs # {}
  <2>1. outputs \in SUBSET (1..Len(S))
    BY <1>1
  <2>2. PICK last \in outputs : \A j \in outputs : j <= last
    BY <1>1, <1>4, <2>1, GreatestIndex
  <2>3. keep \in Nat /\ keep >= 1
    <3>1. KeepOutputs \in Nat /\ 1 \in Nat
      BY CompactionAssumption
    <3> QED
      BY <3>1, GreaterOfTwo
  <2>4. {j \in outputs : j > last} = {}
    BY <1>1, <2>2
  <2>5. Cardinality({j \in outputs : j > last}) = 0
    BY <2>4, FS_EmptySet
  <2>6. kept \subseteq outputs
    OBVIOUS
  <2> HIDE DEF keep, latest
  <2>7. last \in kept
    BY <2>2, <2>3, <2>5
  <2> HIDE DEF kept
  <2>8. PICK first \in kept : \A j \in kept : first <= j
    <3>1. kept \in SUBSET Nat
      BY <2>1, <2>6
    <3> QED
      BY <2>7, <3>1, LeastNumber
  <2>9. Min(kept) \in outputs
    <3>1. Min(kept) \in kept
      BY <2>8 DEF Min
    <3> QED
      BY <2>6, <3>1
  <2> DEFINE low == Min(kept)
  <2>10. low \in 1..Len(S) /\ S[low].kind = "output" /\ low \in DOMAIN S
    BY <1>1, <2>9
  <2> HIDE DEF low
  <2>11. IsAction(S[low - 1])
    BY <2>10 DEF History
  <2>12. low # 1
    <3>1. low = 1 => S[low].kind = "task"
      BY <2>10 DEF History
    <3> QED
      BY <2>10, <3>1
  <2>13. low - 1 \in 1..Len(S) /\ low - 1 \in Nat /\ start \in Nat
    BY <1>1, <2>10, <2>12
  <2>14. Cut(S, start) = Max({start, low - 1})
    BY <1>2, <1>4 DEF low
  <2>15. Cut(S, start) = start \/ Cut(S, start) = low - 1
    BY <2>13, <2>14, GreaterOfTwo
  <2>16. CASE Cut(S, start) = low - 1
    BY <2>11, <2>13, <2>16
  <2>17. CASE Cut(S, start) = start
    <3>1. start > 0
      BY <2>17
    <3> QED
      BY <1>1, <2>13, <2>17, <3>1
  <2> QED
    BY <2>15, <2>16, <2>17
<1> QED
  BY <1>3, <1>4

----------------------------------------------------------------------------
(* The steps of a folding. *)

\* The ids of what stands for a part of a history: an action has one.
LEMMA IdsOfStanding ==
  ASSUME NEW S, NEW r, History(S, r), NEW n \in 1..Len(S), NEW P, StandsFor(P, S, n),
         NEW i \in DOMAIN P
  PROVE  IF IsAction(P[i]) THEN P[i].id > 0 ELSE P[i].id = 0
<1>1. DOMAIN S = 1..Len(S) /\ Len(S) \in Nat
  BY LenProperties DEF History
<1>2. CASE P[i] = Summary
  BY <1>2, ActionKinds
<1>3. CASE P[i] # Summary
  <2>1. PICK k \in 1..n : Alike(P[i], S[k])
    BY <1>3 DEF StandsFor
  <2>2. k \in DOMAIN S
    BY <1>1
  <2>3. IF IsAction(S[k]) THEN S[k].id > 0 ELSE S[k].id = 0
    BY <2>2 DEF History
  <2>4. (IsAction(P[i]) <=> IsAction(S[k])) /\ P[i].id = S[k].id
    BY <2>1 DEF Alike, Same, IsAction
  <2> QED
    BY <2>3, <2>4
<1> QED
  BY <1>2, <1>3

LEMMA FirstOfStanding ==
  ASSUME NEW S, NEW n \in Nat, NEW P, StandsFor(P, S, n)
  PROVE  1 \in DOMAIN P /\ Len(P) \in Nat /\ DOMAIN P = 1..Len(P) /\ ~ IsAction(P[1])
<1>1. P \in Seq(Items) /\ P # <<>> /\ P[1].kind = "task"
  BY DEF StandsFor
<1>2. Len(P) \in Nat \ {0} /\ DOMAIN P = 1..Len(P)
  BY <1>1, EmptySeq, LenProperties
<1> QED
  BY <1>1, <1>2, ActionKinds

LEMMA WithoutMessagesStands ==
  ASSUME NEW S, NEW n \in Nat, NEW P, StandsFor(P, S, n), NEW tail
  PROVE  StandsFor(WithoutMessages(P, tail), S, n)
<1> DEFINE messages == {i \in 2..Len(P) : P[i].kind = "message"}
           Rest(i)  == SizeOf(P) + SizeOf(tail) - Cardinality({j \in messages : j < i})
           K == {i \in DOMAIN P : i \in messages => Rest(i) <= Target}
<1>1. 1 \in DOMAIN P /\ Len(P) \in Nat /\ DOMAIN P = 1..Len(P)
  BY FirstOfStanding
<1>2. WithoutMessages(P, tail) = Keeping(P, K)
  BY DEF WithoutMessages
<1>3. 1 \notin messages /\ \A i \in messages : P[i].kind = "message"
  OBVIOUS
<1> HIDE DEF messages, Rest
<1>4. K \in SUBSET (DOMAIN P) /\ 1 \in K
  BY <1>1, <1>3
<1>5. \A i \in DOMAIN P : IsAction(P[i]) => i \in K
  BY <1>3, ActionKinds
<1> HIDE DEF K
<1>6. \A i, j \in DOMAIN P :
        IsAction(P[i]) /\ IsAction(P[j]) /\ P[i].id = P[j].id /\ i \in K => j \in K
  BY <1>5
<1>7. \A i \in DOMAIN P, j \in 1..n, k \in DOMAIN S :
        k > n /\ Replies(S[k], S[j]) /\ Replies(S[k], P[i]) => i \in K
  BY <1>5, ActionKinds DEF Replies
<1> QED
  BY <1>2, <1>4, <1>6, <1>7, KeptStands

LEMMA WithoutPairsStands ==
  ASSUME NEW S, NEW r, History(S, r), NEW n \in 1..Len(S), NEW P, StandsFor(P, S, n)
  PROVE  StandsFor(WithoutPairs(P, After(S, n)), S, n)
<1> DEFINE tail == After(S, n)
           droppable == Droppable(P, tail)
           PairOf(i) == SizeOf(Keeping(P, {j \in DOMAIN P : P[j].id = P[i].id}))
           Rest(i)   == SizeOf(P) + SizeOf(tail) - MapThenSumSet(PairOf, {j \in droppable : j < i})
           dropped   == {P[i].id : i \in {j \in droppable : Rest(j) > Target}}
           K == {i \in DOMAIN P : P[i].id \notin dropped}
<1>1. n \in Nat /\ n \in 0..Len(S) /\ S \in Seq(Items) /\ Len(S) \in Nat /\ DOMAIN S = 1..Len(S)
  BY LenProperties DEF History
<1>2. 1 \in DOMAIN P /\ Len(P) \in Nat /\ DOMAIN P = 1..Len(P) /\ ~ IsAction(P[1])
  BY <1>1, FirstOfStanding
<1>3. WithoutPairs(P, tail) = Keeping(P, K)
  BY DEF WithoutPairs, Without
<1>4. \A i \in droppable : i \in DOMAIN P /\ P[i].kind = "call" /\ P[i].id \notin OutputsIn(tail)
  BY <1>2 DEF Droppable
<1>5. \A id \in dropped : \E i \in droppable : P[i].id = id
  OBVIOUS
<1> HIDE DEF dropped, droppable
<1>6. \A id \in dropped : id > 0 /\ id \notin OutputsIn(tail)
  <2> SUFFICES ASSUME NEW id \in dropped PROVE id > 0 /\ id \notin OutputsIn(tail)
    OBVIOUS
  <2>1. PICK i \in droppable : P[i].id = id
    BY <1>5
  <2>2. i \in DOMAIN P /\ IsAction(P[i]) /\ id \notin OutputsIn(tail)
    BY <1>4, <2>1, ActionKinds
  <2> QED
    BY <2>1, <2>2, IdsOfStanding
<1>7. 1 \in K
  <2>1. P[1].id = 0
    BY <1>2, IdsOfStanding
  <2> QED
    BY <1>2, <1>6, <2>1
<1>8. \A i, j \in DOMAIN P :
        IsAction(P[i]) /\ IsAction(P[j]) /\ P[i].id = P[j].id /\ i \in K => j \in K
  OBVIOUS
<1>9. ASSUME NEW i \in DOMAIN P, NEW j \in 1..n, NEW k \in DOMAIN S, k > n,
             Replies(S[k], S[j]), Replies(S[k], P[i])
      PROVE  i \in K
  <2>1. k - n \in 1..(Len(S) - n) /\ n + (k - n) = k
    BY <1>1, <1>9
  <2>2. DOMAIN tail = 1..(Len(S) - n) /\ \A l \in 1..(Len(S) - n) : tail[l] = S[n + l]
    BY <1>1, RestOf
  <2>3. k - n \in DOMAIN tail /\ tail[k - n] = S[k]
    BY <2>1, <2>2
  <2> HIDE DEF tail
  <2>4. S[k].id \in OutputsIn(tail)
    BY <1>9, <2>3 DEF OutputsIn, Replies
  <2> QED
    BY <1>6, <1>9, <2>4 DEF Replies
<1>10. K \in SUBSET (DOMAIN P)
  OBVIOUS
<1> HIDE DEF K
<1> QED
  BY <1>1, <1>3, <1>7, <1>8, <1>9, <1>10, KeptStands

LEMMA NothingUnpaired ==
  ASSUME NEW items, InOrder(items), AllAnswered(items)
  PROVE  Unpaired(items) = {}
<1>1. \A id \in CallsIn(items) : id \in OutputsIn(items)
  <2> SUFFICES ASSUME NEW id \in CallsIn(items) PROVE id \in OutputsIn(items)
    OBVIOUS
  <2>1. PICK i \in DOMAIN items : items[i].kind = "call" /\ items[i].id = id
    BY DEF CallsIn
  <2>2. PICK j \in DOMAIN items : Replies(items[j], items[i])
    BY <2>1 DEF AllAnswered
  <2> QED
    BY <2>1, <2>2 DEF OutputsIn, Replies
<1>2. \A id \in OutputsIn(items) : id \in CallsIn(items)
  <2> SUFFICES ASSUME NEW id \in OutputsIn(items) PROVE id \in CallsIn(items)
    OBVIOUS
  <2>1. PICK i \in DOMAIN items : items[i].kind = "output" /\ items[i].id = id
    BY DEF OutputsIn
  <2>2. PICK j \in DOMAIN items : Replies(items[i], items[j])
    BY <2>1 DEF InOrder
  <2> QED
    BY <2>1, <2>2 DEF CallsIn, Replies
<1> QED
  BY <1>1, <1>2 DEF Unpaired

LEMMA WithoutNothing ==
  ASSUME NEW P \in Seq(Items)
  PROVE  Without(P, {}) = P
<1>1. {i \in DOMAIN P : P[i].id \notin {}} = DOMAIN P
  OBVIOUS
<1> QED
  BY <1>1, AllKept DEF Without

\* What a state of the folding has to be for the history it was made of.
FitsHistory(st, S) ==
  /\ st.frozen \in Seq(Items) /\ st.count \in Nat /\ st.marker \in Items
  /\ st.count = 0 => st.frozen = <<>>
  /\ st.count > 0 =>
       /\ st.count <= Len(S) /\ st.marker = S[st.count] /\ StandsFor(st.frozen, S, st.count)
       /\ st.count = 1 \/ IsAction(st.marker)

LEMMA FoldedSound ==
  ASSUME NEW S, NEW r \in Nat, History(S, r), Askable(S), NEW st, st.count \in 0..Len(S),
         st.count \in {0, 1} \/ IsAction(S[st.count]), Cut(S, st.count) > 0
  PROVE  Whole(Folded(st, S).sent, r) /\ FitsHistory(Folded(st, S).state, S)
<1> DEFINE cut    == Cut(S, st.count)
           tail   == After(S, cut)
           P0     == Receipts(SubSeq(S, 1, cut))
           P1     == WithoutMessages(P0, tail)
           P2     == WithoutPairs(P1, tail)
           bad    == Unpaired(P2 \o tail)
           kept   == Without(P2, bad)
           frozen == <<Head(kept), Summary>> \o Tail(kept)
           asked  == frozen \o Without(tail, bad)
<1>1. /\ Folded(st, S).sent = asked
      /\ Folded(st, S).state.frozen = frozen
      /\ Folded(st, S).state.count = cut
      /\ Folded(st, S).state.marker = S[cut]
  BY DEF Folded, After
<1> HIDE DEF cut
<1>2. cut \in 1..Len(S) /\ (cut = 1 \/ IsAction(S[cut]))
  BY CutSound DEF cut
<1>3. /\ S \in Seq(Items) /\ Len(S) \in Nat /\ S \in [1..Len(S) -> Items] /\ S # <<>>
      /\ AllAnswered(S)
  BY LenProperties DEF History, Askable
<1>4. cut \in Nat /\ cut > 0 /\ cut \in 0..Len(S) /\ cut <= Len(S) /\ S[cut] \in Items
  BY <1>2, <1>3
<1>5. tail \in Seq(Items)
  BY <1>3, <1>4, RestOf
<1> HIDE DEF tail
<1>6. StandsFor(P0, S, cut)
  BY <1>2, ReceiptsStand
<1> HIDE DEF P0
<1>7. StandsFor(P1, S, cut)
  BY <1>4, <1>6, WithoutMessagesStands
<1> HIDE DEF P1
<1>8. StandsFor(P2, S, cut)
  BY <1>2, <1>7, WithoutPairsStands DEF tail
<1> HIDE DEF P2
<1>9. Whole(P2 \o tail, r)
  BY <1>3, <1>4, <1>8, StandsWhole DEF tail
<1>10. bad = {}
  BY <1>9, NothingUnpaired DEF Whole
<1>11. kept = P2 /\ Without(tail, bad) = tail
  BY <1>5, <1>8, <1>10, WithoutNothing DEF StandsFor
<1>12. StandsFor(frozen, S, cut)
  <2>1. frozen = <<Head(P2), Summary>> \o Tail(P2)
    BY <1>11
  <2> QED
    BY <1>4, <1>8, <2>1, SummaryStands
<1>13. asked = frozen \o tail
  BY <1>11
<1> HIDE DEF frozen
<1>14. Whole(frozen \o tail, r)
  BY <1>3, <1>4, <1>12, StandsWhole DEF tail
<1>15. frozen \in Seq(Items)
  BY <1>12 DEF StandsFor
<1> QED
  BY <1>1, <1>2, <1>4, <1>12, <1>13, <1>14, <1>15 DEF FitsHistory

LEMMA CompactedSound ==
  ASSUME NEW S, NEW r \in Nat, History(S, r), Askable(S), NEW old,
         old.frozen \in Seq(Items), old.count \in Nat, old.marker \in Items,
         old.count = 0 => old.frozen = <<>>,
         old.count > 0 /\ Valid(old, S) =>
            StandsFor(old.frozen, S, old.count) /\ (old.count = 1 \/ IsAction(old.marker))
  PROVE  Whole(Compacted(old, S).sent, r) /\ FitsHistory(Compacted(old, S).state, S)
<1> DEFINE st == IF Valid(old, S) THEN old ELSE NoState
<1>1. /\ S \in Seq(Items) /\ Len(S) \in Nat /\ S # <<>> /\ AllAnswered(S)
  BY LenProperties DEF History, Askable
<1>0. (Valid(old, S) => st = old) /\ (~ Valid(old, S) => st = NoState)
  OBVIOUS
<1>3. Compacted(old, S) = IF TooLarge(st, S) /\ Cut(S, st.count) > 0
                          THEN Folded(st, S) ELSE [sent |-> Appended(st, S), state |-> st]
  BY DEF Compacted
<1> HIDE DEF st
<1>2. FitsHistory(st, S)
  <2>1. CASE Valid(old, S)
    <3>1. old.count > 0 => old.count <= Len(S) /\ old.marker = S[old.count]
      BY <2>1 DEF Valid
    <3> QED
      BY <1>0, <2>1, <3>1 DEF FitsHistory
  <2>2. CASE ~ Valid(old, S)
    <3>1. st.frozen = <<>> /\ st.count = 0 /\ st.marker = Summary
      BY <1>0, <2>2 DEF NoState
    <3>2. <<>> \in Seq(Items) /\ Summary \in Items
      BY ActionKinds, EmptySeq
    <3> QED
      BY <3>1, <3>2 DEF FitsHistory
  <2> QED
    BY <2>1, <2>2
<1>4. st.count \in 0..Len(S)
  BY <1>1, <1>2 DEF FitsHistory
<1>5. CASE TooLarge(st, S) /\ Cut(S, st.count) > 0
  <2>1. st.count \in {0, 1} \/ IsAction(S[st.count])
    BY <1>2 DEF FitsHistory
  <2> QED
    BY <1>3, <1>4, <1>5, <2>1, FoldedSound
<1>6. CASE ~ (TooLarge(st, S) /\ Cut(S, st.count) > 0)
  <2>1. Compacted(old, S).sent = st.frozen \o After(S, st.count) /\ Compacted(old, S).state = st
    <3>1. Compacted(old, S) = [sent |-> Appended(st, S), state |-> st]
      BY <1>3, <1>6
    <3>2. Appended(st, S) = st.frozen \o After(S, st.count)
      BY DEF Appended, After
    <3>3. Compacted(old, S).sent = Appended(st, S)
      BY <3>1
    <3>4. Compacted(old, S).state = st
      BY <3>1
    <3> QED
      BY <3>2, <3>3, <3>4
  <2>2. Whole(st.frozen \o After(S, st.count), r)
    BY <1>1, <1>2, <1>4, StandsWhole DEF FitsHistory
  <2> QED
    BY <1>2, <2>1, <2>2
<1> QED
  BY <1>5, <1>6

----------------------------------------------------------------------------
(* A history grows. *)

\* What may be added to a history of run r: no task, actions that are not there
\* yet, an output after its call and next to another action.
Extends(X, S, r) ==
  /\ X \in Seq(Items)
  /\ \A i \in DOMAIN X :
       /\ X[i].kind \in {"message", "note", "call", "output"} /\ X[i].run \in {0, r}
       /\ IF IsAction(X[i]) THEN X[i].run = r /\ X[i].id > 0 ELSE X[i].id = 0
       /\ IsAction(X[i]) => \A k \in DOMAIN S : ~ Same(S[k], X[i])
       /\ X[i].kind = "output" =>
            /\ \E k \in DOMAIN S : Replies(X[i], S[k])
            /\ IF i = 1 THEN IsAction(S[Len(S)]) ELSE IsAction(X[i - 1])
  /\ \A i, j \in DOMAIN X : IsAction(X[i]) /\ Same(X[i], X[j]) => i = j

\* Where the items of a list are when another one is appended.
LEMMA JoinedItems ==
  ASSUME NEW S \in Seq(Items), NEW X \in Seq(Items)
  PROVE  /\ Len(S) \in Nat /\ Len(X) \in Nat
         /\ DOMAIN S = 1..Len(S) /\ DOMAIN X = 1..Len(X)
         /\ S \o X \in Seq(Items) /\ Len(S \o X) = Len(S) + Len(X)
         /\ DOMAIN (S \o X) = 1..(Len(S) + Len(X))
         /\ \A i \in DOMAIN S : i \in DOMAIN (S \o X) /\ (S \o X)[i] = S[i]
         /\ \A i \in DOMAIN X : Len(S) + i \in DOMAIN (S \o X) /\ (S \o X)[Len(S) + i] = X[i]
         /\ \A i \in DOMAIN (S \o X) :
              i \in DOMAIN S \/ (i > Len(S) /\ i - Len(S) \in DOMAIN X /\ (S \o X)[i] = X[i - Len(S)])
<1>1. Len(S) \in Nat /\ Len(X) \in Nat /\ DOMAIN S = 1..Len(S) /\ DOMAIN X = 1..Len(X)
  BY LenProperties
<1>2. /\ S \o X \in Seq(Items) /\ Len(S \o X) = Len(S) + Len(X)
      /\ \A i \in 1..(Len(S) + Len(X)) :
           (S \o X)[i] = IF i <= Len(S) THEN S[i] ELSE X[i - Len(S)]
  BY ConcatProperties
<1>3. DOMAIN (S \o X) = 1..(Len(S) + Len(X))
  BY <1>2, LenProperties
<1> DEFINE Q == S \o X
           s == Len(S)
           x == Len(X)
<1> HIDE DEF Q, s, x
<1>4. /\ s \in Nat /\ x \in Nat /\ DOMAIN S = 1..s /\ DOMAIN X = 1..x /\ DOMAIN Q = 1..(s + x)
      /\ \A i \in 1..(s + x) : Q[i] = IF i <= s THEN S[i] ELSE X[i - s]
  BY <1>1, <1>2, <1>3 DEF Q, s, x
<1>5. \A i \in 1..s : i \in 1..(s + x) /\ Q[i] = S[i]
  BY <1>4
<1>6. ASSUME NEW i \in 1..x PROVE s + i \in 1..(s + x) /\ Q[s + i] = X[i]
  <2>1. s + i \in 1..(s + x) /\ ~ (s + i <= s) /\ (s + i) - s = i
    BY <1>4
  <2> QED
    BY <1>4, <2>1
<1>7. ASSUME NEW i \in 1..(s + x), i \notin 1..s PROVE i > s /\ i - s \in 1..x /\ Q[i] = X[i - s]
  BY <1>4, <1>7
<1> QED
  BY <1>1, <1>2, <1>3, <1>4, <1>5, <1>6, <1>7 DEF Q, s, x

LEMMA HistoryGrows ==
  ASSUME NEW S, NEW r, History(S, r), S # <<>>, NEW X, Extends(X, S, r)
  PROVE  History(S \o X, r)
<1> DEFINE Q == S \o X
           s == Len(S)
<1>1. S \in Seq(Items) /\ X \in Seq(Items) /\ InOrder(S)
  BY DEF History, Extends
<1>2. /\ s \in Nat /\ Len(X) \in Nat /\ DOMAIN S = 1..s /\ DOMAIN X = 1..Len(X)
      /\ Q \in Seq(Items) /\ DOMAIN Q = 1..(s + Len(X))
      /\ \A i \in DOMAIN S : i \in DOMAIN Q /\ Q[i] = S[i]
      /\ \A i \in DOMAIN X : s + i \in DOMAIN Q /\ Q[s + i] = X[i]
      /\ \A i \in DOMAIN Q :
           i \in DOMAIN S \/ (i > s /\ i - s \in DOMAIN X /\ Q[i] = X[i - s])
  BY <1>1, JoinedItems
<1>3. s > 0
  BY <1>1, EmptySeq
<1> HIDE DEF Q, s
<1>4. ASSUME NEW i \in DOMAIN Q, NEW j \in DOMAIN Q, IsAction(Q[i]), Same(Q[i], Q[j]) PROVE i = j
  <2>1. IsAction(Q[j]) /\ Same(Q[j], Q[i])
    BY <1>4 DEF IsAction, Same
  <2>2. CASE i \in DOMAIN S /\ j \in DOMAIN S
    BY <1>1, <1>2, <1>4, <2>2 DEF InOrder
  <2>3. CASE i \in DOMAIN S /\ j \notin DOMAIN S
    BY <1>2, <1>4, <2>1, <2>3 DEF Extends
  <2>4. CASE i \notin DOMAIN S /\ j \in DOMAIN S
    BY <1>2, <1>4, <2>1, <2>4 DEF Extends
  <2>5. CASE i \notin DOMAIN S /\ j \notin DOMAIN S
    <3>1. i - s = j - s
      BY <1>2, <1>4, <2>5 DEF Extends
    <3> QED
      BY <1>2, <3>1
  <2> QED
    BY <2>2, <2>3, <2>4, <2>5
<1>5. ASSUME NEW i \in DOMAIN Q, Q[i].kind = "output"
      PROVE  \E j \in DOMAIN Q : j < i /\ Replies(Q[i], Q[j])
  <2>1. CASE i \in DOMAIN S
    <3>1. PICK j \in DOMAIN S : j < i /\ Replies(S[i], S[j])
      BY <1>1, <1>2, <1>5, <2>1 DEF InOrder
    <3> QED
      BY <1>2, <2>1, <3>1
  <2>2. CASE i \notin DOMAIN S
    <3>1. PICK k \in DOMAIN S : Replies(X[i - s], S[k])
      BY <1>2, <1>5, <2>2 DEF Extends
    <3>2. k < i
      BY <1>2, <2>2
    <3> QED
      BY <1>2, <2>2, <3>1, <3>2
  <2> QED
    BY <2>1, <2>2
<1>6. InOrder(Q)
  BY <1>4, <1>5 DEF InOrder
<1>7. ASSUME NEW i \in DOMAIN Q
      PROVE  /\ Q[i].kind = "task" <=> i = 1
             /\ Q[i].kind # "summary"
             /\ Q[i].run \in {0, r}
             /\ IF IsAction(Q[i]) THEN Q[i].run = r /\ Q[i].id > 0 ELSE Q[i].id = 0
  <2>1. CASE i \in DOMAIN S
    BY <1>2, <2>1 DEF History
  <2>2. CASE i \notin DOMAIN S
    <3>1. i # 1 /\ i - s \in DOMAIN X /\ Q[i] = X[i - s]
      BY <1>2, <1>3, <2>2
    <3>2. X[i - s].kind \in {"message", "note", "call", "output"} /\ X[i - s].run \in {0, r}
          /\ IF IsAction(X[i - s]) THEN X[i - s].run = r /\ X[i - s].id > 0 ELSE X[i - s].id = 0
      BY <3>1 DEF Extends
    <3> QED
      BY <3>1, <3>2
  <2> QED
    BY <2>1, <2>2
<1>8. ASSUME NEW i \in DOMAIN Q, Q[i].kind = "output" PROVE IsAction(Q[i - 1])
  <2>1. CASE i \in DOMAIN S
    <3>1. S[i].kind = "output" /\ IsAction(S[i - 1])
      BY <1>2, <1>8, <2>1 DEF History
    <3>2. i # 1
      BY <2>1, <3>1 DEF History
    <3>3. i - 1 \in DOMAIN S
      BY <1>2, <2>1, <3>2
    <3> QED
      BY <1>2, <3>1, <3>3
  <2>2. CASE i \notin DOMAIN S
    <3>1. i - s \in DOMAIN X /\ X[i - s].kind = "output" /\ i > s
      BY <1>2, <1>8, <2>2
    <3>2. CASE i - s = 1
      <4>1. i - 1 = s /\ s \in DOMAIN S
        BY <1>2, <1>3, <3>1, <3>2
      <4>2. IsAction(S[s])
        BY <3>1, <3>2 DEF Extends, s
      <4> QED
        BY <1>2, <4>1, <4>2
    <3>3. CASE i - s # 1
      <4>1. (i - s) - 1 \in DOMAIN X /\ s + ((i - s) - 1) = i - 1
        BY <1>2, <3>1, <3>3
      <4>2. IsAction(X[(i - s) - 1])
        BY <3>1, <3>3 DEF Extends
      <4> QED
        BY <1>2, <4>1, <4>2
    <3> QED
      BY <3>2, <3>3
  <2> QED
    BY <2>1, <2>2
<1>9. History(Q, r)
  BY <1>2, <1>6, <1>7, <1>8 DEF History
<1> QED
  BY <1>9 DEF Q

\* What stands for the beginning of a history still does when it has grown, unless
\* a new output answers a call there.
LEMMA StillStands ==
  ASSUME NEW S \in Seq(Items), NEW X \in Seq(Items), NEW n \in 0..Len(S), NEW F, StandsFor(F, S, n),
         \A i \in DOMAIN X, j \in 1..n : ~ Replies(X[i], S[j])
  PROVE  StandsFor(F, S \o X, n)
<1> DEFINE Q == S \o X
           s == Len(S)
<1>1. /\ s \in Nat /\ DOMAIN S = 1..s
      /\ \A i \in DOMAIN S : i \in DOMAIN Q /\ Q[i] = S[i]
      /\ \A i \in DOMAIN Q :
           i \in DOMAIN S \/ (i > s /\ i - s \in DOMAIN X /\ Q[i] = X[i - s])
  BY JoinedItems
<1> HIDE DEF Q, s
<1>2. \A i \in 1..n : i \in DOMAIN S /\ Q[i] = S[i]
  BY <1>1 DEF s
<1>3. \A i \in DOMAIN F : F[i] = Summary \/ \E k \in 1..n : Alike(F[i], Q[k])
  BY <1>2 DEF StandsFor
<1>4. \A i \in DOMAIN F, k \in 1..n : Replies(Q[k], F[i]) => \E j \in DOMAIN F : Replies(F[j], F[i])
  BY <1>2 DEF StandsFor
<1>5. ASSUME NEW j \in 1..n, NEW k \in DOMAIN Q, k > n, Replies(Q[k], Q[j])
      PROVE  \E i \in DOMAIN F : Replies(Q[k], F[i])
  <2>1. Q[j] = S[j]
    BY <1>2
  <2>2. k \in DOMAIN S /\ Q[k] = S[k]
    BY <1>1, <1>5, <2>1
  <2> QED
    BY <1>5, <2>1, <2>2 DEF StandsFor
<1>6. F \in Seq(Items) /\ F # <<>> /\ F[1].kind = "task" /\ InOrder(F)
  BY DEF StandsFor
<1>7. StandsFor(F, Q, n)
  BY <1>3, <1>4, <1>5, <1>6 DEF StandsFor
<1> QED
  BY <1>7 DEF Q

\* A call that is not of an earlier turn is among the last items.
LEMMA OpenCallsLast ==
  ASSUME NEW S, NEW r, r.ids \in Nat, NEW open \in Nat, SourceSound(S, r, open),
         NEW j \in DOMAIN S, S[j].kind = "call", ~ EarlierId(r, open, S[j].id)
  PROVE  /\ r.phase = "tools" /\ j > Len(S) - open
         /\ \A k \in DOMAIN S : k >= j => ~ EarlierId(r, open, S[k].id)
<1>1. S \in Seq(Items) /\ InOrder(S) /\ Len(S) \in Nat /\ DOMAIN S = 1..Len(S)
  BY LenProperties DEF SourceSound, History
<1>2. S \in [1..Len(S) -> Items]
  BY <1>1, LenProperties
<1>3. S[j].id \in Nat
  BY <1>1, <1>2 DEF Items
<1>4. S[j].id <= r.ids /\ S[j].id > r.ids - open
  BY <1>3 DEF EarlierId, SourceSound
<1>5. open > 0
  BY <1>3, <1>4
<1>6. r.phase = "tools" /\ open < Len(S) /\ open <= r.ids
  BY <1>5 DEF SourceSound
<1> DEFINE i == S[j].id - (r.ids - open)
           l == Len(S) - open
<1>7. l \in Nat /\ i \in 1..open /\ r.ids - open + i = S[j].id /\ l + open = Len(S)
  BY <1>1, <1>3, <1>4, <1>5, <1>6
<1>8. \A h \in 1..open : S[l + h].kind = "call" /\ S[l + h].id = r.ids - open + h
  BY <1>6 DEF SourceSound
<1> HIDE DEF i, l
<1>9. S[l + i].kind = "call" /\ S[l + i].id = S[j].id
  BY <1>7, <1>8
<1>10. l + i \in DOMAIN S
  <2>1. l + i \in Nat /\ l + i >= 1 /\ l + i <= Len(S)
    BY <1>1, <1>7
  <2> QED
    BY <1>1, <2>1
<1>11. j = l + i
  BY <1>1, <1>9, <1>10 DEF InOrder, IsAction, Same
<1>12. j > Len(S) - open
  BY <1>7, <1>11
<1>13. ASSUME NEW k \in DOMAIN S, k >= j PROVE ~ EarlierId(r, open, S[k].id)
  <2>1. k - l \in 1..open /\ l + (k - l) = k
    BY <1>1, <1>7, <1>11, <1>13
  <2>2. S[k].id = r.ids - open + (k - l)
    BY <1>8, <2>1
  <2> QED
    BY <1>6, <2>1, <2>2 DEF EarlierId
<1> QED
  BY <1>6, <1>12, <1>13

\* States of the folding stay sound while the history of a run grows by new actions.
LEMMA StateGrows ==
  ASSUME NEW S, NEW r, r.ids \in Nat, r.number \in Nat, NEW open \in Nat, SourceSound(S, r, open),
         NEW X \in Seq(Items),
         \A i \in DOMAIN X : IsAction(X[i]) => X[i].run = r.number /\ ~ EarlierId(r, open, X[i].id),
         NEW st, StateSound(st, S, r, open),
         NEW q, q.number = r.number, q.ids \in Nat, NEW now \in Nat, q.ids - now >= r.ids - open
  PROVE  StateSound(st, S \o X, q, now)
<1> DEFINE Q == S \o X
           s == Len(S)
           c == st.count
<1>1. S \in Seq(Items) /\ InOrder(S)
  BY DEF SourceSound, History
<1>2. /\ s \in Nat /\ DOMAIN S = 1..s /\ Len(X) \in Nat /\ Len(Q) = s + Len(X)
      /\ DOMAIN Q = 1..(s + Len(X))
      /\ \A i \in DOMAIN S : i \in DOMAIN Q /\ Q[i] = S[i]
      /\ \A i \in DOMAIN Q :
           i \in DOMAIN S \/ (i > s /\ i - s \in DOMAIN X /\ Q[i] = X[i - s])
  BY <1>1, JoinedItems
<1> HIDE DEF Q, s
<1>3. st.frozen \in Seq(Items) /\ c \in Nat /\ st.marker \in Items /\ (c = 0 => st.frozen = <<>>)
  BY DEF StateSound
<1>4. CASE c = 0 \/ (c = 1 /\ StandsFor(st.frozen, <<Task(FALSE)>>, 1))
  BY <1>3, <1>4 DEF StateSound
<1>5. CASE /\ c > 0 /\ IsAction(st.marker) /\ st.marker.run \in 1..r.number
           /\ st.marker.run = r.number => EarlierId(r, open, st.marker.id)
           /\ Valid(st, S) => StandsFor(st.frozen, S, st.count)
  <2>0. st.marker.id \in Nat
    BY <1>3 DEF Items
  <2>1. st.marker.run = q.number => EarlierId(q, now, st.marker.id)
    BY <1>5, <2>0 DEF EarlierId
  <2>2. ASSUME Valid(st, Q) PROVE StandsFor(st.frozen, Q, c)
    <3>1. c \in DOMAIN Q /\ Q[c] = st.marker
      BY <1>2, <1>3, <1>5, <2>2 DEF Valid, Q
    <3>2. c \in DOMAIN S
      <4>1. ASSUME c \notin DOMAIN S PROVE FALSE
        <5>1. c - s \in DOMAIN X /\ st.marker = X[c - s]
          BY <1>2, <3>1, <4>1
        <5> QED
          BY <1>5, <5>1
      <4> QED
        BY <4>1
    <3>3. S[c] = st.marker /\ c <= Len(S)
      BY <1>2, <3>1, <3>2 DEF s
    <3>4. StandsFor(st.frozen, S, c)
      BY <1>5, <3>3 DEF Valid
    <3>5. st.marker.run = r.number
      BY <1>5, <3>2, <3>3 DEF SourceSound, History
    <3>6. ASSUME NEW i \in DOMAIN X, NEW j \in 1..c, Replies(X[i], S[j]) PROVE FALSE
      <4>1. j \in DOMAIN S /\ c >= j
        BY <1>2, <1>3, <3>2
      <4>2. S[j].kind = "call" /\ ~ EarlierId(r, open, S[j].id)
        BY <3>6, ActionKinds DEF Replies
      <4>3. ~ EarlierId(r, open, S[c].id)
        BY <3>2, <4>1, <4>2, OpenCallsLast
      <4> QED
        BY <1>5, <3>3, <3>5, <4>3
    <3>7. c \in 0..Len(S)
      BY <1>3, <3>3 DEF s
    <3> QED
      BY <1>1, <3>4, <3>6, <3>7, StillStands DEF Q
  <2>3. StateSound(st, Q, q, now)
    BY <1>3, <1>5, <2>1, <2>2 DEF StateSound
  <2> QED
    BY <2>3 DEF Q
<1> QED
  BY <1>4, <1>5 DEF StateSound

----------------------------------------------------------------------------
(* The steps of the handler. *)

LEMMA ItemsMade ==
  /\ \A b \in BOOLEAN : Task(b) \in Items /\ Task(b).kind = "task" /\ Task(b).id = 0
                        /\ Task(b).run = 0 /\ Task(b) \in Tasks
  /\ \A f \in Tasks : f \in Items /\ f.kind = "task" /\ f.id = 0 /\ f.run = 0 /\ ~ IsAction(f)
  /\ Note \in Items /\ Note.kind = "note" /\ Note.id = 0 /\ Note.run = 0
  /\ \A n \in Nat : LET m == Item("message", n, 0, "none")
                    IN  m \in Items /\ m.kind = "message" /\ m.id = 0 /\ m.run = n
  /\ \A kind \in {"call", "output"}, n \in Nat, id \in Nat, tool \in ToolKinds :
       LET a == Item(kind, n, id, tool)
       IN  a \in Items /\ a.kind = kind /\ a.id = id /\ a.run = n /\ IsAction(a)
<1>1. ASSUME NEW kind \in {"task", "note", "message", "call", "output"}, NEW n \in Nat, NEW id \in Nat,
             NEW tool \in ToolKinds \cup {"none", "noted"}
      PROVE  LET a == Item(kind, n, id, tool)
             IN  a \in Items /\ a.kind = kind /\ a.id = id /\ a.run = n
  BY DEF Item, Items
<1>2. \A b \in BOOLEAN : Task(b) \in Items /\ Task(b).kind = "task" /\ Task(b).id = 0
                        /\ Task(b).run = 0 /\ Task(b) \in Tasks
  BY <1>1 DEF Task, Tasks
<1>3. \A f \in Tasks : f \in Items /\ f.kind = "task" /\ f.id = 0 /\ f.run = 0
  BY <1>2 DEF Tasks
<1>4. Note \in Items /\ Note.kind = "note" /\ Note.id = 0 /\ Note.run = 0
  BY <1>1 DEF Note
<1> QED
  BY <1>1, <1>2, <1>3, <1>4 DEF IsAction

\* A history that begins anew.
LEMMA NewHistory ==
  ASSUME NEW f \in Tasks, NEW r, r.number \in Nat, r.number > 0, r.ids \in Nat, r.phase = "model"
  PROVE  SourceSound(<<f>>, r, 0)
<1>1. <<f>> \in Seq(Items) /\ Len(<<f>>) = 1 /\ <<f>>[1] = f /\ <<f>> # <<>> /\ DOMAIN <<f>> = {1}
  <2>1. f \in Items
    BY ItemsMade
  <2> QED
    BY <2>1
<1>2. f.kind = "task" /\ f.id = 0 /\ f.run = 0 /\ ~ IsAction(f)
  BY ItemsMade
<1> DEFINE S == <<f>>
<1> HIDE DEF S
<1>3. S \in Seq(Items) /\ Len(S) = 1 /\ S[1] = f /\ S # <<>> /\ DOMAIN S = {1}
  BY <1>1 DEF S
<1>4. InOrder(S) /\ AllAnswered(S)
  BY <1>2, <1>3 DEF InOrder, AllAnswered
<1>5. History(S, r.number)
  BY <1>2, <1>3, <1>4 DEF History
<1>6. Askable(S)
  BY <1>3, <1>4 DEF Askable
<1>7. SourceSound(S, r, 0)
  BY <1>2, <1>3, <1>5, <1>6 DEF SourceSound
<1> QED
  BY <1>7 DEF S

\* States of the folding stay sound when a history begins anew.
LEMMA StateOutlives ==
  ASSUME NEW f \in Tasks, NEW S, NEW r, r.ids \in Nat, r.number \in Nat,
         NEW st, StateSound(st, S, r, 0),
         NEW q, q.ids \in Nat, q.number \in {r.number, r.number + 1},
         q.number = r.number => q.ids = r.ids
  PROVE  StateSound(st, <<f>>, q, 0)
<1>1. ~ IsAction(f) /\ Len(<<f>>) = 1 /\ <<f>>[1] = f
  BY ItemsMade
<1>2. CASE st.count = 0 \/ (st.count = 1 /\ StandsFor(st.frozen, <<Task(FALSE)>>, 1))
  BY <1>2 DEF StateSound
<1>3. CASE /\ st.count > 0 /\ IsAction(st.marker) /\ st.marker.run \in 1..r.number
           /\ st.marker.run = r.number => EarlierId(r, 0, st.marker.id)
  <2>1. st.marker.run \in 1..q.number
    BY <1>3
  <2>2. st.marker.run = q.number => EarlierId(q, 0, st.marker.id)
    BY <1>3 DEF EarlierId
  <2>3. ~ Valid(st, <<f>>)
    <3>1. st.count \in Nat
      BY DEF StateSound
    <3>2. ASSUME Valid(st, <<f>>) PROVE FALSE
      <4>1. st.count = 1
        BY <1>1, <1>3, <3>1, <3>2 DEF Valid
      <4> QED
        BY <1>1, <1>3, <3>2, <4>1 DEF Valid
    <3> QED
      BY <3>2
  <2> QED
    BY <1>3, <2>1, <2>2, <2>3 DEF StateSound
<1> QED
  BY <1>2, <1>3 DEF StateSound

\* What the task alone stands for stands for the first item of every history.
LEMMA TaskStands ==
  ASSUME NEW S \in Seq(Items), S # <<>>, S[1] \in Tasks, NEW F
  PROVE  StandsFor(F, S, 1) => StandsFor(F, <<Task(FALSE)>>, 1)
<1>1. <<Task(FALSE)>>[1] = Task(FALSE) /\ DOMAIN <<Task(FALSE)>> = {1} /\ Alike(Task(FALSE), S[1])
      /\ ~ IsAction(Task(FALSE)) /\ ~ IsAction(S[1])
  <2>1. Task(FALSE) \in Tasks
    BY ItemsMade
  <2>2. \A f \in Tasks : f.kind = "task" /\ f.id = 0 /\ f.run = 0 /\ ~ IsAction(f)
    BY ItemsMade
  <2>3. Task(FALSE).kind = "task" /\ Task(FALSE).id = 0 /\ ~ IsAction(Task(FALSE))
    BY <2>1, <2>2
  <2>4. S[1].kind = "task" /\ S[1].id = 0 /\ ~ IsAction(S[1])
    BY <2>2
  <2>5. Alike(Task(FALSE), S[1])
    BY <2>1, <2>2, <2>3, <2>4 DEF Alike, Same
  <2> DEFINE t == Task(FALSE)
  <2>6. <<t>>[1] = t /\ DOMAIN <<t>> = {1}
    <3> HIDE DEF t
    <3>1. Len(<<t>>) = 1 /\ <<t>> \in Seq({t})
      OBVIOUS
    <3>2. DOMAIN <<t>> = 1..1
      BY <3>1
    <3> QED
      BY <3>2
  <2> QED
    BY <2>3, <2>4, <2>5, <2>6
<1> DEFINE T == <<Task(FALSE)>>
<1>2. T[1] = Task(FALSE) /\ DOMAIN T = {1}
  BY <1>1
<1> HIDE DEF T
<1>0. 1 \in 1..1 /\ \A k \in 1..1 : k = 1
  OBVIOUS
<1>3. ASSUME StandsFor(F, S, 1) PROVE StandsFor(F, T, 1)
  <2>1. \A i \in DOMAIN F : F[i] = Summary \/ \E k \in 1..1 : Alike(F[i], T[k])
    <3>1. \A i \in DOMAIN F : F[i] = Summary \/ Alike(F[i], S[1])
      BY <1>0, <1>3 DEF StandsFor
    <3>2. \A p : Alike(p, S[1]) => Alike(p, T[1])
      BY <1>1, <1>2 DEF Alike, Same
    <3> QED
      BY <1>0, <3>1, <3>2
  <2>2. \A i \in DOMAIN F, k \in 1..1 : ~ Replies(T[k], F[i])
    <3>1. \A p : ~ Replies(T[1], p)
      BY <1>1, <1>2, ActionKinds DEF Replies
    <3> QED
      BY <1>0, <3>1
  <2>3. \A k \in DOMAIN T : ~ (k > 1)
    BY <1>2
  <2> QED
    BY <1>3, <2>1, <2>2, <2>3 DEF StandsFor
<1> QED
  BY <1>3 DEF T

LEMMA StandsForTask ==
  ASSUME NEW S \in Seq(Items), S # <<>>, S[1] \in Tasks, NEW F, StandsFor(F, <<Task(FALSE)>>, 1)
  PROVE  StandsFor(F, S, 1)
<1>1. <<Task(FALSE)>>[1] = Task(FALSE) /\ Alike(Task(FALSE), S[1]) /\ ~ IsAction(S[1])
  <2>1. Task(FALSE) \in Tasks
    BY ItemsMade
  <2>2. \A f \in Tasks : f.kind = "task" /\ f.id = 0 /\ f.run = 0 /\ ~ IsAction(f)
    BY ItemsMade
  <2> QED
    BY <2>1, <2>2 DEF Alike, Same
<1>0. 1 \in 1..1 /\ \A k \in 1..1 : k = 1
  OBVIOUS
<1> DEFINE T == <<Task(FALSE)>>
<1>2. T[1] = Task(FALSE) /\ StandsFor(F, T, 1)
  BY <1>1
<1> HIDE DEF T
<1>3. \A i \in DOMAIN F : F[i] = Summary \/ \E k \in 1..1 : Alike(F[i], S[k])
  <2>1. \A i \in DOMAIN F : F[i] = Summary \/ Alike(F[i], T[1])
    BY <1>0, <1>2 DEF StandsFor
  <2>2. \A p : Alike(p, T[1]) => Alike(p, S[1])
    BY <1>1, <1>2 DEF Alike, Same
  <2> QED
    BY <1>0, <2>1, <2>2
<1>4. \A p : ~ Replies(S[1], p) /\ ~ Replies(p, S[1])
  BY <1>1, ActionKinds DEF Replies
<1>5. /\ \A i \in DOMAIN F, k \in 1..1 : ~ Replies(S[k], F[i])
      /\ \A j \in 1..1, k \in DOMAIN S : ~ Replies(S[k], S[j])
  BY <1>0, <1>4
<1> QED
  BY <1>2, <1>3, <1>5 DEF StandsFor

\* A model is asked with a whole history, and what is folded stands for it.
LEMMA AskedSound ==
  ASSUME NEW S, NEW r, r.number \in Nat, r.ids \in Nat, r.phase = "model", SourceSound(S, r, 0),
         NEW old, StateSound(old, S, r, 0)
  PROVE  Whole(Compacted(old, S).sent, r.number) /\ StateSound(Compacted(old, S).state, S, r, 0)
<1>1. /\ History(S, r.number) /\ Askable(S) /\ S \in Seq(Items) /\ S # <<>> /\ S[1] \in Tasks
      /\ r.number > 0
  BY DEF SourceSound, Askable, History
<1>2. old.frozen \in Seq(Items) /\ old.count \in Nat /\ old.marker \in Items
      /\ (old.count = 0 => old.frozen = <<>>)
  BY DEF StateSound
<1>3. ASSUME old.count > 0, Valid(old, S)
      PROVE  StandsFor(old.frozen, S, old.count) /\ (old.count = 1 \/ IsAction(old.marker))
  <2>1. CASE old.count = 1 /\ StandsFor(old.frozen, <<Task(FALSE)>>, 1)
    BY <1>1, <2>1, StandsForTask
  <2>2. CASE IsAction(old.marker) /\ (Valid(old, S) => StandsFor(old.frozen, S, old.count))
    BY <1>3, <2>2
  <2> QED
    BY <1>3, <2>1, <2>2 DEF StateSound
<1>4. Whole(Compacted(old, S).sent, r.number) /\ FitsHistory(Compacted(old, S).state, S)
  BY <1>1, <1>2, <1>3, CompactedSound
<1> DEFINE st == Compacted(old, S).state
<1>5. FitsHistory(st, S)
  BY <1>4
<1> HIDE DEF st
<1>6. StateSound(st, S, r, 0)
  <2>1. CASE st.count = 0
    BY <1>5, <2>1 DEF StateSound, FitsHistory
  <2>2. CASE st.count = 1
    <3>1. StandsFor(st.frozen, S, 1)
      BY <1>5, <2>2 DEF FitsHistory
    <3>2. StandsFor(st.frozen, <<Task(FALSE)>>, 1)
      BY <1>1, <3>1, TaskStands
    <3> QED
      BY <1>5, <2>2, <3>2 DEF StateSound, FitsHistory
  <2>3. CASE st.count \notin {0, 1}
    <3>1. /\ st.count > 0 /\ st.count <= Len(S) /\ st.marker = S[st.count] /\ IsAction(st.marker)
          /\ StandsFor(st.frozen, S, st.count) /\ st.count \in Nat
      BY <1>5, <2>3 DEF FitsHistory
    <3>2. st.count \in DOMAIN S
      BY <1>1, <3>1, LenProperties
    <3>3. st.marker.run = r.number /\ st.marker.id <= r.ids
      BY <1>1, <3>1, <3>2 DEF SourceSound, History
    <3>4. st.marker.run \in 1..r.number /\ EarlierId(r, 0, st.marker.id)
      BY <1>1, <3>3 DEF EarlierId
    <3> QED
      BY <1>5, <3>1, <3>4 DEF StateSound, FitsHistory
  <2> QED
    BY <2>1, <2>2, <2>3
<1> QED
  BY <1>4, <1>6 DEF st

LEMMA AskedStep ==
  ASSUME RunTypeOK, HistorySound, run.phase = "model", Asked
  PROVE  Whole(sent', run.number) /\ StatesSound(comp', source, run, 0)
<1>1. run.number \in Nat /\ run.ids \in Nat
  BY DEF RunTypeOK
<1>2. Len(turn) = 0 /\ SourceSound(source, run, 0) /\ StatesSound(comp, source, run, 0)
  BY DEF HistorySound, SourceSound
<1>3. source \in Seq(Items) /\ source # <<>> /\ source[1] \in Tasks /\ Head(source) = source[1]
  BY <1>2 DEF SourceSound, Askable, History
<1> DEFINE f == Head(source)
           C == Compacted(comp[f], source)
<1>4. f \in Tasks
  BY <1>3
<1>5. Whole(C.sent, run.number) /\ StateSound(C.state, source, run, 0)
  BY <1>1, <1>2, <1>4, AskedSound DEF StatesSound
<1>6. sent' = C.sent /\ comp' = [comp EXCEPT ![f] = C.state]
  BY DEF Asked, Ask
<1> HIDE DEF f, C
<1>7. comp = [h \in Tasks |-> comp[h]] /\ \A h \in Tasks : StateSound(comp[h], source, run, 0)
  BY <1>2 DEF StatesSound
<1>8. comp' = [h \in Tasks |-> IF h = f THEN C.state ELSE comp[h]]
  BY <1>4, <1>6, <1>7
<1> QED
  BY <1>5, <1>6, <1>7, <1>8 DEF StatesSound

\* The model answers with n calls, and perhaps a message before them.
Speech(speaks, number) == IF speaks THEN <<Item("message", number, 0, "none")>> ELSE <<>>
CallsOf(r, n, wanted) == [i \in 1..n |-> Item("call", r.number, r.ids + i, wanted[i].tool)]

LEMMA SpeechAdded ==
  ASSUME NEW S, NEW r, r.number \in Nat, r.number > 0, r.ids \in Nat, r.phase = "model",
         SourceSound(S, r, 0), NEW speaks \in BOOLEAN
  PROVE  /\ Speech(speaks, r.number) \in Seq(Items)
         /\ \A i \in DOMAIN Speech(speaks, r.number) : ~ IsAction(Speech(speaks, r.number)[i])
         /\ Extends(Speech(speaks, r.number), S, r.number)
<1> DEFINE X == Speech(speaks, r.number)
           m == Item("message", r.number, 0, "none")
<1>1. m \in Items /\ m.kind = "message" /\ m.id = 0 /\ m.run = r.number /\ ~ IsAction(m)
  BY ItemsMade, ActionKinds
<1>2. X \in Seq(Items) /\ \A i \in DOMAIN X : X[i] = m
  BY <1>1 DEF Speech
<1> HIDE DEF X, m
<1>3. Extends(X, S, r.number)
  BY <1>1, <1>2 DEF Extends
<1> QED
  BY <1>1, <1>2, <1>3 DEF X

LEMMA CallsMade ==
  ASSUME NEW r, r.number \in Nat, r.ids \in Nat, NEW n \in Nat, NEW wanted \in [1..n -> Wanted]
  PROVE  /\ CallsOf(r, n, wanted) \in Seq(Items) /\ Len(CallsOf(r, n, wanted)) = n
         /\ DOMAIN CallsOf(r, n, wanted) = 1..n
         /\ \A i \in 1..n : LET c == CallsOf(r, n, wanted)[i]
                            IN  /\ c.kind = "call" /\ c.run = r.number /\ c.id = r.ids + i
                                /\ IsAction(c)
<1> DEFINE X == CallsOf(r, n, wanted)
<1>1. ASSUME NEW i \in 1..n
      PROVE  X[i] \in Items /\ X[i].kind = "call" /\ X[i].run = r.number /\ X[i].id = r.ids + i
             /\ IsAction(X[i])
  <2>1. wanted[i].tool \in ToolKinds
    BY CodeAgentAssumption DEF Wishes, ToolKinds
  <2>2. r.ids + i \in Nat
    OBVIOUS
  <2>3. X[i] = Item("call", r.number, r.ids + i, wanted[i].tool)
    BY DEF CallsOf
  <2> HIDE DEF X
  <2> QED
    BY <2>1, <2>2, <2>3, ItemsMade
<1>2. X \in [1..n -> Items] /\ DOMAIN X = 1..n
  <2>1. X = [i \in 1..n |-> X[i]] /\ DOMAIN X = 1..n
    BY DEF CallsOf
  <2> QED
    BY <1>1, <2>1
<1> HIDE DEF X
<1>3. X \in Seq(Items)
  BY <1>2, SeqDef
<1>4. Len(X) = n
  BY <1>2, <1>3, LenProperties
<1> QED
  BY <1>1, <1>2, <1>3, <1>4 DEF X

\* A history in which no call is open.
NoneOpen(S, r) ==
  /\ History(S, r.number) /\ S # <<>> /\ S[1] \in Tasks /\ AllAnswered(S)
  /\ \A i \in DOMAIN S : S[i].id <= r.ids

LEMMA SpeechCloses ==
  ASSUME NEW S, NEW r, r.number \in Nat, r.number > 0, r.ids \in Nat, r.phase = "model",
         SourceSound(S, r, 0), NEW speaks \in BOOLEAN
  PROVE  NoneOpen(S \o Speech(speaks, r.number), r)
<1> DEFINE X == Speech(speaks, r.number)
           Q == S \o X
<1>1. /\ S \in Seq(Items) /\ S # <<>> /\ S[1] \in Tasks /\ History(S, r.number) /\ AllAnswered(S)
      /\ \A i \in DOMAIN S : S[i].id <= r.ids
  BY DEF SourceSound, History, Askable
<1>2. /\ X \in Seq(Items) /\ Extends(X, S, r.number)
      /\ \A i \in DOMAIN X : ~ IsAction(X[i]) /\ X[i].id = 0
  <2>1. X \in Seq(Items) /\ Extends(X, S, r.number) /\ \A i \in DOMAIN X : ~ IsAction(X[i])
    BY SpeechAdded
  <2> QED
    BY <2>1 DEF Extends
<1> HIDE DEF X
<1>3. /\ DOMAIN S = 1..Len(S) /\ Len(S) \in Nat
      /\ \A i \in DOMAIN S : i \in DOMAIN Q /\ Q[i] = S[i]
      /\ \A i \in DOMAIN Q :
           i \in DOMAIN S \/ (i > Len(S) /\ i - Len(S) \in DOMAIN X /\ Q[i] = X[i - Len(S)])
      /\ Len(Q) = Len(S) + Len(X) /\ Len(X) \in Nat /\ Q \in Seq(Items)
  BY <1>1, <1>2, JoinedItems
<1>4. History(Q, r.number)
  BY <1>1, <1>2, HistoryGrows
<1> HIDE DEF Q
<1>5. 1 \in DOMAIN S
  BY <1>1, <1>3, EmptySeq
<1>6. Q # <<>> /\ Q[1] \in Tasks
  <2>1. Len(Q) # 0
    BY <1>3, <1>5
  <2>2. Q # <<>>
    BY <2>1, EmptySeq
  <2> QED
    BY <1>1, <1>3, <1>5, <2>2
<1>7. ASSUME NEW i \in DOMAIN Q, Q[i].kind = "call" PROVE \E j \in DOMAIN Q : Replies(Q[j], Q[i])
  <2>1. i \in DOMAIN S
    BY <1>2, <1>3, <1>7 DEF IsAction
  <2>2. PICK j \in DOMAIN S : Replies(S[j], S[i])
    BY <1>1, <1>3, <1>7, <2>1 DEF AllAnswered
  <2> QED
    BY <1>3, <2>1, <2>2
<1>8. ASSUME NEW i \in DOMAIN Q PROVE Q[i].id <= r.ids
  <2>1. CASE i \in DOMAIN S
    BY <1>1, <1>3, <2>1
  <2>2. CASE i \notin DOMAIN S
    <3>1. Q[i].id = 0
      BY <1>2, <1>3, <2>2
    <3> QED
      BY <3>1
  <2> QED
    BY <2>1, <2>2
<1>9. NoneOpen(Q, r)
  BY <1>4, <1>6, <1>7, <1>8 DEF NoneOpen, AllAnswered
<1> QED
  BY <1>9 DEF Q, X

\* Histories with new calls.
LEMMA CallsAdded ==
  ASSUME NEW S, NEW r, r.number \in Nat, r.ids \in Nat, r.number > 0, NoneOpen(S, r),
         NEW n \in Nat, n > 0, NEW X, X \in Seq(Items), Len(X) = n,
         \A i \in 1..n : X[i].kind = "call" /\ X[i].run = r.number /\ X[i].id = r.ids + i,
         NEW q, q.number = r.number, q.ids = r.ids + n, q.phase = "tools"
  PROVE  SourceSound(S \o X, q, n)
<1> DEFINE Q == S \o X
           s == Len(S)
<1>1. S \in Seq(Items) /\ S # <<>> /\ S[1] \in Tasks /\ History(S, r.number) /\ AllAnswered(S)
  BY DEF NoneOpen, History
<1>2. /\ s \in Nat /\ DOMAIN S = 1..s /\ DOMAIN X = 1..n /\ Q \in Seq(Items) /\ Len(Q) = s + n
      /\ DOMAIN Q = 1..(s + n)
      /\ \A i \in DOMAIN S : i \in DOMAIN Q /\ Q[i] = S[i]
      /\ \A i \in DOMAIN X : s + i \in DOMAIN Q /\ Q[s + i] = X[i]
      /\ \A i \in DOMAIN Q :
           i \in DOMAIN S \/ (i > s /\ i - s \in DOMAIN X /\ Q[i] = X[i - s])
  BY <1>1, JoinedItems
<1>3. s > 0
  BY <1>1, EmptySeq
<1>4. \A i \in DOMAIN S : S[i].id <= r.ids /\ S[i].id \in Nat
  <2>1. \A i \in DOMAIN S : S[i] \in Items
    BY <1>1, <1>2, ElementOfSeq
  <2> QED
    BY <2>1 DEF NoneOpen, Items
<1> HIDE DEF Q, s
<1>5. Extends(X, S, r.number)
  <2>1. ASSUME NEW i \in 1..n, NEW k \in DOMAIN S PROVE ~ Same(S[k], X[i])
    BY <1>4 DEF Same
  <2>2. \A i \in 1..n : r.ids + i > 0
    OBVIOUS
  <2>3. \A i, j \in 1..n : Same(X[i], X[j]) => i = j
    BY DEF Same
  <2>4. ASSUME NEW i \in 1..n
        PROVE  /\ X[i].kind \in {"message", "note", "call", "output"} /\ X[i].run \in {0, r.number}
               /\ IF IsAction(X[i]) THEN X[i].run = r.number /\ X[i].id > 0 ELSE X[i].id = 0
    BY <2>2 DEF IsAction
  <2>5. \A i \in 1..n : X[i].kind # "output"
    OBVIOUS
  <2> QED
    BY <1>2, <2>1, <2>3, <2>4, <2>5 DEF Extends
<1>6. History(Q, r.number)
  BY <1>1, <1>5, HistoryGrows DEF Q
<1>7. Q # <<>> /\ Q[1] \in Tasks
  <2>1. 1 \in DOMAIN S
    BY <1>2, <1>3
  <2>2. Len(Q) # 0
    BY <1>2, <1>3
  <2>3. Q # <<>>
    BY <2>2, EmptySeq
  <2> QED
    BY <1>1, <1>2, <2>1, <2>3
<1>8. ASSUME NEW i \in DOMAIN Q
      PROVE  Q[i].id <= q.ids /\ (Q[i].kind = "output" => EarlierId(q, n, Q[i].id))
  <2>1. CASE i \in DOMAIN S
    BY <1>2, <1>4, <2>1 DEF EarlierId
  <2>2. CASE i \notin DOMAIN S
    BY <1>2, <2>2
  <2> QED
    BY <2>1, <2>2
<1>9. n < Len(Q) /\ n <= q.ids
  BY <1>2, <1>3
<1>10. \A i \in 1..n : Q[Len(Q) - n + i].kind = "call" /\ Q[Len(Q) - n + i].id = q.ids - n + i
  <2> SUFFICES ASSUME NEW i \in 1..n
               PROVE Q[Len(Q) - n + i].kind = "call" /\ Q[Len(Q) - n + i].id = q.ids - n + i
    OBVIOUS
  <2>1. Len(Q) - n + i = s + i /\ q.ids - n + i = r.ids + i
    BY <1>2
  <2>2. Q[s + i] = X[i] /\ X[i].kind = "call" /\ X[i].id = r.ids + i
    BY <1>2
  <2> QED
    BY <2>1, <2>2
<1>11. ASSUME NEW i \in DOMAIN Q, Q[i].kind = "call", EarlierId(q, n, Q[i].id)
       PROVE  \E j \in DOMAIN Q : Replies(Q[j], Q[i])
  <2>1. i \in DOMAIN S
    <3>1. ASSUME i \notin DOMAIN S PROVE FALSE
      <4>1. i - s \in 1..n /\ Q[i].id = r.ids + (i - s)
        BY <1>2, <3>1
      <4> QED
        BY <1>11, <4>1 DEF EarlierId
    <3> QED
      BY <3>1
  <2>2. PICK j \in DOMAIN S : Replies(S[j], S[i])
    BY <1>1, <1>2, <1>11, <2>1 DEF AllAnswered
  <2> QED
    BY <1>2, <2>1, <2>2
<1>12. SourceSound(Q, q, n)
  BY <1>1, <1>6, <1>7, <1>8, <1>9, <1>10, <1>11 DEF SourceSound
<1> QED
  BY <1>12 DEF Q

\* What a turn with the model does.
LEMMA CallsStep ==
  ASSUME RunTypeOK, HistorySound, ReadsGiven, ModelCalls
  PROVE  HistorySound'
<1>1. run.number \in Nat /\ run.ids \in Nat /\ run.phase = "model" /\ Asked
  BY DEF RunTypeOK, ModelCalls
<1>2. Whole(sent', run.number) /\ StatesSound(comp', source, run, 0)
  BY <1>1, AskedStep
<1>3. SourceSound(source, run, 0) /\ run.number > 0
  BY <1>1 DEF HistorySound, SourceSound
<1>4. PICK n \in 1..MaxPerTurn, speaks \in BOOLEAN : \E wanted \in [1..n -> Wanted] :
        /\ turn' = [i \in 1..n |-> [want |-> wanted[i], at |-> "called", told |-> "nothing",
                                    window |-> {}]]
        /\ source' = source \o Speech(speaks, run.number) \o CallsOf(run, n, wanted)
        /\ run' = [run EXCEPT !.phase = "tools", !.turns = @ + 1, !.ids = @ + n]
  BY DEF ModelCalls, Speech, CallsOf
<1>5. PICK wanted \in [1..n -> Wanted] :
        /\ turn' = [i \in 1..n |-> [want |-> wanted[i], at |-> "called", told |-> "nothing",
                                    window |-> {}]]
        /\ source' = source \o Speech(speaks, run.number) \o CallsOf(run, n, wanted)
        /\ run' = [run EXCEPT !.phase = "tools", !.turns = @ + 1, !.ids = @ + n]
  BY <1>4
<1>6. n \in Nat /\ n > 0
  BY CodeAgentAssumption
<1>7. Len(turn') = n
  BY <1>5, <1>6
<1>8. run'.number = run.number /\ run'.ids = run.ids + n /\ run'.phase = "tools"
  BY <1>1, <1>5 DEF RunTypeOK
<1> DEFINE X == Speech(speaks, run.number)
           C == CallsOf(run, n, wanted)
           S == source \o X
<1>9. NoneOpen(S, run)
  BY <1>1, <1>3, SpeechCloses
<1>10. /\ C \in Seq(Items) /\ Len(C) = n /\ DOMAIN C = 1..n
       /\ \A i \in 1..n : C[i].kind = "call" /\ C[i].run = run.number /\ C[i].id = run.ids + i
                          /\ IsAction(C[i])
  BY <1>1, <1>6, CallsMade
<1>11. X \in Seq(Items) /\ \A i \in DOMAIN X : ~ IsAction(X[i])
  BY <1>1, <1>3, SpeechAdded
<1>12. source \in Seq(Items)
  BY <1>3 DEF SourceSound, History
<1> HIDE DEF X, C
<1>13. SourceSound(S \o C, run', n)
  <2> HIDE DEF S
  <2> QED
    BY <1>1, <1>3, <1>6, <1>8, <1>9, <1>10, CallsAdded
<1>14. source' = source \o (X \o C) /\ source' = S \o C
  <2>1. source' = (source \o X) \o C
    BY <1>5 DEF X, C
  <2>2. (source \o X) \o C = source \o (X \o C)
    BY <1>10, <1>11, <1>12, ConcatAssociative
  <2> QED
    BY <2>1, <2>2
<1> DEFINE Y == X \o C
<1>15. /\ Y \in Seq(Items)
       /\ \A i \in DOMAIN Y : (i \in DOMAIN X /\ Y[i] = X[i])
                           \/ (i - Len(X) \in DOMAIN C /\ Y[i] = C[i - Len(X)])
  BY <1>10, <1>11, JoinedItems
<1> HIDE DEF Y
<1>16. \A i \in DOMAIN Y : IsAction(Y[i]) =>
         Y[i].run = run.number /\ ~ EarlierId(run, 0, Y[i].id)
  <2>1. \A i \in DOMAIN C : ~ EarlierId(run, 0, C[i].id)
    BY <1>1, <1>6, <1>10 DEF EarlierId
  <2> QED
    BY <1>10, <1>11, <1>15, <2>1
<1>17. ASSUME NEW f \in Tasks PROVE StateSound(comp'[f], source \o Y, run', n)
  <2>1. StateSound(comp'[f], source, run, 0)
    BY <1>2 DEF StatesSound
  <2>2. run'.ids \in Nat /\ run'.ids - n >= run.ids - 0
    BY <1>1, <1>6, <1>8
  <2> DEFINE st == comp'[f]
             q  == run'
  <2>3. StateSound(st, source, run, 0) /\ q.ids \in Nat /\ q.ids - n >= run.ids - 0
        /\ q.number = run.number
    BY <1>8, <2>1, <2>2
  <2> HIDE DEF st, q
  <2>4. StateSound(st, source \o Y, q, n)
    BY <1>1, <1>3, <1>6, <1>15, <1>16, <2>3, StateGrows
  <2> QED
    BY <2>4 DEF st, q
<1>18. StatesSound(comp', source', run', n)
  BY <1>2, <1>14, <1>17 DEF StatesSound, Y
<1> QED
  BY <1>2, <1>7, <1>8, <1>13, <1>14, <1>18 DEF HistorySound

\* What the end of a turn appends.
OutputsOf(r, t) ==
  [i \in DOMAIN t |-> Item("output", r.number, r.ids - Len(t) + i, t[i].want.tool)]

LEMMA OutputsMade ==
  ASSUME NEW r, r.number \in Nat, r.ids \in Nat, NEW n \in Nat, n <= r.ids,
         NEW t, Len(t) = n, DOMAIN t = 1..n, \A i \in 1..n : t[i].want \in Wanted
  PROVE  /\ OutputsOf(r, t) \in Seq(Items) /\ Len(OutputsOf(r, t)) = n
         /\ DOMAIN OutputsOf(r, t) = 1..n
         /\ \A i \in 1..n : LET o == OutputsOf(r, t)[i]
                            IN  /\ o.kind = "output" /\ o.run = r.number /\ o.id = r.ids - n + i
                                /\ IsAction(o)
<1> DEFINE X == OutputsOf(r, t)
<1>1. ASSUME NEW i \in 1..n
      PROVE  X[i] \in Items /\ X[i].kind = "output" /\ X[i].run = r.number /\ X[i].id = r.ids - n + i
             /\ IsAction(X[i])
  <2>1. t[i].want.tool \in ToolKinds
    BY CodeAgentAssumption DEF Wishes, ToolKinds
  <2>2. r.ids - n + i \in Nat
    OBVIOUS
  <2>3. X[i] = Item("output", r.number, r.ids - n + i, t[i].want.tool)
    BY DEF OutputsOf
  <2> HIDE DEF X
  <2> QED
    BY <2>1, <2>2, <2>3, ItemsMade
<1>2. X \in [1..n -> Items] /\ DOMAIN X = 1..n
  <2>1. X = [i \in 1..n |-> X[i]] /\ DOMAIN X = 1..n
    BY DEF OutputsOf
  <2> HIDE DEF X
  <2> QED
    BY <1>1, <2>1
<1> HIDE DEF X
<1>3. X \in Seq(Items)
  BY <1>2, SeqDef
<1>4. Len(X) = n
  BY <1>2, <1>3, LenProperties
<1> QED
  BY <1>1, <1>2, <1>3, <1>4 DEF X

LEMMA OutputsAdded ==
  ASSUME NEW S, NEW r, r.number \in Nat, r.ids \in Nat, r.phase = "tools",
         NEW n \in Nat, SourceSound(S, r, n), NEW X, X \in Seq(Items), Len(X) = n,
         \A i \in 1..n : X[i].kind = "output" /\ X[i].run = r.number /\ X[i].id = r.ids - n + i,
         NEW q, q.number = r.number, q.ids = r.ids, q.phase = "model"
  PROVE  SourceSound(S \o X, q, 0)
<1> DEFINE Q == S \o X
           s == Len(S)
<1>1. /\ S \in Seq(Items) /\ History(S, r.number) /\ (S # <<>> => S[1] \in Tasks)
      /\ \A i \in DOMAIN S : /\ S[i].id <= r.ids
                            /\ S[i].kind = "output" => EarlierId(r, n, S[i].id)
      /\ n > 0 /\ n < s /\ n <= r.ids /\ r.number > 0
      /\ \A i \in 1..n : S[s - n + i].kind = "call" /\ S[s - n + i].id = r.ids - n + i
      /\ \A i \in DOMAIN S : S[i].kind = "call" /\ EarlierId(r, n, S[i].id) =>
            \E j \in DOMAIN S : Replies(S[j], S[i])
  BY DEF SourceSound, History
<1>2. /\ s \in Nat /\ DOMAIN S = 1..s /\ DOMAIN X = 1..n /\ Q \in Seq(Items) /\ Len(Q) = s + n
      /\ DOMAIN Q = 1..(s + n)
      /\ \A i \in DOMAIN S : i \in DOMAIN Q /\ Q[i] = S[i]
      /\ \A i \in DOMAIN X : s + i \in DOMAIN Q /\ Q[s + i] = X[i]
      /\ \A i \in DOMAIN Q :
           i \in DOMAIN S \/ (i > s /\ i - s \in DOMAIN X /\ Q[i] = X[i - s])
  BY <1>1, JoinedItems
<1>3. \A i \in DOMAIN S : S[i].id \in Nat
  <2>1. \A i \in DOMAIN S : S[i] \in Items
    BY <1>1, <1>2, ElementOfSeq
  <2> QED
    BY <2>1 DEF Items
<1>4. ASSUME NEW j \in DOMAIN S, S[j].kind = "call", ~ EarlierId(r, n, S[j].id)
      PROVE  j > s - n
  BY <1>4, OpenCallsLast
<1>5. S # <<>> /\ 1 \in DOMAIN S /\ s \in DOMAIN S
  <2>1. s # 0 /\ 1 \in 1..s /\ s \in 1..s
    BY <1>1, <1>2
  <2> QED
    BY <1>2, <2>1, EmptySeq
<1> HIDE DEF Q, s
<1>6. Extends(X, S, r.number)
  <2>1. ASSUME NEW i \in 1..n, NEW k \in DOMAIN S PROVE ~ Same(S[k], X[i])
    <3>1. ASSUME Same(S[k], X[i]) PROVE FALSE
      <4>1. S[k].kind = "output" /\ S[k].id = r.ids - n + i
        BY <3>1 DEF Same
      <4> QED
        BY <1>1, <4>1 DEF EarlierId
    <3> QED
      BY <3>1
  <2>2. \A i \in 1..n : r.ids - n + i > 0
    BY <1>1
  <2>3. \A i, j \in 1..n : Same(X[i], X[j]) => i = j
    BY DEF Same
  <2>4. ASSUME NEW i \in 1..n PROVE \E k \in DOMAIN S : Replies(X[i], S[k])
    <3>1. s - n + i \in DOMAIN S
      BY <1>1, <1>2
    <3>2. Replies(X[i], S[s - n + i])
      BY <1>1 DEF Replies
    <3> QED
      BY <3>1, <3>2
  <2>5. IsAction(S[s])
    <3>1. s - n + n = s /\ n \in 1..n
      BY <1>1, <1>2
    <3>2. S[s - n + n].kind = "call"
      BY <1>1, <3>1
    <3> QED
      BY <3>1, <3>2 DEF IsAction
  <2>6. \A i \in 1..n : IF i = 1 THEN IsAction(S[s]) ELSE IsAction(X[i - 1])
    <3>1. \A i \in 1..n : i # 1 => i - 1 \in 1..n
      OBVIOUS
    <3>2. \A i \in 1..n : IsAction(X[i])
      BY DEF IsAction
    <3> QED
      BY <2>5, <3>1, <3>2
  <2>7. \A i \in 1..n : IsAction(X[i]) /\ X[i].kind \in {"message", "note", "call", "output"}
    BY DEF IsAction
  <2>8. ASSUME NEW i \in 1..n
        PROVE  /\ X[i].kind \in {"message", "note", "call", "output"} /\ X[i].run \in {0, r.number}
               /\ IF IsAction(X[i]) THEN X[i].run = r.number /\ X[i].id > 0 ELSE X[i].id = 0
    BY <2>2, <2>7
  <2>9. ASSUME NEW i \in 1..n
        PROVE  IF i = 1 THEN IsAction(S[Len(S)]) ELSE IsAction(X[i - 1])
    BY <2>6 DEF s
  <2> QED
    BY <1>2, <2>1, <2>3, <2>4, <2>8, <2>9 DEF Extends
<1>7. History(Q, r.number)
  BY <1>1, <1>5, <1>6, HistoryGrows DEF Q
<1>8. Q # <<>> /\ Q[1] \in Tasks
  <2>1. Len(Q) # 0
    BY <1>1, <1>2
  <2>2. Q # <<>>
    BY <2>1, EmptySeq
  <2> QED
    BY <1>1, <1>2, <1>5, <2>2
<1>9. ASSUME NEW i \in DOMAIN Q PROVE Q[i].id <= q.ids /\ EarlierId(q, 0, Q[i].id)
  <2>1. CASE i \in DOMAIN S
    <3>0. Q[i] = S[i]
      BY <1>2, <2>1
    <3>1. S[i].id <= r.ids
      BY <2>1 DEF SourceSound
    <3>2. r.ids - 0 = r.ids
      OBVIOUS
    <3> QED
      BY <3>0, <3>1, <3>2 DEF EarlierId
  <2>2. CASE i \notin DOMAIN S
    <3>1. i - s \in 1..n /\ Q[i].id = r.ids - n + (i - s)
      BY <1>2, <2>2
    <3>2. r.ids - n + (i - s) <= r.ids /\ r.ids - 0 = r.ids
      BY <1>1, <1>2, <3>1
    <3> QED
      BY <3>1, <3>2 DEF EarlierId
  <2> QED
    BY <2>1, <2>2
<1>10. ASSUME NEW i \in DOMAIN Q, Q[i].kind = "call" PROVE \E j \in DOMAIN Q : Replies(Q[j], Q[i])
  <2>1. i \in DOMAIN S
    BY <1>2, <1>10
  <2>2. CASE EarlierId(r, n, S[i].id)
    BY <1>1, <1>2, <1>10, <2>1, <2>2
  <2>3. CASE ~ EarlierId(r, n, S[i].id)
    <3>1. i > s - n
      BY <1>2, <1>4, <1>10, <2>1, <2>3
    <3>2. i - (s - n) \in 1..n /\ s - n + (i - (s - n)) = i
      BY <1>1, <1>2, <2>1, <3>1
    <3> DEFINE k == i - (s - n)
    <3>3. k \in 1..n /\ S[s - n + k].id = r.ids - n + k /\ s - n + k = i
      BY <1>1, <3>2
    <3> HIDE DEF k
    <3>4. Replies(X[k], S[i])
      BY <1>2, <1>10, <2>1, <3>3 DEF Replies
    <3> QED
      BY <1>2, <2>1, <3>3, <3>4
  <2> QED
    BY <2>2, <2>3
<1>11. \E i \in DOMAIN Q : Q[i].kind = "output"
  <2>1. 1 \in 1..n
    BY <1>1
  <2>2. s + 1 \in DOMAIN Q /\ Q[s + 1] = X[1]
    <3>1. 1 \in DOMAIN X /\ \A i \in DOMAIN X : s + i \in DOMAIN Q /\ Q[s + i] = X[i]
      BY <1>2, <2>1
    <3> QED
      BY <3>1
  <2>3. X[1].kind = "output"
    BY <2>1
  <2> QED
    BY <2>2, <2>3
<1>12. SourceSound(Q, q, 0)
  BY <1>1, <1>7, <1>8, <1>9, <1>10, <1>11 DEF SourceSound, Askable, AllAnswered
<1> QED
  BY <1>12 DEF Q

\* The calls of a turn.
Uses == [want : Wanted, at : {"called", "running", "done"},
         told : {"nothing", "error", "unchanged", "content", "unwritten", "written", "replayed",
                 "executed"},
         window : SUBSET (Seq(Text) \X Nat)]

\* The outputs close the calls of the turn.
LEMMA TurnEndsStep ==
  ASSUME RunTypeOK, HistorySound, TurnEnds
  PROVE  HistorySound'
<1> DEFINE n == Len(turn)
           X == OutputsOf(run, turn)
<1>1. /\ run.number \in Nat /\ run.ids \in Nat /\ run.phase = "tools"
      /\ source' = source \o X
      /\ run'.number = run.number /\ run'.ids = run.ids /\ run'.phase = "model"
      /\ turn' = <<>> /\ comp' = comp /\ sent' = sent
  BY DEF RunTypeOK, TurnEnds, OutputsOf
<1>2. SourceSound(source, run, n) /\ StatesSound(comp, source, run, n) /\ Whole(sent, run.number)
  BY DEF HistorySound
<1>3. n \in Nat /\ DOMAIN turn = 1..n /\ \A i \in 1..n : turn[i].want \in Wanted
  <2>1. n \in Nat /\ DOMAIN turn = 1..n
    BY DEF RunTypeOK
  <2>2. turn \in Seq(Uses)
    BY DEF RunTypeOK, Uses
  <2>3. \A i \in 1..n : turn[i] \in Uses
    BY <2>1, <2>2, ElementOfSeq
  <2> QED
    BY <2>1, <2>3 DEF Uses
<1>4. n <= run.ids
  BY <1>1, <1>2 DEF SourceSound
<1>5. /\ X \in Seq(Items) /\ Len(X) = n /\ DOMAIN X = 1..n
      /\ \A i \in 1..n : X[i].kind = "output" /\ X[i].run = run.number /\ X[i].id = run.ids - n + i
                         /\ IsAction(X[i])
  <2> DEFINE t == turn
  <2>1. Len(t) = n /\ DOMAIN t = 1..n /\ \A i \in 1..n : t[i].want \in Wanted
    BY <1>3
  <2>2. n \in Nat
    BY <1>3
  <2> HIDE DEF n
  <2> QED
    BY <1>1, <1>4, <2>1, <2>2, OutputsMade
<1> HIDE DEF X, n
<1>6. SourceSound(source \o X, run', 0)
  BY <1>1, <1>2, <1>3, <1>5, OutputsAdded
<1>7. \A i \in DOMAIN X : X[i].run = run.number /\ ~ EarlierId(run, n, X[i].id)
  BY <1>1, <1>3, <1>4, <1>5 DEF EarlierId
<1>8. ASSUME NEW f \in Tasks PROVE StateSound(comp[f], source \o X, run', 0)
  <2> DEFINE st == comp[f]
             q  == run'
  <2>1. StateSound(st, source, run, n) /\ q.number = run.number /\ q.ids \in Nat
        /\ q.ids - 0 >= run.ids - n
    BY <1>1, <1>2, <1>3 DEF StatesSound
  <2> HIDE DEF st, q
  <2>2. StateSound(st, source \o X, q, 0)
    BY <1>1, <1>2, <1>3, <1>5, <1>7, <2>1, StateGrows
  <2> QED
    BY <2>2 DEF st, q
<1>9. Len(turn') = 0
  BY <1>1
<1> QED
  BY <1>1, <1>2, <1>6, <1>8, <1>9 DEF HistorySound, StatesSound

\* The model answers.
LEMMA AnswerStep ==
  ASSUME RunTypeOK, HistorySound, ReadsGiven, ModelAnswers
  PROVE  HistorySound'
<1>1. /\ run.number \in Nat /\ run.ids \in Nat /\ run.phase = "model" /\ Asked
      /\ run'.number = run.number /\ run'.ids = run.ids /\ run'.phase = "ended"
      /\ turn' = turn /\ source' = source /\ turn = <<>>
  BY DEF RunTypeOK, ModelAnswers, ReadsGiven
<1>2. Whole(sent', run.number) /\ StatesSound(comp', source, run, 0)
  BY <1>1, AskedStep
<1>3. Len(turn) = 0 /\ Len(turn') = 0 /\ SourceSound(source, run, 0)
  BY <1>1 DEF HistorySound
<1>4. SourceSound(source', run', 0)
  BY <1>1, <1>3 DEF SourceSound, EarlierId
<1>5. StatesSound(comp', source', run', 0)
  BY <1>1, <1>2 DEF StatesSound, StateSound, EarlierId
<1> QED
  BY <1>1, <1>2, <1>3, <1>4, <1>5 DEF HistorySound

\* A run that is cut off keeps its history.
LEMMA EndStep ==
  ASSUME RunTypeOK, HistorySound, run' = [run EXCEPT !.phase = "ended"],
         source' = source, comp' = comp, sent' = sent, Len(turn') = 0
  PROVE  HistorySound'
<1> DEFINE n == Len(turn)
<1>1. /\ run.number \in Nat /\ run.ids \in Nat /\ n \in Nat
      /\ run'.number = run.number /\ run'.ids = run.ids /\ run'.phase = "ended"
  BY DEF RunTypeOK
<1>2. SourceSound(source, run, n) /\ StatesSound(comp, source, run, n) /\ Whole(sent, run.number)
  BY DEF HistorySound
<1> HIDE DEF n
<1>3. \A x \in Nat : EarlierId(run, n, x) \/ x <= run.ids => EarlierId(run', 0, x)
  BY <1>1 DEF EarlierId
<1>4. SourceSound(source, run', 0)
  <2>1. \A i \in DOMAIN source : source[i].id <= run.ids /\ source[i].id \in Nat
    <3>1. source \in Seq(Items) /\ DOMAIN source = 1..Len(source)
      BY <1>2 DEF SourceSound, History
    <3>2. \A i \in DOMAIN source : source[i] \in Items
      BY <3>1, ElementOfSeq
    <3> QED
      BY <1>2, <3>2 DEF SourceSound, Items
  <2> QED
    BY <1>1, <1>2, <1>3, <2>1 DEF SourceSound
<1>5. ASSUME NEW f \in Tasks PROVE StateSound(comp[f], source, run', 0)
  <2>1. StateSound(comp[f], source, run, n)
    BY <1>2 DEF StatesSound
  <2>2. comp[f].marker \in Items => comp[f].marker.id \in Nat
    BY DEF Items
  <2> QED
    BY <1>1, <1>3, <2>1, <2>2 DEF StateSound
<1> QED
  BY <1>1, <1>2, <1>4, <1>5 DEF HistorySound, StatesSound

\* What leaves the run and its history alone.
LEMMA QuietStep ==
  ASSUME HistorySound, run' = run, context' = context, Len(turn') = Len(turn)
  PROVE  HistorySound'
<1> DEFINE n == Len(turn)
<1>1. SourceSound(source, run, n) /\ StatesSound(comp, source, run, n) /\ Whole(sent, run.number)
      /\ source' = source /\ comp' = comp /\ sent' = sent /\ Len(turn') = n
  BY DEF HistorySound, context
<1> HIDE DEF n
<1> QED
  BY <1>1 DEF HistorySound

LEMMA NothingSent == \A r : Whole(<<>>, r)
<1>1. <<>> \in Seq(Items) /\ DOMAIN <<>> = {}
  BY EmptySeq
<1> QED
  BY <1>1 DEF Whole, InOrder, AllAnswered

\* A run starts, whatever the runs before it left of the folding.
LEMMA StartStep ==
  ASSUME RunTypeOK, HistorySound, StartRun
  PROVE  HistorySound'
<1> DEFINE f == Task(FALSE)
<1>1. /\ run.number \in Nat /\ run.ids \in Nat /\ run.phase = "ended"
      /\ source' = <<f>> /\ sent' = <<>> /\ comp' = comp /\ turn' = turn
  BY DEF RunTypeOK, StartRun
<1>2. run'.number = run.number + 1 /\ run'.ids = 0 /\ run'.phase = "model"
  BY <1>1 DEF StartRun
<1>3. Len(turn) = 0 /\ StatesSound(comp, source, run, 0)
  BY <1>1 DEF HistorySound, SourceSound
<1>4. f \in Tasks
  BY ItemsMade
<1> HIDE DEF f
<1>5. run'.number \in Nat /\ run'.number > 0 /\ run'.ids \in Nat /\ run'.number # run.number
  BY <1>1, <1>2
<1>6. SourceSound(<<f>>, run', 0)
  BY <1>2, <1>4, <1>5, NewHistory
<1>7. ASSUME NEW h \in Tasks PROVE StateSound(comp[h], <<f>>, run', 0)
  <2> DEFINE st == comp[h]
             q  == run'
  <2>1. StateSound(st, source, run, 0) /\ q.ids \in Nat /\ q.number \in {run.number, run.number + 1}
        /\ q.number # run.number
    BY <1>2, <1>3, <1>5 DEF StatesSound
  <2> HIDE DEF st, q
  <2>2. StateSound(st, <<f>>, q, 0)
    BY <1>1, <1>4, <2>1, StateOutlives
  <2> QED
    BY <2>2 DEF st, q
<1> QED
  BY <1>1, <1>3, <1>6, <1>7, NothingSent DEF HistorySound, StatesSound

\* The turns of a run are extended only after a tool was used.
TurnsCounted ==
  /\ run.limit > 0
  /\ run.phase = "model" /\ run.turns > 0 =>
       \E i \in DOMAIN source : source[i].kind = "output"

LEMMA NoteAdded ==
  ASSUME NEW S, NEW r, r.number \in Nat, r.ids \in Nat, r.phase = "model", SourceSound(S, r, 0),
         \E i \in DOMAIN S : S[i].kind = "output",
         NEW q, q.number = r.number, q.ids = r.ids, q.phase = "model"
  PROVE  SourceSound(S \o <<Note>>, q, 0)
<1> DEFINE X == <<Note>>
           Q == S \o X
<1>1. /\ S \in Seq(Items) /\ S # <<>> /\ S[1] \in Tasks /\ History(S, r.number) /\ AllAnswered(S)
      /\ r.number > 0
      /\ \A i \in DOMAIN S : S[i].id <= r.ids
  BY DEF SourceSound, History, Askable
<1>2. X \in Seq(Items) /\ Len(X) = 1 /\ X[1] = Note
  BY ItemsMade
<1>3. DOMAIN X = 1..1 /\ 1 \in 1..1 /\ \A i \in 1..1 : i = 1
  BY <1>2
<1> HIDE DEF X
<1>4. \A i \in DOMAIN X : X[i].kind = "note" /\ X[i].id = 0 /\ X[i].run = 0 /\ ~ IsAction(X[i])
  BY <1>2, <1>3, ItemsMade DEF IsAction
<1>5. Extends(X, S, r.number)
  BY <1>2, <1>4 DEF Extends, IsAction
<1>6. /\ DOMAIN S = 1..Len(S) /\ Len(S) \in Nat
      /\ \A i \in DOMAIN S : i \in DOMAIN Q /\ Q[i] = S[i]
      /\ \A i \in DOMAIN Q :
           i \in DOMAIN S \/ (i > Len(S) /\ i - Len(S) \in DOMAIN X /\ Q[i] = X[i - Len(S)])
      /\ Len(Q) = Len(S) + Len(X) /\ Q \in Seq(Items)
  BY <1>1, <1>2, JoinedItems
<1>7. History(Q, r.number)
  BY <1>1, <1>5, HistoryGrows
<1> HIDE DEF Q
<1>8. 1 \in DOMAIN S
  BY <1>1, <1>6, EmptySeq
<1>9. Q # <<>> /\ Q[1] \in Tasks
  <2>1. Len(Q) # 0
    BY <1>2, <1>6
  <2>2. Q # <<>>
    BY <2>1, EmptySeq
  <2> QED
    BY <1>1, <1>6, <1>8, <2>2
<1>10. ASSUME NEW i \in DOMAIN Q, Q[i].kind = "call" PROVE \E j \in DOMAIN Q : Replies(Q[j], Q[i])
  <2>1. i \in DOMAIN S
    BY <1>4, <1>6, <1>10
  <2>2. PICK j \in DOMAIN S : Replies(S[j], S[i])
    BY <1>1, <1>6, <1>10, <2>1 DEF AllAnswered
  <2> QED
    BY <1>6, <2>1, <2>2
<1>11. ASSUME NEW i \in DOMAIN Q PROVE Q[i].id <= q.ids /\ EarlierId(q, 0, Q[i].id)
  <2>1. r.ids - 0 = r.ids
    OBVIOUS
  <2>2. Q[i].id <= r.ids
    <3>1. CASE i \in DOMAIN S
      BY <1>1, <1>6, <3>1
    <3>2. CASE i \notin DOMAIN S
      <4>1. Q[i].id = 0
        BY <1>4, <1>6, <3>2
      <4> QED
        BY <4>1
    <3> QED
      BY <3>1, <3>2
  <2> QED
    BY <2>1, <2>2 DEF EarlierId
<1>12. \E i \in DOMAIN Q : Q[i].kind = "output"
  BY <1>6
<1>13. SourceSound(Q, q, 0)
  BY <1>1, <1>7, <1>9, <1>10, <1>11, <1>12 DEF SourceSound, Askable, AllAnswered
<1> QED
  BY <1>13 DEF Q, X

\* The turns are extended, in the same history or in a new one.
LEMMA ExtendStep ==
  ASSUME RunTypeOK, HistorySound, TurnsCounted, ExtendTurns
  PROVE  HistorySound'
<1>1. /\ run.number \in Nat /\ run.ids \in Nat /\ run.phase = "model"
      /\ run'.number = run.number /\ run'.ids = run.ids /\ run'.phase = "model"
      /\ comp' = comp /\ turn' = turn /\ run.turns > 0
  BY DEF RunTypeOK, ExtendTurns, TurnsCounted
<1>2. Len(turn) = 0 /\ SourceSound(source, run, 0) /\ StatesSound(comp, source, run, 0)
      /\ Whole(sent, run.number) /\ run.number > 0 /\ source \in Seq(Items)
  BY <1>1 DEF HistorySound, SourceSound, History
<1>3. CASE source' = Append(source, Note) /\ sent' = sent
  <2> DEFINE X == <<Note>>
  <2>1. source' = source \o X
    BY <1>2, <1>3, AppendIsConcat, ItemsMade
  <2>2. X \in Seq(Items) /\ Len(X) = 1 /\ X[1] = Note
    BY ItemsMade
  <2>3. DOMAIN X = 1..1 /\ \A i \in 1..1 : i = 1
    BY <2>2
  <2>4. SourceSound(source \o X, run', 0)
    BY <1>1, <1>2, NoteAdded DEF TurnsCounted
  <2> HIDE DEF X
  <2>5. \A i \in DOMAIN X : ~ IsAction(X[i])
    BY <2>2, <2>3, ItemsMade DEF IsAction
  <2>6. ASSUME NEW f \in Tasks PROVE StateSound(comp[f], source \o X, run', 0)
    <3> DEFINE st == comp[f]
               q  == run'
    <3>1. StateSound(st, source, run, 0) /\ q.number = run.number /\ q.ids \in Nat
          /\ q.ids - 0 >= run.ids - 0
      BY <1>1, <1>2 DEF StatesSound
    <3> HIDE DEF st, q
    <3>2. StateSound(st, source \o X, q, 0)
      BY <1>1, <1>2, <2>2, <2>5, <3>1, StateGrows
    <3> QED
      BY <3>2 DEF st, q
  <2> QED
    BY <1>1, <1>2, <1>3, <2>1, <2>4, <2>6 DEF HistorySound, StatesSound
<1>4. CASE source' = <<Task(TRUE)>> /\ sent' = <<>>
  <2> DEFINE f == Task(TRUE)
  <2>1. f \in Tasks /\ source' = <<f>>
    BY <1>4, ItemsMade
  <2> HIDE DEF f
  <2>2. SourceSound(<<f>>, run', 0)
    BY <1>1, <1>2, <2>1, NewHistory
  <2>3. ASSUME NEW h \in Tasks PROVE StateSound(comp[h], <<f>>, run', 0)
    <3> DEFINE st == comp[h]
               q  == run'
    <3>1. StateSound(st, source, run, 0) /\ q.ids = run.ids /\ q.number = run.number
      BY <1>1, <1>2 DEF StatesSound
    <3> HIDE DEF st, q
    <3>2. StateSound(st, <<f>>, q, 0)
      BY <1>1, <2>1, <3>1, StateOutlives
    <3> QED
      BY <3>2 DEF st, q
  <2> QED
    BY <1>1, <1>2, <1>4, <2>1, <2>2, <2>3, NothingSent DEF HistorySound, StatesSound
<1> QED
  BY <1>3, <1>4 DEF ExtendTurns


\* What is called in a turn.
LEMMA UseChanged ==
  ASSUME turn \in Seq(Uses), NEW i \in DOMAIN turn, NEW use \in Uses,
         turn' = [turn EXCEPT ![i] = use]
  PROVE  turn' \in Seq(Uses) /\ Len(turn') = Len(turn) /\ DOMAIN turn' = DOMAIN turn
         /\ turn'[i] = use /\ \A j \in DOMAIN turn : j # i => turn'[j] = turn[j]
<1>1. i \in 1..Len(turn) /\ DOMAIN turn = 1..Len(turn)
  OBVIOUS
<1> QED
  BY <1>1, ExceptSeq

LEMMA ReturnedUse ==
  ASSUME turn \in Seq(Uses), NEW i \in DOMAIN turn,
         NEW told \in {"error", "unchanged", "content", "unwritten", "written", "replayed",
                       "executed"},
         NEW window \in SUBSET (Seq(Text) \X Nat), Returned(i, told, window)
  PROVE  /\ turn' \in Seq(Uses) /\ Len(turn') = Len(turn)
         /\ turn'[i].told = told /\ turn'[i].window = window
         /\ \A j \in DOMAIN turn : j # i => turn'[j] = turn[j]
<1> DEFINE use == [turn[i] EXCEPT !.at = "done", !.told = told, !.window = window]
<1>1. turn' = [turn EXCEPT ![i] = use]
  BY DEF Returned
<1>2. turn[i] \in Uses
  BY ElementOfSeq
<1>3. use \in Uses /\ use.told = told /\ use.window = window
  BY <1>2 DEF Uses
<1> HIDE DEF use
<1> QED
  BY <1>1, <1>3, UseChanged

LEMMA RunningUse ==
  ASSUME turn \in Seq(Uses), NEW i \in DOMAIN turn, turn' = [turn EXCEPT ![i].at = "running"]
  PROVE  /\ turn' \in Seq(Uses) /\ Len(turn') = Len(turn)
         /\ turn'[i].told = turn[i].told /\ turn'[i].window = turn[i].window
         /\ \A j \in DOMAIN turn : j # i => turn'[j] = turn[j]
<1> DEFINE use == [turn[i] EXCEPT !.at = "running"]
<1>1. turn' = [turn EXCEPT ![i] = use]
  OBVIOUS
<1>2. turn[i] \in Uses
  BY ElementOfSeq
<1>3. use \in Uses /\ use.told = turn[i].told /\ use.window = turn[i].window
  BY <1>2 DEF Uses
<1> HIDE DEF use
<1> QED
  BY <1>1, <1>3, UseChanged
----------------------------------------------------------------------------
(* The tools. *)

Reads   == [digest : Seq(Text), lines : SUBSET Nat]
Actions == [Code -> [mark : Int, repeats : Nat]]
Told    == Seq(Text) \X Nat

\* Nothing of a window is a line that the read cut.
Uncut(window) == OutputIsNarrower => \A seen \in window : ~TooLong(seen[1][seen[2]])

LEMMA UncutStays ==
  ASSUME run' = run
  PROVE  \A w : Uncut(w)' <=> Uncut(w)
BY DEF Uncut, OutputIsNarrower, TooLong

\* What a use of a tool keeps up.
UseKept(i) ==
  /\ turn' \in Seq(Uses) /\ Len(turn') = Len(turn)
  /\ \A j \in DOMAIN turn : j # i => turn'[j] = turn[j]
  /\ turn'[i].told = "unchanged" => turn'[i].window \subseteq given' /\ Uncut(turn'[i].window)
  /\ given \subseteq given'

LEMMA EntrySound ==
  ASSUME RunTypeOK, ReadsSound
  PROVE  /\ ReadEntry \in Reads /\ ReadEntry.digest = file
         /\ \A l \in ReadEntry.lines : <<file, l>> \in given
<1>1. ledger.reads \in Reads /\ file \in Seq(Text)
  BY DEF RunTypeOK, Reads
<1>2. CASE ledger.reads.digest = file
  <2>1. ReadEntry = ledger.reads
    BY <1>2 DEF ReadEntry
  <2> QED
    BY <1>1, <1>2, <2>1 DEF ReadsSound
<1>3. CASE ledger.reads.digest # file
  <2>1. ReadEntry = [digest |-> file, lines |-> {}]
    BY <1>3 DEF ReadEntry
  <2> QED
    BY <1>1, <2>1 DEF Reads
<1> QED
  BY <1>2, <1>3

\* A receipt is given only for lines that the ledger says were given.
LEMMA ReadStep ==
  ASSUME RunTypeOK, ReadsSound, ReceiptIsBacked, NEW i \in DOMAIN turn, ReadFile(i)
  PROVE  /\ UseKept(i) /\ ReadsSound' /\ given' \subseteq Told
         /\ ledger' \in [reads : Reads, actions : Actions]
         /\ file' = file /\ edits' = edits /\ ended' = ended /\ run' = run /\ context' = context
<1> DEFINE want  == turn[i].want
           lines == WindowOf(want)
           noted == ~want.force /\ Recordable(lines) /\ lines # {}
           shown == {<<file, l>> : l \in lines}
           E == ReadEntry
<1>1. /\ turn \in Seq(Uses) /\ file \in Seq(Text) /\ given \subseteq Told
      /\ ledger \in [reads : Reads, actions : Actions]
  BY DEF RunTypeOK, Uses, Reads, Actions, Told
<1>2. /\ E \in Reads /\ E.digest = file /\ \A l \in E.lines : <<file, l>> \in given
  BY EntrySound
<1>3. lines \in SUBSET Nat
  <2>1. DOMAIN file \subseteq Nat
    BY <1>1
  <2> QED
    BY <2>1 DEF WindowOf
<1>4. shown \in SUBSET Told
  BY <1>1, <1>3 DEF Told
<1>5. \/ Returned(i, "error", {}) /\ UNCHANGED <<ledger, given>>
      \/ /\ lines \subseteq E.lines /\ Recordable(lines)
         /\ Returned(i, "unchanged", shown)
         /\ ledger' = [ledger EXCEPT !.reads = E]
         /\ UNCHANGED given
      \/ /\ Returned(i, "content", {})
         /\ ledger' = IF noted
                      THEN [ledger EXCEPT !.reads = [E EXCEPT !.lines = @ \cup lines]]
                      ELSE ledger
         /\ given' = IF Recordable(lines) THEN given \cup shown ELSE given
  BY DEF ReadFile
<1>6. file' = file /\ edits' = edits /\ ended' = ended /\ run' = run /\ context' = context
  BY DEF ReadFile, world, context
<1> HIDE DEF want, lines, shown, E
<1>7. CASE Returned(i, "error", {}) /\ UNCHANGED <<ledger, given>>
  <2>1. UseKept(i)
    BY <1>1, <1>7, ReturnedUse DEF UseKept
  <2> QED
    BY <1>1, <1>6, <1>7, <2>1 DEF ReadsSound
<1>8. CASE /\ lines \subseteq E.lines /\ Recordable(lines)
           /\ Returned(i, "unchanged", shown)
           /\ ledger' = [ledger EXCEPT !.reads = E]
           /\ UNCHANGED given
  <2>1. shown \subseteq given
    BY <1>2, <1>8 DEF shown
  <2>5. Uncut(shown)
    <3> SUFFICES ASSUME OutputIsNarrower, NEW l \in lines PROVE ~TooLong(file[l])
      BY DEF Uncut, shown
    <3>1. TooLong(file[l]) => Length(lines) = run.reads.chars + CutNote /\ run.reads.chars > 0
      BY DEF Length, TooLong
    <3>2. run.reads \in [lines : Nat, chars : Nat, output : Nat] /\ CutNote \in Nat
      BY CodeAgentAssumption DEF RunTypeOK
    <3> QED
      BY <1>8, <3>1, <3>2 DEF OutputIsNarrower, Recordable
  <2>2. UseKept(i)
    BY <1>1, <1>4, <1>8, <2>1, <2>5, ReturnedUse DEF UseKept, Told
  <2>3. ledger' \in [reads : Reads, actions : Actions] /\ ledger'.reads = E
    BY <1>1, <1>2, <1>8
  <2>4. ReadsSound'
    BY <1>2, <1>8, <2>3 DEF ReadsSound
  <2> QED
    BY <1>1, <1>6, <1>8, <2>2, <2>3, <2>4
<1>9. CASE /\ Returned(i, "content", {})
           /\ ledger' = IF noted
                        THEN [ledger EXCEPT !.reads = [E EXCEPT !.lines = @ \cup lines]]
                        ELSE ledger
           /\ given' = IF Recordable(lines) THEN given \cup shown ELSE given
  <2>1. given \subseteq given' /\ given' \subseteq Told
    BY <1>1, <1>4, <1>9
  <2>2. UseKept(i)
    BY <1>1, <1>9, <2>1, ReturnedUse DEF UseKept
  <2>3. CASE ~ noted
    BY <1>1, <1>6, <1>9, <2>1, <2>2, <2>3 DEF ReadsSound
  <2>4. CASE noted
    <3> DEFINE G == [E EXCEPT !.lines = @ \cup lines]
    <3>1. G \in Reads /\ G.digest = file /\ G.lines = E.lines \cup lines
      BY <1>2, <1>3 DEF Reads
    <3>2. given' = given \cup shown
      BY <1>9, <2>4
    <3>3. ledger' = [ledger EXCEPT !.reads = G]
      BY <1>9, <2>4
    <3> HIDE DEF G
    <3>4. ledger' \in [reads : Reads, actions : Actions] /\ ledger'.reads = G
      BY <1>1, <3>1, <3>3
    <3>5. ReadsSound'
      BY <1>2, <3>1, <3>2, <3>4 DEF ReadsSound, shown
    <3> QED
      BY <1>6, <2>1, <2>2, <3>4, <3>5
  <2> QED
    BY <2>3, <2>4
<1> QED
  BY <1>5, <1>7, <1>8, <1>9

\* The other tools give no receipt.
LEMMA WriteStep ==
  ASSUME RunTypeOK, ReceiptIsBacked, NEW i \in DOMAIN turn, WriteFile(i) \/ WriteAndRun(i)
  PROVE  /\ UseKept(i) /\ given' = given /\ ledger' = ledger
         /\ file' \in Seq(Text) /\ edits' \in Nat
         /\ ended' = ended /\ run' = run /\ context' = context
<1>1. turn \in Seq(Uses) /\ file \in Seq(Text) /\ edits \in Nat
  BY DEF RunTypeOK, Uses
<1>2. turn[i].want.text \in Seq(Text)
  <2>1. turn[i] \in Uses
    BY <1>1, ElementOfSeq
  <2> QED
    BY <2>1, CodeAgentAssumption DEF Uses, Wishes
<1>3. given' = given /\ ledger' = ledger /\ ended' = ended /\ run' = run /\ context' = context
  BY DEF WriteFile, WriteAndRun, context, past
<1>4. file \o turn[i].want.text \in Seq(Text)
  BY <1>1, <1>2, ConcatProperties
<1>5. file' \in Seq(Text) /\ edits' \in Nat
  <2> DEFINE text == turn[i].want.text
             longer == file \o text
  <2>1. file' \in {file, text, longer} /\ edits' \in {edits, edits + 1}
    BY DEF WriteFile, WriteAndRun, Changed, world
  <2> HIDE DEF text, longer
  <2>2. text \in Seq(Text) /\ longer \in Seq(Text)
    BY <1>2, <1>4 DEF text, longer
  <2> QED
    BY <1>1, <2>1, <2>2
<1>6. \/ \E told \in {"error", "unwritten", "written"} : Returned(i, told, {})
      \/ turn' = [turn EXCEPT ![i].at = "running"]
  BY DEF WriteFile, WriteAndRun
<1>7. ASSUME \E told \in {"error", "unwritten", "written"} : Returned(i, told, {}) PROVE UseKept(i)
  BY <1>1, <1>3, <1>7, ReturnedUse DEF UseKept
<1>8. ASSUME turn' = [turn EXCEPT ![i].at = "running"] PROVE UseKept(i)
  BY <1>1, <1>3, <1>8, RunningUse DEF UseKept, ReceiptIsBacked, Uncut
<1> QED
  BY <1>3, <1>5, <1>6, <1>7, <1>8

LEMMA RunStep ==
  ASSUME RunTypeOK, ReceiptIsBacked, NEW i \in DOMAIN turn, RunInSandbox(i)
  PROVE  /\ UseKept(i) /\ given' = given /\ ledger'.reads = ledger.reads
         /\ ledger' \in [reads : Reads, actions : Actions]
         /\ file' = file /\ edits' = edits
         /\ ended' = ended /\ run' = run /\ context' = context
<1>1. turn \in Seq(Uses) /\ ledger \in [reads : Reads, actions : Actions]
  BY DEF RunTypeOK, Uses, Reads, Actions
<1> DEFINE c == turn[i].want.code
           L == ledger.actions
           row == [L[c] EXCEPT !.repeats = @ + 1]
           G == [L EXCEPT ![c] = row]
<1>2. c \in Code
  <2>1. turn[i] \in Uses
    BY <1>1, ElementOfSeq
  <2> QED
    BY <2>1, CodeAgentAssumption DEF Uses, Wishes
<1>3. given' = given /\ ended' = ended /\ run' = run /\ context' = context
      /\ file' = file /\ edits' = edits
  BY DEF RunInSandbox, context, past, world
<1>4. \/ ledger' = ledger
      \/ ledger' = [ledger EXCEPT !.actions = G]
  BY DEF RunInSandbox
<1>5. \/ \E told \in {"error", "replayed"} : Returned(i, told, {})
      \/ turn' = [turn EXCEPT ![i].at = "running"]
  BY DEF RunInSandbox
<1>6. ASSUME \E told \in {"error", "replayed"} : Returned(i, told, {}) PROVE UseKept(i)
  BY <1>1, <1>3, <1>6, ReturnedUse DEF UseKept
<1>7. ASSUME turn' = [turn EXCEPT ![i].at = "running"] PROVE UseKept(i)
  BY <1>1, <1>3, <1>7, RunningUse DEF UseKept, ReceiptIsBacked, Uncut
<1>8. L \in Actions /\ G \in Actions
  <2>1. L \in Actions
    BY <1>1
  <2> HIDE DEF L, c
  <2>2. L[c] \in [mark : Int, repeats : Nat]
    BY <1>2, <2>1 DEF Actions
  <2>3. row \in [mark : Int, repeats : Nat]
    BY <2>2
  <2> HIDE DEF row
  <2> QED
    BY <2>1, <2>3 DEF Actions
<1> HIDE DEF G, L
<1>9. ledger' \in [reads : Reads, actions : Actions] /\ ledger'.reads = ledger.reads
  BY <1>1, <1>4, <1>8
<1> QED
  BY <1>3, <1>5, <1>6, <1>7, <1>9

LEMMA ScriptStep ==
  ASSUME RunTypeOK, ReceiptIsBacked, NEW i \in DOMAIN turn, ExecutionEnds(i)
  PROVE  /\ UseKept(i) /\ given' = given /\ ledger'.reads = ledger.reads
         /\ ledger' \in [reads : Reads, actions : Actions]
         /\ file' = file /\ edits' \in Nat
         /\ ended' \in [Code -> Int] /\ run' = run /\ context' = context
<1>1. /\ turn \in Seq(Uses) /\ ledger \in [reads : Reads, actions : Actions] /\ edits \in Nat
      /\ ended \in [Code -> Int]
  BY DEF RunTypeOK, Uses, Reads, Actions
<1> DEFINE c == turn[i].want.code
           L == ledger.actions
           row == Mark(c, edits')
           G == [L EXCEPT ![c] = row]
<1>2. c \in Code
  <2>1. turn[i] \in Uses
    BY <1>1, ElementOfSeq
  <2> QED
    BY <2>1, CodeAgentAssumption DEF Uses, Wishes
<1>3. given' = given /\ run' = run /\ context' = context /\ file' = file /\ edits' \in Nat
  BY <1>1 DEF ExecutionEnds, context, world
<1>4. \/ ledger' = ledger /\ ended' = ended
      \/ ledger' = [ledger EXCEPT !.actions = G] /\ ended' = [ended EXCEPT ![c] = edits']
  BY DEF ExecutionEnds
<1>5. \E told \in {"error", "executed"} : Returned(i, told, {})
  BY DEF ExecutionEnds
<1>6. UseKept(i)
  BY <1>1, <1>3, <1>5, ReturnedUse DEF UseKept
<1>7. G \in Actions
  <2>1. row \in [mark : Int, repeats : Nat]
    BY <1>3 DEF Mark
  <2> HIDE DEF row, c
  <2> QED
    BY <1>1, <1>2, <2>1 DEF Actions
<1> HIDE DEF G, L, c
<1>8. ledger' \in [reads : Reads, actions : Actions] /\ ledger'.reads = ledger.reads
  BY <1>1, <1>4, <1>7
<1>9. ended' \in [Code -> Int]
  BY <1>1, <1>2, <1>3, <1>4
<1> QED
  BY <1>3, <1>6, <1>8, <1>9

----------------------------------------------------------------------------
(* The steps. *)

RunSound == RunTypeOK /\ HistorySound /\ ReadsGiven /\ TurnsCounted /\ ReceiptIsBacked

RunTypes == [number : Nat, phase : {"model", "tools", "ended"}, turns : Nat, limit : Nat,
             extensions : Nat, successes : Nat, ids : Nat, reads : ReadLimits]

LEMMA TypedParts ==
  RunTypeOK <=> /\ file \in Seq(Text) /\ edits \in Nat /\ run \in RunTypes
                /\ ledger \in [reads : Reads, actions : Actions]
                /\ turn \in Seq(Uses) /\ given \subseteq Told /\ ended \in [Code -> Int]
BY DEF RunTypeOK, RunTypes, Reads, Actions, Uses, Told

LEMMA TypedPartsNext ==
  ASSUME file' \in Seq(Text), edits' \in Nat, run' \in RunTypes,
         ledger' \in [reads : Reads, actions : Actions],
         turn' \in Seq(Uses), given' \subseteq Told, ended' \in [Code -> Int]
  PROVE  RunTypeOK'
BY DEF RunTypeOK, RunTypes, Reads, Actions, Uses, Told

LEMMA EmptyLedger ==
  /\ NoLedger \in [reads : Reads, actions : Actions] /\ NoLedger.reads.lines = {}
  /\ [c \in Code |-> -1] \in [Code -> Int]
<1>1. NoReads \in Reads /\ NoReads.lines = {}
  <2>1. <<>> \in Seq(Text)
    BY EmptySeq
  <2> QED
    BY <2>1 DEF NoReads, Reads
<1>2. [c \in Code |-> NoAction] \in Actions
  BY DEF NoAction, Actions
<1> QED
  BY <1>1, <1>2 DEF NoLedger

LEMMA UseSound ==
  ASSUME RunSound, NEW i \in DOMAIN turn, UseOf(i)
  PROVE  RunSound'
<1>1. RunTypeOK /\ ReadsSound /\ ReceiptIsBacked /\ HistorySound /\ TurnsCounted /\ run.phase = "tools"
  BY DEF RunSound, ReadsGiven, UseOf
<1>2. /\ file \in Seq(Text) /\ edits \in Nat /\ run \in RunTypes
      /\ ledger \in [reads : Reads, actions : Actions]
      /\ turn \in Seq(Uses) /\ given \subseteq Told /\ ended \in [Code -> Int]
  BY <1>1, TypedParts
<1>3. /\ UseKept(i) /\ run' = run /\ context' = context /\ ReadsSound'
      /\ file' \in Seq(Text) /\ edits' \in Nat /\ given' \subseteq Told /\ ended' \in [Code -> Int]
      /\ ledger' \in [reads : Reads, actions : Actions]
  <2>1. CASE ReadFile(i)
    BY <1>1, <1>2, <2>1, ReadStep
  <2>2. CASE WriteFile(i) \/ WriteAndRun(i)
    <3>1. /\ UseKept(i) /\ given' = given /\ ledger' = ledger
          /\ file' \in Seq(Text) /\ edits' \in Nat
          /\ ended' = ended /\ run' = run /\ context' = context
      BY <1>1, <2>2, WriteStep
    <3> QED
      BY <1>1, <1>2, <3>1 DEF ReadsSound
  <2>3. CASE RunInSandbox(i)
    <3>1. /\ UseKept(i) /\ given' = given /\ ledger'.reads = ledger.reads
          /\ ledger' \in [reads : Reads, actions : Actions]
          /\ file' = file /\ edits' = edits
          /\ ended' = ended /\ run' = run /\ context' = context
      BY <1>1, <2>3, RunStep
    <3> QED
      BY <1>1, <1>2, <3>1 DEF ReadsSound
  <2>4. CASE ExecutionEnds(i)
    <3>1. /\ UseKept(i) /\ given' = given /\ ledger'.reads = ledger.reads
          /\ ledger' \in [reads : Reads, actions : Actions]
          /\ file' = file /\ edits' \in Nat
          /\ ended' \in [Code -> Int] /\ run' = run /\ context' = context
      BY <1>1, <2>4, ScriptStep
    <3> QED
      BY <1>1, <1>2, <3>1 DEF ReadsSound
  <2> QED
    BY <2>1, <2>2, <2>3, <2>4 DEF UseOf
<1>4. RunTypeOK'
  BY <1>2, <1>3, TypedPartsNext DEF UseKept
<1>5. HistorySound'
  BY <1>1, <1>3, QuietStep DEF UseKept
<1>6. ReadsGiven'
  BY <1>1, <1>3 DEF ReadsGiven
<1>7. TurnsCounted'
  BY <1>1, <1>3 DEF TurnsCounted, context
<1>8. ReceiptIsBacked'
  <2>1. DOMAIN turn' = DOMAIN turn
    BY <1>2, <1>3 DEF UseKept
  <2>2. ASSUME NEW j \in DOMAIN turn, turn'[j].told = "unchanged"
        PROVE  turn'[j].window \subseteq given' /\ Uncut(turn'[j].window)
    <3>1. CASE j = i
      BY <1>3, <2>2, <3>1 DEF UseKept
    <3>2. CASE j # i
      BY <1>1, <1>3, <2>2, <3>2 DEF UseKept, ReceiptIsBacked, Uncut
    <3> QED
      BY <3>1, <3>2
  <2> QED
    BY <1>3, <2>1, <2>2 DEF ReceiptIsBacked, Uncut, OutputIsNarrower, TooLong
<1> QED
  BY <1>4, <1>5, <1>6, <1>7, <1>8 DEF RunSound

\* Others change the file and the workspace only.
LEMMA OthersSound ==
  ASSUME RunSound, OthersWrite
  PROVE  RunSound'
<1>1. RunTypeOK /\ ReadsSound /\ ReceiptIsBacked /\ HistorySound /\ TurnsCounted /\ ReadsGiven
  BY DEF RunSound, ReadsGiven
<1>2. /\ file \in Seq(Text) /\ edits \in Nat /\ run \in RunTypes
      /\ ledger \in [reads : Reads, actions : Actions]
      /\ turn \in Seq(Uses) /\ given \subseteq Told /\ ended \in [Code -> Int]
  BY <1>1, TypedParts
<1>3. /\ run' = run /\ ledger' = ledger /\ turn' = turn /\ context' = context
      /\ given' = given /\ ended' = ended
  BY DEF OthersWrite, past
<1>4. file' \in Seq(Text) /\ edits' \in Nat
  <2>1. \A t \in Text : <<t>> \in Seq(Text)
    OBVIOUS
  <2>2. edits' = edits + 1 /\ (file' = file \/ \E t \in Text : file' = <<t>>)
    BY DEF OthersWrite, Changed
  <2>3. CASE file' = file
    BY <1>2, <2>2, <2>3
  <2>4. CASE \E t \in Text : file' = <<t>>
    <3>1. file' \in Seq(Text)
      BY <2>1, <2>4
    <3> QED
      BY <1>2, <2>2, <3>1
  <2> QED
    BY <2>2, <2>3, <2>4
<1>5. RunTypeOK'
  BY <1>2, <1>3, <1>4, TypedPartsNext
<1>6. HistorySound'
  BY <1>1, <1>3, QuietStep
<1> QED
  BY <1>1, <1>3, <1>5, <1>6
     DEF RunSound, ReadsGiven, ReadsSound, TurnsCounted, ReceiptIsBacked, OutputIsNarrower, TooLong,
         context


\* The handler: a run starts with empty ledgers.
LEMMA StartSound ==
  ASSUME RunSound, StartRun
  PROVE  RunSound'
<1>1. RunTypeOK /\ ReadsSound /\ ReceiptIsBacked /\ HistorySound /\ TurnsCounted /\ ReadsGiven
  BY DEF RunSound, ReadsGiven
<1>2. /\ file \in Seq(Text) /\ edits \in Nat /\ run \in RunTypes
      /\ ledger \in [reads : Reads, actions : Actions]
      /\ turn \in Seq(Uses) /\ given \subseteq Told /\ ended \in [Code -> Int]
  BY <1>1, TypedParts
<1>3. /\ run.phase = "ended" /\ file' = file /\ edits' = edits /\ turn' = turn
      /\ ledger' = NoLedger /\ given' = {} /\ ended' = [c \in Code |-> -1]
      /\ run' = [number |-> run.number + 1, phase |-> "model", turns |-> 0, limit |-> MaxTurns,
                 extensions |-> 0, successes |-> 0, ids |-> 0, reads |-> run.reads]
  BY DEF StartRun, world
<1>4. turn = <<>>
  BY <1>1, <1>3 DEF ReadsGiven
<1>5. run' \in RunTypes /\ run'.limit > 0 /\ run'.turns = 0
  BY <1>2, <1>3, CodeAgentAssumption DEF RunTypes
<1>6. RunTypeOK'
  BY <1>2, <1>3, <1>5, EmptyLedger, TypedPartsNext
<1>7. HistorySound'
  BY <1>1, StartStep
<1>8. ReadsGiven' /\ ReceiptIsBacked' /\ TurnsCounted'
  BY <1>3, <1>4, <1>5, EmptyLedger DEF ReadsGiven, ReadsSound, ReceiptIsBacked, TurnsCounted
<1> QED
  BY <1>6, <1>7, <1>8 DEF RunSound

\* A turn begins with calls that were told nothing.
LEMMA CallsSound ==
  ASSUME RunSound, ModelCalls
  PROVE  RunSound'
<1>1. RunTypeOK /\ ReadsSound /\ ReceiptIsBacked /\ HistorySound /\ TurnsCounted /\ ReadsGiven
  BY DEF RunSound, ReadsGiven
<1>2. /\ file \in Seq(Text) /\ edits \in Nat /\ run \in RunTypes
      /\ ledger \in [reads : Reads, actions : Actions]
      /\ turn \in Seq(Uses) /\ given \subseteq Told /\ ended \in [Code -> Int]
  BY <1>1, TypedParts
<1>3. /\ file' = file /\ edits' = edits /\ ledger' = ledger /\ given' = given /\ ended' = ended
  BY DEF ModelCalls, world, past
<1>4. PICK n \in 1..MaxPerTurn : \E wanted \in [1..n -> Wanted] :
        /\ turn' = [i \in 1..n |-> [want |-> wanted[i], at |-> "called", told |-> "nothing",
                                    window |-> {}]]
        /\ run' = [run EXCEPT !.phase = "tools", !.turns = @ + 1, !.ids = @ + n]
  BY DEF ModelCalls
<1>5. PICK wanted \in [1..n -> Wanted] :
        /\ turn' = [i \in 1..n |-> [want |-> wanted[i], at |-> "called", told |-> "nothing",
                                    window |-> {}]]
        /\ run' = [run EXCEPT !.phase = "tools", !.turns = @ + 1, !.ids = @ + n]
  BY <1>4
<1>6. n \in Nat
  BY CodeAgentAssumption
<1>7. run' \in RunTypes /\ run'.phase = "tools" /\ run'.limit = run.limit
  <2> DEFINE turns == run.turns + 1
             ids   == run.ids + n
  <2>1. run' = [run EXCEPT !.phase = "tools", !.turns = turns, !.ids = ids]
    BY <1>5
  <2>2. turns \in Nat /\ ids \in Nat
    BY <1>2, <1>6 DEF RunTypes
  <2> HIDE DEF turns, ids
  <2> QED
    BY <1>2, <2>1, <2>2 DEF RunTypes
<1>8. turn' \in Seq(Uses) /\ DOMAIN turn' = 1..n /\ \A i \in 1..n : turn'[i].told = "nothing"
  <2> DEFINE Called(i) == [want |-> wanted[i], at |-> "called", told |-> "nothing", window |-> {}]
  <2>1. \A i \in 1..n : Called(i) \in Uses /\ Called(i).told = "nothing"
    BY DEF Uses
  <2>2. turn' = [i \in 1..n |-> Called(i)]
    BY <1>5
  <2> HIDE DEF Called
  <2>3. turn' \in [1..n -> Uses]
    BY <2>1, <2>2
  <2>4. turn' \in Seq(Uses)
    BY <1>6, <2>3, SeqDef
  <2> QED
    BY <2>1, <2>2, <2>4
<1>9. RunTypeOK'
  BY <1>2, <1>3, <1>7, <1>8, TypedPartsNext
<1>10. HistorySound'
  BY <1>1, CallsStep
<1>11. ReadsGiven' /\ TurnsCounted'
  BY <1>1, <1>3, <1>7 DEF ReadsGiven, ReadsSound, TurnsCounted
<1>12. ReceiptIsBacked'
  BY <1>8 DEF ReceiptIsBacked
<1> QED
  BY <1>9, <1>10, <1>11, <1>12 DEF RunSound

\* The run ends without another turn.
LEMMA EndSound ==
  ASSUME RunSound, ModelAnswers \/ TurnsExceeded \/ RunCutOff
  PROVE  RunSound'
<1>1. RunTypeOK /\ ReadsSound /\ ReceiptIsBacked /\ HistorySound /\ TurnsCounted /\ ReadsGiven
  BY DEF RunSound, ReadsGiven
<1>2. /\ file \in Seq(Text) /\ edits \in Nat /\ run \in RunTypes
      /\ ledger \in [reads : Reads, actions : Actions]
      /\ turn \in Seq(Uses) /\ given \subseteq Told /\ ended \in [Code -> Int]
  BY <1>1, TypedParts
<1>3. /\ file' = file /\ edits' = edits /\ ledger' = ledger /\ given' = given /\ ended' = ended
      /\ run' = [run EXCEPT !.phase = "ended"]
  BY DEF ModelAnswers, TurnsExceeded, RunCutOff, world, past
<1>4. turn' = <<>> /\ run' \in RunTypes /\ run'.phase = "ended" /\ run'.limit = run.limit
  BY <1>1, <1>2, <1>3 DEF ModelAnswers, TurnsExceeded, RunCutOff, ReadsGiven, RunTypes
<1>5. turn' \in Seq(Uses) /\ Len(turn') = 0 /\ DOMAIN turn' = {}
  BY <1>4, EmptySeq
<1>6. RunTypeOK'
  BY <1>2, <1>3, <1>4, <1>5, TypedPartsNext
<1>7. HistorySound'
  <2>1. CASE ModelAnswers
    BY <1>1, <2>1, AnswerStep
  <2>2. CASE TurnsExceeded \/ RunCutOff
    <3>1. source' = source /\ comp' = comp /\ sent' = sent
      BY <2>2 DEF TurnsExceeded, RunCutOff, context
    <3> QED
      BY <1>1, <1>3, <1>5, <3>1, EndStep
  <2> QED
    BY <2>1, <2>2
<1>8. ReadsGiven' /\ ReceiptIsBacked' /\ TurnsCounted'
  BY <1>1, <1>3, <1>4, <1>5 DEF ReadsGiven, ReadsSound, ReceiptIsBacked, TurnsCounted
<1> QED
  BY <1>6, <1>7, <1>8 DEF RunSound

\* All tools are done; their outputs are in the history.
LEMMA TurnEndsSound ==
  ASSUME RunSound, TurnEnds
  PROVE  RunSound'
<1>1. RunTypeOK /\ ReadsSound /\ ReceiptIsBacked /\ HistorySound /\ TurnsCounted /\ ReadsGiven
  BY DEF RunSound, ReadsGiven
<1>2. /\ file \in Seq(Text) /\ edits \in Nat /\ run \in RunTypes
      /\ ledger \in [reads : Reads, actions : Actions]
      /\ turn \in Seq(Uses) /\ given \subseteq Told /\ ended \in [Code -> Int]
  BY <1>1, TypedParts
<1> DEFINE useful == {i \in DOMAIN turn : turn[i].told # "error"}
<1>3. /\ file' = file /\ edits' = edits /\ ledger' = ledger /\ given' = given /\ ended' = ended
      /\ run' = [run EXCEPT !.phase = "model", !.successes = @ + Cardinality(useful)]
      /\ turn' = <<>> /\ run.phase = "tools"
  BY DEF TurnEnds, world, past
<1>4. Cardinality(useful) \in Nat
  <2>1. DOMAIN turn = 1..Len(turn) /\ Len(turn) \in Nat
    BY <1>2
  <2>2. useful \in SUBSET (1..Len(turn))
    BY <2>1
  <2> QED
    BY <2>1, <2>2, IndicesFinite
<1> HIDE DEF useful
<1>5. run' \in RunTypes /\ run'.phase = "model" /\ run'.limit = run.limit
  <2> DEFINE successes == run.successes + Cardinality(useful)
  <2>1. run' = [run EXCEPT !.phase = "model", !.successes = successes]
    BY <1>3
  <2>2. successes \in Nat
    BY <1>2, <1>4 DEF RunTypes
  <2> HIDE DEF successes
  <2> QED
    BY <1>2, <2>1, <2>2 DEF RunTypes
<1>6. turn' \in Seq(Uses) /\ DOMAIN turn' = {}
  BY <1>3, EmptySeq
<1>7. RunTypeOK'
  BY <1>2, <1>3, <1>5, <1>6, TypedPartsNext
<1>8. HistorySound'
  BY <1>1, TurnEndsStep
<1>9. TurnsCounted'
  <2>1. source' = source \o OutputsOf(run, turn)
    BY DEF TurnEnds, OutputsOf
  <2> DEFINE n == Len(turn)
             X == OutputsOf(run, turn)
  <2>2. source \in Seq(Items) /\ n > 0 /\ n <= run.ids
    BY <1>1, <1>3 DEF HistorySound, SourceSound, History
  <2>3. n \in Nat /\ DOMAIN turn = 1..n /\ \A i \in 1..n : turn[i].want \in Wanted
    <3>1. n \in Nat /\ DOMAIN turn = 1..n
      BY <1>2
    <3>2. \A i \in 1..n : turn[i] \in Uses
      BY <1>2, <3>1, ElementOfSeq
    <3> QED
      BY <3>1, <3>2 DEF Uses
  <2>4. X \in Seq(Items) /\ DOMAIN X = 1..n /\ \A i \in 1..n : X[i].kind = "output"
    <3> DEFINE t == turn
    <3>1. Len(t) = n /\ DOMAIN t = 1..n /\ \A i \in 1..n : t[i].want \in Wanted
      BY <2>3
    <3>2. n \in Nat /\ n <= run.ids /\ run.number \in Nat /\ run.ids \in Nat
      BY <1>2, <2>2, <2>3 DEF RunTypes
    <3> HIDE DEF n
    <3> QED
      BY <3>1, <3>2, OutputsMade
  <2> HIDE DEF X, n
  <2>5. 1 \in 1..n
    BY <2>2, <2>3
  <2>6. Len(source) + 1 \in DOMAIN (source \o X) /\ (source \o X)[Len(source) + 1] = X[1]
    <3>1. 1 \in DOMAIN X /\ source \in Seq(Items) /\ X \in Seq(Items)
      BY <2>2, <2>4, <2>5
    <3>2. \A i \in DOMAIN X : Len(source) + i \in DOMAIN (source \o X)
                             /\ (source \o X)[Len(source) + i] = X[i]
      BY <3>1, JoinedItems
    <3> QED
      BY <3>1, <3>2
  <2>7. \E i \in DOMAIN source' : source'[i].kind = "output"
    BY <2>1, <2>4, <2>5, <2>6 DEF X
  <2> QED
    BY <1>1, <1>5, <2>7 DEF TurnsCounted
<1>10. ReadsGiven' /\ ReceiptIsBacked'
  BY <1>1, <1>3, <1>5, <1>6 DEF ReadsGiven, ReadsSound, ReceiptIsBacked
<1> QED
  BY <1>7, <1>8, <1>9, <1>10 DEF RunSound

\* The turns of the run are extended.
LEMMA ExtendSound ==
  ASSUME RunSound, ExtendTurns
  PROVE  RunSound'
<1>1. RunTypeOK /\ ReadsSound /\ ReceiptIsBacked /\ HistorySound /\ TurnsCounted /\ ReadsGiven
  BY DEF RunSound, ReadsGiven
<1>2. /\ file \in Seq(Text) /\ edits \in Nat /\ run \in RunTypes
      /\ ledger \in [reads : Reads, actions : Actions]
      /\ turn \in Seq(Uses) /\ given \subseteq Told /\ ended \in [Code -> Int]
  BY <1>1, TypedParts
<1>3. /\ run.phase = "model" /\ file' = file /\ edits' = edits /\ turn' = turn
      /\ run' = [run EXCEPT !.extensions = @ + 1, !.limit = @ + ExtensionTurns, !.turns = 0]
      /\ \/ ledger' = ledger /\ given' = given /\ ended' = ended
         \/ ledger' = NoLedger /\ given' = {} /\ ended' = [c \in Code |-> -1]
  BY DEF ExtendTurns, world, past
<1>4. turn = <<>>
  BY <1>1, <1>3 DEF ReadsGiven
<1>5. run' \in RunTypes /\ run'.limit > 0 /\ run'.turns = 0
  <2> DEFINE extensions == run.extensions + 1
             limit      == run.limit + ExtensionTurns
  <2>1. run' = [run EXCEPT !.extensions = extensions, !.limit = limit, !.turns = 0]
    BY <1>3
  <2>2. extensions \in Nat /\ limit \in Nat /\ limit > 0
    BY <1>2, CodeAgentAssumption DEF RunTypes
  <2> HIDE DEF extensions, limit
  <2> QED
    BY <1>2, <2>1, <2>2 DEF RunTypes
<1>6. RunTypeOK'
  BY <1>2, <1>3, <1>5, EmptyLedger, TypedPartsNext
<1>7. HistorySound'
  BY <1>1, ExtendStep
<1>8. ReadsSound'
  BY <1>1, <1>3, EmptyLedger DEF ReadsSound
<1>9. ReadsGiven' /\ ReceiptIsBacked' /\ TurnsCounted'
  BY <1>3, <1>4, <1>5, <1>8 DEF ReadsGiven, ReceiptIsBacked, TurnsCounted
<1> QED
  BY <1>6, <1>7, <1>9 DEF RunSound

LEMMA RunStarts ==
  ASSUME RunInit
  PROVE  RunSound
<1>1. /\ edits = 0 /\ ledger = NoLedger /\ turn = <<>> /\ source = <<>> /\ sent = <<>>
      /\ given = {} /\ ended = [c \in Code |-> -1] /\ comp = [f \in Tasks |-> NoState]
      /\ \E limits \in ReadLimits :
           run = [number |-> 0, phase |-> "ended", turns |-> 0, limit |-> MaxTurns,
                  extensions |-> 0, successes |-> 0, ids |-> 0, reads |-> limits]
  BY DEF RunInit, Tasks
<1>2. file \in Seq(Text)
  <2>1. <<>> \in Seq(Text) /\ \A t \in Text : <<t>> \in Seq(Text)
    OBVIOUS
  <2>2. file = <<>> \/ \E t \in Text : file = <<t>>
    BY DEF RunInit
  <2> QED
    BY <2>1, <2>2
<1>3. turn \in Seq(Uses) /\ Len(turn) = 0 /\ DOMAIN turn = {} /\ source \in Seq(Items)
      /\ DOMAIN source = {} /\ <<>> \in Seq(Items)
  BY <1>1, EmptySeq
<1>4. run \in RunTypes /\ run.limit > 0 /\ run.number = 0 /\ run.ids = 0 /\ run.phase = "ended"
  BY <1>1, CodeAgentAssumption DEF RunTypes
<1>5. RunTypeOK
  BY <1>1, <1>2, <1>3, <1>4, EmptyLedger, TypedParts
<1>6. SourceSound(source, run, Len(turn))
  BY <1>1, <1>3, <1>4 DEF SourceSound, History, InOrder
<1>7. StatesSound(comp, source, run, Len(turn))
  <2>1. \A f \in Tasks : comp[f] = NoState
    BY <1>1
  <2>2. Summary \in Items
    BY DEF Summary, Item, Items
  <2>3. NoState.frozen = <<>> /\ NoState.count = 0 /\ NoState.marker = Summary
    BY DEF NoState
  <2>4. StateSound(NoState, source, run, Len(turn))
    BY <1>3, <2>2, <2>3 DEF StateSound
  <2>5. comp = [f \in Tasks |-> comp[f]]
    BY <1>1
  <2> QED
    BY <2>1, <2>4, <2>5 DEF StatesSound
<1>8. HistorySound
  BY <1>1, <1>6, <1>7, NothingSent DEF HistorySound
<1>9. ReadsGiven /\ TurnsCounted /\ ReceiptIsBacked
  BY <1>1, <1>3, <1>4, EmptyLedger DEF ReadsGiven, ReadsSound, TurnsCounted, ReceiptIsBacked
<1> QED
  BY <1>5, <1>8, <1>9 DEF RunSound

LEMMA RunStays ==
  ASSUME RunSound, [RunNext]_runVars
  PROVE  RunSound'
<1>1. CASE UNCHANGED runVars
  BY <1>1 DEF RunSound, runVars, RunTypeOK, HistorySound, ReadsGiven, ReadsSound, TurnsCounted,
              ReceiptIsBacked, OutputIsNarrower, TooLong
<1>2. CASE RunNext
  <2>1. CASE StartRun
    BY <2>1, StartSound
  <2>2. CASE ModelCalls
    BY <2>2, CallsSound
  <2>3. CASE ModelAnswers \/ TurnsExceeded \/ RunCutOff
    BY <2>3, EndSound
  <2>4. CASE TurnEnds
    BY <2>4, TurnEndsSound
  <2>5. CASE ExtendTurns
    BY <2>5, ExtendSound
  <2>6. CASE OthersWrite
    BY <2>6, OthersSound
  <2>7. CASE \E i \in DOMAIN turn : UseOf(i)
    BY <2>7, UseSound
  <2> QED
    BY <1>2, <2>1, <2>2, <2>3, <2>4, <2>5, <2>6, <2>7 DEF RunNext, Handler
<1> QED
  BY <1>1, <1>2

LEMMA RunIsSound == RunSpec => []RunSound
<1>1. RunInit => RunSound
  BY RunStarts
<1>2. RunSound /\ [RunNext]_runVars => RunSound'
  BY RunStays
<1> QED
  BY <1>1, <1>2, PTL DEF RunSpec


----------------------------------------------------------------------------
(* The theorems. *)

\* What is in order and answered is paired.
LEMMA WholePaired ==
  ASSUME NEW r, Whole(sent, r)
  PROVE  Paired
<1> DEFINE Of(kind, id) == {j \in DOMAIN sent : sent[j].kind = kind /\ sent[j].id = id}
<1>1. /\ sent # <<>> => sent[1].kind = "task"
      /\ \A i, j \in DOMAIN sent : IsAction(sent[i]) /\ Same(sent[i], sent[j]) => i = j
      /\ \A i \in DOMAIN sent : sent[i].kind = "output" =>
           \E j \in DOMAIN sent : j < i /\ Replies(sent[i], sent[j])
      /\ \A i \in DOMAIN sent : sent[i].kind = "call" =>
           \E j \in DOMAIN sent : Replies(sent[j], sent[i])
  BY DEF Whole, InOrder, AllAnswered
<1>2. ASSUME NEW kind \in {"call", "output"}, NEW i \in DOMAIN sent, sent[i].kind = kind
      PROVE  Of(kind, sent[i].id) = {i} /\ Cardinality(Of(kind, sent[i].id)) = 1
  <2>1. \A j \in DOMAIN sent : sent[j].kind = kind /\ sent[j].id = sent[i].id => j = i
    BY <1>1, <1>2 DEF IsAction, Same
  <2>2. Of(kind, sent[i].id) = {i}
    BY <1>2, <2>1
  <2> QED
    BY <2>2, FS_Singleton
<1>3. ASSUME NEW i \in DOMAIN sent, sent[i].kind = "call"
      PROVE  Cardinality(Of("output", sent[i].id)) = 1 /\ \A j \in Of("output", sent[i].id) : i < j
  <2>1. PICK j \in DOMAIN sent : Replies(sent[j], sent[i])
    BY <1>1, <1>3
  <2>2. sent[j].kind = "output" /\ sent[j].id = sent[i].id
    BY <2>1 DEF Replies
  <2> DEFINE outputs == Of("output", sent[i].id)
  <2>3. outputs = {j} /\ Cardinality(outputs) = 1
    <3>1. Of("output", sent[j].id) = {j} /\ Cardinality(Of("output", sent[j].id)) = 1
      BY <1>2, <2>2
    <3>2. Of("output", sent[j].id) = outputs
      BY <2>2
    <3> HIDE DEF Of, outputs
    <3> QED
      BY <3>1, <3>2
  <2>4. PICK k \in DOMAIN sent : k < j /\ Replies(sent[j], sent[k])
    BY <1>1, <2>2
  <2>5. k = i
    <3>1. sent[k].kind = "call" /\ sent[k].id = sent[i].id
      BY <2>2, <2>4 DEF Replies
    <3>2. IsAction(sent[i]) /\ Same(sent[i], sent[k])
      BY <1>3, <3>1 DEF IsAction, Same
    <3> QED
      BY <1>1, <3>2
  <2>6. i < j
    BY <2>4, <2>5
  <2> HIDE DEF Of, outputs
  <2>7. Cardinality(outputs) = 1 /\ \A h \in outputs : i < h
    BY <2>3, <2>6
  <2> QED
    BY <2>7 DEF outputs
<1>4. ASSUME NEW i \in DOMAIN sent, sent[i].kind = "output"
      PROVE  Cardinality(Of("call", sent[i].id)) = 1
  <2>1. PICK j \in DOMAIN sent : Replies(sent[i], sent[j])
    BY <1>1, <1>4
  <2>2. sent[j].kind = "call" /\ sent[j].id = sent[i].id
    BY <2>1 DEF Replies
  <2>3. Cardinality(Of("call", sent[j].id)) = 1
    BY <1>2, <2>2
  <2> HIDE DEF Of
  <2> QED
    BY <2>2, <2>3
<1> QED
  BY <1>1, <1>3, <1>4 DEF Paired

\* The states of the code agent are typed: the ledgers, the tool calls of a
\* turn, the counts of turns and extensions, and what the model was given.
THEOREM RunTypeCorrect == RunSpec => []RunTypeOK
<1>1. RunSound => RunTypeOK
  BY DEF RunSound
<1> QED
  BY <1>1, RunIsSound, PTL

\* A receipt instead of text is given only for lines that were given in this run, from
\* the file as it is now, in an output that was not shortened; in full, where the limit
\* of every output is the narrower one (read_file, _read_window and the read ledger,
\* code_agent/agent.py).
THEOREM ReceiptsAreBacked == RunSpec => []ReceiptIsBacked
<1>1. RunSound => ReceiptIsBacked
  BY DEF RunSound
<1> QED
  BY <1>1, RunIsSound, PTL

\* However often its history was folded, what the model is sent begins with the
\* task, and each call has its one output after it (compact_model_input).
THEOREM HistoryStaysPaired == RunSpec => []Paired
<1>1. RunSound => Paired
  BY WholePaired DEF RunSound, HistorySound
<1> QED
  BY <1>1, RunIsSound, PTL

\* Although runs with the same payload share the state of the folding, nothing of
\* an earlier one gets into what the model is sent in a later one.
THEOREM HistoryIsOwn == RunSpec => []OwnHistory
<1>1. RunSound => OwnHistory
  BY DEF RunSound, HistorySound, Whole, OwnHistory
<1> QED
  BY <1>1, RunIsSound, PTL

----------------------------------------------------------------------------
(***************************************************************************)
(* The stream of an agent.                                                  *)
(***************************************************************************)

Entries == [id : ToolCall \cup {NoId}, tool : Tool, window : Nat]

\* A pending entry of window w lasts as long as a tool of window v.
Covers(w, v) == w = 0 \/ (v > 0 /\ w >= v)

\* Each tool at work has an entry of its own that lasts long enough for it,
\* although outputs may have been taken for the entries of other tools.
Matches(m, tools, list) ==
  /\ m \in [tools -> DOMAIN list]
  /\ \A c, d \in tools : m[c] = m[d] => c = d
  /\ \A c \in tools : Covers(list[m[c]].window, Window(ToolOf[c]))

StreamTypes ==
  /\ set \in Settings /\ unnamed \in Unnamed
  /\ at \in {"open", "closing"} \cup Over
  /\ phase \in {"first_event", "model", "tool_execution"}
  /\ pending \in Seq(Entries)
  /\ running \subseteq started /\ started \subseteq ToolCall
  /\ silent \in Nat

EntriesSound ==
  \A i \in DOMAIN pending : pending[i].id \in ToolCall =>
    pending[i].window = Window(ToolOf[pending[i].id])

StreamSound ==
  /\ StreamTypes /\ EntriesSound
  /\ at \in {"open", "closing"} =>
       /\ running # {} => phase = "tool_execution"
       /\ \E m : Matches(m, running, pending)

LEMMA CoversTransitive ==
  ASSUME NEW u \in Nat, NEW v \in Nat, NEW w \in Nat, Covers(u, v), Covers(v, w)
  PROVE  Covers(u, w)
BY DEF Covers

LEMMA WindowIsNat ==
  ASSUME set \in Settings, NEW t \in Tool
  PROVE  Window(t) \in Nat
<1>1. /\ set.standard \in Nat /\ set.subagent \in Nat /\ set.code \in Nat /\ set.sandbox \in Nat
  BY StreamAssumption
<1>2. Max({set.standard, set.sandbox}) \in Nat
  BY <1>1, GreaterOfTwo
<1>3. Profile[t] \in {"standard", "subagent", "code_agent", "sandbox"}
  BY StreamAssumption
<1> QED
  BY <1>1, <1>2, <1>3 DEF Window

\* A list without the entry at i.
LEMMA EntryRemoved ==
  ASSUME NEW s, s \in Seq(Entries), NEW i \in DOMAIN s
  PROVE  /\ RemoveAt(s, i) \in Seq(Entries)
         /\ Len(s) \in Nat /\ DOMAIN s = 1..Len(s) /\ DOMAIN RemoveAt(s, i) = 1..(Len(s) - 1)
         /\ \A j \in 1..(Len(s) - 1) : RemoveAt(s, i)[j] = IF j < i THEN s[j] ELSE s[j + 1]
<1>1. Len(s) \in Nat /\ DOMAIN s = 1..Len(s) /\ i \in Nat /\ i >= 1 /\ i <= Len(s)
      /\ s \in [1..Len(s) -> Entries]
  BY LenProperties
<1> DEFINE n == Len(s)
           a == SubSeq(s, 1, i - 1)
           b == SubSeq(s, i + 1, n)
<1>2. /\ a \in Seq(Entries) /\ Len(a) = i - 1
      /\ \A j \in 1..(i - 1) : a[j] = s[j]
  <2>1. \A j \in 1..(i - 1) : s[j] \in Entries
    BY <1>1
  <2>2. 1 \in Int /\ i - 1 \in Int /\ (i - 1) - 1 + 1 = i - 1
    BY <1>1
  <2>3. /\ a \in Seq(Entries) /\ Len(a) = IF 1 <= i - 1 THEN (i - 1) - 1 + 1 ELSE 0
        /\ \A j \in 1..((i - 1) - 1 + 1) : a[j] = s[1 + j - 1]
    BY <2>1, <2>2, SubSeqProperties
  <2> HIDE DEF a
  <2>4. Len(a) = i - 1
    BY <1>1, <2>3
  <2>5. \A j \in 1..(i - 1) : 1 + j - 1 = j
    BY <1>1
  <2> QED
    BY <2>2, <2>3, <2>4, <2>5
<1>3. /\ b \in Seq(Entries) /\ Len(b) = n - i
      /\ \A j \in 1..(n - i) : b[j] = s[i + j]
  <2> DEFINE lo == i + 1
  <2>1. lo \in Int /\ n \in Int /\ lo >= 1 /\ \A j \in lo..n : s[j] \in Entries
    BY <1>1
  <2>2. n - lo + 1 = n - i /\ (lo <= n <=> i < n) /\ \A j \in 1..(n - i) : lo + j - 1 = i + j
    BY <1>1
  <2>3. b = SubSeq(s, lo, n)
    OBVIOUS
  <2> HIDE DEF b, lo, n
  <2>4. /\ b \in Seq(Entries) /\ Len(b) = IF lo <= n THEN n - lo + 1 ELSE 0
        /\ \A j \in 1..(n - lo + 1) : b[j] = s[lo + j - 1]
    BY <2>1, <2>3, SubSeqProperties
  <2>5. Len(b) = n - i
    BY <1>1, <2>2, <2>4 DEF n
  <2> QED
    BY <2>2, <2>4, <2>5
<1> HIDE DEF a, b
<1>4. /\ a \o b \in Seq(Entries) /\ Len(a \o b) = Len(a) + Len(b)
      /\ \A j \in 1..(Len(a) + Len(b)) : (a \o b)[j] = IF j <= Len(a) THEN a[j] ELSE b[j - Len(a)]
  BY <1>2, <1>3, ConcatProperties
<1>5. Len(a) + Len(b) = n - 1 /\ DOMAIN (a \o b) = 1..(n - 1)
  <2>1. Len(a) + Len(b) = n - 1
    BY <1>1, <1>2, <1>3
  <2>2. DOMAIN (a \o b) = 1..Len(a \o b)
    BY <1>4, LenProperties
  <2> QED
    BY <1>4, <2>1, <2>2
<1>6. ASSUME NEW j \in 1..(n - 1)
      PROVE  (a \o b)[j] = IF j < i THEN s[j] ELSE s[j + 1]
  <2>1. (a \o b)[j] = IF j <= Len(a) THEN a[j] ELSE b[j - Len(a)]
    BY <1>4, <1>5
  <2>2. CASE j < i
    <3>1. j <= Len(a) /\ j \in 1..(i - 1)
      BY <1>1, <1>2, <2>2
    <3> QED
      BY <1>2, <2>1, <2>2, <3>1
  <2>3. CASE ~ (j < i)
    <3>1. ~ (j <= Len(a)) /\ j - Len(a) \in 1..(n - i) /\ i + (j - Len(a)) = j + 1
      BY <1>1, <1>2, <2>3
    <3> QED
      BY <1>3, <2>1, <2>3, <3>1
  <2> QED
    BY <2>2, <2>3
<1>7. RemoveAt(s, i) = a \o b
  BY DEF RemoveAt, a, b
<1> QED
  BY <1>1, <1>4, <1>5, <1>6, <1>7

\* The entry an output settles: its own, or one that every other covers.
LEMMA SettledSound ==
  ASSUME StreamTypes, pending # <<>>, NEW id
  PROVE  /\ Settled(id) \in DOMAIN pending
         /\ \/ id # NoId /\ pending[Settled(id)].id = id
            \/ \A j \in DOMAIN pending :
                 Covers(pending[j].window, pending[Settled(id)].window)
<1> DEFINE exact == {i \in DOMAIN pending : id # NoId /\ pending[i].id = id}
           least == {i \in DOMAIN pending :
                       \A j \in DOMAIN pending : ~ Smaller(pending[j], pending[i])}
<1>1. /\ pending \in Seq(Entries) /\ Len(pending) \in Nat /\ DOMAIN pending = 1..Len(pending)
      /\ \A i \in DOMAIN pending : i \in Nat /\ pending[i].window \in Nat
  <2>1. pending \in Seq(Entries) /\ Len(pending) \in Nat /\ DOMAIN pending = 1..Len(pending)
    BY DEF StreamTypes
  <2>2. \A i \in DOMAIN pending : pending[i] \in Entries
    BY <2>1, ElementOfSeq
  <2> QED
    BY <2>1, <2>2 DEF Entries
<1>2. ASSUME NEW hits \in SUBSET DOMAIN pending, hits # {}
      PROVE  Min(hits) \in hits
  <2>1. hits \in SUBSET Nat
    BY <1>1
  <2>2. \E i \in hits : \A j \in hits : i <= j
    BY <1>2, <2>1, LeastNumber
  <2> QED
    BY <2>2 DEF Min
<1>3. least # {}
  <2> DEFINE limited == {w \in Nat : w > 0 /\ \E i \in DOMAIN pending : pending[i].window = w}
  <2>1. CASE limited = {}
    <3>1. 1 \in DOMAIN pending
      BY <1>1, EmptySeq
    <3>2. \A i \in DOMAIN pending : pending[i].window = 0
      BY <1>1, <2>1
    <3>3. 1 \in least
      BY <3>1, <3>2 DEF Smaller, Unlimited
    <3> QED
      BY <3>3
  <2>2. CASE limited # {}
    <3>1. PICK w \in limited : \A v \in limited : w <= v
      BY <2>2, LeastNumber
    <3>2. PICK i \in DOMAIN pending : pending[i].window = w
      OBVIOUS
    <3>3. \A j \in DOMAIN pending : pending[j].window > 0 => w <= pending[j].window
      BY <1>1, <3>1
    <3>4. ASSUME NEW j \in DOMAIN pending PROVE ~ Smaller(pending[j], pending[i])
      BY <1>1, <3>2, <3>3 DEF Smaller, Unlimited
    <3>5. i \in least
      BY <3>4
    <3> QED
      BY <3>5
  <2> QED
    BY <2>1, <2>2
<1>4. Settled(id) = IF exact # {} THEN Min(exact) ELSE Min(least)
  BY DEF Settled
<1>5. CASE exact # {}
  <2>1. Min(exact) \in exact
    BY <1>2, <1>5
  <2> QED
    BY <1>4, <1>5, <2>1
<1>6. CASE exact = {}
  <2> DEFINE i == Min(least)
  <2>1. i \in least
    BY <1>2, <1>3
  <2>2. i \in DOMAIN pending /\ \A j \in DOMAIN pending : ~ Smaller(pending[j], pending[i])
    BY <2>1
  <2> HIDE DEF i
  <2>3. \A j \in DOMAIN pending : Covers(pending[j].window, pending[i].window)
    BY <1>1, <2>2 DEF Smaller, Unlimited, Covers
  <2>4. Settled(id) = i
    BY <1>4, <1>6 DEF i
  <2> QED
    BY <2>2, <2>3, <2>4
<1> QED
  BY <1>5, <1>6

\* Without the entry at i, which the one of tool c covers, the tools but c still
\* have entries of their own: who had the entry at i takes the one of c.
LEMMA StillMatches ==
  ASSUME set \in Settings, running \subseteq ToolCall, pending \in Seq(Entries),
         NEW m, Matches(m, running, pending),
         NEW c \in running, NEW i \in DOMAIN pending,
         Covers(pending[m[c]].window, pending[i].window)
  PROVE  \E k : Matches(k, running \ {c}, RemoveAt(pending, i))
<1> DEFINE n == Len(pending)
           rest == running \ {c}
           list == RemoveAt(pending, i)
           Of(d) == IF m[d] = i THEN m[c] ELSE m[d]
           Place(d) == IF Of(d) < i THEN Of(d) ELSE Of(d) - 1
           k == [d \in rest |-> Place(d)]
<1>1. /\ list \in Seq(Entries) /\ n \in Nat /\ DOMAIN pending = 1..n /\ DOMAIN list = 1..(n - 1)
      /\ \A j \in 1..(n - 1) : list[j] = IF j < i THEN pending[j] ELSE pending[j + 1]
  BY EntryRemoved
<1>2. /\ \A d \in running : m[d] \in 1..n
      /\ \A d, e \in running : m[d] = m[e] => d = e
      /\ \A d \in running : Covers(pending[m[d]].window, Window(ToolOf[d]))
  BY <1>1 DEF Matches
<1>3. \A j \in 1..n : pending[j].window \in Nat
  <2>1. \A j \in 1..n : pending[j] \in Entries
    BY <1>1, ElementOfSeq
  <2> QED
    BY <2>1 DEF Entries
<1>4. \A d \in running : Window(ToolOf[d]) \in Nat
  BY StreamAssumption, WindowIsNat
<1> HIDE DEF list, n
<1>5. ASSUME NEW d \in rest
      PROVE  Of(d) \in 1..n /\ Of(d) # i /\ Covers(pending[Of(d)].window, Window(ToolOf[d]))
  <2>1. CASE m[d] # i
    BY <1>2, <2>1
  <2>2. CASE m[d] = i
    <3>1. m[c] # i
      BY <1>2, <2>2
    <3>2. Covers(pending[m[c]].window, Window(ToolOf[d]))
      <4>1. Covers(pending[i].window, Window(ToolOf[d]))
        BY <1>2, <2>2
      <4> QED
        BY <1>1, <1>2, <1>3, <1>4, <4>1, CoversTransitive
    <3> QED
      BY <1>2, <2>2, <3>1, <3>2
  <2> QED
    BY <2>1, <2>2
<1>6. \A d, e \in rest : Of(d) = Of(e) => d = e
  BY <1>2
<1> HIDE DEF Of
<1>7. ASSUME NEW d \in rest
      PROVE  Place(d) \in 1..(n - 1) /\ list[Place(d)] = pending[Of(d)]
  <2>1. Of(d) \in 1..n /\ Of(d) # i /\ i \in 1..n
    BY <1>1, <1>5
  <2>2. CASE Of(d) < i
    BY <1>1, <2>1, <2>2
  <2>3. CASE ~ (Of(d) < i)
    <3>1. Of(d) > i /\ Of(d) - 1 \in 1..(n - 1) /\ ~ (Of(d) - 1 < i) /\ (Of(d) - 1) + 1 = Of(d)
      BY <1>1, <2>1, <2>3
    <3> QED
      BY <1>1, <2>3, <3>1
  <2> QED
    BY <2>2, <2>3
<1>8. ASSUME NEW d \in rest, NEW e \in rest, Place(d) = Place(e) PROVE d = e
  <2>1. Of(d) \in 1..n /\ Of(d) # i /\ Of(e) \in 1..n /\ Of(e) # i /\ i \in 1..n /\ n \in Nat
    BY <1>1, <1>5
  <2>2. Of(d) = Of(e)
    BY <1>8, <2>1
  <2> QED
    BY <1>6, <2>2
<1> HIDE DEF Place
<1>9. /\ k \in [rest -> DOMAIN list]
      /\ \A d, e \in rest : k[d] = k[e] => d = e
      /\ \A d \in rest : Covers(list[k[d]].window, Window(ToolOf[d]))
  BY <1>1, <1>5, <1>7, <1>8
<1>10. Matches(k, rest, list)
  BY <1>9 DEF Matches
<1> QED
  BY <1>10 DEF list

\* The spans stay what they are.
LEMMA WindowStays ==
  ASSUME set' = set
  PROVE  \A t : Window(t)' = Window(t)
BY DEF Window

LEMMA MatchesStays ==
  ASSUME set' = set, NEW m, NEW tools, NEW list, Matches(m, tools, list)
  PROVE  Matches(m, tools, list)'
BY WindowStays DEF Matches

LEMMA EmptyMatches ==
  \A list : Matches([c \in {} |-> 0], {}, list)
BY DEF Matches

LEMMA OutputStep ==
  ASSUME StreamSound, NEW c \in ToolCall, ToolOutput(c)
  PROVE  StreamSound'
<1> DEFINE i == Settled(IdOf(c))
           list == RemoveAt(pending, i)
<1>1. /\ StreamTypes /\ EntriesSound /\ at = "open" /\ c \in running
      /\ set' = set /\ unnamed' = unnamed /\ at' = at /\ started' = started
      /\ pending' = list /\ running' = running \ {c} /\ silent' = 0
      /\ phase' = IF pending' = <<>> THEN "model" ELSE "tool_execution"
  BY DEF StreamSound, ToolOutput, Received
<1>2. PICK m : Matches(m, running, pending)
  BY <1>1 DEF StreamSound
<1>3. /\ set \in Settings /\ pending \in Seq(Entries) /\ running \subseteq ToolCall
      /\ running \subseteq started
  BY <1>1 DEF StreamTypes
<1>4. m[c] \in DOMAIN pending /\ Covers(pending[m[c]].window, Window(ToolOf[c]))
  BY <1>1, <1>2 DEF Matches
<1>5. pending # <<>>
  BY <1>4
<1>6. /\ i \in DOMAIN pending
      /\ \/ IdOf(c) # NoId /\ pending[i].id = IdOf(c)
         \/ \A j \in DOMAIN pending : Covers(pending[j].window, pending[i].window)
  BY <1>1, <1>5, SettledSound
<1>7. Covers(pending[m[c]].window, pending[i].window)
  <2>1. CASE IdOf(c) # NoId /\ pending[i].id = IdOf(c)
    <3>1. pending[i].id = c /\ c \in ToolCall
      BY <2>1 DEF IdOf
    <3>2. pending[i].window = Window(ToolOf[c])
      BY <1>1, <1>6, <3>1 DEF EntriesSound
    <3> QED
      BY <1>4, <3>2
  <2>2. CASE \A j \in DOMAIN pending : Covers(pending[j].window, pending[i].window)
    BY <1>4, <2>2
  <2> QED
    BY <1>6, <2>1, <2>2
<1> HIDE DEF i
<1>8. PICK k : Matches(k, running \ {c}, list)
  BY <1>1, <1>2, <1>3, <1>6, <1>7, StillMatches
<1>9. /\ list \in Seq(Entries) /\ Len(pending) \in Nat /\ DOMAIN pending = 1..Len(pending)
      /\ DOMAIN list = 1..(Len(pending) - 1)
      /\ \A j \in 1..(Len(pending) - 1) : list[j] = IF j < i THEN pending[j] ELSE pending[j + 1]
  BY <1>3, <1>6, EntryRemoved
<1> HIDE DEF list
<1>10. Matches(k, running', pending')
  BY <1>1, <1>8
<1>11. \A t : Window(t)' = Window(t)
  BY <1>1, WindowStays
<1>12. EntriesSound'
  <2>1. ASSUME NEW j \in DOMAIN list, list[j].id \in ToolCall
        PROVE  list[j].window = Window(ToolOf[list[j].id])
    <3>1. j \in DOMAIN pending /\ j + 1 \in DOMAIN pending
          /\ (list[j] = pending[j] \/ list[j] = pending[j + 1])
      BY <1>9
    <3> QED
      BY <1>1, <2>1, <3>1 DEF EntriesSound
  <2> QED
    BY <1>1, <1>11, <2>1 DEF EntriesSound
<1>13. StreamTypes'
  BY <1>1, <1>3, <1>9 DEF StreamTypes
<1>14. running' # {} => phase' = "tool_execution"
  <2>1. ASSUME running' # {} PROVE pending' # <<>>
    <3>1. PICK d \in running' : TRUE
      BY <2>1
    <3>2. k[d] \in DOMAIN pending'
      BY <1>10, <3>1 DEF Matches
    <3> QED
      BY <3>2
  <2> QED
    BY <1>1, <2>1
<1>15. \E h : Matches(h, running, pending)'
  BY <1>10, <1>11 DEF Matches
<1> QED
  BY <1>12, <1>13, <1>14, <1>15 DEF StreamSound

LEMMA CalledStep ==
  ASSUME StreamSound, NEW c \in ToolCall, ToolCalled(c)
  PROVE  StreamSound'
<1> DEFINE e == [id |-> IdOf(c), tool |-> ToolOf[c], window |-> Window(ToolOf[c])]
           n == Len(pending)
           list == Append(pending, e)
<1>1. /\ StreamTypes /\ EntriesSound /\ at = "open" /\ c \notin started
      /\ set' = set /\ unnamed' = unnamed /\ at' = at
      /\ pending' = list /\ running' = running \cup {c} /\ started' = started \cup {c}
      /\ silent' = 0 /\ phase' = "tool_execution"
  BY DEF StreamSound, ToolCalled, Received
<1>2. PICK m : Matches(m, running, pending)
  BY <1>1 DEF StreamSound
<1>3. /\ set \in Settings /\ pending \in Seq(Entries) /\ running \subseteq started
      /\ started \subseteq ToolCall /\ n \in Nat /\ DOMAIN pending = 1..n
  BY <1>1 DEF StreamTypes
<1>4. /\ e \in Entries /\ e.id = IdOf(c) /\ e.window = Window(ToolOf[c])
      /\ e.window \in Nat
  <2>1. ToolOf[c] \in Tool
    BY StreamAssumption
  <2>2. Window(ToolOf[c]) \in Nat
    BY <1>3, <2>1, WindowIsNat
  <2>3. IdOf(c) \in ToolCall \cup {NoId}
    BY DEF IdOf
  <2> QED
    BY <2>1, <2>2, <2>3 DEF Entries
<1> HIDE DEF e
<1>5. /\ list \in Seq(Entries) /\ DOMAIN list = 1..(n + 1)
      /\ \A i \in 1..n : list[i] = pending[i]
      /\ list[n + 1] = e
  <2>1. /\ list \in Seq(Entries) /\ Len(list) = n + 1
        /\ \A i \in 1..n : list[i] = pending[i]
        /\ list[n + 1] = e
    BY <1>3, <1>4, AppendProperties
  <2> QED
    BY <2>1, LenProperties
<1> HIDE DEF list, n
<1> DEFINE tools == running \cup {c}
           k == [d \in tools |-> IF d = c THEN n + 1 ELSE m[d]]
<1>6. /\ \A d \in running : m[d] \in 1..n /\ d # c
      /\ \A d, h \in running : m[d] = m[h] => d = h
      /\ \A d \in running : Covers(pending[m[d]].window, Window(ToolOf[d]))
  BY <1>1, <1>2, <1>3 DEF Matches
<1>7. k \in [tools -> DOMAIN list]
  <2>1. \A j \in 1..n : j \in 1..(n + 1)
    BY <1>3
  <2>2. n + 1 \in 1..(n + 1)
    BY <1>3
  <2> QED
    BY <1>5, <1>6, <2>1, <2>2
<1>8. \A d, h \in tools : k[d] = k[h] => d = h
  <2>1. \A j \in 1..n : j # n + 1
    BY <1>3
  <2> QED
    BY <1>6, <2>1
<1>9. ASSUME NEW d \in tools PROVE Covers(list[k[d]].window, Window(ToolOf[d]))
  <2>1. CASE d = c
    <3>1. list[k[d]].window = Window(ToolOf[d]) /\ Window(ToolOf[d]) \in Nat
      BY <1>4, <1>5, <2>1
    <3> QED
      BY <3>1 DEF Covers
  <2>2. CASE d # c
    BY <1>5, <1>6, <2>2
  <2> QED
    BY <2>1, <2>2
<1>10. Matches(k, tools, list)
  BY <1>7, <1>8, <1>9 DEF Matches
<1> HIDE DEF k
<1>11. \A t : Window(t)' = Window(t)
  BY <1>1, WindowStays
<1>12. EntriesSound'
  <2>1. ASSUME NEW j \in DOMAIN list, list[j].id \in ToolCall
        PROVE  list[j].window = Window(ToolOf[list[j].id])
    <3>1. j \in 1..n \/ j = n + 1
      BY <1>3, <1>5
    <3>2. CASE j \in 1..n
      BY <1>1, <1>3, <1>5, <2>1, <3>2 DEF EntriesSound
    <3>3. CASE j = n + 1
      BY <1>4, <1>5, <2>1, <3>3, StreamAssumption DEF IdOf
    <3> QED
      BY <3>1, <3>2, <3>3
  <2> QED
    BY <1>1, <1>11, <2>1 DEF EntriesSound
<1>13. StreamTypes'
  BY <1>1, <1>3, <1>5 DEF StreamTypes
<1>14. \E h : Matches(h, running, pending)'
  BY <1>1, <1>10, <1>11 DEF Matches
<1> QED
  BY <1>1, <1>12, <1>13, <1>14 DEF StreamSound

LEMMA LostStep ==
  ASSUME StreamSound, NEW c \in ToolCall, OutputLost(c)
  PROVE  StreamSound'
<1>1. /\ StreamTypes /\ EntriesSound /\ at = "open"
      /\ set' = set /\ unnamed' = unnamed /\ at' = at /\ phase' = phase
      /\ pending' = pending /\ running' = running \ {c} /\ started' = started /\ silent' = silent
  BY DEF StreamSound, OutputLost
<1>2. PICK m : Matches(m, running, pending)
  BY <1>1 DEF StreamSound
<1>3. Matches([d \in running \ {c} |-> m[d]], running \ {c}, pending)
  BY <1>2 DEF Matches
<1>4. \A t : Window(t)' = Window(t)
  BY <1>1, WindowStays
<1>5. \E h : Matches(h, running, pending)'
  BY <1>1, <1>3, <1>4 DEF Matches
<1>6. EntriesSound' /\ StreamTypes'
  BY <1>1, <1>4 DEF EntriesSound, StreamTypes
<1>7. running' # {} => phase' = "tool_execution"
  BY <1>1 DEF StreamSound
<1> QED
  BY <1>5, <1>6, <1>7 DEF StreamSound

\* What leaves the tools and what is pending alone.
LEMMA CalmStep ==
  ASSUME StreamSound, set' = set, unnamed' = unnamed, pending' = pending, running' = running,
         started' = started, silent' \in Nat, at = "open", at' \in {"open", "closing"},
         phase' = phase \/ (phase = "first_event" /\ phase' = "model")
  PROVE  StreamSound'
<1>1. StreamTypes /\ EntriesSound /\ (running # {} => phase = "tool_execution")
  BY DEF StreamSound
<1>2. PICK m : Matches(m, running, pending)
  BY DEF StreamSound
<1>3. \A t : Window(t)' = Window(t)
  BY WindowStays
<1>4. \E h : Matches(h, running, pending)'
  BY <1>2, <1>3 DEF Matches
<1>5. EntriesSound' /\ StreamTypes'
  BY <1>1, <1>3 DEF EntriesSound, StreamTypes
<1> QED
  BY <1>1, <1>4, <1>5 DEF StreamSound

\* Nothing is pending, and no tool at work if the run goes on.
LEMMA ClearedStep ==
  ASSUME StreamSound, set' = set, unnamed' = unnamed, pending' = <<>>, running' = running,
         started' = started, silent' \in Nat, phase' \in {"first_event", "model", "tool_execution"},
         at' \in Over \/ (at' = "open" /\ running = {})
  PROVE  StreamSound'
<1>1. StreamTypes
  BY DEF StreamSound
<1>2. pending' \in Seq(Entries) /\ DOMAIN pending' = {}
  BY EmptySeq
<1>3. EntriesSound' /\ StreamTypes'
  BY <1>1, <1>2 DEF EntriesSound, StreamTypes
<1>4. at' \in {"open", "closing"} => running' = {}
  BY DEF Over
<1>5. running' = {} => \E h : Matches(h, running, pending)'
  BY EmptyMatches DEF Matches
<1> QED
  BY <1>3, <1>4, <1>5 DEF StreamSound

\* A list of numbers has a greatest one.
LEMMA GreatestOf ==
  ASSUME NEW n \in Nat, n > 0, NEW f, \A i \in 1..n : f[i] \in Nat
  PROVE  \E i \in 1..n : \A j \in 1..n : f[j] <= f[i]
<1> DEFINE Top(k) == \E i \in 1..k : \A j \in 1..k : f[j] <= f[i]
           bad == {k \in 1..n : ~ Top(k)}
<1>1. ASSUME bad # {} PROVE FALSE
  <2>1. PICK k \in bad : \A h \in bad : k <= h
    <3>1. bad \in SUBSET Nat
      OBVIOUS
    <3> QED
      BY <1>1, <3>1, LeastNumber
  <2>2. k \in 1..n /\ ~ Top(k)
    BY <2>1
  <2>3. k # 1
    <3>1. 1 \in 1..n /\ f[1] <= f[1] /\ 1 \in 1..1 /\ \A j \in 1..1 : j = 1
      OBVIOUS
    <3>2. Top(1)
      BY <3>1
    <3> QED
      BY <2>2, <3>2
  <2>4. k - 1 \in 1..n /\ k - 1 \notin bad
    <3>1. k \in Nat /\ k - 1 \in 1..n /\ ~ (k <= k - 1)
      BY <2>2, <2>3
    <3> HIDE DEF bad
    <3> QED
      BY <2>1, <3>1
  <2>5. Top(k - 1)
    BY <2>4
  <2>6. PICK i \in 1..(k - 1) : \A j \in 1..(k - 1) : f[j] <= f[i]
    BY <2>5
  <2>7. /\ k \in 1..k /\ i \in 1..k /\ f[k] \in Nat /\ f[i] \in Nat
        /\ \A j \in 1..k : f[j] \in Nat /\ (j = k \/ j \in 1..(k - 1))
    BY <2>2, <2>6
  <2>8. CASE f[k] <= f[i]
    <3>1. \A j \in 1..k : f[j] <= f[i]
      BY <2>6, <2>7, <2>8
    <3> QED
      BY <2>2, <2>7, <3>1
  <2>9. CASE ~ (f[k] <= f[i])
    <3>1. \A j \in 1..k : f[j] <= f[k]
      BY <2>6, <2>7, <2>9
    <3> QED
      BY <2>2, <2>7, <3>1
  <2> QED
    BY <2>8, <2>9
<1>2. n \in 1..n /\ n \notin bad
  BY <1>1
<1> QED
  BY <1>2

\* When the wait runs out in silence, it has lasted for every tool at work.
LEMMA CutStep ==
  ASSUME StreamSound, CutShort
  PROVE  NoToolCutEarly'
<1> SUFFICES ASSUME ~ TotalDue', NEW c \in running'
             PROVE  Window(ToolOf[c])' > 0 /\ silent' >= Window(ToolOf[c])'
  BY DEF NoToolCutEarly
<1>1. /\ StreamTypes /\ at = "open" /\ set' = set /\ elapsed' = elapsed /\ silent' = silent
      /\ running' = running
  BY DEF StreamSound, CutShort
<1>2. IdleDue /\ phase = "tool_execution"
  BY <1>1 DEF CutShort, TotalDue, StreamSound
<1>3. PICK m : Matches(m, running, pending)
  BY <1>1 DEF StreamSound
<1> DEFINE n == Len(pending)
           i == m[c]
           w == Window(ToolOf[c])
           longest == ToolPhaseWindow
           spans == {pending[j].window : j \in DOMAIN pending}
<1>4. /\ n \in Nat /\ DOMAIN pending = 1..n /\ silent \in Nat
      /\ \A j \in 1..n : pending[j].window \in Nat
  <2>1. n \in Nat /\ DOMAIN pending = 1..n /\ pending \in Seq(Entries) /\ silent \in Nat
    BY <1>1 DEF StreamTypes
  <2>2. \A j \in 1..n : pending[j] \in Entries
    BY <2>1, ElementOfSeq
  <2> QED
    BY <2>1, <2>2 DEF Entries
<1>5. i \in 1..n /\ Covers(pending[i].window, w)
  BY <1>1, <1>3, <1>4 DEF Matches
<1>6. w \in Nat
  <2>1. set \in Settings /\ ToolOf[c] \in Tool
    BY <1>1, StreamAssumption DEF StreamTypes
  <2> QED
    BY <2>1, WindowIsNat
<1>7. longest > 0 /\ silent >= longest
  BY <1>2 DEF IdleDue, PhaseWindow
<1>8. /\ \A j \in DOMAIN pending : ~ Unlimited(pending[j])
      /\ longest = Max(spans)
  <2>1. longest = IF \E j \in DOMAIN pending : Unlimited(pending[j]) THEN 0 ELSE Max(spans)
    BY DEF ToolPhaseWindow
  <2> HIDE DEF longest, spans
  <2>2. ~ (longest = 0)
    BY <1>7
  <2> QED
    BY <2>1, <2>2
<1> HIDE DEF n, i, w, longest
<1>9. Max(spans) \in Nat /\ Max(spans) >= pending[i].window
  <2> DEFINE f == [j \in 1..n |-> pending[j].window]
  <2>1. PICK j \in 1..n : \A h \in 1..n : f[h] <= f[j]
    <3>1. n > 0 /\ \A h \in 1..n : f[h] \in Nat
      BY <1>4, <1>5
    <3> HIDE DEF f
    <3> QED
      BY <1>4, <3>1, GreatestOf
  <2>2. \A h \in 1..n : pending[h].window <= pending[j].window
    BY <2>1
  <2>3. \E x \in spans : \A y \in spans : x >= y
    BY <1>4, <2>2
  <2>4. Max(spans) \in spans /\ \A y \in spans : Max(spans) >= y
    BY <2>3 DEF Max
  <2> QED
    BY <1>4, <1>5, <2>4
<1>10. ~ (pending[i].window = 0) /\ pending[i].window \in Nat
  BY <1>4, <1>5, <1>8 DEF Unlimited
<1>11. w > 0 /\ pending[i].window >= w
  BY <1>5, <1>6, <1>10 DEF Covers
<1>12. silent >= w
  <2> DEFINE top == Max(spans)
             mine == pending[i].window
  <2>1. top \in Nat /\ top >= mine /\ mine \in Nat /\ mine >= w /\ silent >= top
    BY <1>7, <1>8, <1>9, <1>10, <1>11
  <2> HIDE DEF top, mine
  <2> QED
    BY <1>4, <1>6, <2>1
<1>13. Window(ToolOf[c])' = w
  BY <1>1, WindowStays DEF w
<1> QED
  BY <1>1, <1>11, <1>12, <1>13

LEMMA LesserOfTwo ==
  ASSUME NEW a \in Nat, NEW b \in Nat
  PROVE  Min({a, b}) \in Nat
<1>1. \E m \in {a, b} : \A c \in {a, b} : m =< c
  <2>1. CASE a <= b
    BY <2>1
  <2>2. CASE b <= a
    BY <2>2
  <2> QED
    BY <2>1, <2>2
<1> QED
  BY <1>1 DEF Min

LEMMA StreamStays ==
  ASSUME StreamSound, NoToolCutEarly, [StreamStep]_streamVars
  PROVE  StreamSound' /\ NoToolCutEarly'
<1>1. StreamTypes
  BY DEF StreamSound
<1>2. CASE ModelChunk \/ OtherEvent
  <2>1. CASE ModelChunk
    <3>1. StreamSound'
      BY <2>1, ClearedStep DEF ModelChunk, Received
    <3> QED
      BY <2>1, <3>1 DEF ModelChunk, Received, NoToolCutEarly
  <2>2. CASE OtherEvent
    <3>1. StreamSound'
      BY <2>2, CalmStep DEF OtherEvent, Received
    <3> QED
      BY <2>2, <3>1 DEF OtherEvent, Received, NoToolCutEarly
  <2> QED
    BY <1>2, <2>1, <2>2
<1>3. CASE Finish \/ Fails \/ Cancel \/ Closed
  <2>1. \E how \in Over : Ends(how)
    BY <1>3 DEF Finish, Fails, Cancel, Closed, Over
  <2>2. StreamSound'
    BY <1>1, <2>1, ClearedStep DEF Ends, StreamTypes
  <2> QED
    BY <2>1, <2>2 DEF Ends, Over, NoToolCutEarly
<1>4. CASE CutShort
  <2>1. StreamSound'
    BY <1>1, <1>4, CalmStep DEF CutShort, StreamTypes
  <2> QED
    BY <1>4, <2>1, CutStep
<1>5. CASE StreamTick
  <2>1. silent' \in Nat
    <3>1. silent + 1 \in Nat /\ MaxSilence \in Nat
      BY <1>1, StreamAssumption DEF StreamTypes
    <3> QED
      BY <1>5, <3>1, LesserOfTwo DEF StreamTick
  <2>2. StreamSound'
    BY <1>5, <2>1, CalmStep DEF StreamTick
  <2> QED
    BY <1>5, <2>2 DEF StreamTick, NoToolCutEarly
<1>6. CASE \E c \in ToolCall : ToolCalled(c) \/ ToolOutput(c) \/ OutputLost(c)
  <2>1. PICK c \in ToolCall : ToolCalled(c) \/ ToolOutput(c) \/ OutputLost(c)
    BY <1>6
  <2>2. at' = "open"
    BY <2>1 DEF ToolCalled, ToolOutput, OutputLost, Received
  <2>3. StreamSound'
    BY <2>1, CalledStep, OutputStep, LostStep
  <2> QED
    BY <2>2, <2>3 DEF NoToolCutEarly
<1>7. CASE UNCHANGED streamVars
  BY <1>7 DEF streamVars, StreamSound, StreamTypes, EntriesSound, Matches, Window, NoToolCutEarly,
              TotalDue
<1> QED
  BY <1>2, <1>3, <1>4, <1>5, <1>6, <1>7 DEF StreamStep

\* While a tool is at work its run is cut for silence only when the silence has
\* lasted as long as that tool may take, although an output without a call_id may
\* have been taken for another one (_tool_phase_window, _settle_tool_call).
THEOREM ToolsKeepTheirWindow == StreamSpec => []NoToolCutEarly
<1>1. StreamInit => StreamSound /\ NoToolCutEarly
  <2> SUFFICES ASSUME StreamInit PROVE StreamSound /\ NoToolCutEarly
    OBVIOUS
  <2>1. pending \in Seq(Entries) /\ DOMAIN pending = {} /\ running = {} /\ at = "open"
    BY EmptySeq DEF StreamInit
  <2>2. Matches([c \in {} |-> 0], running, pending)
    BY <2>1, EmptyMatches
  <2> QED
    BY <2>1, <2>2 DEF StreamInit, StreamSound, StreamTypes, EntriesSound, NoToolCutEarly
<1>2. StreamSound /\ NoToolCutEarly /\ [StreamStep]_streamVars => StreamSound' /\ NoToolCutEarly'
  BY StreamStays
<1> QED
  BY <1>1, <1>2, PTL DEF StreamSpec

----------------------------------------------------------------------------
(***************************************************************************)
(* The cards of a stream.                                                   *)
(***************************************************************************)

Cards == [id : ToolCall, tool : Tool, status : {"running", "completed", "failed"}]

\* Each call has one card, and it is running as long as the call is pending.
CardsOf(cs, list) ==
  /\ cs \in Seq(Cards)
  /\ \A i, j \in DOMAIN cs : cs[i].id = cs[j].id => i = j
  /\ \A i \in DOMAIN cs : cs[i].tool = ToolOf[cs[i].id]
  /\ \A i \in DOMAIN cs : cs[i].status = "running" <=>
                            \E j \in DOMAIN list : list[j].id = cs[i].id
  /\ \A j \in DOMAIN list : \E i \in DOMAIN cs : cs[i].id = list[j].id

\* The entries are those of calls, each of one and with the name of its tool.
NamedEntries(list) ==
  /\ list \in Seq(Entries)
  /\ \A i, j \in DOMAIN list : list[i].id = list[j].id => i = j
  /\ \A i \in DOMAIN list : list[i].id \in ToolCall /\ list[i].tool = ToolOf[list[i].id]

CardsSound ==
  unnamed = {} =>
    /\ NamedEntries(pending) /\ CardsOf(cards, pending)
    /\ \A i \in DOMAIN cards : cards[i].id \in started
    /\ IsFiniteSet(started) /\ Len(cards) = Cardinality(started)
    /\ at \in {"open", "closing"} =>
         \A c \in running : \E j \in DOMAIN pending : pending[j].id = c
    /\ at \in Over => pending = <<>>
    /\ at \in {"open", "closing"} \cup Over
    /\ running \subseteq started /\ started \subseteq ToolCall

\* The end of a call with a running card is written on that card alone.
LEMMA CallEnded ==
  ASSUME NEW cs, cs \in Seq(Cards), NEW k \in DOMAIN cs, cs[k].status = "running",
         cs[k].id # NoId, \A j \in DOMAIN cs : cs[j].id = cs[k].id => j = k,
         NEW status \in {"completed", "failed"}, NEW id, id = cs[k].id, NEW tool, tool = cs[k].tool
  PROVE  LET ds == CardEnded(cs, id, tool, status)
         IN  /\ ds \in Seq(Cards) /\ Len(ds) = Len(cs) /\ DOMAIN ds = DOMAIN cs
             /\ \A i \in DOMAIN cs : ds[i].id = cs[i].id /\ ds[i].tool = cs[i].tool
             /\ \A i \in DOMAIN cs : ds[i].status = IF i = k THEN status ELSE cs[i].status
<1> DEFINE ds == [cs EXCEPT ![k].status = status]
<1>1. CardEnded(cs, id, tool, status) = ds
  <2> DEFINE I == {i \in 1..Len(cs) : cs[i].id = id /\ cs[i].tool = tool}
             keyed == SelectLastInSeq(cs, LAMBDA c : c.id = id /\ c.tool = tool)
  <2>1. Len(cs) \in Nat /\ DOMAIN cs = 1..Len(cs)
    BY LenProperties
  <2>2. I = {k}
    BY <2>1
  <2>3. keyed = IF I # {} THEN Max(I) ELSE 0
    BY DEF SelectLastInSeq
  <2>4. keyed = k
    <3>1. Max({k}) = k
      BY <2>1 DEF Max
    <3> HIDE DEF keyed, I
    <3> QED
      BY <2>2, <2>3, <3>1
  <2>5. keyed > 0 /\ cs[keyed].status = "running" /\ k > 0
    BY <2>1, <2>4
  <2>6. CardEnded(cs, id, tool, status) = [cs EXCEPT ![keyed].status = status]
    BY <2>5 DEF CardEnded
  <2> HIDE DEF keyed
  <2> QED
    BY <2>4, <2>6
<1>2. /\ ds \in Seq(Cards) /\ Len(ds) = Len(cs) /\ DOMAIN ds = DOMAIN cs
      /\ \A i \in DOMAIN cs : ds[i].id = cs[i].id /\ ds[i].tool = cs[i].tool
      /\ \A i \in DOMAIN cs : ds[i].status = IF i = k THEN status ELSE cs[i].status
  <2> DEFINE card == [cs[k] EXCEPT !.status = status]
  <2>1. Len(cs) \in Nat /\ DOMAIN cs = 1..Len(cs) /\ cs \in [1..Len(cs) -> Cards]
    BY LenProperties
  <2>2. cs[k] \in Cards
    BY <2>1
  <2>3. card \in Cards /\ card.id = cs[k].id /\ card.tool = cs[k].tool /\ card.status = status
    BY <2>2 DEF Cards
  <2>4. ds = [cs EXCEPT ![k] = card]
    OBVIOUS
  <2> HIDE DEF card
  <2>5. /\ ds \in [1..Len(cs) -> Cards]
        /\ \A i \in 1..Len(cs) : ds[i] = IF i = k THEN card ELSE cs[i]
    BY <2>1, <2>3, <2>4
  <2>6. ds \in Seq(Cards)
    BY <2>1, <2>5, SeqDef
  <2>7. Len(ds) = Len(cs) /\ DOMAIN ds = DOMAIN cs
    BY <2>1, <2>5, <2>6, LenProperties
  <2> QED
    BY <2>1, <2>3, <2>5, <2>6, <2>7
<1> HIDE DEF ds
<1> QED
  BY <1>1, <1>2

LEMMA FinalizedIs ==
  ASSUME pending \in Seq(Entries)
  PROVE  Finalized = [n \in 0..Len(pending) |->
           IF n = 0 THEN cards
           ELSE CHOOSE next \in {CardEnded(k, pending[n].id, pending[n].tool, "failed") :
                                   k \in {Finalized[n - 1]}} : TRUE]
<1> DEFINE Step(c, n) == CHOOSE next \in {CardEnded(k, pending[n].id, pending[n].tool, "failed") :
                                           k \in {c}} : TRUE
           Rec(g, N) == g = [n \in 0..N |-> IF n = 0 THEN cards ELSE Step(g[n - 1], n)]
           bad == {N \in 0..Len(pending) : ~ \E g : Rec(g, N)}
<1>1. Len(pending) \in Nat
  BY LenProperties
<1>2. Finalized = CHOOSE g : Rec(g, Len(pending))
  BY DEF Finalized
<1> HIDE DEF Step
<1>3. ASSUME bad # {} PROVE FALSE
  <2>1. PICK N \in bad : \A h \in bad : N <= h
    <3>1. bad \in SUBSET Nat
      BY <1>1
    <3> QED
      BY <1>3, <3>1, LeastNumber
  <2>2. N \in 0..Len(pending) /\ ~ \E g : Rec(g, N)
    BY <2>1
  <2>3. N # 0
    <3>1. Rec([n \in 0..0 |-> cards], 0)
      OBVIOUS
    <3> QED
      BY <2>2, <3>1
  <2>4. N - 1 \in 0..Len(pending) /\ ~ (N <= N - 1) /\ N \in Nat /\ N - 1 \in Nat
    BY <1>1, <2>2, <2>3
  <2>5. PICK g : Rec(g, N - 1)
    <3>1. N - 1 \notin bad
      BY <2>1, <2>4
    <3> QED
      BY <2>4, <3>1
  <2> DEFINE h == [n \in 0..N |-> IF n = N THEN Step(g[N - 1], N) ELSE g[n]]
  <2>6. \A n \in 0..N : /\ n # N => n \in 0..(N - 1)
                        /\ n # 0 => n - 1 \in 0..(N - 1) /\ n - 1 \in 0..N /\ n - 1 # N
    BY <2>4
  <2>7. \A n \in 0..N : n # 0 => h[n - 1] = g[n - 1]
    BY <2>6
  <2>8. \A n \in 0..N : h[n] = IF n = 0 THEN cards ELSE Step(h[n - 1], n)
    <3> SUFFICES ASSUME NEW n \in 0..N PROVE h[n] = IF n = 0 THEN cards ELSE Step(h[n - 1], n)
      OBVIOUS
    <3>1. CASE n = N
      BY <2>3, <2>7, <3>1
    <3>2. CASE n # N
      <4>1. h[n] = g[n] /\ n \in 0..(N - 1)
        BY <2>6, <3>2
      <4>2. g[n] = IF n = 0 THEN cards ELSE Step(g[n - 1], n)
        BY <2>5, <4>1
      <4> QED
        BY <2>7, <4>1, <4>2
    <3> QED
      BY <3>1, <3>2
  <2>9. h = [n \in 0..N |-> IF n = 0 THEN cards ELSE Step(h[n - 1], n)]
    <3>1. h = [n \in 0..N |-> h[n]]
      OBVIOUS
    <3> HIDE DEF h
    <3> QED
      BY <2>8, <3>1
  <2>10. Rec(h, N)
    BY <2>9
  <2> QED
    BY <2>2, <2>10
<1>4. \E g : Rec(g, Len(pending))
  <2>1. Len(pending) \in 0..Len(pending) /\ Len(pending) \notin bad
    BY <1>1, <1>3
  <2> QED
    BY <2>1
<1>5. Rec(Finalized, Len(pending))
  BY <1>2, <1>4
<1> QED
  BY <1>5 DEF Step

\* Once all is finalized, the cards are those there were, and none is running.
LEMMA FinalizedCards ==
  ASSUME NamedEntries(pending), CardsOf(cards, pending)
  PROVE  /\ CardsFinal \in Seq(Cards) /\ Len(CardsFinal) = Len(cards)
         /\ DOMAIN CardsFinal = DOMAIN cards
         /\ \A i \in DOMAIN cards : /\ CardsFinal[i].id = cards[i].id
                                    /\ CardsFinal[i].tool = cards[i].tool
                                    /\ CardsFinal[i].status # "running"
<1> DEFINE m == Len(pending)
           Good(n) ==
             /\ Finalized[n] \in Seq(Cards) /\ Len(Finalized[n]) = Len(cards)
             /\ DOMAIN Finalized[n] = DOMAIN cards
             /\ \A i \in DOMAIN cards :
                  /\ Finalized[n][i].id = cards[i].id /\ Finalized[n][i].tool = cards[i].tool
                  /\ Finalized[n][i].status = "running" <=>
                       \E j \in (n + 1)..m : pending[j].id = cards[i].id
           bad == {n \in 0..m : ~ Good(n)}
<1>1. m \in Nat /\ DOMAIN pending = 1..m /\ pending \in Seq(Entries)
  BY LenProperties DEF NamedEntries
<1>2. \A n \in 0..m : Finalized[n] =
        IF n = 0 THEN cards
        ELSE CHOOSE next \in {CardEnded(k, pending[n].id, pending[n].tool, "failed") :
                                k \in {Finalized[n - 1]}} : TRUE
  <2> DEFINE Step(g, n) == CHOOSE next \in {CardEnded(k, pending[n].id, pending[n].tool, "failed") :
                                              k \in {g}} : TRUE
  <2>1. Finalized = [n \in 0..m |-> IF n = 0 THEN cards ELSE Step(Finalized[n - 1], n)]
    BY <1>1, FinalizedIs
  <2> HIDE DEF Step
  <2>2. \A n \in 0..m : Finalized[n] = IF n = 0 THEN cards ELSE Step(Finalized[n - 1], n)
    BY <2>1
  <2> QED
    BY <2>2 DEF Step
<1>3. Good(0)
  <2>1. Finalized[0] = cards
    BY <1>1, <1>2
  <2>2. 0 + 1 = 1
    OBVIOUS
  <2> QED
    BY <1>1, <2>1, <2>2 DEF CardsOf
<1>4. ASSUME NEW n \in 1..m, Good(n - 1) PROVE Good(n)
  <2> DEFINE cs == Finalized[n - 1]
             e == pending[n]
  <2>1. n \in DOMAIN pending /\ n \in 0..m /\ n # 0 /\ n \in Nat /\ (n - 1) + 1 = n
    BY <1>1
  <2>2. PICK k \in DOMAIN cards : cards[k].id = e.id
    BY <2>1 DEF CardsOf
  <2>3. /\ cs \in Seq(Cards) /\ k \in DOMAIN cs /\ cs[k].id = e.id /\ cs[k].tool = e.tool
        /\ \A j \in DOMAIN cs : cs[j].id = cs[k].id => j = k
    <3>1. /\ cs \in Seq(Cards) /\ DOMAIN cs = DOMAIN cards
          /\ \A j \in DOMAIN cards : cs[j].id = cards[j].id /\ cs[j].tool = cards[j].tool
      BY <1>4
    <3>2. \A j \in DOMAIN cards : cards[j].id = cards[k].id => j = k
      BY <2>2 DEF CardsOf
    <3>3. cards[k].tool = e.tool
      BY <2>1, <2>2 DEF CardsOf, NamedEntries
    <3> HIDE DEF cs
    <3> QED
      BY <2>2, <3>1, <3>2, <3>3
  <2>4. cs[k].id # NoId
    BY <2>1, <2>3, StreamAssumption DEF NamedEntries
  <2>5. cs[k].status = "running"
    <3>1. n \in ((n - 1) + 1)..m
      BY <1>1, <2>1
    <3> QED
      BY <1>4, <2>2, <3>1
  <2> DEFINE ds == CardEnded(cs, e.id, e.tool, "failed")
  <2>7. Finalized[n] = ds
    <3>1. Finalized[n] = CHOOSE next \in {CardEnded(c, e.id, e.tool, "failed") : c \in {cs}} : TRUE
      BY <1>2, <2>1
    <3> HIDE DEF cs, e
    <3>2. {CardEnded(c, e.id, e.tool, "failed") : c \in {cs}} = {ds}
      OBVIOUS
    <3> QED
      BY <3>1, <3>2
  <2>8. /\ ds \in Seq(Cards) /\ Len(ds) = Len(cs) /\ DOMAIN ds = DOMAIN cs
        /\ \A i \in DOMAIN cs : ds[i].id = cs[i].id /\ ds[i].tool = cs[i].tool
        /\ \A i \in DOMAIN cs : ds[i].status = IF i = k THEN "failed" ELSE cs[i].status
    <3> DEFINE id == e.id
               tool == e.tool
    <3>1. "failed" \in {"completed", "failed"} /\ id = cs[k].id /\ tool = cs[k].tool
      BY <2>3
    <3> HIDE DEF cs, id, tool
    <3> QED
      BY <2>3, <2>4, <2>5, <3>1, CallEnded
  <2> HIDE DEF ds
  <2>9. ASSUME NEW i \in DOMAIN cards
        PROVE  ds[i].status = "running" <=> \E j \in (n + 1)..m : pending[j].id = cards[i].id
    <3>1. \A j \in DOMAIN pending : pending[j].id = e.id => j = n
      BY <2>1 DEF NamedEntries
    <3>2. /\ \A j \in (n + 1)..m : j \in n..m /\ j # n /\ j \in DOMAIN pending
          /\ \A j \in n..m : j = n \/ j \in (n + 1)..m
      BY <1>1, <2>1
    <3>3. i = k => ~ \E j \in (n + 1)..m : pending[j].id = cards[i].id
      BY <2>2, <3>1, <3>2
    <3>4. i # k => cards[i].id # e.id
      BY <2>2 DEF CardsOf
    <3>5. cs[i].status = "running" <=> \E j \in n..m : pending[j].id = cards[i].id
      BY <1>4, <2>1
    <3>6. i \in DOMAIN cs
      BY <1>4
    <3> HIDE DEF cs
    <3>7. CASE i = k
      BY <2>8, <3>3, <3>6, <3>7
    <3>8. CASE i # k
      BY <2>8, <3>2, <3>4, <3>5, <3>6, <3>8
    <3> QED
      BY <3>7, <3>8
  <2> QED
    BY <1>4, <2>7, <2>8, <2>9
<1> HIDE DEF Good
<1>5. ASSUME bad # {} PROVE FALSE
  <2>1. PICK n \in bad : \A h \in bad : n <= h
    <3>1. bad \in SUBSET Nat
      BY <1>1
    <3> QED
      BY <1>5, <3>1, LeastNumber
  <2>2. n \in 0..m /\ ~ Good(n) /\ n # 0
    BY <1>3, <2>1
  <2>3. n \in 1..m /\ n - 1 \in 0..m /\ ~ (n <= n - 1)
    BY <1>1, <2>2
  <2>4. n - 1 \notin bad
    <3> HIDE DEF bad
    <3> QED
      BY <2>1, <2>3
  <2>5. Good(n - 1)
    BY <2>3, <2>4
  <2> QED
    BY <1>4, <2>2, <2>3, <2>5
<1>6. Good(m)
  <2>1. m \in 0..m /\ m \notin bad
    BY <1>1, <1>5
  <2> QED
    BY <2>1
<1>7. ~ \E j \in (m + 1)..m : TRUE
  BY <1>1
<1>8. CardsFinal = Finalized[m]
  BY DEF CardsFinal
<1> QED
  BY <1>6, <1>7, <1>8 DEF Good

\* With call_ids an output is for the entry of its call.
LEMMA SettledById ==
  ASSUME unnamed = {}, NamedEntries(pending), NEW k \in DOMAIN pending
  PROVE  IdOf(pending[k].id) = pending[k].id /\ Settled(pending[k].id) = k
<1> DEFINE c == pending[k].id
           exact == {i \in DOMAIN pending : c # NoId /\ pending[i].id = c}
<1>1. c \in ToolCall /\ c # NoId
  BY StreamAssumption DEF NamedEntries
<1>2. exact = {k}
  BY <1>1 DEF NamedEntries
<1>3. k \in Nat
  BY LenProperties DEF NamedEntries
<1>4. Min({k}) = k
  BY <1>3 DEF Min
<1>5. Settled(c) = IF exact # {} THEN Min(exact)
                   ELSE Min({i \in DOMAIN pending :
                               \A j \in DOMAIN pending : ~ Smaller(pending[j], pending[i])})
  BY DEF Settled
<1> HIDE DEF exact
<1>6. Settled(c) = k
  BY <1>2, <1>4, <1>5
<1> QED
  BY <1>6 DEF IdOf

\* The list without the entry of a call: the others are there still.
LEMMA OthersStay ==
  ASSUME NEW list, NamedEntries(list), NEW k \in DOMAIN list, NEW rest, rest = RemoveAt(list, k)
  PROVE  /\ NamedEntries(rest)
         /\ \A j \in DOMAIN rest : \E i \in DOMAIN list : i # k /\ list[i] = rest[j]
         /\ \A i \in DOMAIN list : i # k => \E j \in DOMAIN rest : rest[j] = list[i]
<1>1. /\ list \in Seq(Entries) /\ rest \in Seq(Entries) /\ Len(list) \in Nat
      /\ DOMAIN list = 1..Len(list) /\ DOMAIN rest = 1..(Len(list) - 1)
      /\ \A j \in 1..(Len(list) - 1) : rest[j] = IF j < k THEN list[j] ELSE list[j + 1]
  BY EntryRemoved DEF NamedEntries
<1> DEFINE n == Len(list)
           Was(j) == IF j < k THEN j ELSE j + 1
           Is(i) == IF i < k THEN i ELSE i - 1
<1>2. k \in 1..n /\ n \in Nat
  BY <1>1
<1>3. \A j \in 1..(n - 1) : Was(j) \in 1..n /\ Was(j) # k /\ rest[j] = list[Was(j)]
  <2>1. \A j \in 1..(n - 1) : Was(j) \in 1..n /\ Was(j) # k
    BY <1>2
  <2> QED
    BY <1>1, <2>1
<1>4. \A j, h \in 1..(n - 1) : Was(j) = Was(h) => j = h
  BY <1>2
<1>5. \A i \in 1..n : i # k => Is(i) \in 1..(n - 1) /\ Was(Is(i)) = i
  BY <1>2
<1> HIDE DEF Was, Is
<1>6. \A i \in DOMAIN list : i # k => Is(i) \in DOMAIN rest /\ rest[Is(i)] = list[i]
  BY <1>1, <1>3, <1>5
<1>7. \A j \in DOMAIN rest : Was(j) \in DOMAIN list /\ Was(j) # k /\ rest[j] = list[Was(j)]
  BY <1>1, <1>3
<1>8. \A j, h \in DOMAIN rest : rest[j].id = rest[h].id => j = h
  <2> SUFFICES ASSUME NEW j \in DOMAIN rest, NEW h \in DOMAIN rest, rest[j].id = rest[h].id
               PROVE  j = h
    OBVIOUS
  <2>1. Was(j) = Was(h)
    BY <1>7 DEF NamedEntries
  <2> QED
    BY <1>1, <1>4, <2>1
<1>9. NamedEntries(rest)
  BY <1>1, <1>7, <1>8 DEF NamedEntries
<1> QED
  BY <1>6, <1>7, <1>9

LEMMA OutputCards ==
  ASSUME StreamSound, CardsSound, NEW c \in ToolCall, ToolOutput(c)
  PROVE  CardsSound'
<1> SUFFICES ASSUME unnamed = {} PROVE CardsSound'
  BY DEF ToolOutput, CardsSound
<1>1. /\ NamedEntries(pending) /\ CardsOf(cards, pending) /\ c \in running
      /\ at = "open" /\ at' = at /\ running' = running \ {c} /\ started' = started
      /\ IsFiniteSet(started) /\ Len(cards) = Cardinality(started)
      /\ \A d \in running : \E j \in DOMAIN pending : pending[j].id = d
      /\ \A i \in DOMAIN cards : cards[i].id \in started
      /\ running \subseteq started /\ started \subseteq ToolCall
  BY DEF CardsSound, ToolOutput, Received
<1>2. PICK k \in DOMAIN pending : pending[k].id = c
  BY <1>1
<1>3. IdOf(c) = c /\ Settled(c) = k
  BY <1>1, <1>2, SettledById
<1>4. PICK says \in Says : LogToolEnd(c, k, says)
  BY <1>3 DEF ToolOutput
<1> DEFINE status == OutcomeOf(says)
           rest == RemoveAt(pending, k)
<1>5. pending' = rest /\ cards' = CardEnded(cards, c, pending[k].tool, status)
  BY <1>3, <1>4 DEF ToolOutput, LogToolEnd
<1>6. PICK h \in DOMAIN cards : cards[h].id = c
  BY <1>1, <1>2 DEF CardsOf
<1>7. /\ cards \in Seq(Cards) /\ cards[h].status = "running"
      /\ \A j \in DOMAIN cards : cards[j].id = cards[h].id => j = h
      /\ cards[h].tool = pending[k].tool
  BY <1>1, <1>2, <1>6 DEF CardsOf, NamedEntries
<1>8. status \in {"completed", "failed"} /\ c # NoId
  BY StreamAssumption DEF OutcomeOf
<1> HIDE DEF status, rest
<1> DEFINE ds == CardEnded(cards, c, pending[k].tool, status)
<1>9. /\ ds \in Seq(Cards) /\ Len(ds) = Len(cards) /\ DOMAIN ds = DOMAIN cards
      /\ \A i \in DOMAIN cards : ds[i].id = cards[i].id /\ ds[i].tool = cards[i].tool
      /\ \A i \in DOMAIN cards : ds[i].status = IF i = h THEN status ELSE cards[i].status
  BY <1>6, <1>7, <1>8, CallEnded
<1> HIDE DEF ds
<1>10. /\ NamedEntries(rest)
       /\ \A j \in DOMAIN rest : \E i \in DOMAIN pending : i # k /\ pending[i] = rest[j]
       /\ \A i \in DOMAIN pending : i # k => \E j \in DOMAIN rest : rest[j] = pending[i]
  BY <1>1, OthersStay DEF rest
<1>11. \A i \in DOMAIN pending : pending[i].id = c => i = k
  BY <1>1, <1>2 DEF NamedEntries
<1>12. CardsOf(ds, rest)
  <2>1. ASSUME NEW i \in DOMAIN cards
        PROVE  ds[i].status = "running" <=> \E j \in DOMAIN rest : rest[j].id = cards[i].id
    <3>1. cards[i].status = "running" <=> \E j \in DOMAIN pending : pending[j].id = cards[i].id
      BY <1>1 DEF CardsOf
    <3>2. CASE i = h
      BY <1>6, <1>8, <1>9, <1>10, <1>11, <3>2
    <3>3. CASE i # h
      <4>1. cards[i].id # c
        BY <1>6, <1>7, <3>3
      <4> QED
        BY <1>2, <1>9, <1>10, <3>1, <3>3, <4>1
    <3> QED
      BY <3>2, <3>3
  <2>2. \A j \in DOMAIN rest : \E i \in DOMAIN ds : ds[i].id = rest[j].id
    BY <1>1, <1>9, <1>10 DEF CardsOf
  <2> QED
    BY <1>1, <1>9, <2>1, <2>2 DEF CardsOf
<1>13. \A d \in running' : \E j \in DOMAIN rest : rest[j].id = d
  BY <1>1, <1>2, <1>10
<1>14. cards' = ds /\ pending' = rest
  BY <1>5 DEF ds
<1>15. NamedEntries(pending)'
  BY <1>10, <1>14 DEF NamedEntries
<1>16. CardsOf(cards, pending)'
  BY <1>12, <1>14 DEF CardsOf
<1>17. \A i \in DOMAIN cards' : cards'[i].id \in started'
  BY <1>1, <1>9, <1>14
<1>18. at' = "open" /\ at' \notin Over /\ IsFiniteSet(started') /\ Len(cards') = Cardinality(started')
  BY <1>1, <1>9, <1>14 DEF Over
<1> HIDE DEF ds, status
<1> QED
  BY <1>1, <1>13, <1>14, <1>15, <1>16, <1>17, <1>18 DEF CardsSound

LEMMA CalledCards ==
  ASSUME StreamSound, CardsSound, NEW c \in ToolCall, ToolCalled(c)
  PROVE  CardsSound'
<1> SUFFICES ASSUME unnamed = {} PROVE CardsSound'
  BY DEF ToolCalled, CardsSound
<1> DEFINE e == [id |-> c, tool |-> ToolOf[c], window |-> Window(ToolOf[c])]
           card == [id |-> c, tool |-> ToolOf[c], status |-> "running"]
           n == Len(pending)
           m == Len(cards)
           list == Append(pending, e)
           cs == Append(cards, card)
<1>1. /\ NamedEntries(pending) /\ CardsOf(cards, pending) /\ c \notin started
      /\ at = "open" /\ at' = at /\ running' = running \cup {c} /\ started' = started \cup {c}
      /\ IsFiniteSet(started) /\ Len(cards) = Cardinality(started)
      /\ \A d \in running : \E j \in DOMAIN pending : pending[j].id = d
      /\ \A i \in DOMAIN cards : cards[i].id \in started
      /\ running \subseteq started /\ started \subseteq ToolCall
  BY DEF CardsSound, ToolCalled, Received
<1>2. pending' = list /\ cards' = cs
  BY DEF ToolCalled, CardStarted, IdOf
<1>3. e \in Entries /\ card \in Cards
  <2>1. ToolOf[c] \in Tool /\ Window(ToolOf[c]) \in Nat
    BY WindowIsNat, StreamAssumption DEF StreamSound, StreamTypes
  <2> DEFINE w == Window(ToolOf[c])
  <2> HIDE DEF w
  <2>2. w \in Nat
    BY <2>1 DEF w
  <2>3. [id |-> c, tool |-> ToolOf[c], window |-> w] \in Entries
    BY <2>1, <2>2 DEF Entries
  <2> QED
    BY <2>1, <2>3 DEF Cards, w
<1>4. /\ n \in Nat /\ m \in Nat /\ DOMAIN pending = 1..n /\ DOMAIN cards = 1..m
      /\ pending \in Seq(Entries) /\ cards \in Seq(Cards)
  BY <1>1, LenProperties DEF NamedEntries, CardsOf
<1>5. e.id = c /\ e.tool = ToolOf[c] /\ card.id = c /\ card.tool = ToolOf[c] /\ card.status = "running"
  OBVIOUS
<1> HIDE DEF e, card
<1>6. /\ list \in Seq(Entries) /\ DOMAIN list = 1..(n + 1) /\ list[n + 1] = e
      /\ \A i \in 1..n : list[i] = pending[i]
      /\ cs \in Seq(Cards) /\ DOMAIN cs = 1..(m + 1) /\ cs[m + 1] = card /\ Len(cs) = m + 1
      /\ \A i \in 1..m : cs[i] = cards[i]
  BY <1>3, <1>4
<1>7. /\ \A i \in 1..(n + 1) : i = n + 1 \/ i \in 1..n
      /\ \A i \in 1..(m + 1) : i = m + 1 \/ i \in 1..m
      /\ 1..n \subseteq 1..(n + 1) /\ 1..m \subseteq 1..(m + 1) /\ n + 1 \in 1..(n + 1) /\ m + 1 \in 1..(m + 1)
  BY <1>4
<1> HIDE DEF list, cs, n, m
<1>8. \A i \in DOMAIN cards : cards[i].id # c
  BY <1>1
<1>9. \A j \in DOMAIN pending : pending[j].id # c
  BY <1>1, <1>8 DEF CardsOf
<1>10. NamedEntries(list)
  <2>1. \A i, j \in DOMAIN list : list[i].id = list[j].id => i = j
    BY <1>1, <1>4, <1>5, <1>6, <1>7, <1>9 DEF NamedEntries
  <2>2. \A i \in DOMAIN list : list[i].id \in ToolCall /\ list[i].tool = ToolOf[list[i].id]
    BY <1>1, <1>4, <1>5, <1>6, <1>7 DEF NamedEntries
  <2> QED
    BY <1>6, <2>1, <2>2 DEF NamedEntries
<1>11. CardsOf(cs, list)
  <2>1. \A i, j \in DOMAIN cs : cs[i].id = cs[j].id => i = j
    BY <1>1, <1>4, <1>5, <1>6, <1>7, <1>8 DEF CardsOf
  <2>2. \A i \in DOMAIN cs : cs[i].tool = ToolOf[cs[i].id]
    BY <1>1, <1>4, <1>5, <1>6, <1>7 DEF CardsOf
  <2>3. \A i \in DOMAIN cs : cs[i].status = "running" <=>
                               \E j \in DOMAIN list : list[j].id = cs[i].id
    <3>1. ASSUME NEW i \in 1..m
          PROVE cs[i].status = "running" <=> \E j \in DOMAIN list : list[j].id = cs[i].id
      <4>1. cs[i] = cards[i] /\ cards[i].id # c /\ i \in DOMAIN cards
        BY <1>4, <1>6, <1>8, <3>1
      <4>2. cards[i].status = "running" <=> \E j \in DOMAIN pending : pending[j].id = cards[i].id
        BY <1>1, <4>1 DEF CardsOf
      <4> QED
        BY <1>4, <1>5, <1>6, <1>7, <4>1, <4>2
    <3>2. cs[m + 1].status = "running" /\ list[n + 1].id = cs[m + 1].id /\ n + 1 \in DOMAIN list
      BY <1>5, <1>6, <1>7
    <3> QED
      BY <1>6, <1>7, <3>1, <3>2
  <2>4. \A j \in DOMAIN list : \E i \in DOMAIN cs : cs[i].id = list[j].id
    <3>1. ASSUME NEW j \in 1..n PROVE \E i \in DOMAIN cs : cs[i].id = list[j].id
      <4>1. list[j] = pending[j] /\ j \in DOMAIN pending
        BY <1>4, <1>6, <3>1
      <4>2. PICK i \in DOMAIN cards : cards[i].id = pending[j].id
        BY <1>1, <4>1 DEF CardsOf
      <4> QED
        BY <1>4, <1>6, <1>7, <4>1, <4>2
    <3>2. cs[m + 1].id = list[n + 1].id /\ m + 1 \in DOMAIN cs
      BY <1>5, <1>6, <1>7
    <3> QED
      BY <1>6, <1>7, <3>1, <3>2
  <2> QED
    BY <1>6, <2>1, <2>2, <2>3, <2>4 DEF CardsOf
<1>12. NamedEntries(pending)' /\ CardsOf(cards, pending)'
  BY <1>2, <1>10, <1>11 DEF NamedEntries, CardsOf
<1>13. \A i \in DOMAIN cards' : cards'[i].id \in started'
  BY <1>1, <1>2, <1>4, <1>5, <1>6, <1>7
<1>14. IsFiniteSet(started') /\ Len(cards') = Cardinality(started')
  <2>1. Cardinality(started \cup {c}) = Cardinality(started) + 1 /\ IsFiniteSet(started \cup {c})
    BY <1>1, FS_AddElement
  <2> QED
    BY <1>1, <1>2, <1>6, <2>1 DEF m
<1>15. \A d \in running' : \E j \in DOMAIN pending' : pending'[j].id = d
  <2>1. \A d \in running : \E j \in DOMAIN list : list[j].id = d
    BY <1>1, <1>4, <1>6, <1>7
  <2>2. list[n + 1].id = c /\ n + 1 \in DOMAIN list
    BY <1>5, <1>6, <1>7
  <2> QED
    BY <1>1, <1>2, <2>1, <2>2
<1>16. at' = "open" /\ at' \notin Over
  BY <1>1 DEF Over
<1>17. running' \subseteq started' /\ started' \subseteq ToolCall
  BY <1>1
<1> QED
  BY <1>12, <1>13, <1>14, <1>15, <1>16, <1>17 DEF CardsSound

\* A step that settles all that is pending.
LEMMA FinalCards ==
  ASSUME CardsSound, cards' = CardsFinal, pending' = <<>>, UNCHANGED <<unnamed, started, running>>,
         at' \in Over \/ (running = {} /\ at' = "open")
  PROVE  CardsSound' /\ EveryCallSettledOnce'
<1> SUFFICES ASSUME unnamed = {} PROVE CardsSound' /\ EveryCallSettledOnce'
  BY DEF CardsSound, EveryCallSettledOnce
<1>1. /\ NamedEntries(pending) /\ CardsOf(cards, pending)
      /\ IsFiniteSet(started) /\ Len(cards) = Cardinality(started)
      /\ \A i \in DOMAIN cards : cards[i].id \in started
      /\ running \subseteq started /\ started \subseteq ToolCall
  BY DEF CardsSound
<1>2. /\ cards' \in Seq(Cards) /\ Len(cards') = Len(cards) /\ DOMAIN cards' = DOMAIN cards
      /\ \A i \in DOMAIN cards : /\ cards'[i].id = cards[i].id /\ cards'[i].tool = cards[i].tool
                                 /\ cards'[i].status # "running"
  BY <1>1, FinalizedCards
<1>3. pending' \in Seq(Entries) /\ DOMAIN pending' = {}
  BY EmptySeq
<1>4. NamedEntries(pending)' /\ CardsOf(cards, pending)'
  BY <1>1, <1>2, <1>3 DEF NamedEntries, CardsOf
<1>5. at' \in {"open", "closing"} \cup Over /\ (at' \in {"open", "closing"} => running = {})
  BY DEF Over
<1>6. \A i \in DOMAIN cards' : cards'[i].id \in started'
  BY <1>1, <1>2
<1> QED
  BY <1>1, <1>2, <1>4, <1>5, <1>6 DEF CardsSound, EveryCallSettledOnce

LEMMA CardsStay ==
  ASSUME StreamSound, CardsSound, EveryCallSettledOnce, [StreamStep]_streamVars
  PROVE  CardsSound' /\ EveryCallSettledOnce'
<1>1. CASE ModelChunk
  BY <1>1, FinalCards DEF ModelChunk, Received
<1>2. CASE Finish \/ Fails \/ Cancel \/ Closed
  <2>1. \E how \in Over : Ends(how)
    BY <1>2 DEF Finish, Fails, Cancel, Closed, Over
  <2> QED
    BY <2>1, FinalCards DEF Ends
<1>3. ASSUME NEW c \in ToolCall, ToolCalled(c) PROVE CardsSound' /\ EveryCallSettledOnce'
  <2>1. at' \notin Over
    BY <1>3 DEF ToolCalled, Received, Over
  <2> QED
    BY <1>3, <2>1, CalledCards DEF EveryCallSettledOnce
<1>4. ASSUME NEW c \in ToolCall, ToolOutput(c) PROVE CardsSound' /\ EveryCallSettledOnce'
  <2>1. at' \notin Over
    BY <1>4 DEF ToolOutput, Received, Over
  <2> QED
    BY <1>4, <2>1, OutputCards DEF EveryCallSettledOnce
<1>5. ASSUME NEW c \in ToolCall, OutputLost(c) PROVE CardsSound' /\ EveryCallSettledOnce'
  <2>1. at' \notin Over
    BY <1>5 DEF OutputLost, Over
  <2>2. /\ pending' = pending /\ cards' = cards /\ unnamed' = unnamed /\ at' = at
        /\ started' = started /\ running' \subseteq running
    BY <1>5 DEF OutputLost
  <2> QED
    BY <2>1, <2>2 DEF CardsSound, EveryCallSettledOnce, NamedEntries, CardsOf
<1>6. CASE OtherEvent \/ CutShort \/ StreamTick
  <2>1. /\ pending' = pending /\ cards' = cards /\ unnamed' = unnamed
        /\ started' = started /\ running' = running
        /\ at = "open" /\ at' \in {"open", "closing"} /\ at' \notin Over
    BY <1>6 DEF OtherEvent, CutShort, StreamTick, Received, Over
  <2> QED
    BY <2>1 DEF CardsSound, EveryCallSettledOnce, NamedEntries, CardsOf
<1>7. CASE UNCHANGED streamVars
  BY <1>7 DEF streamVars, CardsSound, EveryCallSettledOnce, NamedEntries, CardsOf
<1> QED
  BY <1>1, <1>2, <1>3, <1>4, <1>5, <1>6, <1>7 DEF StreamStep

\* However a run ends, no card of it is left running, and each call that was
\* announced has one (_finalize_pending_tools in the finally block), if the items
\* carry their call_id.
THEOREM CallsSettledOnce == StreamSpec => []EveryCallSettledOnce
<1>1. StreamInit => StreamSound /\ NoToolCutEarly /\ CardsSound /\ EveryCallSettledOnce
  <2> SUFFICES ASSUME StreamInit
               PROVE  StreamSound /\ NoToolCutEarly /\ CardsSound /\ EveryCallSettledOnce
    OBVIOUS
  <2>1. /\ pending \in Seq(Entries) /\ DOMAIN pending = {} /\ running = {} /\ at = "open"
        /\ cards \in Seq(Cards) /\ DOMAIN cards = {} /\ Len(cards) = 0
        /\ started = {} /\ IsFiniteSet(started) /\ Cardinality(started) = 0
    BY EmptySeq, FS_EmptySet DEF StreamInit
  <2>2. Matches([c \in {} |-> 0], running, pending)
    BY <2>1, EmptyMatches
  <2>3. StreamSound /\ NoToolCutEarly
    BY <2>1, <2>2 DEF StreamInit, StreamSound, StreamTypes, EntriesSound, NoToolCutEarly
  <2>4. CardsSound /\ EveryCallSettledOnce
    BY <2>1 DEF CardsSound, EveryCallSettledOnce, NamedEntries, CardsOf, Over
  <2> QED
    BY <2>3, <2>4
<1>2. StreamSound /\ NoToolCutEarly /\ [StreamStep]_streamVars => StreamSound' /\ NoToolCutEarly'
  BY StreamStays
<1>3. StreamSound /\ CardsSound /\ EveryCallSettledOnce /\ [StreamStep]_streamVars
        => CardsSound' /\ EveryCallSettledOnce'
  BY CardsStay
<1> QED
  BY <1>1, <1>2, <1>3, PTL DEF StreamSpec
=============================================================================
