----------------------------- MODULE Delegation -----------------------------
(***************************************************************************)
(* Subagents made at run time and what their tools may do: the grants of    *)
(* the gateway (runtime/permissions.py, execution_coordinator.py), the      *)
(* agents of create_subagent and execute_subagent                           *)
(* (tool_packages/subagent_creator/agent.py), their places in the registry  *)
(* (runtime/registry.py) and the approvals a risky call waits for           *)
(* (runtime/approvals.py, approval_gate.py).                                *)
(*                                                                          *)
(* A human and the expiry of a row work on the same database as the waiting *)
(* calls, from another process.  A tick is a poll interval; the lifetimes   *)
(* of rows, waits and grants are counted down.                              *)
(***************************************************************************)
EXTENDS Integers, FiniteSets, Sequences

CONSTANTS
  Slot,         \* subtasks of the plan, all with tools
  Key,          \* risky calls: tool and arguments
  MaxAgents,    \* max_dynamic_agents
  Ttl,          \* grant_ttl_seconds, 0 for no expiry
  Timeout,      \* high_risk_approval_timeout_seconds
  MaxWindows,   \* bound: batches
  MaxCreated,   \* bound: subagents
  MaxExecutions,\* bound: executions of a subagent
  MaxCalls      \* bound: calls of an execution

Agent == 1..MaxCreated
Plain == "plain"   \* a call that matches no risky pattern

ASSUME DelegationAssumption ==
  /\ IsFiniteSet(Slot) /\ Slot \cap Agent = {} /\ Plain \notin Key
  /\ MaxAgents \in Nat \ {0}
  /\ Ttl \in Nat /\ Timeout \in Nat \ {0}
  /\ MaxWindows \in Nat /\ MaxCreated \in Nat /\ MaxExecutions \in Nat /\ MaxCalls \in Nat

VARIABLES
  stage,     \* a subtask in the batch: "out", "pending", "running", "done"
  grants,    \* of each subtask's slot; the last one is in plan_grant_map
  agent,     \* the subagents, each with its current call
  created,   \* how many there are
  active,    \* the registry's active records, subtasks' own ones included
  released,  \* agents with an agent_released event
  approval,  \* rows of tool_approvals
  windows    \* batches so far

vars == <<stage, grants, agent, created, active, released, approval, windows>>

Waiting == {"notifying", "waiting"}
Calling == Waiting \cup {"working"}
At      == {"none", "ready", "thinking"} \cup Calling

NoAgent == [slot |-> "none", grant |-> 0, attempts |-> 0,
            at |-> "none", key |-> Plain, left |-> 0, calls |-> 0]

NoApproval == [status |-> "none", left |-> 0]

Fresh  == [left |-> Ttl, revoked |-> FALSE]
Expired(g) == Ttl > 0 /\ g.left = 0
Live(g) == ~g.revoked /\ ~Expired(g)

Executing(a) == agent[a].at \in {"thinking"} \cup Calling
InWindow == \E s \in Slot : stage[s] # "out"

------------------------------------------------------------------------------
(* The batch. *)

\* _ensure_batch_grants_active: one dead grant, and every slot gets a new one.
Renewed(batch) ==
  IF \E s \in batch : ~Live(grants[s][Len(grants[s])])
  THEN [s \in Slot |-> Append(grants[s], Fresh)]
  ELSE grants

OpenWindow(batch) ==
  /\ ~InWindow
  /\ windows < MaxWindows
  /\ windows' = windows + 1
  /\ stage' = [s \in Slot |-> IF s \in batch THEN "pending" ELSE "out"]
  /\ grants' = Renewed(batch)
  /\ UNCHANGED <<agent, created, active, released, approval>>

\* register: the quota counts what has not been released.
Admits == Cardinality(active) < MaxAgents

StartSubtask(s) ==
  /\ stage[s] = "pending"
  /\ IF Admits THEN /\ stage' = [stage EXCEPT ![s] = "running"]
                    /\ active' = active \cup {s}
               ELSE /\ stage' = [stage EXCEPT ![s] = "done"]
                    /\ UNCHANGED active
  /\ UNCHANGED <<grants, agent, created, released, approval, windows>>

\* The executor of the subtask has returned, or was cut off and took what it
\* had called with it.
EndSubtask(s) ==
  /\ stage[s] = "running"
  /\ \A a \in Agent : agent[a].slot = s => ~Executing(a)
  /\ stage' = [stage EXCEPT ![s] = "done"]
  /\ active' = active \ {s}
  /\ UNCHANGED <<grants, agent, created, released, approval, windows>>

\* revoke_grants_for_agent
RevokeAll(gs) == [i \in DOMAIN gs |-> [left |-> 0, revoked |-> TRUE]]

CloseWindow ==
  /\ InWindow
  /\ \A s \in Slot : stage[s] \in {"out", "done"}
  /\ grants' = [s \in Slot |-> IF stage[s] = "done" THEN RevokeAll(grants[s]) ELSE grants[s]]
  /\ stage' = [s \in Slot |-> "out"]
  /\ UNCHANGED <<agent, created, active, released, approval, windows>>

------------------------------------------------------------------------------
(* The creator. *)

\* The credential is the one of plan_grant_map; a full registry refuses.
CreateSubagent(s) ==
  /\ stage[s] = "running"
  /\ created < MaxCreated
  /\ Admits
  /\ LET a == created + 1
     IN  /\ agent' = [agent EXCEPT ![a] = [NoAgent EXCEPT !.slot = s, !.grant = Len(grants[s]),
                                             !.at = "ready"]]
         /\ active' = active \cup {a}
         /\ created' = a
  /\ UNCHANGED <<stage, grants, released, approval, windows>>

\* An agent may be executed again, in a later window too.
ExecuteSubagent(a) ==
  /\ agent[a].at = "ready"
  /\ stage[agent[a].slot] = "running"
  /\ agent[a].attempts < MaxExecutions
  /\ agent' = [agent EXCEPT ![a].attempts = @ + 1, ![a].at = "thinking", ![a].calls = 0]
  /\ UNCHANGED <<stage, grants, created, active, released, approval, windows>>

\* A success, or a failure that counts its attempts; the event says "released".
EndExecution(a) ==
  /\ agent[a].at = "thinking"
  /\ agent' = [agent EXCEPT ![a].at = "ready"]
  /\ released' = released \cup {a}
  /\ UNCHANGED <<stage, grants, created, active, approval, windows>>

\* CancelledError, wherever the agent is.
CutOff(a) ==
  /\ Executing(a)
  /\ agent' = [agent EXCEPT ![a].at = "ready", ![a].key = Plain, ![a].left = 0]
  /\ UNCHANGED <<stage, grants, created, active, released, approval, windows>>

------------------------------------------------------------------------------
(* A call of a tool, behind the permission check. *)

\* verify_grant: any grant of the slot; the binding: the agent's own.
Verified(a) == \E i \in DOMAIN grants[agent[a].slot] : Live(grants[agent[a].slot][i])
Bound(a)    == ~grants[agent[a].slot][agent[a].grant].revoked
Permitted_BySlot(a) == Verified(a)
Permitted(a) == Verified(a) /\ Bound(a)

\* request: the row of this key, or a new one that a human is told of.
Requested(k) == IF approval[k].status = "none"
                THEN [approval EXCEPT ![k] = [status |-> "pending", left |-> Timeout]]
                ELSE approval

\* authorize, up to its first await.
Authorized_Pending(k) == IF k \in Key /\ approval[k].status \in {"none", "expired"}
                         THEN "waiting" ELSE "working"
Authorized(k) == CASE k = Plain -> "working"
                   [] k \in Key -> CASE approval[k].status = "none"     -> "notifying"
                                     [] approval[k].status = "pending"  -> "waiting"
                                     [] approval[k].status = "approved" -> "working"
                                     [] OTHER                           -> "thinking"
Call(a, k) ==
  /\ agent[a].at = "thinking"
  /\ agent[a].calls < MaxCalls
  /\ LET next == IF Permitted(a) THEN Authorized(k) ELSE "thinking"
     IN  agent' = [agent EXCEPT ![a].calls = @ + 1, ![a].at = next,
                                ![a].key = IF next = "thinking" THEN Plain ELSE k,
                                ![a].left = IF next = "waiting" THEN Timeout ELSE 0]
  /\ approval' = IF Permitted(a) /\ k \in Key THEN Requested(k) ELSE approval
  /\ UNCHANGED <<stage, grants, created, active, released, windows>>

\* _notify, delivered or not.
Notified(a) ==
  /\ agent[a].at = "notifying"
  /\ agent' = [agent EXCEPT ![a].at = "waiting", ![a].left = Timeout]
  /\ UNCHANGED <<stage, grants, created, active, released, approval, windows>>

\* expire: only a row that is still pending, and then it is read again.
Expire(k) == IF approval[k].status = "pending"
             THEN [approval EXCEPT ![k] = [status |-> "expired", left |-> 0]] ELSE approval

\* One round of wait, which reads the row and, past a deadline, expires it: a
\* human may decide between the two.
TimeIsUp_Past(a) == approval[agent[a].key].left < 0 \/ agent[a].left < 0
TimeIsUp(a) == approval[agent[a].key].left = 0 \/ agent[a].left = 0

Poll(a) ==
  /\ agent[a].at = "waiting"
  /\ approval[agent[a].key].status # "pending"
  /\ agent' = IF approval[agent[a].key].status = "approved"
              THEN [agent EXCEPT ![a].at = "working", ![a].left = 0]
              ELSE [agent EXCEPT ![a].at = "thinking", ![a].key = Plain, ![a].left = 0]
  /\ UNCHANGED <<stage, grants, created, active, released, approval, windows>>

GiveUp(a) ==
  /\ agent[a].at = "waiting"
  /\ TimeIsUp(a)
  /\ approval' = Expire(agent[a].key)
  /\ agent' = IF approval'[agent[a].key].status = "approved"
              THEN [agent EXCEPT ![a].at = "working", ![a].left = 0]
              ELSE [agent EXCEPT ![a].at = "thinking", ![a].key = Plain, ![a].left = 0]
  /\ UNCHANGED <<stage, grants, created, active, released, windows>>

ToolReturns(a) ==
  /\ agent[a].at = "working"
  /\ agent' = [agent EXCEPT ![a].at = "thinking", ![a].key = Plain]
  /\ UNCHANGED <<stage, grants, created, active, released, approval, windows>>

------------------------------------------------------------------------------
(* The human and the clock. *)

Decide(k) ==
  /\ approval[k].status = "pending"
  /\ \E s \in {"approved", "denied"} :
       approval' = [approval EXCEPT ![k] = [status |-> IF approval[k].left = 0 THEN "expired" ELSE s,
                                            left |-> 0]]
  /\ UNCHANGED <<stage, grants, agent, created, active, released, windows>>

Down(n) == IF n > 0 THEN n - 1 ELSE 0

Tick ==
  /\ agent' = [a \in Agent |-> [agent[a] EXCEPT !.left = Down(@)]]
  /\ approval' = [k \in Key |-> [approval[k] EXCEPT !.left = Down(@)]]
  /\ grants' = [s \in Slot |-> [i \in DOMAIN grants[s] |-> [grants[s][i] EXCEPT !.left = Down(@)]]]
  /\ <<agent', approval', grants'>> # <<agent, approval, grants>>
  /\ UNCHANGED <<stage, created, active, released, windows>>

------------------------------------------------------------------------------
\* A plan that passed its reviews has one grant for each subtask.
Init ==
  /\ stage = [s \in Slot |-> "out"]
  /\ grants = [s \in Slot |-> <<Fresh>>]
  /\ agent = [a \in Agent |-> NoAgent]
  /\ created = 0
  /\ active = {}
  /\ released = {}
  /\ approval = [k \in Key |-> NoApproval]
  /\ windows = 0

Batch    == CloseWindow \/ \E b \in SUBSET Slot \ {{}} : OpenWindow(b)
Subtasks == \E s \in Slot : StartSubtask(s) \/ EndSubtask(s) \/ CreateSubagent(s)
Use(a)   == \/ ExecuteSubagent(a) \/ EndExecution(a) \/ CutOff(a)
            \/ \E k \in Key \cup {Plain} : Call(a, k)
            \/ Notified(a) \/ Poll(a) \/ GiveUp(a) \/ ToolReturns(a)

Next == Batch \/ Subtasks \/ (\E a \in Agent : Use(a)) \/ (\E k \in Key : Decide(k)) \/ Tick

Spec == Init /\ [][Next]_vars

\* The notification has its own timeouts, wait polls, and time passes.
Fairness == /\ WF_vars(Tick)
            /\ \A a \in Agent : WF_vars(Notified(a)) /\ WF_vars(Poll(a) \/ GiveUp(a))

FairSpec == Spec /\ Fairness

------------------------------------------------------------------------------
(* Properties. *)

Grant == [left : Nat, revoked : BOOLEAN]
AgentState == [slot : Slot \cup {"none"}, grant : Nat, attempts : Nat, at : At,
               key : Key \cup {Plain}, left : Nat, calls : Nat]
ApprovalState == [status : {"none", "pending", "approved", "denied", "expired"}, left : Nat]

TypeOK ==
  /\ stage \in [Slot -> {"out", "pending", "running", "done"}]
  /\ grants \in [Slot -> Seq(Grant)]
  /\ agent \in [Agent -> AgentState]
  /\ created \in 0..MaxCreated
  /\ active \subseteq Slot \cup Agent
  /\ released \subseteq Agent
  /\ approval \in [Key -> ApprovalState]
  /\ windows \in Nat

\* A risky tool works only on an approval that stands, whichever of several
\* waiting calls, the human and the expiry came first (wait, expire, decide).
WorksOnApproval ==
  \A a \in Agent : agent[a].at = "working" /\ agent[a].key \in Key
                     => approval[agent[a].key].status = "approved"

\* A revoked credential stays dead: an agent made in an earlier window gets no
\* tool to work, although its slot has been given a new grant since.
NoWorkOnRevoked ==
  \A a \in Agent : agent[a].at \in Calling => ~grants[agent[a].slot][agent[a].grant].revoked

\* No call waits for ever for a human who does not answer.
Answered == \A a \in Agent : agent[a].at \in Waiting ~> agent[a].at \notin Waiting

\* An agent that is reported as released holds no place in the registry.
ReleasedHoldsNoSlot == released \cap active = {}

\* Between the batches no grant lingers of a subtask that has been executed:
\* the batch's end takes back what the batch was given.
GrantsEndWithWindow ==
  windows > 0 /\ ~InWindow =>
    \A s \in Slot : (\E i \in DOMAIN grants[s] : grants[s][i].revoked)
                      => \A i \in DOMAIN grants[s] : ~Live(grants[s][i])
==============================================================================
