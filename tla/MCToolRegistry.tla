----------------------------- MODULE MCToolRegistry -----------------------------
(***************************************************************************)
(* Where an engine's tools come from, in four scenes.  Two tasks over the   *)
(* same registry.json, which are both after the same tool ("same"), or each *)
(* after one of its own ("own"), of which either may use both.  External    *)
(* servers: calls beside each other over one process ("exchange"), and a    *)
(* directory that changes around the refreshes of several tasks             *)
(* ("directory").                                                           *)
(***************************************************************************)
EXTENDS ToolRegistry, ExternalMcp, TLC

CONSTANTS p1, p2, good, odd,   \* tasks and sources
          local, remote,       \* servers, over a process and over HTTPS
          x, y,                \* their tools
          u, v                 \* calls

VARIABLE scene

Own == p1 :> 1 @@ p2 :> 2

\* A server whose tool has the name of a tool of the registry.
Taken == {<<remote, y>>}

MCInit ==
  /\ Init /\ McpInit /\ scene \in {"same", "own", "exchange", "directory"}
  /\ directory[local].there /\ ~ directory[remote].there /\ directory[remote].state = "ignored"
  /\ scene # "directory" => directory[local].state = "enabled"

Generated ==
  /\ Next /\ UNCHANGED mcpVars
  /\ CASE scene = "same" -> /\ \A p \in Task : flow'[p].tool = 1
                            /\ done'.uses + done'.admin <= 2
       [] scene = "own"  -> /\ \A t \in Tool : source'[t] # odd
                            /\ done'.uses + done'.admin <= 1
                            /\ \A p \in Task : flow'[p].pc # "idle" => flow'[p].tool = Own[p]

External ==
  /\ McpNext /\ UNCHANGED vars
  /\ CASE scene = "exchange"  -> /\ edits' = 0 /\ connection'[2].server = Nobody
                                 /\ \A n \in Name : registry'[n] = 0 \/ n[2] = x
       [] scene = "directory" -> /\ \A s \in Server : directory'[s].tools \in {ExternalTool, {y}}
                                 /\ \A c \in Child : /\ child'[c].noise = 0
                                                   /\ child'[c].state \in {"none", "alive"}
                                 /\ \A r \in Caller : request'[r].pc = "none"

MCNext ==
  /\ scene' = scene
  /\ \/ scene \in {"same", "own"} /\ Generated
     \/ scene \in {"exchange", "directory"} /\ External

MCSpec == MCInit /\ [][MCNext]_<<vars, mcpVars, scene>>
===============================================================================
