------------------------------- MODULE ExternalMcp -------------------------------
(***************************************************************************)
(* Tools of external MCP servers (mcp/directory.py, mcp/external.py): one   *)
(* engine that looks for them at the start of each task, connections with a *)
(* child process or over HTTPS, and calls of agents that work side by side, *)
(* which may time out or be cancelled at every await.                       *)
(***************************************************************************)
EXTENDS Integers, FiniteSets, Sequences

CONSTANTS Server, Stdio,     \* servers, and those of them with transport "stdio"
          ExternalTool,
          OwnName,           \* names the registry has from elsewhere
          Caller,            \* calls of tools by agents
          Nobody,
          MaxLines,          \* lines read for one answer (100)
          MaxConnections, MaxChildren, MaxEdits, MaxNoise   \* bounds

Name == Server \X ExternalTool
Connection == 1..MaxConnections
Child == 1..MaxChildren

\* A discovery is a request of its own, one per connection.
Request == Caller \cup Connection

ASSUME McpAssumption ==
  /\ Stdio \subseteq Server /\ OwnName \subseteq Name
  /\ Caller \cap Connection = {} /\ Nobody \notin Request \cup Server
  /\ MaxLines \in Nat \ {0}
  /\ {MaxConnections, MaxChildren, MaxEdits, MaxNoise} \subseteq Nat

\* What goes through a pipe: a request or its answer, or a line of neither.
Message == [of : Request, kind : {"initialize", "call"}]
Noise == [of |-> Nobody, kind |-> "noise"]

VARIABLES
  directory,   \* the manifests: [there, written, state, tools]
  edits,       \* changes of the directory
  manager,     \* MCPDirectoryManager and the task it works for
  registry,    \* external tools of the tool registry: connection per name, 0 = none
  connection,  \* ExternalMCPServer with its transport: [server, allowed, holder, child, greeted]
  child,       \* processes: [state, inbox, out, ready, early, noise]
  request      \* [pc, on, lines, got]

mcpVars == <<directory, edits, manager, registry, connection, child, request>>

\* A request's pc: "none", "waits" (for the lock), "spawning", "greeting" (for
\* the answer to initialize), "announcing" (notifications/initialized),
\* "reading", "posting" (HTTPS), "answered", "failed".
UnderLock == {"spawning", "greeting", "announcing", "reading"}
Busy(r) == request[r].pc \in UnderLock \cup {"waits", "posting"}
On(r) == request[r].on
ChildOf(r) == connection[On(r)].child

---------------------------------------------------------------------------
(* Requests over a child process *)

\* A request leaves the transport, and with it the lock.
Leaves(r, pc, got) ==
  /\ request' = [request EXCEPT ![r].pc = pc, ![r].got = got]
  /\ connection' = [connection EXCEPT ![On(r)].holder = IF @ = r THEN Nobody ELSE @]

Goes(r, pc) == request' = [request EXCEPT ![r].pc = pc, ![r].lines = 0]

\* The process with message m written to it; only a living one reads it.
Written(c, m) ==
  IF child[c].state # "alive" THEN child
  ELSE [child EXCEPT ![c].inbox = @ \cup {m},
                     ![c].early = @ \/ (m.kind = "call" /\ ~ child[c].ready)]

Calls(r)  == Goes(r, "reading") /\ child' = Written(ChildOf(r), [of |-> r, kind |-> "call"])
Greets(r) == Goes(r, "greeting") /\ child' = Written(ChildOf(r), [of |-> r, kind |-> "initialize"])

Runs(k) == connection[k].child # 0 /\ child[connection[k].child].state # "gone"

\* _ensure_process, up to the await of a new process.
Acquire(r) ==
  /\ request[r].pc = "waits" /\ connection[On(r)].holder = Nobody
  /\ connection' = [connection EXCEPT ![On(r)].holder = r]
  /\ \/ Runs(On(r)) /\ connection[On(r)].greeted /\ Calls(r)
     \/ Runs(On(r)) /\ ~ connection[On(r)].greeted /\ Greets(r)
     \/ ~ Runs(On(r)) /\ Goes(r, "spawning") /\ UNCHANGED child
  /\ UNCHANGED <<directory, edits, manager, registry>>

NewChild(c) == \A d \in Child : child[d].state = "none" => c <= d

Spawned_StillGreeted(r, c) ==
  /\ request[r].pc = "spawning" /\ child[c].state = "none" /\ NewChild(c)
  /\ connection' = [connection EXCEPT ![On(r)].child = c]
  /\ IF connection[On(r)].greeted
     THEN /\ Goes(r, "reading")
          /\ child' = [child EXCEPT ![c].state = "alive", ![c].early = TRUE,
                                    ![c].inbox = {[of |-> r, kind |-> "call"]}]
     ELSE /\ Goes(r, "greeting")
          /\ child' = [child EXCEPT ![c].state = "alive",
                                    ![c].inbox = {[of |-> r, kind |-> "initialize"]}]
  /\ UNCHANGED <<directory, edits, manager, registry>>
Spawned(r, c) ==
  /\ request[r].pc = "spawning" /\ child[c].state = "none" /\ NewChild(c)
  /\ connection' = [connection EXCEPT ![On(r)].child = c, ![On(r)].greeted = FALSE]
  /\ Goes(r, "greeting")
  /\ child' = [child EXCEPT ![c].state = "alive",
                            ![c].inbox = {[of |-> r, kind |-> "initialize"]}]
  /\ UNCHANGED <<directory, edits, manager, registry>>

\* The line request r reads next, and the one it waits for.
Line(r) == Head(child[ChildOf(r)].out)
HasLine(r) == request[r].pc \in {"greeting", "reading"} /\ child[ChildOf(r)].out # <<>>
Wanted(r) == [of |-> r, kind |-> IF request[r].pc = "greeting" THEN "initialize" ELSE "call"]
Matches_Any(r) == Line(r).kind = Wanted(r).kind
Matches(r) == Line(r) = Wanted(r)
RestOf(r) == [child EXCEPT ![ChildOf(r)].out = Tail(@)]

\* A line of another request, or of none, is skipped; one that is not JSON, or
\* one too many, is an error.
SkipLine(r) ==
  /\ HasLine(r) /\ ~ Matches(r) /\ child' = RestOf(r)
  /\ \/ /\ request[r].lines + 1 < MaxLines
        /\ request' = [request EXCEPT ![r].lines = @ + 1] /\ UNCHANGED connection
     \/ request[r].lines + 1 >= MaxLines /\ Leaves(r, "failed", Noise)
     \/ Line(r) = Noise /\ Leaves(r, "failed", Noise)
  /\ UNCHANGED <<directory, edits, manager, registry>>

\* initialize is answered: the notification is written, and its drain awaited;
\* or the answer is an error.
Greeted(r) ==
  /\ request[r].pc = "greeting" /\ HasLine(r) /\ Matches(r)
  /\ \/ /\ Goes(r, "announcing") /\ UNCHANGED connection
        /\ child' = [RestOf(r) EXCEPT ![ChildOf(r)].ready = TRUE]
     \/ Leaves(r, "failed", Noise) /\ child' = RestOf(r)
  /\ UNCHANGED <<directory, edits, manager, registry>>

Announced(r) ==
  /\ request[r].pc = "announcing"
  /\ connection' = [connection EXCEPT ![On(r)].greeted = TRUE]
  /\ Calls(r)
  /\ UNCHANGED <<directory, edits, manager, registry>>

Replied(r) ==
  /\ request[r].pc = "reading" /\ HasLine(r) /\ Matches(r)
  /\ Leaves(r, "answered", Line(r)) /\ child' = RestOf(r)
  /\ UNCHANGED <<directory, edits, manager, registry>>

\* A timeout, the end of the output, a broken pipe or a process that does not
\* start ends a request that has the lock; a cancellation ends any.
Breaks(r) ==
  /\ Busy(r) /\ request[r].pc # "posting" /\ Leaves(r, "failed", Noise)
  /\ UNCHANGED <<directory, edits, manager, registry, child>>

---------------------------------------------------------------------------
(* Requests over HTTPS *)

\* Whatever comes is compared with the request's id (_rpc); a late answer ends
\* with its thread.
HttpAnswers(r) ==
  /\ request[r].pc = "posting"
  /\ \E m \in {n \in Message : n.kind = "call"} :
       IF m.of = r THEN Leaves(r, "answered", m) ELSE Leaves(r, "failed", Noise)
  /\ UNCHANGED <<directory, edits, manager, registry, child>>

\* The credentials are missing, the host is not one that may be asked, the
\* connection fails, times out or brings too much, or the wait is cancelled.
HttpFails(r) ==
  /\ request[r].pc = "posting" /\ Leaves(r, "failed", Noise)
  /\ UNCHANGED <<directory, edits, manager, registry, child>>

Posted(s) == IF s \in Stdio THEN "waits" ELSE "posting"

---------------------------------------------------------------------------
(* The child process, and the event loop's knowledge of its end *)

Serves(c) ==
  /\ child[c].state = "alive"
  /\ \E m \in child[c].inbox :
       child' = [child EXCEPT ![c].inbox = @ \ {m}, ![c].out = Append(@, m)]
  /\ UNCHANGED <<directory, edits, manager, registry, connection, request>>

Chatters(c) ==
  /\ child[c].state = "alive" /\ child[c].noise < MaxNoise
  /\ child' = [child EXCEPT ![c].noise = @ + 1, ![c].out = Append(@, Noise)]
  /\ UNCHANGED <<directory, edits, manager, registry, connection, request>>

Exits(c) ==
  /\ \/ child[c].state = "alive" /\ child' = [child EXCEPT ![c].state = "dead", ![c].inbox = {}]
     \/ child[c].state = "dead" /\ child' = [child EXCEPT ![c].state = "gone"]
  /\ UNCHANGED <<directory, edits, manager, registry, connection, request>>

---------------------------------------------------------------------------
(* The directory of manifests, and its refresh at the start of a task *)

\* A manifest that has been moved away keeps what it says, and the time at which
\* it was written.
ManifestState == {"ignored", "enabled"}   \* invalid or disabled; enabled
ServerManifest == [there : BOOLEAN, written : Nat, state : ManifestState,
                   tools : SUBSET ExternalTool]

Enabled(m) == m.there /\ m.state = "enabled"

\* A manifest is written, or moved away or back.
Edit(s) ==
  /\ edits < MaxEdits /\ edits' = edits + 1
  /\ \/ directory' = [directory EXCEPT ![s].there = ~ @]
     \/ \E state \in ManifestState, tools \in SUBSET ExternalTool :
          directory' = [directory EXCEPT ![s] = [there |-> TRUE, written |-> edits',
                                                 state |-> state, tools |-> tools]]
  /\ UNCHANGED <<manager, registry, connection, child, request>>

\* What a signature tells apart; where no manifest is, the root may be missing
\* too, whose signature "" never counts as the known one.
Signature(d) == {<<s, d[s].written>> : s \in {t \in Server : d[t].there}}
NoSignature == {<<Nobody, 0>>}
directory_signature ==
  {Signature(directory)} \cup (IF Signature(directory) = {} THEN {NoSignature} ELSE {})

\* The registry with tools registered, and with tools taken back.
Registered(names, k) == [n \in Name |-> IF n \in names THEN k ELSE registry[n]]
Unregistered(names) == [n \in Name |-> IF n \in names THEN 0 ELSE registry[n]]

\* What has not changed is not looked at again.
BeginTask ==
  /\ manager.at = "idle"
  /\ \E signature \in directory_signature :
       manager' = IF signature = manager.signature /\ signature # NoSignature
                  THEN [manager EXCEPT !.at = "working"]
                  ELSE [manager EXCEPT !.at = "signed", !.taken = signature]
  /\ UNCHANGED <<directory, edits, registry, connection, child, request>>

\* The manifests are read, and the tools of the last refresh taken back.
Scan ==
  /\ manager.at = "signed"
  /\ manager' = [manager EXCEPT
       !.at = "listing", !.scanned = directory, !.found = {}, !.loaded = {},
       !.torn = manager.taken \notin directory_signature,
       !.todo = {s \in Server : Enabled(directory[s])}]
  /\ registry' = Unregistered(manager.loaded)
  /\ UNCHANGED <<directory, edits, connection, child, request>>

Unused(k) == connection[k].server = Nobody /\ \A j \in 1..(k - 1) : connection[j].server # Nobody

Connect(s, k) ==
  /\ manager.at = "listing" /\ manager.current = 0 /\ s \in manager.todo /\ Unused(k)
  /\ manager' = [manager EXCEPT !.current = k, !.todo = @ \ {s}]
  /\ connection' = [connection EXCEPT ![k].server = s, ![k].allowed = manager.scanned[s].tools]
  /\ request' = [request EXCEPT ![k].pc = Posted(s), ![k].on = k]
  /\ UNCHANGED <<directory, edits, registry, child>>

\* What a connection tells of the tools its server offers: those it is allowed.
list_tools(k, offered) == {connection[k].server} \X (offered \cap connection[k].allowed)

\* They are registered unless a tool of another origin has the name.
Listed(k) ==
  /\ manager.at = "listing" /\ manager.current = k /\ request[k].pc = "answered"
  /\ \E offered \in SUBSET ExternalTool :
       LET names == list_tools(k, offered) \ OwnName
       IN /\ registry' = Registered(names, k)
          /\ manager' = [manager EXCEPT !.current = 0, !.found = @ \cup names,
                                        !.loaded = @ \cup names]
  /\ UNCHANGED <<directory, edits, connection, child, request>>

\* The discovery failed, or was answered with an error or no list.
NotListed(k) ==
  /\ manager.at = "listing" /\ manager.current = k /\ request[k].pc \in {"failed", "answered"}
  /\ manager' = [manager EXCEPT !.current = 0]
  /\ UNCHANGED <<directory, edits, registry, connection, child, request>>

RefreshEnds(signature) ==
  /\ manager.at = "listing" /\ manager.current = 0 /\ manager.todo = {}
  /\ manager' = [manager EXCEPT !.at = "working", !.signature = signature,
                                !.report = manager.found, !.cut = FALSE]
  /\ UNCHANGED <<directory, edits, registry, connection, child, request>>
EndRefresh_SignsLate == RefreshEnds(Signature(directory))
EndRefresh == RefreshEnds(manager.taken)

\* A cancelled task ends at the await of a discovery too, and the discovery with it.
EndTask ==
  /\ manager.at = "working" \/ (manager.at = "listing" /\ manager.current # 0)
  /\ manager' = [manager EXCEPT !.at = "idle", !.current = 0,
                                !.cut = @ \/ manager.at = "listing"]
  /\ IF manager.current # 0 /\ Busy(manager.current)
     THEN Leaves(manager.current, "failed", Noise)
     ELSE UNCHANGED <<connection, request>>
  /\ UNCHANGED <<directory, edits, registry, child>>

\* An agent calls a tool over the connection it was registered with.
CallTool(r, n) ==
  /\ manager.at = "working" /\ r \in Caller /\ request[r].pc = "none" /\ registry[n] # 0
  /\ n[2] \in connection[registry[n]].allowed
  /\ request' = [request EXCEPT ![r].pc = Posted(n[1]), ![r].on = registry[n]]
  /\ UNCHANGED <<directory, edits, manager, registry, connection, child>>

---------------------------------------------------------------------------
McpInit ==
  /\ directory \in [Server -> {[there |-> there, written |-> 0, state |-> state,
                               tools |-> ExternalTool] :
                                 there \in BOOLEAN, state \in ManifestState}]
  /\ edits = 0
  /\ manager = [at |-> "idle", signature |-> NoSignature, taken |-> NoSignature,
                scanned |-> directory, todo |-> {}, current |-> 0, found |-> {},
                report |-> {}, loaded |-> {}, torn |-> FALSE, cut |-> FALSE]
  /\ registry = [n \in Name |-> 0]
  /\ connection = [k \in Connection |-> [server |-> Nobody, allowed |-> {}, holder |-> Nobody,
                                         child |-> 0, greeted |-> FALSE]]
  /\ child = [c \in Child |-> [state |-> "none", inbox |-> {}, out |-> <<>>, ready |-> FALSE,
                               early |-> FALSE, noise |-> 0]]
  /\ request = [r \in Request |-> [pc |-> "none", on |-> 0, lines |-> 0, got |-> Noise]]

Exchange(r) ==
  \/ Acquire(r) \/ SkipLine(r) \/ Greeted(r) \/ Announced(r) \/ Replied(r)
  \/ Breaks(r) \/ HttpAnswers(r) \/ HttpFails(r)
  \/ \E c \in Child : Spawned(r, c)
  \/ \E n \in Name : CallTool(r, n)

Refresh ==
  \/ BeginTask \/ Scan \/ EndRefresh \/ EndTask
  \/ \E k \in Connection : Listed(k) \/ NotListed(k) \/ \E s \in Server : Connect(s, k)

\* From the signature to the end of the scan the event loop runs nothing else.
McpNext ==
  \/ Refresh
  \/ \E s \in Server : Edit(s)
  \/ manager.at # "signed" /\ \E r \in Request : Exchange(r)
  \/ \E c \in Child : Serves(c) \/ Chatters(c) \/ Exits(c)

McpSpec == McpInit /\ [][McpNext]_mcpVars

---------------------------------------------------------------------------
(* Properties *)

\* A request is answered with its own answer, over late answers to requests
\* that were given up, other output of the process, and new processes.
AnswersMatch ==
  \A r \in Request : request[r].pc = "answered" => request[r].got = [of |-> r, kind |-> "call"]

\* No process gets a request before it was greeted, whichever greeting was cut
\* off and however often the process was started again.
InitializedFirst == \A c \in Child : ~ child[c].early

\* While a task works, the tools it has are those the last refresh reported, of
\* servers that were enabled; and a directory that counts as unchanged is as it was
\* read, if it was read as it was signed: over changes between the steps, servers
\* that are moved away and come back, and refreshes that were cancelled.  Only a
\* refresh that was cut off since, for another state of the directory, may have
\* taken tools back, when the directory is again as it was before.
AsReported ==
  /\ {n \in Name : registry[n] # 0} = manager.report
  /\ \A n \in manager.report : LET m == manager.scanned[n[1]]
                               IN Enabled(m) /\ n[2] \in m.tools
  /\ Signature(directory) = manager.signature /\ ~ manager.torn =>
       \A s \in Server : directory[s].there \/ manager.scanned[s].there =>
                          manager.scanned[s] = directory[s]

ToolsAsReported ==
  manager.at = "working" =>
    \/ ~ manager.cut /\ AsReported
    \/ manager.cut /\ manager.taken # manager.signature

\* A task has the tools that its refresh reports.  Not true of the code: see above.
ToolsStayReported ==
  manager.at = "working" => {n \in Name : registry[n] # 0} = manager.report

\* What an external server's tools rest on, from its manifest to an answer.
ExternalToolsSound == AnswersMatch /\ InitializedFirst /\ ToolsAsReported

\* A process lives only while a tool or a discovery may use it (aclose "closes
\* the child process and those it started").  Not true of the code: connections
\* that are replaced, or whose discovery failed, are never closed.
ChildrenInUse ==
  \A k \in Connection : Runs(k) /\ manager.at = "working" => \E n \in Name : registry[n] = k
=================================================================================
