------------------------------ MODULE AgentStream ------------------------------
(***************************************************************************)
(* One streamed run of an agent under watch (run_agent_streamed): the phase *)
(* it is in, the tools that have been started without an output, the window *)
(* of silence each phase allows, the optional total budget, the reports to  *)
(* the pipeline's watchdog, and the cards the web page makes of the tool    *)
(* events.  What the SDK, the model and the tools do is a choice: a tool    *)
(* may answer, raise, or end without an output.                             *)
(***************************************************************************)
EXTENDS Naturals, Sequences, SequencesExt, FiniteSets, FiniteSetsExt

CONSTANTS ToolCall,    \* tool calls the run may make
          Tool, ToolOf,\* tool names, and the tool of each call
          Profile,     \* the timeout profile of each tool
          Settings,    \* timeouts in effect: [first, model, standard, subagent, code,
                       \*   sandbox, total]; 0 = none
          Unnamed,     \* sets of calls whose items may come without call_id and name
          Interval,    \* activity_interval
          MaxSilence,  \* bound: silence is told apart up to here
          MaxEvents,   \* bound: events of the run that are not about tools
          NoId         \* an item without a call_id

ASSUME StreamAssumption ==
  /\ ToolOf \in [ToolCall -> Tool]
  /\ Profile \in [Tool -> {"standard", "subagent", "code_agent", "sandbox"}]
  /\ Settings \subseteq [first : Nat, model : Nat, standard : Nat, subagent : Nat,
                          code : Nat, sandbox : Nat, total : Nat]
  /\ Unnamed \subseteq SUBSET ToolCall
  /\ Interval \in Nat /\ MaxSilence \in Nat /\ MaxEvents \in Nat
  /\ NoId \notin ToolCall

VARIABLES
  set,       \* the timeouts in effect
  unnamed,   \* the calls whose items carry neither call_id nor, at their end, a name
  at,        \* "open", "closing", or how the run ended: "returned", "timeout", "cancelled", "error"
  phase,     \* "first_event", "model" or "tool_execution"
  pending,   \* pending_tools: [id, tool, window], in the order they were started
  silent,    \* time since the last event
  elapsed,   \* time since the start, when there is a total budget
  heard,     \* time since activity_hook was called last
  events,    \* events so far that are not about tools
  started, running, sdk,  \* the SDK: calls made, calls at work, and whether it asks or works
  cards      \* the page's records of tool calls: [id, tool, status]

streamVars == <<set, unnamed, at, phase, pending, silent, elapsed, heard, events,
          started, running, sdk, cards>>

Over == {"returned", "timeout", "cancelled", "error"}

---------------------------------------------------------------------------
(* Windows *)

\* make_tool_timeout_resolver: in the sandbox the longer of two limits holds,
\* and none at all if either is switched off.
Window(tool) ==
  CASE Profile[tool] = "code_agent" -> set.code
    [] Profile[tool] = "subagent"   -> set.subagent
    [] Profile[tool] = "sandbox"    -> IF 0 \in {set.standard, set.sandbox} THEN 0
                                       ELSE Max({set.standard, set.sandbox})
    [] Profile[tool] = "standard"   -> set.standard

Unlimited(p) == p.window = 0

\* The largest window any pending tool needs; none at all if one needs none.
ToolPhaseWindow ==
  IF \E i \in DOMAIN pending : Unlimited(pending[i])
  THEN 0
  ELSE Max({pending[i].window : i \in DOMAIN pending})

PhaseWindow ==
  CASE phase = "first_event"    -> set.first
    [] phase = "model"          -> set.model
    [] phase = "tool_execution" -> ToolPhaseWindow

\* The wait for the next event ends at the first of the two.
IdleDue  == PhaseWindow > 0 /\ silent >= PhaseWindow
TotalDue_WithWindow == PhaseWindow > 0 /\ set.total > 0 /\ elapsed >= set.total
TotalDue == set.total > 0 /\ elapsed >= set.total

---------------------------------------------------------------------------
(* The page: an end is matched with the last start of its call_id and name, *)
(* then by call_id among the cards still running; an end without a start    *)
(* makes a card of its own.                                                 *)

CardStarted(cs, id, tool) == Append(cs, [id |-> id, tool |-> tool, status |-> "running"])

CardEnded(cs, id, tool, status) ==
  LET keyed  == SelectLastInSeq(cs, LAMBDA k : k.id = id /\ k.tool = tool)
      sameId == SelectLastInSeq(cs, LAMBDA k : k.id = id /\ k.status = "running")
      open   == IF keyed > 0 /\ cs[keyed].status = "running" THEN keyed
                ELSE IF id # NoId THEN sameId ELSE 0
  IN IF open > 0 THEN [cs EXCEPT ![open].status = status]
     ELSE Append(cs, [id |-> id, tool |-> tool, status |-> status])

---------------------------------------------------------------------------
(* Pairing *)

IdOf(c) == IF c \in unnamed THEN NoId ELSE c

\* The pending call an output settles: the one with its call_id, or else the
\* one with the smallest window, for a long one must not lose its window early.
Smaller(p, q) == IF Unlimited(p) = Unlimited(q) THEN p.window < q.window ELSE Unlimited(q)
Settled_Oldest(id) ==
  LET exact == {i \in DOMAIN pending : id # NoId /\ pending[i].id = id}
  IN IF exact # {} THEN Min(exact) ELSE 1
Settled(id) ==
  LET exact == {i \in DOMAIN pending : id # NoId /\ pending[i].id = id}
      least == {i \in DOMAIN pending :
                 \A j \in DOMAIN pending : ~ Smaller(pending[j], pending[i])}
  IN IF exact # {} THEN Min(exact) ELSE Min(least)

\* _finalize_pending_tools: what is still pending failed, one after another.
\* (The set of one has TLC evaluate each step once.)
Finalized ==
  LET after[n \in 0..Len(pending)] ==
        IF n = 0 THEN cards
        ELSE CHOOSE next \in {CardEnded(k, pending[n].id, pending[n].tool, "failed") :
                                k \in {after[n - 1]}} : TRUE
  IN  after

CardsFinal == Finalized[Len(pending)]

---------------------------------------------------------------------------
(* Events *)

\* activity_hook is called at most once in an interval.
Activity == heard' = IF heard >= Interval THEN 0 ELSE heard

\* An event has come while the wait had not run out.
Received ==
  /\ at = "open" /\ ~ TotalDue
  /\ silent' = 0
  /\ Activity

\* A chunk of the model's answer: the tools before it are over.
ModelChunk ==
  /\ Received /\ running = {} /\ events < MaxEvents
  /\ phase' = "model" /\ pending' = <<>> /\ cards' = CardsFinal
  /\ events' = events + 1 /\ sdk' = "asks"
  /\ UNCHANGED <<set, unnamed, at, elapsed, started, running>>

\* Any other event counts as activity and ends the wait for the first one.
OtherEvent ==
  /\ Received /\ events < MaxEvents
  /\ phase' = IF phase = "first_event" THEN "model" ELSE phase
  /\ events' = events + 1
  /\ UNCHANGED <<set, unnamed, at, pending, elapsed, started, running, sdk, cards>>

ToolCalled(c) ==
  /\ Received /\ c \notin started /\ sdk = "asks"
  /\ pending' = Append(pending,
                  [id |-> IdOf(c), tool |-> ToolOf[c], window |-> Window(ToolOf[c])])
  /\ cards' = CardStarted(cards, IdOf(c), ToolOf[c])
  /\ phase' = "tool_execution"
  /\ started' = started \cup {c} /\ running' = running \cup {c}
  /\ UNCHANGED <<set, unnamed, at, elapsed, events, sdk>>

\* _extract_tool_output: a tool has failed only if a JSON object says so.
Says == {"success", "no success", "error status", "nothing of it"}
OutcomeOf(says) == IF says \in {"no success", "error status"} THEN "failed" ELSE "completed"

\* _log_tool_end, under the call_id of the output and the name of its start.
LogToolEnd(c, i, says) == cards' = CardEnded(cards, IdOf(c), pending[i].tool, OutcomeOf(says))

ToolOutput(c) ==
  /\ Received /\ c \in running
  /\ LET i == Settled(IdOf(c))
     IN /\ \E says \in Says : LogToolEnd(c, i, says)
        /\ pending' = RemoveAt(pending, i)
  /\ phase' = IF pending' = <<>> THEN "model" ELSE "tool_execution"
  /\ running' = running \ {c} /\ sdk' = "works"
  /\ UNCHANGED <<set, unnamed, at, elapsed, events, started>>

\* A tool ends and the SDK emits no output for it.
OutputLost(c) ==
  /\ at = "open" /\ c \in running
  /\ running' = running \ {c} /\ sdk' = "works"
  /\ UNCHANGED <<set, unnamed, at, phase, pending, silent, elapsed, heard, events, started, cards>>

---------------------------------------------------------------------------
(* Ends: every way out passes the finally block, which settles what is pending. *)

Ends_Quietly(how) ==
  /\ at' = how
  /\ cards' = IF how = "error" THEN cards ELSE CardsFinal
  /\ pending' = <<>>
  /\ UNCHANGED <<set, unnamed, phase, silent, elapsed, heard, events, started, running, sdk>>
Ends(how) ==
  /\ at' = how
  /\ cards' = CardsFinal
  /\ pending' = <<>>
  /\ UNCHANGED <<set, unnamed, phase, silent, elapsed, heard, events, started, running, sdk>>

Finish == at = "open" /\ running = {} /\ Ends("returned")
\* A tool, the model or the limit of turns raises.
Fails  == at = "open" /\ Ends("error")
\* The caller is cancelled, while it waits or while the stream is closed.
Cancel == at \in {"open", "closing"} /\ Ends("cancelled")

\* streamed.cancel(), then up to the grace period for the iterator to close.
CutShort == /\ at = "open" /\ (IdleDue \/ TotalDue) /\ at' = "closing"
            /\ UNCHANGED <<set, unnamed, phase, pending, silent, elapsed, heard, events,
                           started, running, sdk, cards>>
Closed == at = "closing" /\ Ends("timeout")

\* Time passes while nothing is due.
StreamTick ==
  /\ at = "open" /\ ~ IdleDue /\ ~ TotalDue
  /\ silent' = Min({silent + 1, MaxSilence})
  /\ heard' = Min({heard + 1, MaxSilence + Interval})
  /\ elapsed' = Min({elapsed + 1, set.total})
  /\ UNCHANGED <<set, unnamed, at, phase, pending, events, started, running, sdk, cards>>

---------------------------------------------------------------------------
StreamInit ==
  /\ set \in Settings /\ unnamed \in Unnamed
  /\ at = "open" /\ phase = "first_event" /\ pending = <<>>
  /\ silent = 0 /\ elapsed = 0 /\ heard = Interval /\ events = 0
  /\ started = {} /\ running = {} /\ sdk = "asks" /\ cards = <<>>

StreamStep ==
  \/ ModelChunk \/ OtherEvent \/ Finish \/ Fails \/ Cancel \/ CutShort \/ Closed \/ StreamTick
  \/ \E c \in ToolCall : ToolCalled(c) \/ ToolOutput(c) \/ OutputLost(c)

\* The clock runs, a due cut is made, and closing ends within its grace.
StreamSpec ==
  /\ StreamInit /\ [][StreamStep]_streamVars
  /\ WF_streamVars(StreamTick) /\ WF_streamVars(CutShort) /\ WF_streamVars(Closed)

---------------------------------------------------------------------------
(* Properties *)

\* While a tool is at work its run is cut for silence only when the silence has
\* lasted as long as that tool may take, whichever of the pending entries the
\* outputs before it were taken for (_tool_phase_window, _settle_tool_call).
NoToolCutEarly ==
  at = "closing" /\ ~ TotalDue =>
    \A c \in running : LET w == Window(ToolOf[c]) IN w > 0 /\ silent >= w

\* Once the run is over no card of it is running, and each call has one card,
\* however it ended (_finalize_pending_tools: at most one terminal event, never
\* left running); for runs whose items carry their call_id.
EveryCallSettledOnce ==
  at \in Over /\ unnamed = {} =>
    /\ \A i \in DOMAIN cards : cards[i].status # "running"
    /\ Len(cards) = Cardinality(started)

\* With a window for every phase or a total budget, a run whose stream stays
\* silent ends; only one without either may wait for ever.
Watched ==
  set.total > 0 \/ (set.first > 0 /\ set.model > 0 /\ \A t \in Tool : Window(t) > 0)
SilenceEnds == Watched => <>(at \in Over)
===============================================================================
