------------------------------ MODULE CodeAgentRun ------------------------------
(***************************************************************************)
(* A call of the code agent: its turns with the model, the tools it uses on *)
(* the sandbox, the ledgers that keep it from reading and running the same  *)
(* thing twice, the folding of its history, and the extension of its turns. *)
(* tool_packages/code_agent/agent.py, mcp/adapter.py,                       *)
(* runtime/context_pruner.py.                                               *)
(*                                                                          *)
(* The tool calls of a turn run concurrently; other subtasks write to the   *)
(* same sandbox.  A run is one call with one payload; a later run is the    *)
(* retry of the subtask with the same payload.                              *)
(***************************************************************************)
EXTENDS ContextCompaction, FiniteSets

CONSTANTS
  Text,           \* lines of text
  Width,          \* the characters of each
  CutNote,        \* the characters that mark a line as cut
  ReadLimits,     \* settings: code_agent_read_max_lines, code_agent_read_max_chars and
                  \* tool_output_max_chars (0: no limit), one of them for all runs
  Code,           \* scripts, with the task_id they are run under
  Wanted,         \* bound: what the model may call
  MaxPerTurn,     \* bound: calls in a turn
  MaxTurns,       \* max_turns of the handler
  ExtensionMax,   \* code_agent_turn_extension_max
  ExtensionTurns, \* code_agent_turn_extension_budget
  MaxRuns,        \* bound: runs with this payload
  MaxEdits,       \* bound: changes of the workspace
  MaxLines        \* bound: lines of the file

\* What may be called: the tool, and the arguments it looks at.
Wishes == [tool : {"read", "write", "both", "run"}, from : Nat, max : Nat, force : BOOLEAN,
           text : Seq(Text), append : BOOLEAN, code : Code]

ASSUME CodeAgentAssumption ==
  /\ Wanted \subseteq Wishes
  /\ Width \in [Text -> Nat] /\ CutNote \in Nat \ {0}
  /\ ReadLimits \subseteq [lines : Nat, chars : Nat, output : Nat]
  /\ MaxPerTurn \in Nat \ {0} /\ MaxTurns \in Nat \ {0}
  /\ ExtensionMax \in Nat /\ ExtensionTurns \in Nat \ {0}
  /\ MaxRuns \in Nat /\ MaxEdits \in Nat /\ MaxLines \in Nat

VARIABLES
  file,     \* the lines of a file of the sandbox, <<>> while it does not exist
  edits,    \* changes of the workspace: what its fingerprint tells apart
  run,      \* the run
  ledger,   \* _READ_LEDGER and _ACTION_LEDGER of the run
  turn,     \* the tool calls of this turn
  source,   \* the history of the run
  comp,     \* CompactState of each first item
  sent,     \* what the model was sent last
  given,    \* history: what the run has been told of the file
  ended     \* history: the fingerprint after the last execution in the run

runVars == <<file, edits, run, ledger, turn, source, comp, sent, given, ended>>
world == <<file, edits>>
context == <<source, comp, sent>>
past == <<given, ended>>

NoReads  == [digest |-> <<>>, lines |-> {}]
NoAction == [mark |-> -1, repeats |-> 0]
NoLedger == [reads |-> NoReads, actions |-> [c \in Code |-> NoAction]]

\* The first item is the payload, or the payload with a note to go on.
Task(noted) == Item("task", 0, 0, IF noted THEN "noted" ELSE "none")
Note == Item("note", 0, 0, "none")

Done(i) == turn[i].at = "done"

------------------------------------------------------------------------------
(* The handler: agent_to_mcp_server. *)

\* The input is built, and the decorator resets both ledgers.
StartRun ==
  /\ run.phase = "ended"
  /\ run.number < MaxRuns
  /\ run' = [number |-> run.number + 1, phase |-> "model", turns |-> 0, limit |-> MaxTurns,
             extensions |-> 0, successes |-> 0, ids |-> 0, reads |-> run.reads]
  /\ source' = <<Task(FALSE)>>
  /\ ledger' = NoLedger
  /\ given' = {} /\ ended' = [c \in Code |-> -1] /\ sent' = <<>>
  /\ UNCHANGED <<world, turn, comp>>

Ask == Compacted(comp[Head(source)], source)

Asked == /\ sent' = Ask.sent
         /\ comp' = [comp EXCEPT ![Head(source)] = Ask.state]

\* The model answers with calls, and perhaps a message before them.
ModelCalls ==
  /\ run.phase = "model" /\ run.turns < run.limit
  /\ Asked
  /\ \E n \in 1..MaxPerTurn, speaks \in BOOLEAN : \E wanted \in [1..n -> Wanted] :
       /\ turn' = [i \in 1..n |-> [want |-> wanted[i], at |-> "called", told |-> "nothing",
                                    window |-> {}]]
       /\ source' = source
            \o (IF speaks THEN <<Item("message", run.number, 0, "none")>> ELSE <<>>)
            \o [i \in 1..n |-> Item("call", run.number, run.ids + i, wanted[i].tool)]
       /\ run' = [run EXCEPT !.phase = "tools", !.turns = @ + 1, !.ids = @ + n]
  /\ UNCHANGED <<world, ledger, past>>

ModelAnswers ==
  /\ run.phase = "model" /\ run.turns < run.limit
  /\ Asked
  /\ run' = [run EXCEPT !.phase = "ended"]
  /\ UNCHANGED <<world, ledger, turn, source, past>>

\* All outputs are appended in the order of the calls.
TurnEnds ==
  /\ run.phase = "tools"
  /\ \A i \in DOMAIN turn : Done(i)
  /\ source' = source \o [i \in DOMAIN turn |->
                            Item("output", run.number, run.ids - Len(turn) + i,
                                 turn[i].want.tool)]
  /\ run' = [run EXCEPT !.phase = "model",
                        !.successes = @ + Cardinality({i \in DOMAIN turn : turn[i].told # "error"})]
  /\ turn' = <<>>
  /\ UNCHANGED <<world, ledger, comp, sent, past>>

Extended == run.extensions < ExtensionMax /\ run.successes > 0

ExtendTurns ==
  /\ run.phase = "model" /\ run.turns = run.limit /\ Extended
  /\ run' = [run EXCEPT !.extensions = @ + 1, !.limit = @ + ExtensionTurns, !.turns = 0]
  /\ \/ /\ source' = Append(source, Note)
        /\ UNCHANGED <<ledger, sent, past>>
     \/ /\ source' = <<Task(TRUE)>>
        /\ ledger' = NoLedger
        /\ given' = {} /\ ended' = [c \in Code |-> -1] /\ sent' = <<>>
  /\ UNCHANGED <<world, turn, comp>>

TurnsExceeded ==
  /\ run.phase = "model" /\ run.turns = run.limit /\ ~Extended
  /\ run' = [run EXCEPT !.phase = "ended"]
  /\ UNCHANGED <<world, ledger, turn, context, past>>

\* A timeout, a failure of the model or a cancellation ends the run anywhere.
RunCutOff ==
  /\ run.phase \in {"model", "tools"}
  /\ run' = [run EXCEPT !.phase = "ended"]
  /\ turn' = <<>>
  /\ UNCHANGED <<world, ledger, context, past>>

------------------------------------------------------------------------------
(* The tools. *)

Returned(i, told, window) ==
  turn' = [turn EXCEPT ![i].at = "done", ![i].told = told, ![i].window = window]

Changed(lines) == file' = lines /\ edits' = edits + 1

EndsWith(lines, tail) ==
  Len(tail) <= Len(lines) /\ SubSeq(lines, Len(lines) - Len(tail) + 1, Len(lines)) = tail

\* A line is cut when it alone is too long for a read.
TooLong(text) == run.reads.chars > 0 /\ Width[text] + 1 > run.reads.chars

\* What lines use up of the limit of a read.
Used(lines) == MapThenSumSet(LAMBDA l : Width[file[l]] + 1, lines)

\* The lines of _read_window: up to the number wanted or set, and as long as they
\* fit in the limit; the first is there in any case.
WindowOf(want) ==
  LET max == IF want.max > 0 THEN want.max ELSE run.reads.lines
  IN  {l \in DOMAIN file :
         /\ l >= want.from /\ (max > 0 => l < want.from + max)
         /\ \/ l = want.from \/ run.reads.chars = 0
            \/ Used({k \in DOMAIN file : want.from <= k /\ k <= l}) <= run.reads.chars}

\* The text of a window: a line that is cut has it for itself.
Length(lines) ==
  IF \E l \in lines : TooLong(file[l]) THEN run.reads.chars + CutNote
  ELSE IF lines = {} THEN 0 ELSE Used(lines) - 1

\* Not shortened by the limit of every output.
Recordable(lines) == run.reads.output = 0 \/ Length(lines) <= run.reads.output

\* Of a file that has changed nothing has been read.
ReadEntry_Stale == ledger.reads
ReadEntry == IF ledger.reads.digest = file THEN ledger.reads ELSE [digest |-> file, lines |-> {}]

ReadFile(i) ==
  /\ turn[i].at = "called" /\ turn[i].want.tool = "read"
  /\ LET want  == turn[i].want
         lines == WindowOf(want)
         noted == ~want.force /\ Recordable(lines) /\ lines # {}
     IN  IF file = <<>>
         THEN Returned(i, "error", {}) /\ UNCHANGED <<ledger, given>>
         ELSE IF noted /\ lines \subseteq ReadEntry.lines
         THEN /\ Returned(i, "unchanged", {<<file, l>> : l \in lines})
              /\ ledger' = [ledger EXCEPT !.reads = ReadEntry]
              /\ UNCHANGED given
         ELSE /\ Returned(i, "content", {})
              /\ ledger' = IF noted
                           THEN [ledger EXCEPT !.reads = [ReadEntry EXCEPT !.lines = @ \cup lines]]
                           ELSE ledger
              /\ given' = IF Recordable(lines) THEN given \cup {<<file, l>> : l \in lines} ELSE given
  /\ UNCHANGED <<world, run, context, ended>>

\* The scope or the syntax check refuses; or the file says it already.
WriteFile(i) ==
  /\ turn[i].at = "called" /\ turn[i].want.tool = "write"
  /\ LET want == turn[i].want
         new  == IF want.append THEN file \o want.text ELSE want.text
         same == IF want.append THEN EndsWith(file, want.text) ELSE file = want.text
     IN  \/ Returned(i, "error", {}) /\ UNCHANGED world
         \/ /\ same
            /\ Returned(i, "unwritten", {}) /\ UNCHANGED world
         \/ /\ ~same /\ edits < MaxEdits /\ Len(new) <= MaxLines
            /\ Returned(i, "written", {}) /\ Changed(new)
  /\ UNCHANGED <<run, ledger, context, past>>

\* write_and_run, after the approval: it writes whatever the file says, and what
\* it runs is not in the ledger.
WriteAndRun(i) ==
  /\ turn[i].at = "called" /\ turn[i].want.tool = "both"
  /\ \/ Returned(i, "error", {}) /\ UNCHANGED world
     \/ /\ edits < MaxEdits
        /\ Changed(turn[i].want.text)
        /\ turn' = [turn EXCEPT ![i].at = "running"]
  /\ UNCHANGED <<run, ledger, context, past>>

\* run_in_sandbox, after the approval.
Repeated(c) == ledger.actions[c].mark = edits

RunInSandbox(i) ==
  /\ turn[i].at = "called" /\ turn[i].want.tool = "run"
  /\ LET c == turn[i].want.code
     IN  \/ Returned(i, "error", {}) /\ UNCHANGED ledger      \* not approved
         \/ /\ Repeated(c) /\ ledger.actions[c].repeats >= 2
            /\ Returned(i, "error", {}) /\ UNCHANGED ledger
         \/ /\ Repeated(c) /\ ledger.actions[c].repeats < 2
            /\ ledger' = [ledger EXCEPT !.actions[c].repeats = @ + 1]
            /\ Returned(i, "replayed", {})
         \/ /\ ~Repeated(c)
            /\ turn' = [turn EXCEPT ![i].at = "running"]
            /\ UNCHANGED ledger
  /\ UNCHANGED <<world, run, context, past>>

\* The script ends, having changed the workspace or not; its place in the ledger
\* is marked with the fingerprint of the workspace afterwards.
Mark(c, now) == [mark |-> now, repeats |-> 1]

ExecutionEnds(i) ==
  /\ turn[i].at = "running"
  /\ \/ UNCHANGED world
     \/ edits < MaxEdits /\ edits' = edits + 1 /\ UNCHANGED file
  /\ LET c == turn[i].want.code
     IN  IF turn[i].want.tool = "run"
         THEN \/ /\ ledger' = [ledger EXCEPT !.actions[c] = Mark(c, edits')]
                 /\ ended' = [ended EXCEPT ![c] = edits']
                 /\ Returned(i, "executed", {})
              \/ Returned(i, "error", {}) /\ UNCHANGED <<ledger, ended>>   \* the sandbox refused
         ELSE /\ \E told \in {"executed", "error"} : Returned(i, told, {})
              /\ UNCHANGED <<ledger, ended>>
  /\ UNCHANGED <<run, context, given>>

\* Another subtask writes the file, or something else in the sandbox.
OthersWrite ==
  /\ edits < MaxEdits
  /\ \/ \E t \in Text : Changed(<<t>>)
     \/ edits' = edits + 1 /\ UNCHANGED file
  /\ UNCHANGED <<run, ledger, turn, context, past>>

------------------------------------------------------------------------------
RunInit ==
  /\ file \in {<<>>} \cup {<<t>> : t \in Text} /\ edits = 0
  /\ \E limits \in ReadLimits :
       run = [number |-> 0, phase |-> "ended", turns |-> 0, limit |-> MaxTurns,
              extensions |-> 0, successes |-> 0, ids |-> 0, reads |-> limits]
  /\ ledger = NoLedger
  /\ turn = <<>> /\ source = <<>> /\ sent = <<>>
  /\ comp = [first \in {Task(FALSE), Task(TRUE)} |-> NoState]
  /\ given = {} /\ ended = [c \in Code |-> -1]

UseOf(i) ==
  run.phase = "tools" /\ (\/ ReadFile(i) \/ WriteFile(i) \/ WriteAndRun(i)
                          \/ RunInSandbox(i) \/ ExecutionEnds(i))

Handler == ModelCalls \/ ModelAnswers \/ TurnEnds \/ ExtendTurns \/ TurnsExceeded

RunNext == StartRun \/ Handler \/ RunCutOff \/ OthersWrite \/ \E i \in DOMAIN turn : UseOf(i)

RunSpec == RunInit /\ [][RunNext]_runVars

------------------------------------------------------------------------------
(* Properties. *)

RunTypeOK ==
  /\ file \in Seq(Text) /\ edits \in Nat
  /\ run \in [number : Nat, phase : {"model", "tools", "ended"}, turns : Nat, limit : Nat,
             extensions : Nat, successes : Nat, ids : Nat, reads : ReadLimits]
  /\ ledger \in [reads : [digest : Seq(Text), lines : SUBSET Nat],
                 actions : [Code -> [mark : Int, repeats : Nat]]]
  /\ turn \in Seq([want : Wanted, at : {"called", "running", "done"},
                   told : {"nothing", "error", "unchanged", "content", "unwritten", "written",
                           "replayed", "executed"},
                   window : SUBSET (Seq(Text) \X Nat)])
  /\ given \subseteq Seq(Text) \X Nat
  /\ ended \in [Code -> Int]

\* The limit of every output is the narrower one, as the defaults have it: a line
\* that a read cuts is too long for an output as well.
OutputIsNarrower ==
  run.reads.chars > 0 => 0 < run.reads.output /\ run.reads.output < run.reads.chars + CutNote

\* A receipt instead of text is given only for lines that the model has been given
\* in this run, from the file as it is now, in an output that was not shortened:
\* not in another run, not before a change.  Where the limit of every output is the
\* narrower one, it has been given them in full; otherwise one of them may be a
\* line that the read itself cut.
ReceiptIsBacked ==
  \A i \in DOMAIN turn : turn[i].told = "unchanged" =>
    /\ turn[i].window \subseteq given
    /\ OutputIsNarrower => \A seen \in turn[i].window : ~TooLong(seen[1][seen[2]])

\* A receipt stands for lines that were given in full, whatever the limits.  Not true
\* of the code: a line that a read cuts counts as read, see the README, section 3.
ReceiptsInFull ==
  \A i \in DOMAIN turn : turn[i].told = "unchanged" =>
    \A seen \in turn[i].window : ~TooLong(seen[1][seen[2]])

\* What the model is sent is whole: it begins with the task, and every call has
\* one output after it and every output its call.
Paired ==
  LET Of(kind, id) == {j \in DOMAIN sent : sent[j].kind = kind /\ sent[j].id = id}
  IN  sent # <<>> =>
        /\ sent[1].kind = "task"
        /\ \A i \in DOMAIN sent :
             /\ sent[i].kind = "call" => Cardinality(Of("output", sent[i].id)) = 1
                                         /\ \A j \in Of("output", sent[i].id) : i < j
             /\ sent[i].kind = "output" => Cardinality(Of("call", sent[i].id)) = 1

\* Nothing of an earlier run with the same payload gets into a later one, although
\* both share the state of the folding.
OwnHistory == \A i \in DOMAIN sent : sent[i].run \in {0, run.number}

===============================================================================
