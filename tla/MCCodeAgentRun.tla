---------------------------- MODULE MCCodeAgentRun ----------------------------
(***************************************************************************)
(* CodeAgentRun in two scenes: a few calls on a sandbox that changes, and   *)
(* long histories on one that does not.                                     *)
(***************************************************************************)
EXTENDS CodeAgentRun

CONSTANTS x, y, script

CONSTANT MaxCalls   \* bound: calls of a run in the first scene

VARIABLE scene

Nothing == [tool |-> "read", from |-> 1, max |-> 0, force |-> FALSE,
            text |-> <<>>, append |-> FALSE, code |-> script]

Read(from, max) == [Nothing EXCEPT !.from = from, !.max = max]

Run == [Nothing EXCEPT !.tool = "run"]
Append2 == [Nothing EXCEPT !.tool = "write", !.text = <<y>>, !.append = TRUE]

\* y is cut, and too long for an output; cut, and for every output short enough;
\* only too long for an output.
Limits == {[lines |-> 1, chars |-> 3, output |-> 3], [lines |-> 0, chars |-> 3, output |-> 0],
           [lines |-> 0, chars |-> 0, output |-> 4]}
Widths == [t \in Text |-> IF t = x THEN 1 ELSE 3]

Calls == {Read(1, 1), Read(1, 0), Read(2, 0), [Nothing EXCEPT !.force = TRUE], Run, Append2,
          [Nothing EXCEPT !.tool = "write", !.text = <<x>>],
          [Nothing EXCEPT !.tool = "both", !.text = <<x>>]}

MCInit == RunInit /\ scene \in {"changes", "history"}

MCNext ==
  /\ RunNext
  /\ scene' = scene
  /\ run'.number = 2 => run'.ids <= MaxCalls
  /\ IF scene = "changes"
     THEN run'.number = 1 /\ run'.ids <= MaxCalls /\ \A i \in DOMAIN source' : source'[i].kind # "message"
     ELSE /\ UNCHANGED world /\ file # <<>> /\ run.reads.output = 3
          /\ \A i \in DOMAIN turn' :
               turn'[i].want \in {Read(1, 1), Run} /\ turn'[i].told # "error"

MCSpec == MCInit /\ [][MCNext]_<<runVars, scene>>
===============================================================================
