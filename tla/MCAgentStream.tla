----------------------------- MODULE MCAgentStream -----------------------------
(* Two calls of one tool and one of a longer one, without and with windows.  *)
EXTENDS AgentStream, TLC

CONSTANTS c1, c2, c3, plain, long

Tools == c1 :> plain @@ c2 :> plain @@ c3 :> long

Timed == plain :> "standard" @@ long :> "sandbox"

\* The longer tool has a window of its own, none since a limit is switched off,
\* and none beside a total budget.
Timeouts ==
  LET none == [first |-> 0, model |-> 0, standard |-> 1, subagent |-> 0, code |-> 0,
               sandbox |-> 0, total |-> 0]
  IN  {[none EXCEPT !.first = 2, !.model = 1, !.sandbox = 3],
       [none EXCEPT !.first = 1, !.model = 1, !.standard = 2],
       [none EXCEPT !.total = 4]}
===============================================================================
