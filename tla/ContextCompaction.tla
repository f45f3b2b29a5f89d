--------------------------- MODULE ContextCompaction ---------------------------
(***************************************************************************)
(* What the model of a code agent is sent: the history of the run, folded   *)
(* at a boundary when it has grown too large (compact_model_input of        *)
(* runtime/context_pruner.py).  Pure operators; an item is a record of what *)
(* the folding looks at, and sizes are in units of a receipt.               *)
(***************************************************************************)
EXTENDS Integers, Sequences, SequencesExt, FiniteSetsExt

CONSTANTS
  MaxChars,      \* code_agent_context_max_chars
  Target,        \* what a folding aims at (65 % of it)
  Hysteresis,    \* growth before the next folding (25 % of it)
  KeepOutputs    \* code_agent_context_keep_tool_outputs

ASSUME CompactionAssumption ==
  /\ MaxChars \in Nat \ {0} /\ Target \in 1..MaxChars /\ Hysteresis \in Nat \ {0}
  /\ KeepOutputs \in Nat

\* A run's task, a message of the model, a call, its output, or the summary.
Item(kind, run, id, tool) ==
  [kind |-> kind, run |-> run, id |-> id, tool |-> tool, receipt |-> FALSE]

Summary == Item("summary", 0, 0, "none")

Executes == {"run", "both"}
Bulky(x) == \/ x.kind = "call" /\ x.tool \in {"write", "run", "both"}
            \/ x.kind = "output"

Size(x) == IF Bulky(x) /\ ~x.receipt THEN 2 ELSE 1
SizeOf(items) == FoldSeq(LAMBDA x, n : Size(x) + n, 0, items)

CallsIn(items)   == {items[i].id : i \in {j \in DOMAIN items : items[j].kind = "call"}}
OutputsIn(items) == {items[i].id : i \in {j \in DOMAIN items : items[j].kind = "output"}}

\* The folded part, the items of the source it stands for, and the last of them.
NoState == [frozen |-> <<>>, count |-> 0, marker |-> Summary, times |-> 0, last |-> 0]

\* The state belongs to another run when its last item is not where it was.
Valid_Any(st, source) == TRUE
Valid(st, source) ==
  st.count > 0 => st.count <= Len(source) /\ source[st.count] = st.marker

\* Only appended to as long as nothing is folded.
Appended(st, source) == st.frozen \o SubSeq(source, st.count + 1, Len(source))

TooLarge(st, source) ==
  LET size == SizeOf(Appended(st, source))
  IN  size > MaxChars /\ (st.times > 0 => size >= st.last + Hysteresis)

\* _boundary_cut: before the outputs that are kept as they are, and before the
\* last execution when it is among those or just before them.
Cut(source, start) ==
  LET outputs == {i \in DOMAIN source : source[i].kind = "output"}
      keep    == Max({1, KeepOutputs})
      Recent(n) == {i \in outputs : Cardinality({j \in outputs : j > i}) < n}
      runs    == {i \in outputs : source[i].tool \in Executes}
      latest  == IF runs = {} THEN {} ELSE {Max(runs)}
      kept    == Recent(keep) \cup (latest \cap Recent(keep + 1))
  IN  IF outputs = {} THEN Len(source) ELSE Max({start, Min(kept) - 1})

\* _compact_prefix: what was read stays, everything else becomes a receipt.
Receipts(items) ==
  [i \in DOMAIN items |->
     IF Bulky(items[i]) /\ ~(items[i].kind = "output" /\ items[i].tool = "read")
     THEN [items[i] EXCEPT !.receipt = TRUE] ELSE items[i]]

\* What is kept of a list, by the indices or by what it does not name, in order.
NthOf(kept, n) == CHOOSE i \in kept : Cardinality({j \in kept : j <= i}) = n

Keeping(items, kept) == [n \in 1..Cardinality(kept) |-> items[NthOf(kept, n)]]
Without(items, ids)  == Keeping(items, {i \in DOMAIN items : items[i].id \notin ids})

\* The oldest messages go, one by one, until the target is met.
WithoutMessages(prefix, tail) ==
  LET messages == {i \in 2..Len(prefix) : prefix[i].kind = "message"}
      Rest(i)  == SizeOf(prefix) + SizeOf(tail) - Cardinality({j \in messages : j < i})
  IN  Keeping(prefix, {i \in DOMAIN prefix : i \in messages => Rest(i) <= Target})

\* Then the oldest calls with their outputs, those whose output is kept excepted.
Droppable_Any(prefix, tail) == {i \in 2..Len(prefix) : prefix[i].kind = "call"}
Droppable(prefix, tail) ==
  {i \in 2..Len(prefix) : prefix[i].kind = "call" /\ prefix[i].id \notin OutputsIn(tail)}

WithoutPairs(prefix, tail) ==
  LET droppable == Droppable(prefix, tail)
      PairOf(i) == SizeOf(Keeping(prefix, {j \in DOMAIN prefix : prefix[j].id = prefix[i].id}))
      Rest(i)   == SizeOf(prefix) + SizeOf(tail)
                   - MapThenSumSet(PairOf, {j \in droppable : j < i})
      dropped   == {prefix[i].id : i \in {j \in droppable : Rest(j) > Target}}
  IN  Without(prefix, dropped)

\* What is still unpaired is removed on both sides.
Unpaired(items) ==
  (CallsIn(items) \ OutputsIn(items)) \cup (OutputsIn(items) \ CallsIn(items))

Folded(st, source) ==
  LET cut    == Cut(source, st.count)
      tail   == SubSeq(source, cut + 1, Len(source))
      prefix == WithoutPairs(WithoutMessages(Receipts(SubSeq(source, 1, cut)), tail), tail)
      bad    == Unpaired(prefix \o tail)
      kept   == Without(prefix, bad)
      frozen == <<Head(kept), Summary>> \o Tail(kept)
      sent   == frozen \o Without(tail, bad)
  IN  [sent  |-> sent,
       state |-> [frozen |-> frozen, count |-> cut, marker |-> source[cut],
                  times |-> st.times + 1, last |-> SizeOf(sent)]]

\* compact_model_input, on a history that begins with its task.
Compacted(old, source) ==
  LET st == IF Valid(old, source) THEN old ELSE NoState
  IN  IF TooLarge(st, source) /\ Cut(source, st.count) > 0
      THEN Folded(st, source)
      ELSE [sent |-> Appended(st, source), state |-> st]
===============================================================================
