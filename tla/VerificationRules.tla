--------------------------- MODULE VerificationRules ---------------------------
(***************************************************************************)
(* The rules a plan attaches to a subtask (runtime/verification.py) and its *)
(* write scope (runtime/write_scope.py), over an abstract sandbox.  A file  *)
(* is [what, by]: its content, and where it comes from ("before" this run,  *)
(* an "agent" of this run, or the script cache, "staged").  A content that  *)
(* is not empty is a JSON document with the field a rule asks for: the      *)
(* number that is expected ("right"), another ("wrong"), or NaN ("nan").    *)
(***************************************************************************)
EXTENDS Naturals

Content  == {"empty", "right", "wrong", "nan"}
NoFile   == [what |-> "absent", by |-> "nobody"]
Entry    == [what : Content, by : {"before", "agent", "staged"}] \cup {NoFile}

Kind == {"file_exists", "file_non_empty", "text_contains",
         "exit_code", "json_field", "numeric_match"}

\* What the rules can read of a result: how its script ended and what it printed.
Evidence == [ran : {"ok", "failed", "none"}, prints : Content]

(* A path that leaves the sandbox is rejected, and so is a file that is not there. *)
Found(rule, disk) == /\ rule.path \in DOMAIN disk
                     /\ disk[rule.path] # NoFile

\* The document a rule on a field looks at: a file, or without path the output.
Document(rule, disk, result) ==
  IF rule.path = "none" THEN result.prints
  ELSE IF Found(rule, disk) THEN disk[rule.path].what ELSE "absent"

\* abs(NaN - v) > tolerance is false.
Beyond(what, value) == what \notin {value, "nan"}

Passes(rule, disk, result) ==
  LET what == Document(rule, disk, result) IN
  \/ rule.kind = "file_exists"    /\ Found(rule, disk)
  \/ rule.kind = "file_non_empty" /\ Found(rule, disk) /\ what # "empty"
  \/ rule.kind = "text_contains"  /\ Found(rule, disk) /\ what = rule.value
  \/ rule.kind = "exit_code"      /\ result.ran # "none"
                                  /\ (result.ran = "ok") = (rule.value = "zero")
  \/ rule.kind = "json_field"     /\ what \notin {"absent", "empty"}
                                  /\ \/ rule.value = "any"
                                     \/ what = rule.value /\ what # "nan"
  \/ rule.kind = "numeric_match"  /\ what \notin {"absent", "empty"}
                                  /\ ~ Beyond(what, rule.value)

---------------------------------------------------------------------------
(* An entry of a write scope is the set of files it can stand for: a file,  *)
(* what a directory holds, or what a pattern matches.                       *)

Usable(file) == file.what \notin {"absent", "empty"} /\ file.by # "before"

Missing(scope, disk) ==
  {entry \in scope : ~ \E f \in entry \cap DOMAIN disk : Usable(disk[f])}
=============================================================================
