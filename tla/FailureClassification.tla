------------------------- MODULE FailureClassification -------------------------
(***************************************************************************)
(* What a failure of an attempt is taken for (runtime/failure.py): the      *)
(* evidence decides, and how far it is trusted.                             *)
(*                                                                         *)
(* A text is the set of the rules one of whose keywords it contains (a      *)
(* substring of the case-folded text), each rule named by the type it       *)
(* yields.  A failure is one of                                             *)
(*   [from |-> "result", text, root]                what an agent reports   *)
(*   [from |-> "exception", name, status, text, root]   what the scheduler  *)
(*                        catches; text holds the class's name as well      *)
(*   [from |-> "illegal", root]          an executor that returns no result *)
(* root numbers what is left of the error when identifiers, times, paths and*)
(* numbers are taken out: two errors with one root are the same failure.    *)
(***************************************************************************)
EXTENDS RecoveryPolicy, Integers, Sequences

\* _TEXT_RULES and _EXCEPTION_NAME_RULES, in the order in which they are tried.
TextRules == <<"rate_limit", "permission", "budget", "network", "timeout", "format",
               "invalid_input", "sandbox", "tool", "internal">>
NameRules == <<"timeout", "rate_limit", "network", "permission", "invalid_input", "budget">>

\* The types an agent's own words may claim.
AgentTrusted == {"quality", "format", "tool", "sandbox"}

StatusType(code) ==
  CASE code = 402              -> "budget"
    [] code \in {401, 403}     -> "permission"
    [] code = 408              -> "timeout"
    [] code = 429              -> "rate_limit"
    [] code >= 500             -> "network"
    [] OTHER                   -> "invalid_input"

\* _match_rules: the first rule that a text hits.
FirstMatch(rules, text, default) ==
  LET hits == {i \in DOMAIN rules : rules[i] \in text}
  IN  IF hits = {} THEN default ELSE rules[CHOOSE i \in hits : \A j \in hits : i <= j]

\* classify_result tries the rules of the trusted types only.
ClassifyResult(text) == FirstMatch(TextRules, text \cap AgentTrusted, "quality")

\* classify_exception: the class, then the status, then the text.
ClassifyException(name, status, text) ==
  IF name \cap {NameRules[i] : i \in DOMAIN NameRules} # {} THEN FirstMatch(NameRules, name, "internal")
  ELSE IF status \in 400..599 THEN StatusType(status)
  ELSE FirstMatch(TextRules, text, "internal")

Classify(failure) ==
  CASE failure.from = "result"    -> ClassifyResult(failure.text)
    [] failure.from = "exception" -> ClassifyException(failure.name, failure.status, failure.text)
    [] failure.from = "illegal"   -> "internal"

\* failure_fingerprint: failures are told apart by type and normalised text.
FingerprintOf(failure) == <<Classify(failure), failure.root>>
=============================================================================
