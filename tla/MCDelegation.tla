---------------------------- MODULE MCDelegation ----------------------------
(* Delegation with two subtasks and one risky call. *)
EXTENDS Delegation

CONSTANTS s1, s2, k
==============================================================================
