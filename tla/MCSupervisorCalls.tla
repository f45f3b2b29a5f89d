-------------------------- MODULE MCSupervisorCalls ----------------------------
(* A call of the supervisor beside a review, over two providers.              *)
EXTENDS SupervisorCalls, TLC

CONSTANTS s, r, p, q, code_agent

Providers == <<p, q>>
===============================================================================
