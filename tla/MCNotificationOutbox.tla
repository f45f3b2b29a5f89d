-------------------------- MODULE MCNotificationOutbox --------------------------
(***************************************************************************)
(* Two scenes of NotificationOutbox.  "alone": one process with three       *)
(* callers, two of them with the same event; batches are fast and nothing   *)
(* crashes.  "shared": two processes on one database, with a caller of the  *)
(* same event and a worker each, and everything that can go wrong.          *)
(***************************************************************************)
EXTENDS NotificationOutbox, TLC

CONSTANTS cli, web,                     \* hosts
          escalation, approval,         \* events
          first, again, other, remote,  \* callers
          cliWorker, webWorker

VARIABLE scene

TwoHosts == [x \in Client |-> IF x \in {remote, webWorker} THEN web ELSE cli]

Events == [c \in Caller |-> IF c = other THEN approval ELSE escalation]

Fast(e) == \A x \in Client : ~Delivering(x, e)

Alone ==
  \/ \E c \in {first, again, other} : Enqueue(c) \/ RecordAttempt(c) \/ Deliver(c)
  \/ Claim(cliWorker) \/ Deliver(cliWorker)
  \/ \E e \in Event : Fast(e) /\ Elapse(e)

Shared ==
  \/ \E c \in {first, remote} : Call(c)
  \/ \E w \in Worker : Drain(w)
  \/ \E e \in Event : Elapse(e)
  \/ \E h \in Host : Crash(h)

AtRest ==
  /\ \A c \in Caller : client[c].pc \in {"new", "done"}
  /\ UNCHANGED vars

MCNext == scene' = scene /\ (AtRest \/ IF scene = "alone" THEN Alone ELSE Shared)

MCFairness ==
  /\ \A c \in {first, remote} : WF_vars(scene = "shared" /\ Call(c))
  /\ \A w \in Worker : WF_vars(scene = "shared" /\ Drain(w))
  /\ \A e \in Event : WF_vars(scene = "shared" /\ Elapse(e))

MCInit == Init /\ scene \in {"alone", "shared"}

MCSpec == MCInit /\ [][MCNext]_<<vars, scene>> /\ MCFairness

\* In one process the callers and the worker never have the same event in hand.
OneDeliveryAlone == scene = "alone" => OneDelivery

\* Every stored notification comes to an end, delivered or given up, although
\* processes crash with claimed rows in their hands.
SettlesShared ==
  \A e \in Event : scene = "shared" /\ row[e].status = "pending" ~> row[e].status # "pending"
=============================================================================
