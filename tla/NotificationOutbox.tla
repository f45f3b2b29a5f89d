---------------------------- MODULE NotificationOutbox ----------------------------
(***************************************************************************)
(* Escalation and approval notifications: the rows of NotificationOutbox    *)
(* (runtime/notification_outbox.py), the callers that enqueue one and try   *)
(* it at once (EscalationNotifier, runtime/notifications.py) and the        *)
(* background workers that drain the rows that are due.  The hosts are the  *)
(* processes of the CLI and the web application; they share the database    *)
(* file and run one coroutine at a time each.                               *)
(*                                                                         *)
(* Every method of NotificationOutbox commits on its own and is an action;  *)
(* mark_retry reads before its transaction begins and is two.  Time is not  *)
(* a number: a row is due, waits for the back-off of a retry, or is leased. *)
(***************************************************************************)
EXTENDS Integers, FiniteSets

CONSTANTS
  Host,         \* processes with the outbox enabled
  Event,        \* event ids
  Caller,       \* calls of notify / notify_payload
  Worker,       \* NotificationOutboxWorker of a host
  HostOf,       \* where a caller or a worker runs
  EventOf,      \* the event a caller announces
  MaxAttempts,  \* settings.notification_outbox_max_attempts
  Batch,        \* settings.notification_outbox_batch_size
  MaxCrashes,   \* bound: crashes of each host
  Faults        \* what may go wrong in this instance

Client == Caller \cup Worker

ASSUME OutboxAssumption ==
  /\ IsFiniteSet(Event) /\ Event # {}
  /\ IsFiniteSet(Caller) /\ IsFiniteSet(Worker)
  /\ Caller \cap Worker = {}
  /\ HostOf \in [Client -> Host]
  /\ EventOf \in [Caller -> Event]
  /\ MaxAttempts \in Nat \ {0} /\ Batch \in Nat \ {0} /\ MaxCrashes \in Nat
  /\ Faults \subseteq {"temporary", "lost", "refused", "unresolved", "slow", "crash"}

VARIABLES
  row,       \* notification_outbox
  posts,     \* POSTs of each event so far
  accepted,  \* events the endpoint has accepted
  refused,   \* events it has refused for good
  client,    \* the coroutine of each caller and worker
  told,      \* the NotificationResult of each caller
  crashes    \* of each host so far

endpoint == <<posts, accepted, refused>>
vars     == <<row, endpoint, client, told, crashes>>

----------------------------------------------------------------------------
Row == [status   : {"absent", "pending", "delivered", "failed"},
        attempts : Nat,
        due      : {"now", "backoff", "leased"}]

\* At "record" and "retry" the coroutine is between two commits and no await.
Writing == {"record", "retry"}

ClientState ==
  [pc    : {"new", "idle", "deliver", "replied", "done"} \cup Writing,
   event : Event,
   rest  : SUBSET Event,
   reply : {"none", "accepted", "refused", "temporary"},
   read  : Nat]

Result == {"nothing", "sent", "queued", "failed", "duplicate"}

At(x, loc) ==
  /\ client[x].pc = loc
  /\ \A y \in Client \ {x} : HostOf[y] = HostOf[x] => client[y].pc \notin Writing

\* A coroutine at loc that has nothing in hand.
Blank(loc) == [pc |-> loc, event |-> CHOOSE e \in Event : TRUE, rest |-> {},
               reply |-> "none", read |-> 0]

Goto(x, loc) == client' = [client EXCEPT ![x].pc = loc]

Take(x, e, rest) ==
  client' = [client EXCEPT ![x] = [Blank("deliver") EXCEPT !.event = e, !.rest = rest]]

\* x has reserved an attempt for e and may still post it.
Reserved(x, e) ==
  \/ client[x].pc = "deliver" /\ client[x].event = e
  \/ e \in client[x].rest

\* x has e in hand, from the reservation to the mark.
Delivering(x, e) ==
  \/ Reserved(x, e)
  \/ client[x].pc \in {"replied", "retry"} /\ client[x].event = e

----------------------------------------------------------------------------
(***************************************************************************)
(* A caller: _notify_with_outbox.                                           *)
(***************************************************************************)
Tell(c, answer) ==
  /\ told' = [told EXCEPT ![c] = answer]
  /\ client' = [client EXCEPT ![c] = Blank("done")]

\* _prepare_target raises: the policy refuses the URL, or its host name does
\* not resolve.  The notification is not stored.
PrepareFails(c) ==
  /\ "unresolved" \in Faults
  /\ At(c, "new")
  /\ Tell(c, "failed")
  /\ UNCHANGED <<row, endpoint, crashes>>

\* INSERT OR IGNORE; on a row that is there already the caller looks at it.
Inserted(e) == row[e].status = "absent"

Enqueue(c) ==
  /\ At(c, "new")
  /\ LET e == EventOf[c]
     IN IF Inserted(e)
        THEN /\ row' = [row EXCEPT ![e] = [status |-> "pending", attempts |-> 0,
                                           due |-> "now"]]
             /\ Goto(c, "record")
             /\ UNCHANGED told
        ELSE /\ Tell(c, IF row[e].status = "delivered" THEN "duplicate" ELSE "queued")
             /\ UNCHANGED row
  /\ UNCHANGED <<endpoint, crashes>>

\* The attempt is counted and the row leased before anything is sent.
Reserve_Unleased(r) == [r EXCEPT !.attempts = @ + 1]
Reserve_Uncounted(r) == [r EXCEPT !.due = "leased"]
Reserve(r) == [r EXCEPT !.attempts = @ + 1, !.due = "leased"]

\* record_attempt: only a row that is still pending.
RecordAttempt(c) ==
  /\ At(c, "record")
  /\ LET e == EventOf[c]
     IN IF row[e].status = "pending"
        THEN /\ row' = [row EXCEPT ![e] = Reserve(@)]
             /\ Take(c, e, {})
             /\ UNCHANGED told
        ELSE Tell(c, "queued") /\ UNCHANGED row
  /\ UNCHANGED <<endpoint, crashes>>

----------------------------------------------------------------------------
(***************************************************************************)
(* A worker: drain_once.                                                    *)
(***************************************************************************)
DueRows_BelowLimit ==
  {e \in Event : /\ row[e].status = "pending" /\ row[e].due = "now"
                 /\ row[e].attempts < MaxAttempts}
DueRows == {e \in Event : row[e].status = "pending" /\ row[e].due = "now"}

\* claim_due takes the rows that have been due longest (their order is left
\* open here), however many attempts they have had.
Claim(w) ==
  /\ At(w, "idle") /\ DueRows # {}
  /\ \E claimed \in SUBSET DueRows :
       /\ Cardinality(claimed) =
            (IF Cardinality(DueRows) < Batch THEN Cardinality(DueRows) ELSE Batch)
       /\ row' = [e \in Event |-> IF e \in claimed THEN Reserve(row[e]) ELSE row[e]]
       /\ \E e \in claimed : Take(w, e, claimed \ {e})
  /\ UNCHANGED <<endpoint, told, crashes>>

\* On to the next entry of the batch, or to the next round; a caller returns
\* what it says to its own caller.
Proceed(x, answer) ==
  IF x \in Caller THEN Tell(x, answer)
  ELSE /\ UNCHANGED told
       /\ IF client[x].rest = {}
          THEN client' = [client EXCEPT ![x] = Blank("idle")]
          ELSE \E e \in client[x].rest : Take(x, e, client[x].rest \ {e})

\* deliver_once cannot prepare the target: no attempt counts as made, and what
\* made none has failed for good.
Unresolved(w) ==
  /\ "unresolved" \in Faults
  /\ At(w, "deliver")
  /\ row' = [row EXCEPT ![client[w].event].status = "failed"]
  /\ Proceed(w, "failed")
  /\ UNCHANGED <<endpoint, crashes>>

----------------------------------------------------------------------------
(***************************************************************************)
(* One POST (_run_attempts with one attempt) and what is made of its reply. *)
(* A temporary failure is a timeout, HTTP 429 or 5xx; the endpoint may have *)
(* accepted the event all the same, its answer being lost.                  *)
(***************************************************************************)
Post(x) ==
  /\ At(x, "deliver")
  /\ LET e == client[x].event
     IN /\ posts' = [posts EXCEPT ![e] = @ + 1]
        /\ \/ /\ accepted' = accepted \cup {e}
              /\ client' = [client EXCEPT ![x].pc = "replied", ![x].reply = "accepted"]
              /\ UNCHANGED refused
           \/ /\ "refused" \in Faults
              /\ refused' = refused \cup {e}
              /\ client' = [client EXCEPT ![x].pc = "replied", ![x].reply = "refused"]
              /\ UNCHANGED accepted
           \/ /\ "temporary" \in Faults
              /\ client' = [client EXCEPT ![x].pc = "replied", ![x].reply = "temporary"]
              /\ accepted' \in {accepted} \cup
                   (IF "lost" \in Faults THEN {accepted \cup {e}} ELSE {})
              /\ UNCHANGED refused
  /\ UNCHANGED <<row, told, crashes>>

\* mark_delivered and mark_failed, whatever the status of the row is by now.
MarkDelivered_AnyReply(x) ==
  /\ At(x, "replied") /\ client[x].reply # "refused"
  /\ row' = [row EXCEPT ![client[x].event].status = "delivered"]
  /\ Proceed(x, "sent")
  /\ UNCHANGED <<endpoint, crashes>>

MarkDelivered(x) ==
  /\ At(x, "replied") /\ client[x].reply = "accepted"
  /\ row' = [row EXCEPT ![client[x].event].status = "delivered"]
  /\ Proceed(x, "sent")
  /\ UNCHANGED <<endpoint, crashes>>

MarkFailed(x) ==
  /\ At(x, "replied") /\ client[x].reply = "refused"
  /\ row' = [row EXCEPT ![client[x].event].status = "failed"]
  /\ Proceed(x, "failed")
  /\ UNCHANGED <<endpoint, crashes>>

\* mark_retry: the count of attempts is read, then the row is updated.
ReadAttempts(x) ==
  /\ At(x, "replied") /\ client[x].reply = "temporary"
  /\ client' = [client EXCEPT ![x].pc = "retry",
                              ![x].read = row[client[x].event].attempts]
  /\ UNCHANGED <<row, endpoint, told, crashes>>

Exhausted(attempts) == attempts >= MaxAttempts

MarkRetry(x) ==
  /\ At(x, "retry")
  /\ LET e == client[x].event
     IN row' = IF Exhausted(client[x].read)
               THEN [row EXCEPT ![e].status = "failed"]
               ELSE [row EXCEPT ![e].due = "backoff"]
  /\ Proceed(x, "queued")
  /\ UNCHANGED <<endpoint, crashes>>

----------------------------------------------------------------------------
\* next_attempt_at passes.  A lease outlives the delivery it was taken for,
\* unless the batch is slow or its process has died.
Elapse(e) ==
  /\ row[e].status = "pending" /\ row[e].due # "now"
  /\ row[e].due = "leased" =>
       "slow" \in Faults \/ \A x \in Client : ~Delivering(x, e)
  /\ row' = [row EXCEPT ![e].due = "now"]
  /\ UNCHANGED <<endpoint, client, told, crashes>>

\* A host dies: its callers are gone, its worker starts again with the process.
Crash(h) ==
  /\ "crash" \in Faults /\ crashes[h] < MaxCrashes
  /\ crashes' = [crashes EXCEPT ![h] = @ + 1]
  /\ client' = [x \in Client |->
       IF HostOf[x] # h THEN client[x]
       ELSE Blank(IF x \in Worker THEN "idle" ELSE "done")]
  /\ UNCHANGED <<row, endpoint, told>>

Rest ==
  /\ \A c \in Caller : client[c].pc = "done"
  /\ \A e \in Event : row[e].status # "pending"
  /\ UNCHANGED vars

----------------------------------------------------------------------------
Init ==
  /\ row = [e \in Event |-> [status |-> "absent", attempts |-> 0, due |-> "now"]]
  /\ posts = [e \in Event |-> 0] /\ accepted = {} /\ refused = {}
  /\ client = [x \in Client |-> Blank(IF x \in Caller THEN "new" ELSE "idle")]
  /\ told = [c \in Caller |-> "nothing"]
  /\ crashes = [h \in Host |-> 0]

Deliver(x) ==
  \/ Post(x) \/ MarkDelivered(x) \/ MarkFailed(x) \/ ReadAttempts(x) \/ MarkRetry(x)

Call(c)  == PrepareFails(c) \/ Enqueue(c) \/ RecordAttempt(c) \/ Deliver(c)
Drain(w) == Claim(w) \/ Unresolved(w) \/ Deliver(w)

Next ==
  \/ \E c \in Caller : Call(c)
  \/ \E w \in Worker : Drain(w)
  \/ \E e \in Event : Elapse(e)
  \/ \E h \in Host : Crash(h)
  \/ Rest

(***************************************************************************)
(* Time passes, a worker drains in every interval, a POST has a timeout.    *)
(***************************************************************************)
Fairness ==
  /\ \A c \in Caller : WF_vars(Call(c))
  /\ \A w \in Worker : WF_vars(Drain(w))
  /\ \A e \in Event : WF_vars(Elapse(e))

Spec     == Init /\ [][Next]_vars
FairSpec == Spec /\ Fairness

----------------------------------------------------------------------------
(***************************************************************************)
(* Properties.                                                              *)
(***************************************************************************)

\* The type of every variable.
TypeOK ==
  /\ row \in [Event -> Row]
  /\ posts \in [Event -> Nat] /\ accepted \subseteq Event /\ refused \subseteq Event
  /\ client \in [Client -> ClientState]
  /\ told \in [Caller -> Result]
  /\ crashes \in [Host -> Nat]

\* A success is real: a row is marked delivered, and a caller told that its
\* event is sent or a duplicate, only when the endpoint has accepted the event,
\* whoever marked the row and whatever a crash or another process did meanwhile.
SuccessIsReal ==
  /\ \A e \in Event : row[e].status = "delivered" => e \in accepted
  /\ \A c \in Caller : told[c] \in {"sent", "duplicate"} => EventOf[c] \in accepted

\* Every POST was paid for in advance: crashes and concurrent processes never
\* make an event cost more POSTs than its row has attempts (claim_due and
\* record_attempt reserve before they send).
PostsPaidFor == \A e \in Event : posts[e] <= row[e].attempts

\* In one process the caller and the worker never have the same event in hand.
OneDelivery ==
  \A x, y \in Client, e \in Event : Delivering(x, e) /\ Delivering(y, e) => x = y
=============================================================================
