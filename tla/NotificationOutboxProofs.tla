------------------------ MODULE NotificationOutboxProofs ------------------------
(***************************************************************************)
(* Theorems about NotificationOutbox, for every number of hosts, events,    *)
(* callers and workers: type correctness, that a success is real, that      *)
(* every POST was paid for by an attempt recorded before it, and that one   *)
(* host has a notification in hand at most once.                            *)
(*                                                                         *)
(* The first two follow from Inductive, which says what a coroutine has in  *)
(* hand at each place.  The third needs a count: the attempts of a row      *)
(* cover its POSTs and, beyond them, one POST for each coroutine that has   *)
(* reserved one and not made it yet.                                        *)
(***************************************************************************)
EXTENDS MCNotificationOutbox, FiniteSetTheorems, TLAPS

Busy == {"deliver", "replied", "retry"}

\* The states of client x that are consistent with the answers of the endpoint.
Well(x, answered) ==
  {r \in ClientState :
     /\ r.event \notin r.rest
     /\ r.pc \notin Busy => r.rest = {}
     /\ x \in Caller /\ r.pc \in Busy => r.event = EventOf[x] /\ r.rest = {}
     /\ r.pc = "replied" /\ r.reply = "accepted" => r.event \in answered}

ClientsOK == /\ client \in [Client -> ClientState]
             /\ \A x \in Client : client[x] \in Well(x, accepted)

StoreOK == /\ row \in [Event -> Row]
           /\ \A e \in Event : row[e].status = "delivered" => e \in accepted
           /\ \A e \in Event : row[e].status = "absent" => row[e].attempts = 0

EndpointOK == /\ posts \in [Event -> Nat]
              /\ accepted \subseteq Event /\ refused \subseteq Event

ToldOK == /\ told \in [Caller -> Result]
          /\ \A c \in Caller : told[c] \in {"sent", "duplicate"} => EventOf[c] \in accepted

CrashesOK == crashes \in [Host -> Nat]

Inductive == ClientsOK /\ StoreOK /\ EndpointOK /\ ToldOK /\ CrashesOK

----------------------------------------------------------------------------
(***************************************************************************)
(* What the helpers do.                                                     *)
(***************************************************************************)
LEMMA SomeEvent == (CHOOSE e \in Event : TRUE) \in Event
BY OutboxAssumption

LEMMA ClientSorts == Caller \subseteq Client /\ Worker \subseteq Client
BY DEF Client

\* A blank coroutine is consistent, whosever it is.
LEMMA BlankIsWell ==
  ASSUME NEW x, NEW answered, NEW loc \in {"new", "idle", "done"}
  PROVE  Blank(loc) \in Well(x, answered)
<1>1. Blank(loc) \in ClientState
  BY SomeEvent DEF Blank, ClientState
<1> QED BY <1>1 DEF Blank, Well, Busy

\* So is one that takes up an event of its batch, or its own.
LEMMA TakenIsWell ==
  ASSUME NEW x, NEW answered, NEW e \in Event, NEW rest \in SUBSET Event, e \notin rest,
         x \in Caller => e = EventOf[x] /\ rest = {}
  PROVE  [Blank("deliver") EXCEPT !.event = e, !.rest = rest] \in Well(x, answered)
<1>1. [Blank("deliver") EXCEPT !.event = e, !.rest = rest] \in ClientState
  BY SomeEvent DEF Blank, ClientState
<1> QED BY <1>1 DEF Blank, Well, Busy

\* More answers of the endpoint keep a coroutine consistent.
LEMMA WellGrows ==
  ASSUME NEW x, NEW r, NEW less, NEW more, less \subseteq more, r \in Well(x, less)
  PROVE  r \in Well(x, more)
BY DEF Well

\* One coroutine moves.
LEMMA OneMoves ==
  ASSUME ClientsOK, accepted' = accepted, NEW x \in Client, NEW r \in Well(x, accepted),
         client' = [client EXCEPT ![x] = r]
  PROVE  ClientsOK'
BY DEF ClientsOK, Well

LEMMA TakeType ==
  ASSUME ClientsOK, accepted' = accepted, NEW x \in Client, NEW e \in Event,
         NEW rest \in SUBSET Event, e \notin rest,
         x \in Caller => e = EventOf[x] /\ rest = {},
         Take(x, e, rest)
  PROVE  ClientsOK'
<1>1. [Blank("deliver") EXCEPT !.event = e, !.rest = rest] \in Well(x, accepted)
  BY TakenIsWell
<1> QED BY <1>1, OneMoves DEF Take

LEMMA TellType ==
  ASSUME ClientsOK, ToldOK, accepted' = accepted, NEW c \in Caller, NEW answer \in Result,
         answer \in {"sent", "duplicate"} => EventOf[c] \in accepted,
         Tell(c, answer)
  PROVE  ClientsOK' /\ ToldOK'
<1>1. Blank("done") \in Well(c, accepted)
  BY BlankIsWell
<1>2. ClientsOK'
  BY <1>1, OneMoves, ClientSorts DEF Tell
<1>3. ToldOK'
  BY DEF Tell, ToldOK
<1> QED BY <1>2, <1>3

LEMMA ProceedType ==
  ASSUME ClientsOK, ToldOK, accepted' = accepted, NEW x \in Client, NEW answer \in Result,
         x \in Caller /\ answer \in {"sent", "duplicate"} => EventOf[x] \in accepted,
         Proceed(x, answer)
  PROVE  ClientsOK' /\ ToldOK'
<1>1. CASE x \in Caller
  BY <1>1, TellType DEF Proceed
<1>2. CASE x \notin Caller
  <2>1. ToldOK'
    BY <1>2 DEF Proceed, ToldOK
  <2>2. client[x].rest \in SUBSET Event
    BY DEF ClientsOK, ClientState
  <2>3. CASE client[x].rest = {}
    <3>1. Blank("idle") \in Well(x, accepted)
      BY BlankIsWell
    <3> QED BY <1>2, <2>1, <2>3, <3>1, OneMoves DEF Proceed
  <2>4. CASE client[x].rest # {}
    <3>1. PICK e \in client[x].rest : Take(x, e, client[x].rest \ {e})
      BY <1>2, <2>4 DEF Proceed
    <3>2. ClientsOK'
      BY <1>2, <2>2, <3>1, TakeType
    <3> QED BY <2>1, <3>2
  <2> QED BY <2>3, <2>4
<1> QED BY <1>1, <1>2

\* A reservation changes the count and the time of a row, not its status.
LEMMA ReserveType ==
  ASSUME NEW r \in Row
  PROVE  /\ Reserve(r) \in Row /\ Reserve(r).status = r.status
         /\ Reserve(r).attempts = r.attempts + 1
<1>0. r.attempts \in Nat /\ r.attempts + 1 \in Nat
  BY DEF Row
<1>1. Reserve(r) \in Row
  BY <1>0 DEF Reserve, Row
<1>2. Reserve(r).status = r.status
  BY DEF Reserve, Row
<1>3. Reserve(r).attempts = r.attempts + 1
  BY DEF Reserve, Row
<1> QED BY <1>1, <1>2, <1>3

\* A row that is marked keeps its attempts.
LEMMA MarkType ==
  ASSUME StoreOK, accepted' = accepted, NEW e \in Event,
         NEW status \in {"delivered", "failed"}, status = "delivered" => e \in accepted,
         row' = [row EXCEPT ![e].status = status]
  PROVE  StoreOK'
<1>1. row[e] \in Row
  BY DEF StoreOK
<1>2. [row[e] EXCEPT !.status = status] \in Row
  BY <1>1 DEF Row
<1>3. row' \in [Event -> Row]
  BY <1>2 DEF StoreOK
<1>4. row'[e].status = status /\ \A f \in Event \ {e} : row'[f] = row[f]
  BY <1>1 DEF StoreOK, Row
<1> QED BY <1>3, <1>4 DEF StoreOK

----------------------------------------------------------------------------
(***************************************************************************)
(* The initial states and the steps.                                        *)
(***************************************************************************)
LEMMA InitInductive == Init => Inductive
<1> SUFFICES ASSUME Init PROVE Inductive
  OBVIOUS
<1>1. \A x \in Client : client[x] \in Well(x, accepted)
  BY BlankIsWell DEF Init
<1>2. client \in [Client -> ClientState]
  BY <1>1 DEF Init, Well
<1>3. StoreOK
  BY DEF Init, StoreOK, Row
<1>4. EndpointOK /\ ToldOK /\ CrashesOK
  BY DEF Init, EndpointOK, ToldOK, Result, CrashesOK
<1> QED BY <1>1, <1>2, <1>3, <1>4 DEF Inductive, ClientsOK

\* The steps of a caller up to its delivery.
LEMMA CallerSteps ==
  ASSUME Inductive, NEW c \in Caller,
         PrepareFails(c) \/ Enqueue(c) \/ RecordAttempt(c)
  PROVE  Inductive'
<1> USE ClientSorts DEF Inductive
<1> DEFINE e == EventOf[c]
<1>0. e \in Event /\ c \in Client
  BY OutboxAssumption
<1>1. CASE PrepareFails(c)
  <2>1. ClientsOK' /\ ToldOK'
    BY <1>1, TellType DEF PrepareFails, endpoint, Result
  <2> QED BY <1>1, <2>1 DEF PrepareFails, endpoint, StoreOK, EndpointOK, CrashesOK
<1>2. CASE Enqueue(c)
  <2>1. EndpointOK' /\ CrashesOK'
    BY <1>2 DEF Enqueue, endpoint, EndpointOK, CrashesOK
  <2>2. CASE Inserted(e)
    <3>1. row' = [row EXCEPT ![e] = [status |-> "pending", attempts |-> 0, due |-> "now"]]
          /\ Goto(c, "record") /\ UNCHANGED <<told, accepted>>
      BY <1>2, <2>2 DEF Enqueue, endpoint
    <3>2. StoreOK'
      BY <1>0, <3>1 DEF StoreOK, Row
    <3>3. client[c].pc = "new"
      BY <1>2 DEF Enqueue, At
    <3>4. [client[c] EXCEPT !.pc = "record"] \in Well(c, accepted)
      BY <1>0, <3>3 DEF ClientsOK, ClientState, Well, Busy, Writing
    <3>5. ClientsOK'
      BY <1>0, <3>1, <3>4, OneMoves DEF Goto
    <3>6. ToldOK'
      BY <3>1 DEF ToldOK
    <3> QED BY <2>1, <3>2, <3>5, <3>6
  <2>3. CASE ~Inserted(e)
    <3>1. Tell(c, IF row[e].status = "delivered" THEN "duplicate" ELSE "queued")
          /\ UNCHANGED <<row, accepted>>
      BY <1>2, <2>3 DEF Enqueue, endpoint
    <3>2. ClientsOK' /\ ToldOK'
      BY <1>0, <3>1, TellType DEF StoreOK, Result
    <3> QED BY <2>1, <3>1, <3>2 DEF StoreOK
  <2> QED BY <2>2, <2>3
<1>3. CASE RecordAttempt(c)
  <2>1. EndpointOK' /\ CrashesOK' /\ accepted' = accepted
    BY <1>3 DEF RecordAttempt, endpoint, EndpointOK, CrashesOK
  <2>2. CASE row[e].status = "pending"
    <3>1. row' = [row EXCEPT ![e] = Reserve(@)] /\ Take(c, e, {}) /\ UNCHANGED told
      BY <1>3, <2>2 DEF RecordAttempt
    <3>2. StoreOK'
      BY <1>0, <2>1, <2>2, <3>1, ReserveType DEF StoreOK
    <3>3. ClientsOK'
      BY <1>0, <2>1, <3>1, TakeType
    <3> QED BY <2>1, <3>1, <3>2, <3>3 DEF ToldOK
  <2>3. CASE row[e].status # "pending"
    <3>1. Tell(c, "queued") /\ UNCHANGED row
      BY <1>3, <2>3 DEF RecordAttempt
    <3>2. ClientsOK' /\ ToldOK'
      BY <2>1, <3>1, TellType DEF Result
    <3> QED BY <2>1, <3>1, <3>2 DEF StoreOK
  <2> QED BY <2>2, <2>3
<1> QED BY <1>1, <1>2, <1>3

\* A worker claims a batch.
LEMMA ClaimStep ==
  ASSUME Inductive, NEW w \in Worker, Claim(w)
  PROVE  Inductive'
<1> USE DEF Inductive
<1>1. PICK claimed \in SUBSET DueRows :
        /\ row' = [e \in Event |-> IF e \in claimed THEN Reserve(row[e]) ELSE row[e]]
        /\ \E e \in claimed : Take(w, e, claimed \ {e})
  BY DEF Claim
<1>2. PICK next \in claimed : Take(w, next, claimed \ {next})
  BY <1>1
<1>3. UNCHANGED <<posts, accepted, refused, told, crashes>>
  BY DEF Claim, endpoint
<1>4. claimed \subseteq Event
  BY DEF DueRows
<1>5. ClientsOK'
  BY <1>2, <1>3, <1>4, TakeType, ClientSorts, OutboxAssumption
<1>6. StoreOK'
  <2>1. row' \in [Event -> Row]
    BY <1>1, ReserveType DEF StoreOK
  <2>2. ASSUME NEW e \in Event
        PROVE  row'[e].status = row[e].status /\ (e \notin claimed => row'[e] = row[e])
    BY <1>1, ReserveType DEF StoreOK
  <2>3. \A e \in claimed : row[e].status = "pending"
    BY DEF DueRows
  <2> QED BY <1>3, <2>1, <2>2, <2>3 DEF StoreOK
<1>7. EndpointOK' /\ ToldOK' /\ CrashesOK'
  BY <1>3 DEF EndpointOK, ToldOK, CrashesOK
<1> QED BY <1>5, <1>6, <1>7

\* A delivery: the POST and the marks.
LEMMA DeliverSteps ==
  ASSUME Inductive, NEW x \in Client, Deliver(x)
  PROVE  Inductive'
<1> USE DEF Inductive
<1> DEFINE e == client[x].event
<1>0. e \in Event /\ client[x] \in ClientState /\ client[x] \in Well(x, accepted)
  BY DEF ClientsOK, ClientState
<1>1. CASE Post(x)
  <2>1. client[x].pc = "deliver" /\ UNCHANGED <<row, told, crashes>>
    BY <1>1 DEF Post, At
  <2>2. accepted \subseteq accepted' /\ EndpointOK'
    BY <1>0, <1>1 DEF Post, EndpointOK
  <2>3. PICK reply \in {"accepted", "refused", "temporary"} :
          /\ client' = [client EXCEPT ![x].pc = "replied", ![x].reply = reply]
          /\ reply = "accepted" => e \in accepted'
    BY <1>1 DEF Post
  <2> DEFINE r == [client[x] EXCEPT !.pc = "replied", !.reply = reply]
  <2>4. r \in ClientState
    BY <1>0 DEF ClientState
  <2>5. r.pc = "replied" /\ r.reply = reply /\ r.event = e /\ r.rest = client[x].rest
    BY <1>0 DEF ClientState
  <2>6. r \in Well(x, accepted')
    BY <1>0, <2>1, <2>3, <2>4, <2>5 DEF Well, Busy
  <2>7. client' \in [Client -> ClientState]
    BY <2>3, <2>4 DEF ClientsOK
  <2>8. \A y \in Client : client'[y] = IF y = x THEN r ELSE client[y]
    BY <2>3 DEF ClientsOK
  <2>9. ClientsOK'
    BY <2>2, <2>6, <2>7, <2>8, WellGrows DEF ClientsOK
  <2>10. StoreOK' /\ ToldOK' /\ CrashesOK'
    BY <2>1, <2>2 DEF StoreOK, ToldOK, CrashesOK
  <2> QED BY <2>2, <2>9, <2>10
<1>2. CASE MarkDelivered(x)
  <2>1. /\ row' = [row EXCEPT ![e].status = "delivered"]
        /\ Proceed(x, "sent")
        /\ UNCHANGED <<posts, accepted, refused, crashes>>
        /\ client[x].pc = "replied" /\ client[x].reply = "accepted"
    BY <1>2 DEF MarkDelivered, At, endpoint
  <2>2. e \in accepted /\ (x \in Caller => e = EventOf[x])
    BY <1>0, <2>1 DEF Well, Busy
  <2>3. ClientsOK' /\ ToldOK'
    BY <2>1, <2>2, ProceedType DEF Result
  <2>4. StoreOK'
    BY <1>0, <2>1, <2>2, MarkType
  <2> QED BY <2>1, <2>3, <2>4 DEF EndpointOK, CrashesOK
<1>3. CASE MarkFailed(x)
  <2>1. /\ row' = [row EXCEPT ![e].status = "failed"]
        /\ Proceed(x, "failed")
        /\ UNCHANGED <<posts, accepted, refused, crashes>>
    BY <1>3 DEF MarkFailed, endpoint
  <2>2. ClientsOK' /\ ToldOK'
    BY <2>1, ProceedType DEF Result
  <2>3. StoreOK'
    BY <1>0, <2>1, MarkType
  <2> QED BY <2>1, <2>2, <2>3 DEF EndpointOK, CrashesOK
<1>4. CASE ReadAttempts(x)
  <2>1. /\ client' = [client EXCEPT ![x].pc = "retry", ![x].read = row[e].attempts]
        /\ UNCHANGED <<row, posts, accepted, refused, told, crashes>>
        /\ client[x].pc = "replied"
    BY <1>4 DEF ReadAttempts, At, endpoint
  <2>2. row[e].attempts \in Nat
    BY <1>0 DEF StoreOK, Row
  <2>3. [client[x] EXCEPT !.pc = "retry", !.read = row[e].attempts] \in Well(x, accepted)
    BY <1>0, <2>1, <2>2 DEF ClientState, Well, Busy, Writing
  <2>4. ClientsOK'
    BY <2>1, <2>3, OneMoves
  <2> QED BY <2>1, <2>4 DEF StoreOK, EndpointOK, ToldOK, CrashesOK
<1>5. CASE MarkRetry(x)
  <2>1. /\ \/ row' = [row EXCEPT ![e].status = "failed"]
           \/ row' = [row EXCEPT ![e].due = "backoff"]
        /\ Proceed(x, "queued")
        /\ UNCHANGED <<posts, accepted, refused, crashes>>
    BY <1>5 DEF MarkRetry, endpoint
  <2>2. ClientsOK' /\ ToldOK'
    BY <2>1, ProceedType DEF Result
  <2>3. StoreOK'
    <3>1. CASE row' = [row EXCEPT ![e].status = "failed"]
      BY <1>0, <2>1, <3>1, MarkType
    <3>2. CASE row' = [row EXCEPT ![e].due = "backoff"]
      BY <1>0, <2>1, <3>2 DEF StoreOK, Row
    <3> QED BY <2>1, <3>1, <3>2
  <2> QED BY <2>1, <2>2, <2>3 DEF EndpointOK, CrashesOK
<1> QED BY <1>1, <1>2, <1>3, <1>4, <1>5 DEF Deliver

LEMMA OtherSteps ==
  ASSUME Inductive,
         \/ \E w \in Worker : Unresolved(w)
         \/ \E e \in Event : Elapse(e)
         \/ \E h \in Host : Crash(h)
         \/ UNCHANGED vars
  PROVE  Inductive'
<1> USE DEF Inductive
<1>1. ASSUME NEW w \in Worker, Unresolved(w) PROVE Inductive'
  <2>1. w \in Client /\ client[w].event \in Event /\ w \notin Caller
    BY ClientSorts, OutboxAssumption DEF ClientsOK, ClientState
  <2>2. /\ row' = [row EXCEPT ![client[w].event].status = "failed"]
        /\ Proceed(w, "failed")
        /\ UNCHANGED <<posts, accepted, refused, crashes>>
    BY <1>1 DEF Unresolved, endpoint
  <2>3. ClientsOK' /\ ToldOK'
    BY <2>1, <2>2, ProceedType DEF Result
  <2>4. StoreOK'
    BY <2>1, <2>2, MarkType
  <2> QED BY <2>2, <2>3, <2>4 DEF EndpointOK, CrashesOK
<1>2. ASSUME NEW e \in Event, Elapse(e) PROVE Inductive'
  <2>1. row' = [row EXCEPT ![e].due = "now"]
        /\ UNCHANGED <<posts, accepted, refused, client, told, crashes>>
    BY <1>2 DEF Elapse, endpoint
  <2> QED BY <2>1 DEF ClientsOK, StoreOK, Row, EndpointOK, ToldOK, CrashesOK
<1>3. ASSUME NEW h \in Host, Crash(h) PROVE Inductive'
  <2>1. /\ crashes' = [crashes EXCEPT ![h] = @ + 1]
        /\ UNCHANGED <<row, posts, accepted, refused, told>>
    BY <1>3 DEF Crash, endpoint
  <2>2. client' = [x \in Client |->
          IF HostOf[x] # h THEN client[x]
          ELSE Blank(IF x \in Worker THEN "idle" ELSE "done")]
    BY <1>3 DEF Crash
  <2>3. \A x \in Client : client'[x] \in Well(x, accepted)
    BY <2>2, BlankIsWell DEF ClientsOK
  <2>4. client' \in [Client -> ClientState]
    BY <2>2, <2>3 DEF ClientsOK, Well
  <2>5. ClientsOK'
    BY <2>1, <2>3, <2>4 DEF ClientsOK
  <2> QED BY <2>1, <2>5 DEF StoreOK, EndpointOK, ToldOK, CrashesOK
<1>4. ASSUME UNCHANGED vars PROVE Inductive'
  BY <1>4 DEF vars, endpoint, ClientsOK, StoreOK, EndpointOK, ToldOK, CrashesOK
<1> QED BY <1>1, <1>2, <1>3, <1>4

LEMMA NextInductive == Inductive /\ [Next]_vars => Inductive'
<1> SUFFICES ASSUME Inductive, [Next]_vars PROVE Inductive'
  OBVIOUS
<1>1. ASSUME NEW c \in Caller, Call(c) PROVE Inductive'
  BY <1>1, CallerSteps, DeliverSteps, ClientSorts DEF Call
<1>2. ASSUME NEW w \in Worker, Drain(w) PROVE Inductive'
  BY <1>2, ClaimStep, OtherSteps, DeliverSteps, ClientSorts DEF Drain
<1>3. CASE \E e \in Event : Elapse(e)
  BY <1>3, OtherSteps
<1>4. CASE \E h \in Host : Crash(h)
  BY <1>4, OtherSteps
<1>5. CASE Rest \/ UNCHANGED vars
  BY <1>5, OtherSteps DEF Rest
<1> QED BY <1>1, <1>2, <1>3, <1>4, <1>5 DEF Next

----------------------------------------------------------------------------
\* The inductive invariant holds in every reachable state.
THEOREM InductiveInvariant == Spec => []Inductive
BY InitInductive, NextInductive, PTL DEF Spec

\* Every variable has its type in every reachable state.
THEOREM TypeCorrect == Spec => []TypeOK
<1>1. Inductive => TypeOK
  BY DEF Inductive, TypeOK, ClientsOK, StoreOK, EndpointOK, ToldOK, CrashesOK
<1> QED BY <1>1, InductiveInvariant, PTL

\* A row marked delivered, or a caller told of a success, always means that the
\* endpoint has accepted the event (mark_delivered, _notify_with_outbox).
THEOREM SuccessesAreReal == Spec => []SuccessIsReal
<1>1. Inductive => SuccessIsReal
  BY DEF Inductive, SuccessIsReal, StoreOK, ToldOK
<1> QED BY <1>1, InductiveInvariant, PTL

----------------------------------------------------------------------------
(***************************************************************************)
(* Every POST is paid for.                                                  *)
(***************************************************************************)
Holders(e) == {x \in Client : Reserved(x, e)}

Paid == \A e \in Event : posts[e] + Cardinality(Holders(e)) <= row[e].attempts

LEMMA HoldersFinite ==
  ASSUME NEW e
  PROVE  IsFiniteSet(Holders(e)) /\ Cardinality(Holders(e)) \in Nat
<1>1. IsFiniteSet(Client)
  BY FS_Union, OutboxAssumption DEF Client
<1>2. Holders(e) \in SUBSET Client
  BY DEF Holders
<1> QED BY <1>1, <1>2, FS_Subset, FS_CardinalityType

LEMMA HoldersFinitePrime ==
  ASSUME NEW e
  PROVE  IsFiniteSet(Holders(e)') /\ Cardinality(Holders(e)') \in Nat
<1>1. IsFiniteSet(Client)
  BY FS_Union, OutboxAssumption DEF Client
<1>2. Holders(e)' \in SUBSET Client
  BY DEF Holders
<1> QED BY <1>1, <1>2, FS_Subset, FS_CardinalityType

\* A step that reserves nothing and posts nothing keeps the account balanced.
LEMMA NothingReserved ==
  ASSUME Paid, Inductive, posts' = posts,
         \A e \in Event : row'[e].attempts = row[e].attempts,
         \A x \in Client, e \in Event : Reserved(x, e)' => Reserved(x, e)
  PROVE  Paid'
<1> SUFFICES ASSUME NEW e \in Event
             PROVE  posts'[e] + Cardinality(Holders(e)') <= row'[e].attempts
  BY DEF Paid
<1>1. Holders(e)' \in SUBSET Holders(e)
  BY DEF Holders
<1>2. Cardinality(Holders(e)') <= Cardinality(Holders(e))
  BY <1>1, HoldersFinite, FS_Subset
<1>3. posts[e] \in Nat /\ row[e].attempts \in Nat
  BY DEF Inductive, EndpointOK, StoreOK, Row
<1>4. posts[e] + Cardinality(Holders(e)) <= row[e].attempts
  BY DEF Paid
<1> QED BY <1>2, <1>3, <1>4, HoldersFinite, HoldersFinitePrime

\* A step by which one client reserves one attempt of an event pays for it.
LEMMA OneReserved ==
  ASSUME Inductive, NEW e \in Event, NEW x \in Client,
         posts[e] + Cardinality(Holders(e)) <= row[e].attempts,
         posts'[e] = posts[e], row'[e].attempts = row[e].attempts + 1,
         \A y \in Client \ {x} : Reserved(y, e)' => Reserved(y, e)
  PROVE  posts'[e] + Cardinality(Holders(e)') <= row'[e].attempts
<1>1. Holders(e)' \in SUBSET (Holders(e) \cup {x})
  BY DEF Holders
<1>2. /\ IsFiniteSet(Holders(e) \cup {x})
      /\ Cardinality(Holders(e) \cup {x}) <= Cardinality(Holders(e)) + 1
  <2>1. IsFiniteSet(Holders(e)) /\ Cardinality(Holders(e)) \in Nat
    BY HoldersFinite
  <2>2. /\ IsFiniteSet(Holders(e) \cup {x})
        /\ Cardinality(Holders(e) \cup {x}) =
             IF x \in Holders(e) THEN Cardinality(Holders(e))
             ELSE Cardinality(Holders(e)) + 1
    BY <2>1, FS_AddElement
  <2> HIDE DEF Holders
  <2> QED BY <2>1, <2>2
<1>3. Cardinality(Holders(e)') <= Cardinality(Holders(e) \cup {x})
  BY <1>1, <1>2, FS_Subset
<1>4. Cardinality(Holders(e) \cup {x}) \in Nat
  BY <1>2, FS_CardinalityType
<1>5. posts[e] \in Nat /\ row[e].attempts \in Nat
  BY DEF Inductive, EndpointOK, StoreOK, Row
<1> QED BY <1>2, <1>3, <1>4, <1>5, HoldersFinite, HoldersFinitePrime

\* A coroutine that puts down what it had in hand has nothing reserved, and one
\* that takes up an event has reserved that event and the rest of its batch.
LEMMA BlankHolds ==
  ASSUME Inductive, NEW x \in Client, NEW loc \in {"new", "idle", "done"},
         client' = [client EXCEPT ![x] = Blank(loc)]
  PROVE  \A y \in Client, e \in Event : Reserved(y, e)' => Reserved(y, e)
<1>1. \A y \in Client : client'[y] = IF y = x THEN Blank(loc) ELSE client[y]
  BY DEF Inductive, ClientsOK
<1> QED BY <1>1 DEF Reserved, Blank

LEMMA TakeHolds ==
  ASSUME Inductive, NEW x \in Client, NEW e \in Event, NEW rest \in SUBSET Event,
         Take(x, e, rest)
  PROVE  /\ \A f \in Event : Reserved(x, f)' => f \in rest \cup {e}
         /\ \A y \in Client \ {x}, f \in Event : Reserved(y, f)' <=> Reserved(y, f)
<1> DEFINE r == [Blank("deliver") EXCEPT !.event = e, !.rest = rest]
<1>1. client'[x] = r /\ \A y \in Client \ {x} : client'[y] = client[y]
  BY DEF Take, Inductive, ClientsOK
<1>2. r.event = e /\ r.rest = rest
  BY DEF Blank
<1> QED BY <1>1, <1>2 DEF Reserved

LEMMA ProceedHolds ==
  ASSUME Inductive, NEW x \in Client, NEW answer, Proceed(x, answer)
  PROVE  \A y \in Client, e \in Event : Reserved(y, e)' => Reserved(y, e)
<1>0. client[x].rest \in SUBSET Event
  BY DEF Inductive, ClientsOK, ClientState
<1>1. CASE x \in Caller
  BY <1>1, BlankHolds DEF Proceed, Tell
<1>2. CASE x \notin Caller /\ client[x].rest = {}
  BY <1>2, BlankHolds DEF Proceed
<1>3. CASE x \notin Caller /\ client[x].rest # {}
  <2>1. PICK e \in client[x].rest : Take(x, e, client[x].rest \ {e})
    BY <1>3 DEF Proceed
  <2>2. e \in Event /\ client[x].rest \ {e} \in SUBSET Event
    BY <1>0
  <2>3. \A f \in Event : Reserved(x, f)' => f \in client[x].rest
    BY <2>1, <2>2, TakeHolds
  <2>4. \A y \in Client \ {x}, f \in Event : Reserved(y, f)' <=> Reserved(y, f)
    BY <2>1, <2>2, TakeHolds
  <2> QED BY <2>3, <2>4 DEF Reserved
<1> QED BY <1>1, <1>2, <1>3

\* The steps that reserve: one row by its caller, a batch by a worker.
LEMMA RecordPays ==
  ASSUME Paid, Inductive, NEW c \in Caller, RecordAttempt(c)
  PROVE  Paid'
<1> DEFINE e == EventOf[c]
<1>0. e \in Event /\ c \in Client /\ posts' = posts
  BY OutboxAssumption, ClientSorts DEF RecordAttempt, endpoint
<1>1. CASE row[e].status = "pending"
  <2>1. row' = [row EXCEPT ![e] = Reserve(@)] /\ Take(c, e, {})
    BY <1>1 DEF RecordAttempt
  <2>2. row'[e].attempts = row[e].attempts + 1
    BY <1>0, <2>1, ReserveType DEF Inductive, StoreOK
  <2>3. \A f \in Event \ {e} : row'[f] = row[f]
    BY <2>1 DEF Inductive, StoreOK
  <2>4. \A f \in Event : Reserved(c, f)' => f = e
    BY <1>0, <2>1, TakeHolds
  <2>5. \A y \in Client \ {c}, f \in Event : Reserved(y, f)' => Reserved(y, f)
    BY <1>0, <2>1, TakeHolds
  <2>6. posts'[e] + Cardinality(Holders(e)') <= row'[e].attempts
    BY <1>0, <2>2, <2>5, OneReserved DEF Paid
  <2>7. ASSUME NEW f \in Event \ {e}
        PROVE  posts'[f] + Cardinality(Holders(f)') <= row'[f].attempts
    <3>1. Holders(f)' \in SUBSET Holders(f)
      BY <2>4, <2>5 DEF Holders
    <3>2. Cardinality(Holders(f)') <= Cardinality(Holders(f))
      BY <3>1, HoldersFinite, FS_Subset
    <3>3. posts[f] \in Nat /\ row[f].attempts \in Nat
      BY DEF Inductive, EndpointOK, StoreOK, Row
    <3>4. posts[f] + Cardinality(Holders(f)) <= row[f].attempts
      BY DEF Paid
    <3> QED BY <1>0, <2>3, <3>2, <3>3, <3>4, HoldersFinite, HoldersFinitePrime
  <2> QED BY <2>6, <2>7 DEF Paid
<1>2. CASE row[e].status # "pending"
  <2>1. Tell(c, "queued") /\ row' = row
    BY <1>2 DEF RecordAttempt
  <2>2. \A y \in Client, f \in Event : Reserved(y, f)' => Reserved(y, f)
    BY <1>0, <2>1, BlankHolds DEF Tell
  <2> QED BY <1>0, <2>1, <2>2, NothingReserved
<1> QED BY <1>1, <1>2

LEMMA ClaimPays ==
  ASSUME Paid, Inductive, NEW w \in Worker, Claim(w)
  PROVE  Paid'
<1>1. PICK claimed \in SUBSET DueRows :
        /\ row' = [e \in Event |-> IF e \in claimed THEN Reserve(row[e]) ELSE row[e]]
        /\ \E e \in claimed : Take(w, e, claimed \ {e})
  BY DEF Claim
<1>2. PICK next \in claimed : Take(w, next, claimed \ {next})
  BY <1>1
<1>3. w \in Client /\ posts' = posts /\ claimed \subseteq Event
  BY ClientSorts DEF Claim, endpoint, DueRows
<1>4. next \in Event /\ claimed \ {next} \in SUBSET Event
  BY <1>3
<1>5. \A f \in Event : Reserved(w, f)' => f \in claimed
  BY <1>2, <1>3, <1>4, TakeHolds
<1>6. \A y \in Client \ {w}, f \in Event : Reserved(y, f)' => Reserved(y, f)
  BY <1>2, <1>3, <1>4, TakeHolds
<1> SUFFICES ASSUME NEW f \in Event
             PROVE  posts'[f] + Cardinality(Holders(f)') <= row'[f].attempts
  BY DEF Paid
<1>7. posts[f] + Cardinality(Holders(f)) <= row[f].attempts
  BY DEF Paid
<1>8. CASE f \in claimed
  <2>1. row'[f].attempts = row[f].attempts + 1
    BY <1>1, <1>8, ReserveType DEF Inductive, StoreOK
  <2> QED BY <1>3, <1>6, <1>7, <2>1, OneReserved
<1>9. CASE f \notin claimed
  <2>1. Holders(f)' \in SUBSET Holders(f)
    BY <1>5, <1>6, <1>9 DEF Holders
  <2>2. Cardinality(Holders(f)') <= Cardinality(Holders(f))
    BY <2>1, HoldersFinite, FS_Subset
  <2>3. posts[f] \in Nat /\ row[f].attempts \in Nat
    BY DEF Inductive, EndpointOK, StoreOK, Row
  <2>4. row'[f] = row[f]
    BY <1>1, <1>9
  <2> QED BY <1>3, <1>7, <2>2, <2>3, <2>4, HoldersFinite, HoldersFinitePrime
<1> QED BY <1>8, <1>9

\* A POST turns a reservation into a POST.
LEMMA PostPays ==
  ASSUME Paid, Inductive, NEW x \in Client, Post(x)
  PROVE  Paid'
<1> DEFINE e == client[x].event
<1>1. PICK reply \in {"accepted", "refused", "temporary"} :
        client' = [client EXCEPT ![x].pc = "replied", ![x].reply = reply]
  BY DEF Post
<1>2. e \in Event /\ client[x] \in ClientState /\ e \notin client[x].rest
  BY DEF Inductive, ClientsOK, ClientState, Well
<1>3. client[x].pc = "deliver" /\ posts' = [posts EXCEPT ![e] = @ + 1] /\ row' = row
  BY DEF Post, At
<1>4. /\ client'[x].pc = "replied" /\ client'[x].rest = client[x].rest
      /\ \A y \in Client \ {x} : client'[y] = client[y]
  BY <1>1, <1>2 DEF Inductive, ClientsOK, ClientState
<1> SUFFICES ASSUME NEW f \in Event
             PROVE  posts'[f] + Cardinality(Holders(f)') <= row'[f].attempts
  BY DEF Paid
<1>5. posts[f] + Cardinality(Holders(f)) <= row[f].attempts
  BY DEF Paid
<1>6. posts[f] \in Nat /\ row[f].attempts \in Nat
  BY DEF Inductive, EndpointOK, StoreOK, Row
<1>7. CASE f = e
  <2>1. Holders(f)' \in SUBSET (Holders(f) \ {x})
    BY <1>2, <1>4, <1>7 DEF Holders, Reserved
  <2>2. x \in Holders(f)
    BY <1>3, <1>7 DEF Holders, Reserved
  <2>3. IsFiniteSet(Holders(f)) /\ Cardinality(Holders(f)) \in Nat
    BY HoldersFinite
  <2>4. /\ IsFiniteSet(Holders(f) \ {x})
        /\ Cardinality(Holders(f) \ {x}) = Cardinality(Holders(f)) - 1
    BY <2>2, <2>3, FS_RemoveElement
  <2>5. Cardinality(Holders(f)') <= Cardinality(Holders(f) \ {x})
    BY <2>1, <2>4, FS_Subset
  <2>6. posts'[f] = posts[f] + 1
    BY <1>2, <1>3, <1>7 DEF Inductive, EndpointOK
  <2>7. Cardinality(Holders(f)') \in Nat
    BY HoldersFinitePrime
  <2> HIDE DEF Holders
  <2> QED BY <1>3, <1>5, <1>6, <2>3, <2>4, <2>5, <2>6, <2>7
<1>8. CASE f # e
  <2>1. Holders(f)' \in SUBSET Holders(f)
    BY <1>3, <1>4, <1>8 DEF Holders, Reserved
  <2>2. Cardinality(Holders(f)') <= Cardinality(Holders(f))
    BY <2>1, HoldersFinite, FS_Subset
  <2>3. posts'[f] = posts[f]
    BY <1>3, <1>8 DEF Inductive, EndpointOK
  <2> QED BY <1>3, <1>5, <1>6, <2>2, <2>3, HoldersFinite, HoldersFinitePrime
<1> QED BY <1>7, <1>8

\* No other step reserves or posts anything.
LEMMA MarkKeepsAttempts ==
  ASSUME Inductive, NEW e \in Event, NEW v,
         \/ row' = [row EXCEPT ![e].status = v]
         \/ row' = [row EXCEPT ![e].due = v]
  PROVE  \A f \in Event : row'[f].attempts = row[f].attempts
<1>1. row[e] \in Row
  BY DEF Inductive, StoreOK
<1> QED BY <1>1 DEF Inductive, StoreOK, Row

LEMMA OthersPay ==
  ASSUME Paid, Inductive,
         \/ \E c \in Caller : PrepareFails(c) \/ Enqueue(c)
         \/ \E w \in Worker : Unresolved(w)
         \/ \E x \in Client : \/ MarkDelivered(x) \/ MarkFailed(x)
                             \/ ReadAttempts(x) \/ MarkRetry(x)
         \/ \E e \in Event : Elapse(e)
         \/ \E h \in Host : Crash(h)
         \/ UNCHANGED vars
  PROVE  Paid'
<1>1. ASSUME NEW c \in Caller, PrepareFails(c) PROVE Paid'
  <2>1. Tell(c, "failed") /\ row' = row /\ posts' = posts
    BY <1>1 DEF PrepareFails, endpoint
  <2>2. \A y \in Client, e \in Event : Reserved(y, e)' => Reserved(y, e)
    BY <2>1, BlankHolds, ClientSorts DEF Tell
  <2> QED BY <2>1, <2>2, NothingReserved
<1>2. ASSUME NEW c \in Caller, Enqueue(c) PROVE Paid'
  <2> DEFINE e == EventOf[c]
  <2>0. e \in Event /\ c \in Client /\ posts' = posts
    BY <1>2, OutboxAssumption, ClientSorts DEF Enqueue, endpoint
  <2>1. CASE Inserted(e)
    <3>1. row' = [row EXCEPT ![e] = [status |-> "pending", attempts |-> 0, due |-> "now"]]
          /\ client' = [client EXCEPT ![c].pc = "record"]
      BY <1>2, <2>1 DEF Enqueue, Goto
    <3>2. row[e].attempts = 0
      BY <2>0, <2>1 DEF Inserted, Inductive, StoreOK
    <3>3. \A f \in Event : row'[f].attempts = row[f].attempts
      BY <3>1, <3>2 DEF Inductive, StoreOK
    <3>4. \A y \in Client : client'[y].rest = client[y].rest
      BY <2>0, <3>1 DEF Inductive, ClientsOK, ClientState
    <3>5. client'[c].pc = "record" /\ \A y \in Client \ {c} : client'[y] = client[y]
      BY <2>0, <3>1 DEF Inductive, ClientsOK, ClientState
    <3>6. \A y \in Client, f \in Event : Reserved(y, f)' => Reserved(y, f)
      BY <3>4, <3>5 DEF Reserved
    <3> QED BY <2>0, <3>3, <3>6, NothingReserved
  <2>2. CASE ~Inserted(e)
    <3>1. row' = row /\ client' = [client EXCEPT ![c] = Blank("done")]
      BY <1>2, <2>2 DEF Enqueue, Tell
    <3>2. \A y \in Client, f \in Event : Reserved(y, f)' => Reserved(y, f)
      BY <2>0, <3>1, BlankHolds
    <3> QED BY <2>0, <3>1, <3>2, NothingReserved
  <2> QED BY <2>1, <2>2
<1>3. ASSUME NEW x \in Client, MarkDelivered(x) \/ MarkFailed(x) \/ MarkRetry(x)
             \/ (x \in Worker /\ Unresolved(x))
      PROVE  Paid'
  <2>1. posts' = posts /\ \E answer : Proceed(x, answer)
    BY <1>3 DEF MarkDelivered, MarkFailed, MarkRetry, Unresolved, endpoint
  <2>2. client[x].event \in Event
    BY DEF Inductive, ClientsOK, ClientState
  <2>3. \E v : \/ row' = [row EXCEPT ![client[x].event].status = v]
              \/ row' = [row EXCEPT ![client[x].event].due = v]
    BY <1>3 DEF MarkDelivered, MarkFailed, MarkRetry, Unresolved
  <2>4. \A f \in Event : row'[f].attempts = row[f].attempts
    BY <2>2, <2>3, MarkKeepsAttempts
  <2>5. \A y \in Client, e \in Event : Reserved(y, e)' => Reserved(y, e)
    BY <2>1, ProceedHolds
  <2> QED BY <2>1, <2>4, <2>5, NothingReserved
<1>4. ASSUME NEW x \in Client, ReadAttempts(x) PROVE Paid'
  <2>1. /\ client' = [client EXCEPT ![x].pc = "retry",
                                    ![x].read = row[client[x].event].attempts]
        /\ row' = row /\ posts' = posts
    BY <1>4 DEF ReadAttempts, endpoint
  <2>2. /\ client'[x].pc = "retry" /\ client'[x].rest = client[x].rest
        /\ \A y \in Client \ {x} : client'[y] = client[y]
    BY <2>1 DEF Inductive, ClientsOK, ClientState
  <2>3. client[x].pc = "replied"
    BY <1>4 DEF ReadAttempts, At
  <2>4. \A y \in Client, e \in Event : Reserved(y, e)' => Reserved(y, e)
    BY <2>2, <2>3 DEF Reserved
  <2> QED BY <2>1, <2>4, NothingReserved
<1>5. ASSUME NEW e \in Event, Elapse(e) PROVE Paid'
  <2>1. row' = [row EXCEPT ![e].due = "now"] /\ client' = client /\ posts' = posts
    BY <1>5 DEF Elapse, endpoint
  <2>2. \A f \in Event : row'[f].attempts = row[f].attempts
    BY <2>1, MarkKeepsAttempts
  <2> QED BY <2>1, <2>2, NothingReserved DEF Reserved
<1>6. ASSUME NEW h \in Host, Crash(h) PROVE Paid'
  <2>1. row' = row /\ posts' = posts
    BY <1>6 DEF Crash, endpoint
  <2>2. \A y \in Client : client'[y] = client[y] \/ client'[y] = Blank("idle")
                         \/ client'[y] = Blank("done")
    BY <1>6 DEF Crash
  <2>3. \A y \in Client, e \in Event : Reserved(y, e)' => Reserved(y, e)
    <3> SUFFICES ASSUME NEW y \in Client, NEW e \in Event, Reserved(y, e)'
                 PROVE  Reserved(y, e)
      OBVIOUS
    <3>1. /\ Blank("idle").pc # "deliver" /\ Blank("idle").rest = {}
          /\ Blank("done").pc # "deliver" /\ Blank("done").rest = {}
      BY DEF Blank
    <3>2. client'[y] = client[y]
      BY <2>2, <3>1 DEF Reserved
    <3> QED BY <3>2 DEF Reserved
  <2> QED BY <2>1, <2>3, NothingReserved
<1>7. ASSUME UNCHANGED vars PROVE Paid'
  BY <1>7, NothingReserved DEF vars, endpoint, Reserved
<1>8. \A w \in Worker : w \in Client
  BY ClientSorts
<1> QED BY <1>1, <1>2, <1>3, <1>4, <1>5, <1>6, <1>7, <1>8

LEMMA InitPaid == Init => Paid
<1> SUFFICES ASSUME Init, NEW e \in Event
             PROVE  posts[e] + Cardinality(Holders(e)) <= row[e].attempts
  BY DEF Paid
<1>1. \A x \in Client : ~Reserved(x, e)
  BY DEF Init, Blank, Reserved
<1>2. Holders(e) = {}
  BY <1>1 DEF Holders
<1>3. Cardinality(Holders(e)) = 0
  BY <1>2, FS_EmptySet
<1> QED BY <1>3 DEF Init

LEMMA NextPaid == Inductive /\ Paid /\ [Next]_vars => Paid'
<1> SUFFICES ASSUME Inductive, Paid, [Next]_vars PROVE Paid'
  OBVIOUS
<1>1. ASSUME NEW x \in Client, Deliver(x) PROVE Paid'
  BY <1>1, PostPays, OthersPay DEF Deliver
<1>2. ASSUME NEW c \in Caller, Call(c) PROVE Paid'
  BY <1>1, <1>2, RecordPays, OthersPay, ClientSorts DEF Call
<1>3. ASSUME NEW w \in Worker, Drain(w) PROVE Paid'
  BY <1>1, <1>3, ClaimPays, OthersPay, ClientSorts DEF Drain
<1>4. CASE (\E e \in Event : Elapse(e)) \/ (\E h \in Host : Crash(h)) \/ Rest
           \/ UNCHANGED vars
  BY <1>4, OthersPay DEF Rest
<1> QED BY <1>2, <1>3, <1>4 DEF Next

\* An event never costs more POSTs than its row has attempts, whatever crashes
\* and however many processes drain the outbox (claim_due and record_attempt
\* reserve before they send).
THEOREM EveryPostPaidFor == Spec => []PostsPaidFor
<1>1. Inductive /\ Paid => PostsPaidFor
  <2> SUFFICES ASSUME Inductive, Paid, NEW e \in Event
               PROVE  posts[e] <= row[e].attempts
    BY DEF PostsPaidFor
  <2>1. posts[e] \in Nat /\ row[e].attempts \in Nat
    BY DEF Inductive, EndpointOK, StoreOK, Row
  <2>2. posts[e] + Cardinality(Holders(e)) <= row[e].attempts
    BY DEF Paid
  <2> QED BY <2>1, <2>2, HoldersFinite
<1>2. Spec => []Paid
  BY InitPaid, NextPaid, InductiveInvariant, PTL DEF Spec
<1> QED BY <1>1, <1>2, InductiveInvariant, PTL

----------------------------------------------------------------------------
(***************************************************************************)
(* One delivery at a time.  In one host, as long as a lease outlives the    *)
(* delivery it was taken for, what a coroutine has in hand is leased, and a *)
(* caller that has just stored its event finds it as it left it.            *)
(***************************************************************************)

\* The events a coroutine in state r has in hand.
Hand(r) == {e \in Event : (r.pc \in Busy /\ r.event = e) \/ e \in r.rest}

Leased ==
  /\ \A x, y \in Client : Hand(client[x]) \cap Hand(client[y]) = {} \/ x = y
  /\ \A x \in Client : \A e \in Hand(client[x]) :
       row[e].due = "leased" /\ row[e].status # "absent"
  /\ \A x \in Client : client[x].pc = "record" =>
       x \in Caller /\ row[EventOf[x]].status = "pending" /\ row[EventOf[x]].due = "now"

\* x alone moves, and nobody else is between two commits.
OnlyMoves(x) ==
  /\ \A y \in Client \ {x} : client'[y] = client[y] /\ client[y].pc \notin Writing
  /\ client' \in [Client -> ClientState]

\* A coroutine hands on nothing but what it had in hand, or lets go of it.
LEMMA HandShrinks ==
  ASSUME Leased, NEW x \in Client, OnlyMoves(x),
         Hand(client'[x]) \subseteq Hand(client[x]), client'[x].pc # "record",
         \A e \in Event :
           \/ /\ row'[e].due = row[e].due
              /\ row[e].status # "absent" => row'[e].status # "absent"
           \/ e \in Hand(client[x]) \ Hand(client'[x])
  PROVE  Leased'
<1>1. \A y \in Client : Hand(client'[y]) \subseteq Hand(client[y])
  BY DEF OnlyMoves
<1>2. \A y, z \in Client : Hand(client'[y]) \cap Hand(client'[z]) = {} \/ y = z
  BY <1>1 DEF Leased
<1>3. ASSUME NEW y \in Client, NEW e \in Hand(client'[y])
      PROVE  row'[e].due = "leased" /\ row'[e].status # "absent"
  <2>1. e \in Event /\ e \in Hand(client[y])
    BY <1>1, <1>3 DEF Hand
  <2>2. row[e].due = "leased" /\ row[e].status # "absent"
    BY <2>1 DEF Leased
  <2>3. e \notin Hand(client[x]) \ Hand(client'[x])
    BY <1>3, <2>1 DEF Leased
  <2> QED BY <2>1, <2>2, <2>3
<1>4. \A y \in Client : client'[y].pc # "record"
  BY DEF OnlyMoves, Writing
<1>5. \A y \in Client : Hand(client[y])' = Hand(client'[y])
  BY DEF Hand
<1> QED BY <1>2, <1>3, <1>4, <1>5 DEF Leased

\* A coroutine takes up rows that were due, which nobody has in hand.
LEMMA HandTakes ==
  ASSUME Leased, NEW x \in Client, OnlyMoves(x), client'[x].pc # "record",
         NEW S \in SUBSET Event, Hand(client'[x]) \subseteq S,
         \A e \in S : /\ row[e].due = "now"
                      /\ row'[e].due = "leased" /\ row'[e].status # "absent",
         \A e \in Event \ S : row'[e] = row[e]
  PROVE  Leased'
<1>1. \A y \in Client : \A e \in S : e \notin Hand(client[y])
  BY DEF Leased
<1>2. \A y \in Client \ {x} : Hand(client'[y]) = Hand(client[y])
  BY DEF OnlyMoves
<1>3. \A y, z \in Client : Hand(client'[y]) \cap Hand(client'[z]) = {} \/ y = z
  BY <1>1, <1>2 DEF Leased
<1>4. ASSUME NEW y \in Client, NEW e \in Hand(client'[y])
      PROVE  row'[e].due = "leased" /\ row'[e].status # "absent"
  <2>1. CASE y = x
    BY <1>4, <2>1
  <2>2. CASE y # x
    <3>1. e \in Event \ S /\ e \in Hand(client[y])
      BY <1>1, <1>2, <1>4, <2>2 DEF Hand
    <3> QED BY <3>1 DEF Leased
  <2> QED BY <2>1, <2>2
<1>5. \A y \in Client : client'[y].pc # "record"
  BY DEF OnlyMoves, Writing
<1>6. \A y \in Client : Hand(client[y])' = Hand(client'[y])
  BY DEF Hand
<1> QED BY <1>3, <1>4, <1>5, <1>6 DEF Leased

LEMMA BlankHand ==
  ASSUME NEW loc \in {"new", "idle", "done"}
  PROVE  Hand(Blank(loc)) = {} /\ Blank(loc).pc # "record"
BY DEF Hand, Blank, Busy

LEMMA TakenHand ==
  ASSUME NEW e \in Event, NEW rest \in SUBSET Event
  PROVE  LET r == [Blank("deliver") EXCEPT !.event = e, !.rest = rest]
         IN Hand(r) = {e} \cup rest /\ r.pc # "record"
<1> DEFINE r == [Blank("deliver") EXCEPT !.event = e, !.rest = rest]
<1>1. r.pc = "deliver" /\ r.event = e /\ r.rest = rest
  BY DEF Blank
<1> HIDE DEF r
<1>2. Hand(r) = {e} \cup rest
  BY <1>1 DEF Hand, Busy
<1> QED BY <1>1, <1>2 DEF r

\* Proceeding lets go of the event that was delivered.
LEMMA ProceedHand ==
  ASSUME ClientsOK, NEW x \in Client, NEW answer, Proceed(x, answer),
         client[x].pc \in Busy
  PROVE  /\ client'[x].pc # "record" /\ client[x].event \in Hand(client[x])
         /\ Hand(client'[x]) \subseteq Hand(client[x]) \ {client[x].event}
<1>1. /\ client \in [Client -> ClientState] /\ client[x].event \in Event
      /\ client[x].rest \in SUBSET Event /\ client[x].event \notin client[x].rest
  BY DEF ClientsOK, Well, ClientState
<1>2. client[x].rest \cup {client[x].event} = Hand(client[x])
  BY <1>1 DEF Hand
<1>3. CASE x \in Caller
  BY <1>1, <1>2, <1>3, BlankHand DEF Proceed, Tell
<1>4. CASE x \notin Caller /\ client[x].rest = {}
  BY <1>1, <1>2, <1>4, BlankHand DEF Proceed
<1>5. CASE x \notin Caller /\ client[x].rest # {}
  <2>1. PICK e \in client[x].rest : Take(x, e, client[x].rest \ {e})
    BY <1>5 DEF Proceed
  <2>2. Hand(client'[x]) = client[x].rest /\ client'[x].pc # "record"
    <3>1. client'[x] = [Blank("deliver") EXCEPT !.event = e, !.rest = client[x].rest \ {e}]
      BY <1>1, <2>1 DEF Take
    <3>2. e \in Event /\ client[x].rest \ {e} \in SUBSET Event
      BY <1>1
    <3>3. Hand(client'[x]) = {e} \cup (client[x].rest \ {e}) /\ client'[x].pc # "record"
      BY <3>1, <3>2, TakenHand
    <3> QED BY <3>3
  <2> QED BY <1>1, <1>2, <2>2
<1> QED BY <1>3, <1>4, <1>5

Steps(x) == (x \in Caller /\ Call(x)) \/ (x \in Worker /\ Drain(x))

\* Every step of a client changes only that client.
LEMMA ClientAlone ==
  ASSUME Inductive, Inductive', NEW x \in Client,
         Steps(x)
  PROVE  \A y \in Client \ {x} : client'[y] = client[y]
<1>1. \E r : client' = [client EXCEPT ![x] = r]
  BY DEF Steps, Call, Drain, PrepareFails, Enqueue, RecordAttempt, Claim, Unresolved,
         Deliver, Post, MarkDelivered, MarkFailed, ReadAttempts, MarkRetry, Proceed, Tell,
         Take, Goto
<1> QED BY <1>1 DEF Inductive, ClientsOK

\* A delivery lets go of what it has delivered.
LEMMA DeliverLeased ==
  ASSUME Inductive, Inductive', Leased, NEW x \in Client, OnlyMoves(x),
         Deliver(x) \/ Unresolved(x)
  PROVE  Leased'
<1> DEFINE e == client[x].event
<1>1. /\ client[x] \in ClientState /\ e \in Event /\ row \in [Event -> Row]
      /\ client \in [Client -> ClientState]
      /\ \A f \in Event : row[f] \in Row
  BY DEF Inductive, ClientsOK, StoreOK, ClientState
<1>2. CASE Post(x) \/ ReadAttempts(x)
  <2>1. PICK loc \in {"replied", "retry"}, r \in ClientState :
          /\ client'[x] = r /\ r.pc = loc /\ r.event = e /\ r.rest = client[x].rest
    <3>1. CASE Post(x)
      <4>1. PICK reply \in {"accepted", "refused", "temporary"} :
              client' = [client EXCEPT ![x].pc = "replied", ![x].reply = reply]
        BY <3>1 DEF Post
      <4>2. client'[x] = [client[x] EXCEPT !.pc = "replied", !.reply = reply]
        BY <1>1, <4>1
      <4> QED BY <1>1, <4>2 DEF ClientState
    <3>2. CASE ReadAttempts(x)
      <4> DEFINE n == row[e].attempts
      <4>1. n \in Nat
        BY <1>1 DEF Row
      <4>2. client'[x] = [client[x] EXCEPT !.pc = "retry", !.read = n]
        BY <1>1, <3>2 DEF ReadAttempts
      <4> HIDE DEF n
      <4> QED BY <1>1, <4>1, <4>2 DEF ClientState, Writing
    <3> QED BY <1>2, <3>1, <3>2
  <2>2. UNCHANGED row /\ client[x].pc \in Busy
    BY <1>2 DEF Post, ReadAttempts, At, Busy
  <2>3. Hand(client'[x]) \subseteq Hand(client[x]) /\ client'[x].pc # "record"
    BY <2>1, <2>2 DEF Hand
  <2> QED BY <2>2, <2>3, HandShrinks
<1>3. CASE MarkDelivered(x) \/ MarkFailed(x) \/ MarkRetry(x) \/ Unresolved(x)
  <2>1. PICK answer : Proceed(x, answer)
    BY <1>3 DEF MarkDelivered, MarkFailed, MarkRetry, Unresolved
  <2>2. client[x].pc \in Busy
    BY <1>3 DEF MarkDelivered, MarkFailed, MarkRetry, Unresolved, At, Busy
  <2>3. /\ client'[x].pc # "record" /\ e \in Hand(client[x]) \ Hand(client'[x])
        /\ Hand(client'[x]) \subseteq Hand(client[x])
    BY <2>1, <2>2, ProceedHand DEF Inductive
  <2>4. \A f \in Event \ {e} : row'[f] = row[f]
    BY <1>1, <1>3 DEF MarkDelivered, MarkFailed, MarkRetry, Unresolved
  <2> QED BY <2>3, <2>4, HandShrinks
<1> QED BY <1>2, <1>3 DEF Deliver

\* Every step of a caller or a worker.
LEMMA ClientLeased ==
  ASSUME Inductive, Inductive', Leased, NEW x \in Client,
         \A y \in Client \ {x} : client[y].pc \notin Writing,
         Steps(x)
  PROVE  Leased'
<1>1. OnlyMoves(x)
  BY ClientAlone DEF OnlyMoves, Inductive, ClientsOK
<1>2. /\ row \in [Event -> Row] /\ client \in [Client -> ClientState]
      /\ client[x] \in ClientState
  BY DEF Inductive, ClientsOK, StoreOK
<1>3. CASE Deliver(x) \/ Unresolved(x)
  BY <1>1, <1>3, DeliverLeased
<1>4. ASSUME x \in Caller, PrepareFails(x) \/ Enqueue(x) \/ RecordAttempt(x)
      PROVE  Leased'
  <2> DEFINE e == EventOf[x]
  <2>1. e \in Event
    BY <1>4, OutboxAssumption
  <2>2. CASE \E answer : Tell(x, answer) /\ UNCHANGED row
    <3>1. client'[x] = Blank("done")
      BY <1>2, <2>2 DEF Tell
    <3>2. Hand(client'[x]) = {} /\ client'[x].pc # "record"
      BY <3>1, BlankHand
    <3> QED BY <1>1, <2>2, <3>2, HandShrinks
  <2>3. CASE Enqueue(x) /\ Inserted(e)
    <3>1. /\ row' = [row EXCEPT ![e] = [status |-> "pending", attempts |-> 0, due |-> "now"]]
          /\ client' = [client EXCEPT ![x].pc = "record"] /\ client[x].pc = "new"
      BY <2>3 DEF Enqueue, Goto, At
    <3>2. client'[x].pc = "record" /\ client'[x].rest = client[x].rest
      BY <1>2, <3>1 DEF ClientState
    <3>3. client[x].rest = {}
      BY <3>1 DEF Inductive, ClientsOK, Well, Busy
    <3>4. Hand(client'[x]) = {} /\ Hand(client[x]) = {}
      BY <3>1, <3>2, <3>3 DEF Hand, Busy
    <3>5. /\ row'[e].status = "pending" /\ row'[e].due = "now"
          /\ \A f \in Event \ {e} : row'[f] = row[f]
      BY <1>2, <2>1, <3>1
    <3>6. \A y \in Client : e \notin Hand(client[y])
      BY <2>3 DEF Leased, Inserted
    <3>7. \A y \in Client \ {x} : client'[y] = client[y] /\ client[y].pc # "record"
      BY <1>1 DEF OnlyMoves, Writing
    <3>8. \A y \in Client : Hand(client[y])' = Hand(client'[y])
      BY DEF Hand
    <3>9. \A y \in Client : Hand(client'[y]) = Hand(client[y])
      BY <3>4, <3>7
    <3>10. \A y \in Client : \A f \in Hand(client'[y]) :
             row'[f].due = "leased" /\ row'[f].status # "absent"
      <4>1. ASSUME NEW y \in Client, NEW f \in Hand(client'[y])
            PROVE  row'[f] = row[f] /\ f \in Hand(client[y])
        BY <3>5, <3>6, <3>9, <4>1 DEF Hand
      <4> QED BY <4>1 DEF Leased
    <3>11. \A y \in Client : client'[y].pc = "record" => y = x
      BY <3>7
    <3> QED BY <1>4, <3>5, <3>8, <3>9, <3>10, <3>11 DEF Leased
  <2>4. CASE RecordAttempt(x) /\ row[e].status = "pending"
    <3>1. /\ row' = [row EXCEPT ![e] = Reserve(row[e])] /\ Take(x, e, {})
          /\ client[x].pc = "record"
      BY <2>4 DEF RecordAttempt, At
    <3>2. client'[x] = [Blank("deliver") EXCEPT !.event = e, !.rest = {}]
      BY <1>2, <3>1 DEF Take
    <3>3. Hand(client'[x]) \subseteq {e} /\ client'[x].pc # "record"
      BY <2>1, <3>2, TakenHand
    <3>4. row[e].due = "now"
      BY <3>1 DEF Leased
    <3>5. row'[e].due = "leased" /\ row'[e].status # "absent"
      <4>1. row'[e] = Reserve(row[e]) /\ row[e] \in Row
        BY <1>2, <2>1, <3>1
      <4>2. Reserve(row[e]).due = "leased"
        BY <4>1 DEF Reserve, Row
      <4> QED BY <2>4, <4>1, <4>2, ReserveType
    <3>6. \A f \in Event \ {e} : row'[f] = row[f]
      BY <1>2, <3>1
    <3> QED BY <1>1, <2>1, <3>3, <3>4, <3>5, <3>6, HandTakes
  <2> QED BY <1>4, <2>2, <2>3, <2>4 DEF PrepareFails, Enqueue, RecordAttempt
<1>5. ASSUME Claim(x)
      PROVE  Leased'
  <2>1. PICK claimed \in SUBSET DueRows :
          /\ row' = [e \in Event |-> IF e \in claimed THEN Reserve(row[e]) ELSE row[e]]
          /\ \E e \in claimed : Take(x, e, claimed \ {e})
    BY <1>5 DEF Claim
  <2>2. PICK e \in claimed : Take(x, e, claimed \ {e})
    BY <2>1
  <2>3. claimed \subseteq Event /\ \A f \in claimed : row[f].status = "pending" /\ row[f].due = "now"
    BY DEF DueRows
  <2>4. client'[x] = [Blank("deliver") EXCEPT !.event = e, !.rest = claimed \ {e}]
    BY <1>2, <2>2 DEF Take
  <2>5. Hand(client'[x]) \subseteq claimed /\ client'[x].pc # "record"
    <3>1. e \in Event /\ claimed \ {e} \in SUBSET Event
      BY <2>3
    <3>2. Hand(client'[x]) = {e} \cup (claimed \ {e}) /\ client'[x].pc # "record"
      BY <2>4, <3>1, TakenHand
    <3> QED BY <3>2
  <2>6. \A f \in claimed : row'[f].due = "leased" /\ row'[f].status # "absent"
    <3>1. ASSUME NEW f \in claimed
          PROVE  row'[f].due = "leased" /\ row'[f].status # "absent"
      <4>1. row'[f] = Reserve(row[f]) /\ row[f] \in Row
        BY <1>2, <2>1, <2>3
      <4>2. Reserve(row[f]).due = "leased"
        BY <4>1 DEF Reserve, Row
      <4> QED BY <2>3, <4>1, <4>2, ReserveType
    <3> QED BY <3>1
  <2>7. \A f \in Event \ claimed : row'[f] = row[f]
    BY <2>1
  <2> QED BY <1>1, <2>3, <2>5, <2>6, <2>7, HandTakes
<1> QED BY <1>3, <1>4, <1>5 DEF Steps, Call, Drain

LEMMA HandDelivers ==
  \A x \in Client, e \in Event : Delivering(x, e) <=> e \in Hand(client[x])
BY DEF Delivering, Reserved, Hand, Busy

\* A lease passes only when nobody has the event in hand any more.
LEMMA ElapseLeased ==
  ASSUME Inductive, Leased, NEW e \in Event, Elapse(e), "slow" \notin Faults \/ Fast(e)
  PROVE  Leased'
<1>1. row \in [Event -> Row]
  BY DEF Inductive, StoreOK
<1>2. /\ client' = client /\ row'[e].due = "now" /\ row'[e].status = row[e].status
      /\ \A f \in Event \ {e} : row'[f] = row[f]
  BY <1>1 DEF Elapse, Row
<1>3. \A x \in Client : e \notin Hand(client[x])
  <2>1. CASE row[e].due = "leased"
    BY <2>1, HandDelivers DEF Elapse, Fast
  <2>2. CASE row[e].due # "leased"
    BY <2>2 DEF Leased
  <2> QED BY <2>1, <2>2
<1>4. \A x \in Client : Hand(client[x])' = Hand(client[x])
  BY <1>2 DEF Hand
<1>5. \A x \in Client : \A f \in Hand(client[x]) :
        row'[f].due = "leased" /\ row'[f].status # "absent"
  <2>1. \A x \in Client : \A f \in Hand(client[x]) : row'[f] = row[f]
    BY <1>2, <1>3 DEF Hand
  <2> QED BY <2>1 DEF Leased
<1>6. \A x \in Client : client[x].pc = "record" =>
        x \in Caller /\ row'[EventOf[x]].status = "pending" /\ row'[EventOf[x]].due = "now"
  <2>1. \A c \in Caller : EventOf[c] \in Event
    BY OutboxAssumption
  <2> QED BY <1>2, <2>1 DEF Leased
<1> QED BY <1>2, <1>4, <1>5, <1>6 DEF Leased

\* A crash empties the hands of its host.
LEMMA CrashLeased ==
  ASSUME Inductive, Leased, NEW h \in Host, Crash(h)
  PROVE  Leased'
<1>1. /\ row' = row
      /\ \A x \in Client : \/ client'[x] = client[x]
                           \/ client'[x] = Blank("idle") \/ client'[x] = Blank("done")
  BY DEF Crash
<1>2. \A x \in Client : /\ Hand(client'[x]) \subseteq Hand(client[x])
                        /\ client'[x].pc = "record" => client'[x] = client[x]
  BY <1>1, BlankHand
<1>3. \A x \in Client : Hand(client[x])' = Hand(client'[x])
  BY DEF Hand
<1>4. \A x, y \in Client : Hand(client'[x]) \cap Hand(client'[y]) = {} \/ x = y
  BY <1>2 DEF Leased
<1>5. \A x \in Client : \A e \in Hand(client'[x]) :
        row'[e].due = "leased" /\ row'[e].status # "absent"
  BY <1>1, <1>2 DEF Leased
<1>6. \A x \in Client : client'[x].pc = "record" =>
        x \in Caller /\ row'[EventOf[x]].status = "pending" /\ row'[EventOf[x]].due = "now"
  BY <1>1, <1>2 DEF Leased
<1> QED BY <1>3, <1>4, <1>5, <1>6 DEF Leased

LEMMA StillLeased ==
  ASSUME Leased, UNCHANGED <<row, client>>
  PROVE  Leased'
BY DEF Leased, Hand

LEMMA InitLeased == Init => Leased
<1> SUFFICES ASSUME Init PROVE Leased
  OBVIOUS
<1>1. \A x \in Client : client[x] = Blank("new") \/ client[x] = Blank("idle")
  BY DEF Init
<1>2. \A x \in Client : Hand(client[x]) = {} /\ client[x].pc # "record"
  BY <1>1, BlankHand
<1> QED BY <1>2 DEF Leased

LEMMA LeasedDelivers == Leased => OneDelivery
  BY HandDelivers DEF Leased, OneDelivery

\* At says that nobody else of the same host is between two commits.
LEMMA AtAlone ==
  ASSUME NEW x \in Client, Steps(x)
  PROVE  \A y \in Client \ {x} : HostOf[y] = HostOf[x] => client[y].pc \notin Writing
<1>1. \E loc : At(x, loc)
  BY DEF Steps, Call, Drain, PrepareFails, Enqueue, RecordAttempt, Claim, Unresolved,
         Deliver, Post, MarkDelivered, MarkFailed, ReadAttempts, MarkRetry
<1> QED BY <1>1 DEF At

\* In one host a notification is never delivered twice at the same time, whatever
\* the callers and workers do, fails or crashes, as long as no batch outlives its
\* lease (claim_due, record_attempt, drain_once).
THEOREM OneDeliveryInOneHost ==
  ASSUME "slow" \notin Faults, \A x, y \in Client : HostOf[x] = HostOf[y]
  PROVE  Spec => []OneDelivery
<1>1. Inductive /\ Leased /\ [Next]_vars => Leased'
  <2> SUFFICES ASSUME Inductive, Leased, [Next]_vars PROVE Leased'
    OBVIOUS
  <2>1. Inductive'
    BY NextInductive
  <2>2. ASSUME NEW x \in Client, Steps(x)
        PROVE  Leased'
    <3>1. \A y \in Client \ {x} : client[y].pc \notin Writing
      BY <2>2, AtAlone
    <3> QED BY <2>1, <2>2, <3>1, ClientLeased
  <2>3. CASE Rest \/ UNCHANGED vars
    BY <2>3, StillLeased DEF Rest, vars
  <2> QED BY <2>2, <2>3, ElapseLeased, CrashLeased, ClientSorts DEF Next, Steps
<1> QED BY InitLeased, <1>1, LeasedDelivers, InductiveInvariant, PTL DEF Spec

(***************************************************************************)
(* The scene of MCNotificationOutbox in which the clients of one host act.  *)
(***************************************************************************)
Acting == {first, again, other, cliWorker}

SceneInductive ==
  /\ Inductive
  /\ scene = "alone" => Leased /\ \A x \in Client \ Acting : client[x].pc \notin Writing

LEMMA SceneStep ==
  ASSUME {first, again, other, remote} \subseteq Caller, cliWorker \in Worker,
         \A x, y \in Acting : HostOf[x] = HostOf[y],
         SceneInductive, [MCNext]_<<vars, scene>>
  PROVE  SceneInductive'
<1>1. Acting \subseteq Client
  BY DEF Acting, Client
<1>2. Inductive'
  <2>1. CASE [Next]_vars
    BY <2>1, NextInductive DEF SceneInductive
  <2>2. CASE AtRest
    <3>1. UNCHANGED vars
      BY <2>2 DEF AtRest
    <3> QED BY <2>1, <3>1
  <2>3. CASE Alone \/ Shared
    <3>1. Next
      BY <2>3, ClientSorts DEF Alone, Shared, Next, Call, Drain
    <3> QED BY <2>1, <3>1
  <2> QED BY <2>1, <2>2, <2>3 DEF MCNext, vars
<1>3. ASSUME scene' = "alone"
      PROVE  Leased' /\ \A x \in Client \ Acting : client'[x].pc \notin Writing
  <2>1. scene = "alone" /\ (Alone \/ UNCHANGED vars)
    BY <1>3 DEF MCNext, AtRest
  <2>2. /\ Inductive /\ Leased
        /\ \A x \in Client \ Acting : client[x].pc \notin Writing
    BY <2>1 DEF SceneInductive
  <2>3. CASE UNCHANGED vars
    BY <2>2, <2>3, StillLeased DEF vars
  <2>4. ASSUME NEW x \in Acting, Steps(x)
        PROVE  Leased' /\ \A y \in Client \ Acting : client'[y].pc \notin Writing
    <3>1. \A y \in Client \ {x} : client[y].pc \notin Writing
      BY <1>1, <2>2, <2>4, AtAlone
    <3>2. \A y \in Client \ {x} : client'[y] = client[y]
      BY <1>1, <1>2, <2>2, <2>4, ClientAlone
    <3> QED BY <1>1, <1>2, <2>2, <2>4, <3>1, <3>2, ClientLeased
  <2>5. ASSUME NEW e \in Event, Fast(e), Elapse(e)
        PROVE  Leased' /\ \A y \in Client \ Acting : client'[y].pc \notin Writing
    <3>1. client' = client
      BY <2>5 DEF Elapse
    <3> QED BY <2>2, <2>5, <3>1, ElapseLeased
  <2>6. CASE Alone
    <3>1. CASE \E c \in {first, again, other} : Enqueue(c) \/ RecordAttempt(c) \/ Deliver(c)
      BY <2>4, <3>1 DEF Steps, Call, Acting
    <3>2. CASE Claim(cliWorker) \/ Deliver(cliWorker)
      BY <2>4, <3>2 DEF Steps, Drain, Acting
    <3> QED BY <2>5, <2>6, <3>1, <3>2 DEF Alone
  <2> QED BY <2>1, <2>3, <2>6
<1> QED BY <1>2, <1>3 DEF SceneInductive

\* In the scene of one host the callers and the worker never have the same event
\* in hand: record_attempt and claim_due lease what they take.
THEOREM DeliveredOnceAlone ==
  ASSUME {first, again, other, remote} \subseteq Caller, cliWorker \in Worker,
         \A x, y \in {first, again, other, cliWorker} : HostOf[x] = HostOf[y]
  PROVE  MCSpec => []OneDeliveryAlone
<1>1. MCInit => SceneInductive
  <2> SUFFICES ASSUME MCInit PROVE SceneInductive
    OBVIOUS
  <2>1. \A x \in Client : client[x].pc \notin Writing
    BY DEF MCInit, Init, Blank, Writing
  <2> QED BY <2>1, InitInductive, InitLeased DEF MCInit, SceneInductive
<1>2. SceneInductive /\ [MCNext]_<<vars, scene>> => SceneInductive'
  BY SceneStep DEF Acting
<1>3. SceneInductive => OneDeliveryAlone
  BY LeasedDelivers DEF SceneInductive, OneDeliveryAlone
<1> QED BY <1>1, <1>2, <1>3, PTL DEF MCSpec
=============================================================================
