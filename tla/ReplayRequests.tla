--------------------------- MODULE ReplayRequests ---------------------------
(***************************************************************************)
(* Operator-controlled replay of a dead outbox event: the request, its     *)
(* two-person authorization, the rate limits and the execution             *)
(* (shared/sdk/tasks/replay_service.py, replay_request_repository.py),     *)
(* next to a relay that publishes events, gives them up, and can replay    *)
(* one itself (outbox_relay.py).                                           *)
(*                                                                         *)
(* request_replay counts and then inserts, under the advisory lock of the  *)
(* actor and the lock of the event's row: a first step that takes the      *)
(* locks and counts, and a second one that inserts and commits.  Every     *)
(* other operation locks the rows it decides on and is one step.  A denied *)
(* operation changes nothing: it is not enabled.                           *)
(*                                                                         *)
(* The gates are open, the tasks have no production effect (approvals are  *)
(* part of ResumeRequests), the approver is not the requester, and         *)
(* everything happens within one rate-limit window.  The evidence rows     *)
(* are outbox rows like those of OutboxRelay and are left out.             *)
(***************************************************************************)
EXTENDS Integers, FiniteSets

CONSTANTS
    Events,        \* rows of the lifecycle outbox
    Requests,      \* replay requests, each with its own authorization
    Actors,        \* operators
    None,          \* "no event", "no actor"
    ActorCap,      \* max_requests_per_actor_per_window
    EventCap,      \* max_successful_replays_per_event
    MaxEpisodes    \* bound: times an event becomes dead

ASSUME ReplayAssumption ==
    /\ None \notin Events \cup Actors
    /\ ActorCap \in Nat \ {0} /\ EventCap \in Nat \ {0}
    /\ MaxEpisodes \in Nat

VARIABLES
    event,      \* event -> status, and the episode that dead_at:attempts stands for
    request,    \* request -> its replay_requests row, or the transaction that opens it
    auth        \* request -> its resume_replay_authorizations row

vars == <<event, request, auth>>

ActiveStates == {"authorization_pending", "authorized"}
TerminalStates == {"executed", "rejected", "canceled", "expired"}

TypeOK ==
    /\ event \in [Events -> [status  : {"pending", "dead", "published"},
                             episode : 0..MaxEpisodes]]
    /\ request \in
          [Requests -> [state   : {"absent", "opening"} \cup ActiveStates \cup TerminalStates,
                        event   : Events \cup {None},
                        actor   : Actors \cup {None},
                        episode : 0..MaxEpisodes]]
    /\ auth \in
          [Requests -> [decision : {"absent", "pending", "authorized", "rejected", "canceled"},
                        mark     : {"none", "consumed", "revoked", "expired"},
                        overdue  : BOOLEAN]]

NoRequest == [state |-> "absent", event |-> None, actor |-> None, episode |-> 0]

Init ==
    /\ event = [e \in Events |-> [status |-> "pending", episode |-> 0]]
    /\ request = [r \in Requests |-> NoRequest]
    /\ auth = [r \in Requests |-> [decision |-> "absent", mark |-> "none", overdue |-> FALSE]]

-----------------------------------------------------------------------------
\* The locks that request_replay holds between its two steps

Opening(r) == request[r].state = "opening"

RowLocked(e) == \E r \in Requests : Opening(r) /\ request[r].event = e

\* Faulty: the advisory lock is not taken.
ActorLocked_Never(a) == FALSE

ActorLocked(a) == \E r \in Requests : Opening(r) /\ request[r].actor = a

-----------------------------------------------------------------------------
\* The relay

Publishes(e) ==
    /\ event[e].status = "pending"
    /\ event' = [event EXCEPT ![e].status = "published"]
    /\ UNCHANGED <<request, auth>>

\* The attempts are used up; dead_at and attempts are new in every episode.
Dies(e) ==
    /\ event[e].status = "pending" /\ event[e].episode < MaxEpisodes
    /\ event' = [event EXCEPT ![e] = [status |-> "dead", episode |-> @.episode + 1]]
    /\ UNCHANGED <<request, auth>>

\* ClarificationOutboxRelay.replay_dead, which needs no request.
replay_dead(e) ==
    /\ ~RowLocked(e)
    /\ event[e].status = "dead"
    /\ event' = [event EXCEPT ![e].status = "pending"]
    /\ UNCHANGED <<request, auth>>

-----------------------------------------------------------------------------
\* Opening a request

Recorded(r) == request[r].state \notin {"absent", "opening"}

RequestsBy(a) == {r \in Requests : Recorded(r) /\ request[r].actor = a}

ReplaysOf(e) == {r \in Requests : request[r].state = "executed" /\ request[r].event = e}

WithinRate(a, e) ==
    Cardinality(RequestsBy(a)) < ActorCap /\ Cardinality(ReplaysOf(e)) < EventCap

\* request_replay up to its last check.
request_replay(r, a, e) ==
    /\ request[r].state = "absent"
    /\ ~ActorLocked(a) /\ ~RowLocked(e)
    /\ event[e].status = "dead"
    /\ WithinRate(a, e)
    /\ request' = [request EXCEPT ![r] = [state |-> "opening", event |-> e, actor |-> a,
                                          episode |-> event[e].episode]]
    /\ UNCHANGED <<event, auth>>

\* The rows of uq_rra_active_request and of uq_rpr_active_per_event.
ActiveAuth(r) == auth[r].decision \in {"pending", "authorized"} /\ auth[r].mark = "none"
Active(r) == request[r].state \in ActiveStates

SlotTaken(e) == \E q \in Requests : request[q].event = e /\ (Active(q) \/ ActiveAuth(q))

insert_replay_request(r) ==
    /\ Opening(r) /\ ~SlotTaken(request[r].event)
    /\ request' = [request EXCEPT ![r].state = "authorization_pending"]
    /\ auth' = [auth EXCEPT ![r] = [decision |-> "pending", mark |-> "none", overdue |-> FALSE]]
    /\ UNCHANGED event

\* An index is violated (active_request_exists), or the connection is lost.
RollBack(r) ==
    /\ Opening(r)
    /\ request' = [request EXCEPT ![r] = NoRequest]
    /\ UNCHANGED <<event, auth>>

-----------------------------------------------------------------------------
\* Deciding and executing a request

\* Faulty: any change of the row since the request goes unnoticed.
StillDead_NoVersion(r) == event[request[r].event].status = "dead"

\* _dead_eligibility_denial and the comparison of the state versions.
StillDead(r) ==
    /\ event[request[r].event].status = "dead"
    /\ event[request[r].event].episode = request[r].episode

\* The WHERE clauses of approve, reject and cancel, and of consume.
Undecided(r)  == auth[r].decision = "pending" /\ auth[r].mark # "expired"
Consumable(r) == auth[r].decision = "authorized" /\ auth[r].mark = "none" /\ ~auth[r].overdue

authorize_replay(r) ==
    /\ request[r].state = "authorization_pending"
    /\ ~RowLocked(request[r].event)
    /\ StillDead(r) /\ Undecided(r)
    /\ auth' = [auth EXCEPT ![r].decision = "authorized"]
    /\ request' = [request EXCEPT ![r].state = "authorized"]
    /\ UNCHANGED event

\* reject_replay and cancel_replay
Withdraw(r, outcome) ==
    /\ request[r].state = "authorization_pending"
    /\ Undecided(r)
    /\ auth' = [auth EXCEPT ![r].decision = outcome]
    /\ request' = [request EXCEPT ![r].state = outcome]
    /\ UNCHANGED event

\* Faulty: the authorization is only checked after the row has been requeued.
execute_authorized_replay_LateConsume(r) ==
    /\ request[r].state = "authorized"
    /\ ~RowLocked(request[r].event) /\ StillDead(r)
    /\ event' = [event EXCEPT ![request[r].event].status = "pending"]
    /\ auth' = IF Consumable(r) THEN [auth EXCEPT ![r].mark = "consumed"] ELSE auth
    /\ request' = [request EXCEPT ![r].state = "executed"]

\* execute_authorized_replay with a destination that is ready; one that is not
\* leaves evidence and nothing else.
execute_authorized_replay(r) ==
    /\ request[r].state = "authorized"
    /\ ~RowLocked(request[r].event)
    /\ StillDead(r) /\ Consumable(r)
    /\ auth' = [auth EXCEPT ![r].mark = "consumed"]
    /\ event' = [event EXCEPT ![request[r].event].status = "pending"]
    /\ request' = [request EXCEPT ![r].state = "executed"]

-----------------------------------------------------------------------------
\* Expiry and revocation

\* expires_at passes.
BecomesOverdue(r) ==
    /\ auth[r].decision # "absent" /\ ~auth[r].overdue
    /\ auth' = [auth EXCEPT ![r].overdue = TRUE]
    /\ UNCHANGED <<event, request>>

\* authorization_service.revoke takes no lock on the request, which stays authorized.
revoke(r) ==
    /\ auth[r].decision = "authorized" /\ auth[r].mark = "none"
    /\ auth' = [auth EXCEPT ![r].mark = "revoked"]
    /\ UNCHANGED <<event, request>>

\* Faulty: the outcome is written into the decision column.
expire_due_authorizations_Decision ==
    /\ \E r \in Requests : ActiveAuth(r) /\ auth[r].overdue
    /\ auth' = [r \in Requests |->
                   IF ActiveAuth(r) /\ auth[r].overdue
                   THEN [auth[r] EXCEPT !.decision = "expired"] ELSE auth[r]]
    /\ UNCHANGED <<event, request>>

expire_due_authorizations ==
    /\ \E r \in Requests : ActiveAuth(r) /\ auth[r].overdue
    /\ auth' = [r \in Requests |->
                   IF ActiveAuth(r) /\ auth[r].overdue
                   THEN [auth[r] EXCEPT !.mark = "expired"] ELSE auth[r]]
    /\ UNCHANGED <<event, request>>

Due(r) == Active(r) /\ auth[r].overdue

\* One UPDATE over all due rows.  chk_rpr_authorized_coherent refuses an expired
\* row that has an authorized_at: with such a row among them the statement fails.
expire_due_replay_requests ==
    /\ \E r \in Requests : Due(r)
    /\ \A r \in Requests : Due(r) => request[r].state = "authorization_pending"
    /\ request' = [r \in Requests |->
                      IF Due(r) THEN [request[r] EXCEPT !.state = "expired"] ELSE request[r]]
    /\ UNCHANGED <<event, auth>>

-----------------------------------------------------------------------------
RelayStep(e) == Publishes(e) \/ Dies(e) \/ replay_dead(e)

RequestStep(r) ==
    \/ \E a \in Actors, e \in Events : request_replay(r, a, e)
    \/ insert_replay_request(r) \/ RollBack(r)
    \/ authorize_replay(r)
    \/ Withdraw(r, "rejected") \/ Withdraw(r, "canceled")
    \/ execute_authorized_replay(r)
    \/ revoke(r) \/ BecomesOverdue(r)

Next ==
    \/ \E e \in Events : RelayStep(e)
    \/ \E r \in Requests : RequestStep(r)
    \/ expire_due_authorizations \/ expire_due_replay_requests

Spec == Init /\ [][Next]_vars

-----------------------------------------------------------------------------
\* Properties

\* The limits hold however the requests of several operators for several
\* events overlap (acquire_actor_rate_limit_lock: "a plain COUNT-then-INSERT
\* with no lock can overshoot the cap under concurrency").
LimitsHold ==
    /\ \A a \in Actors : Cardinality(RequestsBy(a)) <= ActorCap
    /\ \A e \in Events : Cardinality(ReplaysOf(e)) <= EventCap

\* A replay requeues the dead episode that was requested and approved, and no
\* other: not a later one, after the relay replayed the event itself, and
\* never an event that has been published meanwhile.
NoStaleReplay ==
    [][\A r \in Requests : request'[r].state = "executed" /\ request[r].state # "executed" =>
          LET e == request[r].event
          IN  /\ event[e] = [status |-> "dead", episode |-> request[r].episode]
              /\ event'[e].status = "pending"]_vars

\* The authorization is consumed exactly when its replay is carried out, with
\* no other outcome in between, and one episode is paid for at most once.
ReplaysArePaidFor ==
    \A r \in Requests :
        /\ request[r].state = "executed" <=> auth[r].mark = "consumed"
        /\ \A q \in Requests \ {r} :
              (request[r].state = "executed" /\ request[q].state = "executed"
               /\ request[q].event = request[r].event) => request[q].episode # request[r].episode
-----------------------------------------------------------------------------
\* An authorization as SingleUseGrant sees it: the matter is a dead episode of an
\* event, the deed its replay.
Phase(r) ==
    CASE auth[r].decision = "absent" -> "none"
      [] auth[r].mark = "consumed"   -> "spent"
      [] ActiveAuth(r)               -> IF auth[r].decision = "pending" THEN "asked" ELSE "granted"
      [] OTHER                       -> "void"

Episode(r) == <<request[r].event, request[r].episode>>

Phases == [r \in Requests |-> Phase(r)]
Subjects == [r \in Requests |-> IF Recorded(r) THEN Episode(r) ELSE None]
Replayed == {Episode(r) : r \in {q \in Requests : request[q].state = "executed"}}

Grant == INSTANCE SingleUseGrant WITH
            Grants <- Requests, Matters <- Events \X (0..MaxEpisodes), None <- None,
            phase <- Phases, matter <- Subjects, acted <- Replayed

\* However requests overlap with each other and with the relay, authorizations keep the
\* contract of SingleUseGrant: one that can still be used and one replay for each dead
\* episode, carried out in the step that ends the authorization.
ImplementsGrant == Grant!Spec
=============================================================================
