----------------------- MODULE ReplayRequests_proofs -----------------------
(***************************************************************************)
(* What an operator's replay may do, for any number of operators, events   *)
(* and requests.  Counting and inserting are two steps; the argument is    *)
(* that the locks between them keep what was counted, and that a dead      *)
(* episode that was replayed is over.                                      *)
(***************************************************************************)
EXTENDS ReplayRequests, FiniteSetTheorems, TLAPS

\* A request and its authorization say the same of each other.
RowsCohere ==
    \A r \in Requests :
        /\ request[r].state # "absent" => request[r].event \in Events /\ request[r].actor \in Actors
        /\ Recorded(r) <=> auth[r].decision # "absent"
        /\ request[r].state = "executed" <=> auth[r].mark = "consumed"

\* The episode that was replayed is not the dead one that another request can replay.
ExecutedAreOver ==
    \A r \in Requests : request[r].state = "executed" =>
        LET e == event[request[r].event]
        IN  request[r].episode < e.episode \/ (request[r].episode = e.episode /\ e.status # "dead")

PaidOnce ==
    \A r, q \in Requests :
        (r # q /\ request[r].state = "executed" /\ request[q].state = "executed"
         /\ request[q].event = request[r].event) => request[q].episode # request[r].episode

\* An actor has one request between the two steps, and then room for it.
ActorsCounted ==
    \A a \in Actors :
        /\ IsFiniteSet(RequestsBy(a)) /\ Cardinality(RequestsBy(a)) <= ActorCap
        /\ ActorLocked(a) => Cardinality(RequestsBy(a)) < ActorCap
        /\ \A r, q \in Requests : Opening(r) /\ Opening(q) /\ request[r].actor = a
                                  /\ request[q].actor = a => r = q

\* An event has one active request, and as long as it has one, or one is opened, room for its
\* execution.
EventsCounted ==
    \A e \in Events :
        /\ IsFiniteSet(ReplaysOf(e)) /\ Cardinality(ReplaysOf(e)) <= EventCap
        /\ (\E r \in Requests : request[r].event = e /\ (Opening(r) \/ Active(r))) =>
              Cardinality(ReplaysOf(e)) < EventCap
        /\ \A r, q \in Requests : Active(r) /\ Active(q) /\ request[r].event = e
                                  /\ request[q].event = e => r = q

IInv ==
    TypeOK /\ RowsCohere /\ ExecutedAreOver /\ PaidOnce /\ ActorsCounted /\ EventsCounted
-----------------------------------------------------------------------------
States == {"absent", "opening"} \cup ActiveStates \cup TerminalStates

\* The initial states satisfy the invariant.
LEMMA InitIInv == Init => IInv
<1> SUFFICES ASSUME Init PROVE IInv
  OBVIOUS
<1>1. NoRequest \in [state : States, event : Events \cup {None}, actor : Actors \cup {None},
                     episode : 0..MaxEpisodes]
  BY ReplayAssumption DEF NoRequest, States
<1>2. \A r \in Requests : request[r] = NoRequest /\ request[r].state = "absent"
  BY DEF Init, NoRequest
<1>3. TypeOK
  <2>1. event \in [Events -> [status : {"pending", "dead", "published"}, episode : 0..MaxEpisodes]]
    BY ReplayAssumption DEF Init
  <2>2. request \in [Requests -> [state : States, event : Events \cup {None},
                                  actor : Actors \cup {None}, episode : 0..MaxEpisodes]]
    BY <1>1 DEF Init
  <2>3. auth \in [Requests -> [decision : {"absent", "pending", "authorized", "rejected", "canceled"},
                               mark : {"none", "consumed", "revoked", "expired"}, overdue : BOOLEAN]]
    BY DEF Init
  <2> QED BY <2>1, <2>2, <2>3 DEF TypeOK, States
<1>4. RowsCohere
  BY <1>2 DEF Init, RowsCohere, Recorded
<1>5. ExecutedAreOver /\ PaidOnce
  BY <1>2 DEF ExecutedAreOver, PaidOnce
<1>6. ActorsCounted
  <2>1. \A a \in Actors : RequestsBy(a) = {}
    BY <1>2 DEF RequestsBy, Recorded
  <2>2. \A r \in Requests : ~Opening(r)
    BY <1>2 DEF Opening
  <2> QED BY <2>1, <2>2, FS_EmptySet, ReplayAssumption DEF ActorsCounted, ActorLocked
<1>7. EventsCounted
  <2>1. \A e \in Events : ReplaysOf(e) = {}
    BY <1>2 DEF ReplaysOf
  <2>2. \A r \in Requests : ~Opening(r) /\ ~Active(r)
    BY <1>2 DEF Opening, Active, ActiveStates
  <2> QED BY <2>1, <2>2, FS_EmptySet, ReplayAssumption DEF EventsCounted
<1> QED BY <1>3, <1>4, <1>5, <1>6, <1>7 DEF IInv
-----------------------------------------------------------------------------
(* Steps that change no count *)

\* The relay goes on with an event: an episode that was replayed does not come back.
LEMMA RelayKeeps ==
    ASSUME IInv, NEW e \in Events, RelayStep(e)
    PROVE  IInv'
<1>1. UNCHANGED <<request, auth>>
  BY DEF RelayStep, Publishes, Dies, replay_dead
<1>2. /\ event' \in [Events -> [status : {"pending", "dead", "published"}, episode : 0..MaxEpisodes]]
      /\ \A d \in Events :
           \/ event'[d] = event[d]
           \/ event'[d].episode = event[d].episode /\ event'[d].status # "dead"
           \/ event'[d].episode = event[d].episode + 1
  <2>1. CASE Publishes(e)
    BY <2>1 DEF Publishes, IInv, TypeOK
  <2>2. CASE replay_dead(e)
    BY <2>2 DEF replay_dead, IInv, TypeOK
  <2>3. CASE Dies(e)
    <3>1. /\ event[e].episode \in 0..MaxEpisodes /\ event[e].episode < MaxEpisodes
          /\ event' = [event EXCEPT ![e] = [status |-> "dead", episode |-> event[e].episode + 1]]
      BY <2>3 DEF Dies, IInv, TypeOK
    <3>2. event[e].episode + 1 \in 0..MaxEpisodes
      BY <3>1, ReplayAssumption
    <3> QED BY <3>1, <3>2 DEF IInv, TypeOK
  <2> QED BY <2>1, <2>2, <2>3 DEF RelayStep
<1>3. TypeOK'
  BY <1>1, <1>2 DEF IInv, TypeOK
<1>4. RowsCohere' /\ PaidOnce'
  BY <1>1 DEF IInv, RowsCohere, PaidOnce, Recorded
<1>5. ExecutedAreOver'
  <2> SUFFICES ASSUME NEW r \in Requests, request[r].state = "executed"
               PROVE  LET d == event'[request[r].event]
                      IN  request[r].episode < d.episode
                          \/ (request[r].episode = d.episode /\ d.status # "dead")
    BY <1>1 DEF ExecutedAreOver
  <2>1. /\ request[r].event \in Events /\ request[r].episode \in Nat
        /\ event[request[r].event].episode \in Nat
    BY ReplayAssumption DEF IInv, RowsCohere, TypeOK
  <2> QED BY <1>2, <2>1 DEF IInv, ExecutedAreOver
<1>6. ActorsCounted'
  BY <1>1 DEF IInv, ActorsCounted, RequestsBy, Recorded, ActorLocked, Opening
<1>7. EventsCounted'
  BY <1>1 DEF IInv, EventsCounted, ReplaysOf, Opening, Active
<1> QED BY <1>3, <1>4, <1>5, <1>6, <1>7 DEF IInv

\* What a request may do without being counted anew: nothing, be rolled back, or go on to
\* another state of a request that is not carried out.
Quiet(r) ==
    \/ request'[r] = request[r]
    \/ Opening(r) /\ request'[r] = NoRequest
    \/ /\ Active(r)
       /\ \E s \in {"authorized", "rejected", "canceled", "expired"} :
             request'[r] = [request[r] EXCEPT !.state = s]

LEMMA QuietMoves ==
    ASSUME IInv, UNCHANGED event, \A r \in Requests : Quiet(r),
           request' \in [Requests -> [state : States, event : Events \cup {None},
                                      actor : Actors \cup {None}, episode : 0..MaxEpisodes]],
           auth' \in [Requests ->
                         [decision : {"absent", "pending", "authorized", "rejected", "canceled"},
                          mark     : {"none", "consumed", "revoked", "expired"},
                          overdue  : BOOLEAN]],
           \A r \in Requests : /\ auth'[r].decision = "absent" <=> auth[r].decision = "absent"
                               /\ auth'[r].mark = "consumed" <=> auth[r].mark = "consumed"
    PROVE  IInv'
<1>1. TypeOK'
  BY DEF IInv, TypeOK, States
<1>2. \A r \in Requests :
        /\ request'[r].state = "executed" <=> request[r].state = "executed"
        /\ Recorded(r)' <=> Recorded(r)
        /\ Opening(r)' => Opening(r)
        /\ Active(r)' => Active(r)
        /\ request'[r].state # "absent" =>
              /\ request'[r].event = request[r].event /\ request'[r].actor = request[r].actor
              /\ request'[r].episode = request[r].episode /\ request[r].state # "absent"
  <2> SUFFICES ASSUME NEW r \in Requests
               PROVE  /\ request'[r].state = "executed" <=> request[r].state = "executed"
                      /\ Recorded(r)' <=> Recorded(r)
                      /\ Opening(r)' => Opening(r)
                      /\ Active(r)' => Active(r)
                      /\ request'[r].state # "absent" =>
                            /\ request'[r].event = request[r].event
                            /\ request'[r].actor = request[r].actor
                            /\ request'[r].episode = request[r].episode
                            /\ request[r].state # "absent"
    OBVIOUS
  <2>1. CASE request'[r] = request[r]
    BY <2>1 DEF Recorded, Opening, Active
  <2>2. CASE Opening(r) /\ request'[r] = NoRequest
    BY <2>2 DEF Recorded, Opening, Active, ActiveStates, NoRequest
  <2>3. CASE /\ Active(r)
             /\ \E s \in {"authorized", "rejected", "canceled", "expired"} :
                   request'[r] = [request[r] EXCEPT !.state = s]
    BY <2>3 DEF IInv, TypeOK, Recorded, Opening, Active, ActiveStates
  <2> QED BY <2>1, <2>2, <2>3 DEF Quiet
<1>3. RowsCohere'
  BY <1>2 DEF IInv, RowsCohere, Recorded
<1>4. ExecutedAreOver' /\ PaidOnce'
  BY <1>2 DEF IInv, ExecutedAreOver, PaidOnce
<1>5. \A a \in Actors : RequestsBy(a)' = RequestsBy(a)
  BY <1>2 DEF RequestsBy, Recorded
<1>6. ActorsCounted'
  <2>1. \A a \in Actors : ActorLocked(a)' => ActorLocked(a)
    BY <1>2 DEF ActorLocked, Opening
  <2>2. \A r \in Requests : Opening(r)' => Opening(r) /\ request'[r].actor = request[r].actor
    BY <1>2 DEF Opening
  <2>3. \A a \in Actors : RequestsBy(a)' = RequestsBy(a) /\ (ActorLocked(a)' => ActorLocked(a))
    BY <1>5, <2>1
  <2> QED BY <2>2, <2>3 DEF IInv, ActorsCounted
<1>7. \A e \in Events : ReplaysOf(e)' = ReplaysOf(e)
  BY <1>2 DEF ReplaysOf
<1>8. EventsCounted'
  <2>1. \A r \in Requests : Opening(r)' \/ Active(r)' => request'[r].state # "absent"
    BY DEF Opening, Active, ActiveStates
  <2> QED BY <1>2, <1>7, <2>1 DEF IInv, EventsCounted
<1> QED BY <1>1, <1>3, <1>4, <1>6, <1>8 DEF IInv

\* authorize_replay, reject_replay, cancel_replay, a rollback, revoke and the two expiries.
LEMMA QuietSteps ==
    ASSUME IInv,
           \/ \E r \in Requests : \/ RollBack(r) \/ authorize_replay(r)
                                  \/ Withdraw(r, "rejected") \/ Withdraw(r, "canceled")
                                  \/ revoke(r) \/ BecomesOverdue(r)
           \/ expire_due_authorizations \/ expire_due_replay_requests
    PROVE  IInv'
<1> DEFINE Row == [state : States, event : Events \cup {None}, actor : Actors \cup {None},
                   episode : 0..MaxEpisodes]
           Auth == [decision : {"absent", "pending", "authorized", "rejected", "canceled"},
                    mark     : {"none", "consumed", "revoked", "expired"},
                    overdue  : BOOLEAN]
<1>1. request \in [Requests -> Row] /\ auth \in [Requests -> Auth]
  BY DEF IInv, TypeOK, States
<1>2. NoRequest \in Row
  BY ReplayAssumption DEF NoRequest, States
<1>3. ASSUME NEW r \in Requests, RollBack(r) PROVE IInv'
  <2>1. UNCHANGED <<event, auth>> /\ Opening(r) /\ request' = [request EXCEPT ![r] = NoRequest]
    BY <1>3 DEF RollBack
  <2>2. request' \in [Requests -> Row]
    BY <1>1, <1>2, <2>1
  <2>3. \A q \in Requests : Quiet(q)
    BY <1>1, <2>1 DEF Quiet
  <2> QED BY <1>1, <2>1, <2>2, <2>3, QuietMoves
<1>4. ASSUME NEW r \in Requests, NEW s \in {"authorized", "rejected", "canceled"},
             UNCHANGED event, request[r].state = "authorization_pending", Undecided(r),
             request' = [request EXCEPT ![r].state = s], auth' = [auth EXCEPT ![r].decision = s]
      PROVE  IInv'
  <2>1. request' \in [Requests -> Row]
    BY <1>1, <1>4 DEF States, ActiveStates, TerminalStates
  <2>2. auth' \in [Requests -> Auth]
    BY <1>1, <1>4
  <2>3. \A q \in Requests : Quiet(q)
    BY <1>1, <1>4 DEF Quiet, Active, ActiveStates
  <2>4. \A q \in Requests : /\ auth'[q].decision = "absent" <=> auth[q].decision = "absent"
                            /\ auth'[q].mark = "consumed" <=> auth[q].mark = "consumed"
    BY <1>1, <1>4 DEF Undecided
  <2> QED BY <1>4, <2>1, <2>2, <2>3, <2>4, QuietMoves
<1>5. ASSUME NEW r \in Requests, authorize_replay(r) \/ Withdraw(r, "rejected") \/ Withdraw(r, "canceled")
      PROVE  IInv'
  <2>1. PICK s \in {"authorized", "rejected", "canceled"} :
          /\ UNCHANGED event /\ request[r].state = "authorization_pending" /\ Undecided(r)
          /\ request' = [request EXCEPT ![r].state = s]
          /\ auth' = [auth EXCEPT ![r].decision = s]
    BY <1>5 DEF authorize_replay, Withdraw
  <2> QED BY <1>4, <2>1
<1>6. ASSUME UNCHANGED <<event, request>>, auth' \in [Requests -> Auth],
             \A r \in Requests :
                /\ auth'[r].decision = auth[r].decision
                /\ auth'[r].mark = auth[r].mark
                   \/ (auth[r].mark = "none" /\ auth'[r].mark \in {"revoked", "expired"})
      PROVE  IInv'
  <2>1. \A q \in Requests : Quiet(q)
    BY <1>6 DEF Quiet
  <2>2. \A q \in Requests : /\ auth'[q].decision = "absent" <=> auth[q].decision = "absent"
                            /\ auth'[q].mark = "consumed" <=> auth[q].mark = "consumed"
    BY <1>6
  <2> QED BY <1>1, <1>6, <2>1, <2>2, QuietMoves
<1>7. ASSUME NEW r \in Requests, revoke(r) PROVE IInv'
  <2>1. /\ UNCHANGED <<event, request>> /\ auth' = [auth EXCEPT ![r].mark = "revoked"]
        /\ auth[r].mark = "none"
    BY <1>7 DEF revoke
  <2> QED BY <1>1, <1>6, <2>1
<1>8. ASSUME NEW r \in Requests, BecomesOverdue(r) PROVE IInv'
  <2>1. UNCHANGED <<event, request>> /\ auth' = [auth EXCEPT ![r].overdue = TRUE]
    BY <1>8 DEF BecomesOverdue
  <2> QED BY <1>1, <1>6, <2>1
<1>9. ASSUME expire_due_authorizations PROVE IInv'
  <2>1. /\ UNCHANGED <<event, request>>
        /\ auth' = [r \in Requests |-> IF ActiveAuth(r) /\ auth[r].overdue
                                       THEN [auth[r] EXCEPT !.mark = "expired"] ELSE auth[r]]
    BY <1>9 DEF expire_due_authorizations
  <2>2. \A r \in Requests : ActiveAuth(r) => auth[r].mark = "none"
    BY DEF ActiveAuth
  <2>3. \A r \in Requests : [auth[r] EXCEPT !.mark = "expired"] \in Auth
    BY <1>1
  <2>4. auth' \in [Requests -> Auth]
    BY <1>1, <2>1, <2>3
  <2>5. \A r \in Requests :
           \/ auth'[r] = auth[r]
           \/ ActiveAuth(r) /\ auth'[r] = [auth[r] EXCEPT !.mark = "expired"]
    BY <2>1
  <2>6. \A r \in Requests : /\ auth'[r].decision = auth[r].decision
                            /\ auth'[r].mark = auth[r].mark
                               \/ (auth[r].mark = "none" /\ auth'[r].mark \in {"revoked", "expired"})
    <3> TAKE r \in Requests
    <3>1. auth[r] \in Auth
      BY <1>1
    <3>2. CASE auth'[r] = auth[r]
      BY <3>2
    <3>3. CASE ActiveAuth(r) /\ auth'[r] = [auth[r] EXCEPT !.mark = "expired"]
      <4>1. auth'[r].decision = auth[r].decision /\ auth'[r].mark = "expired"
        BY <3>1, <3>3
      <4>2. auth[r].mark = "none"
        BY <2>2, <3>3
      <4> QED BY <4>1, <4>2
    <3> QED BY <2>5, <3>2, <3>3
  <2> QED BY <1>6, <2>1, <2>4, <2>6
<1>10. ASSUME expire_due_replay_requests PROVE IInv'
  <2>1. /\ UNCHANGED <<event, auth>>
        /\ request' = [r \in Requests |->
                         IF Due(r) THEN [request[r] EXCEPT !.state = "expired"] ELSE request[r]]
    BY <1>10 DEF expire_due_replay_requests
  <2>2. \A r \in Requests : [request[r] EXCEPT !.state = "expired"] \in Row
    BY <1>1 DEF States, TerminalStates
  <2>3. request' \in [Requests -> Row]
    BY <1>1, <2>1, <2>2
  <2>4. \A q \in Requests : Quiet(q)
    BY <2>1 DEF Quiet, Due
  <2> QED BY <1>1, <2>1, <2>3, <2>4, QuietMoves
<1> QED BY <1>3, <1>5, <1>7, <1>8, <1>9, <1>10
-----------------------------------------------------------------------------
(* Steps that count, and steps that are counted *)

\* A request is opened: its actor and its event have room, and nobody else opens one for them.
LEMMA RequestKeeps ==
    ASSUME IInv, NEW r \in Requests, NEW a \in Actors, NEW e \in Events, request_replay(r, a, e)
    PROVE  IInv'
<1> DEFINE new == [state |-> "opening", event |-> e, actor |-> a, episode |-> event[e].episode]
<1>1. /\ request[r].state = "absent" /\ ~ActorLocked(a) /\ WithinRate(a, e)
      /\ request' = [request EXCEPT ![r] = new] /\ UNCHANGED <<event, auth>>
  BY DEF request_replay
<1>2. /\ request'[r] = new /\ \A q \in Requests \ {r} : request'[q] = request[q]
      /\ new.state = "opening" /\ new.actor = a /\ new.event = e
  BY <1>1 DEF IInv, TypeOK
<1>3. TypeOK'
  <2>1. new \in [state : States, event : Events \cup {None}, actor : Actors \cup {None},
                 episode : 0..MaxEpisodes]
    BY DEF IInv, TypeOK, States
  <2> QED BY <1>1, <2>1 DEF IInv, TypeOK, States
<1> HIDE DEF new
<1>4. RowsCohere'
  BY <1>1, <1>2 DEF IInv, RowsCohere, Recorded
<1>5. ExecutedAreOver' /\ PaidOnce'
  BY <1>1, <1>2 DEF IInv, ExecutedAreOver, PaidOnce
<1>6. \A b \in Actors : RequestsBy(b)' = RequestsBy(b)
  BY <1>1, <1>2 DEF RequestsBy, Recorded
<1>7. \A d \in Events : ReplaysOf(d)' = ReplaysOf(d)
  BY <1>1, <1>2 DEF ReplaysOf
<1>8. ActorsCounted'
  <2>1. \A b \in Actors : ActorLocked(b)' => ActorLocked(b) \/ b = a
    BY <1>2 DEF ActorLocked, Opening
  <2>2. \A q \in Requests : Opening(q)' => q = r \/ (Opening(q) /\ request'[q].actor = request[q].actor)
    BY <1>2 DEF Opening
  <2>3. \A q \in Requests : Opening(q) => request[q].actor # a
    BY <1>1 DEF ActorLocked
  <2>4. Cardinality(RequestsBy(a)) < ActorCap
    BY <1>1 DEF WithinRate
  <2>5. ASSUME NEW b \in Actors, NEW p \in Requests, NEW q \in Requests, Opening(p)', Opening(q)',
               request'[p].actor = b, request'[q].actor = b
        PROVE  p = q
    BY <1>2, <2>2, <2>3, <2>5 DEF IInv, ActorsCounted
  <2>6. ASSUME NEW b \in Actors
        PROVE  /\ IsFiniteSet(RequestsBy(b)') /\ Cardinality(RequestsBy(b)') <= ActorCap
               /\ ActorLocked(b)' => Cardinality(RequestsBy(b)') < ActorCap
    BY <1>6, <2>1, <2>4 DEF IInv, ActorsCounted
  <2> QED BY <2>5, <2>6 DEF ActorsCounted
<1>9. EventsCounted'
  <2>1. \A q \in Requests : Active(q)' => q # r /\ Active(q) /\ request'[q].event = request[q].event
    BY <1>2 DEF Active, ActiveStates
  <2>2. \A q \in Requests : Opening(q)' => q = r \/ (Opening(q) /\ request'[q].event = request[q].event)
    BY <1>2 DEF Opening
  <2>3. Cardinality(ReplaysOf(e)) < EventCap
    BY <1>1 DEF WithinRate
  <2>4. ASSUME NEW d \in Events, NEW q \in Requests, request'[q].event = d, Opening(q)' \/ Active(q)'
        PROVE  Cardinality(ReplaysOf(d)) < EventCap
    BY <1>2, <2>1, <2>2, <2>3, <2>4 DEF IInv, EventsCounted
  <2>5. ASSUME NEW d \in Events, NEW p \in Requests, NEW q \in Requests, Active(p)', Active(q)',
               request'[p].event = d, request'[q].event = d
        PROVE  p = q
    BY <2>1, <2>5 DEF IInv, EventsCounted
  <2>6. \A d \in Events : IsFiniteSet(ReplaysOf(d)') /\ Cardinality(ReplaysOf(d)') <= EventCap
    BY <1>7 DEF IInv, EventsCounted
  <2> QED BY <1>7, <2>4, <2>5, <2>6 DEF EventsCounted
<1> QED BY <1>3, <1>4, <1>5, <1>8, <1>9 DEF IInv

\* The request is inserted: its actor has one request more, for which it still has room, and
\* its event no other active one.
LEMMA InsertKeeps ==
    ASSUME IInv, NEW r \in Requests, insert_replay_request(r)
    PROVE  IInv'
<1> DEFINE row == [request[r] EXCEPT !.state = "authorization_pending"]
<1>0. PICK a \in Actors : a = request[r].actor
  BY DEF insert_replay_request, Opening, IInv, RowsCohere
<1>1. /\ request[r].state = "opening" /\ ~SlotTaken(request[r].event)
      /\ request' = [request EXCEPT ![r] = row]
      /\ auth' = [auth EXCEPT ![r] = [decision |-> "pending", mark |-> "none", overdue |-> FALSE]]
      /\ UNCHANGED event
  BY DEF insert_replay_request, Opening, IInv, TypeOK
<1>2. /\ request'[r] = row /\ \A q \in Requests \ {r} : request'[q] = request[q]
      /\ row.state = "authorization_pending" /\ row.actor = a /\ row.event = request[r].event
  BY <1>0, <1>1 DEF IInv, TypeOK
<1>3. TypeOK'
  <2>1. row \in [state : States, event : Events \cup {None}, actor : Actors \cup {None},
                 episode : 0..MaxEpisodes]
    BY DEF IInv, TypeOK, States, ActiveStates
  <2> QED BY <1>1, <2>1 DEF IInv, TypeOK, States
<1> HIDE DEF row
<1>4. request[r].event \in Events
  BY <1>1 DEF IInv, RowsCohere
<1>5. RowsCohere'
  <2>1. /\ auth'[r].decision = "pending" /\ auth'[r].mark = "none"
        /\ \A q \in Requests \ {r} : auth'[q] = auth[q]
    BY <1>1 DEF IInv, TypeOK
  <2> QED BY <1>0, <1>2, <1>4, <2>1 DEF IInv, RowsCohere, Recorded
<1>6. ExecutedAreOver' /\ PaidOnce'
  BY <1>1, <1>2 DEF IInv, ExecutedAreOver, PaidOnce
<1>7. RequestsBy(a)' = RequestsBy(a) \cup {r} /\ r \notin RequestsBy(a)
  BY <1>0, <1>1, <1>2 DEF RequestsBy, Recorded
<1>8. \A b \in Actors \ {a} : RequestsBy(b)' = RequestsBy(b)
  BY <1>0, <1>1, <1>2 DEF RequestsBy, Recorded
<1>9. \A d \in Events : ReplaysOf(d)' = ReplaysOf(d)
  BY <1>1, <1>2 DEF ReplaysOf
<1>10. \A q \in Requests : Opening(q)' => q # r /\ Opening(q) /\ request'[q] = request[q]
  BY <1>2 DEF Opening
<1>11. ActorsCounted'
  <2>1. Opening(r)
    BY <1>1 DEF Opening
  <2>2. IsFiniteSet(RequestsBy(a)) /\ Cardinality(RequestsBy(a)) < ActorCap
    BY <1>0, <2>1 DEF IInv, ActorsCounted, ActorLocked
  <2>3. IsFiniteSet(RequestsBy(a)') /\ Cardinality(RequestsBy(a)') <= ActorCap
    <3>1. /\ IsFiniteSet(RequestsBy(a) \cup {r})
          /\ Cardinality(RequestsBy(a) \cup {r}) = Cardinality(RequestsBy(a)) + 1
      BY <1>7, <2>2, FS_AddElement
    <3>2. Cardinality(RequestsBy(a)) \in Nat
      BY <2>2, FS_CardinalityType
    <3> QED BY <1>7, <2>2, <3>1, <3>2, ReplayAssumption
  <2>4. \A q \in Requests : Opening(q)' => request'[q].actor # a
    BY <1>0, <1>10, <2>1 DEF IInv, ActorsCounted
  <2>5. ASSUME NEW b \in Actors
        PROVE  /\ IsFiniteSet(RequestsBy(b)') /\ Cardinality(RequestsBy(b)') <= ActorCap
               /\ ActorLocked(b)' => Cardinality(RequestsBy(b)') < ActorCap
    <3>1. CASE b = a
      BY <2>3, <2>4, <3>1 DEF ActorLocked
    <3>2. CASE b # a
      <4>1. ActorLocked(b)' => ActorLocked(b)
        BY <1>10 DEF ActorLocked
      <4> QED BY <1>8, <3>2, <4>1 DEF IInv, ActorsCounted
    <3> QED BY <3>1, <3>2
  <2>6. ASSUME NEW b \in Actors, NEW p \in Requests, NEW q \in Requests, Opening(p)', Opening(q)',
               request'[p].actor = b, request'[q].actor = b
        PROVE  p = q
    BY <1>10, <2>6 DEF IInv, ActorsCounted
  <2> QED BY <2>5, <2>6 DEF ActorsCounted
<1>12. EventsCounted'
  <2>1. \A q \in Requests : Active(q)' => q = r \/ (Active(q) /\ request'[q] = request[q])
    BY <1>2 DEF Active
  <2>2. \A q \in Requests : Active(q) => request[q].event # request[r].event
    BY <1>1 DEF SlotTaken
  <2>3. ASSUME NEW d \in Events, NEW q \in Requests, request'[q].event = d, Opening(q)' \/ Active(q)'
        PROVE  Cardinality(ReplaysOf(d)) < EventCap
    <3>1. request[q].event = d /\ (Opening(q) \/ Active(q))
      BY <1>1, <1>2, <1>10, <2>1, <2>3 DEF Opening
    <3> QED BY <3>1 DEF IInv, EventsCounted
  <2>4. ASSUME NEW d \in Events, NEW p \in Requests, NEW q \in Requests, Active(p)', Active(q)',
               request'[p].event = d, request'[q].event = d
        PROVE  p = q
    BY <1>2, <2>1, <2>2, <2>4 DEF IInv, EventsCounted
  <2>5. \A d \in Events : IsFiniteSet(ReplaysOf(d)') /\ Cardinality(ReplaysOf(d)') <= EventCap
    BY <1>9 DEF IInv, EventsCounted
  <2> QED BY <1>9, <2>3, <2>4, <2>5 DEF EventsCounted
<1> QED BY <1>3, <1>5, <1>6, <1>11, <1>12 DEF IInv

\* The request is carried out: it is its event's only active one and nobody opens another, so
\* the room it was given is still there; and the dead episode it requeues is over.
LEMMA ExecuteKeeps ==
    ASSUME IInv, NEW r \in Requests, execute_authorized_replay(r)
    PROVE  IInv'
<1> DEFINE row == [request[r] EXCEPT !.state = "executed"]
<1>0. PICK e \in Events : e = request[r].event
  BY DEF execute_authorized_replay, IInv, RowsCohere
<1>1. /\ request[r].state = "authorized" /\ ~RowLocked(e) /\ auth[r].decision = "authorized"
      /\ event[e].status = "dead" /\ event[e].episode = request[r].episode
      /\ request' = [request EXCEPT ![r] = row]
      /\ auth' = [auth EXCEPT ![r].mark = "consumed"]
      /\ event' = [event EXCEPT ![e].status = "pending"]
  BY <1>0 DEF execute_authorized_replay, StillDead, Consumable, IInv, TypeOK
<1>2. /\ request'[r] = row /\ \A q \in Requests \ {r} : request'[q] = request[q]
      /\ row.state = "executed" /\ row.actor = request[r].actor /\ row.event = e
      /\ row.episode = request[r].episode
  BY <1>0, <1>1 DEF IInv, TypeOK
<1>3. TypeOK'
  <2>1. row \in [state : States, event : Events \cup {None}, actor : Actors \cup {None},
                 episode : 0..MaxEpisodes]
    BY DEF IInv, TypeOK, States, TerminalStates
  <2>2. event' \in [Events -> [status : {"pending", "dead", "published"}, episode : 0..MaxEpisodes]]
    BY <1>1 DEF IInv, TypeOK
  <2> QED BY <1>1, <2>1, <2>2 DEF IInv, TypeOK, States
<1> HIDE DEF row
<1>4. RowsCohere'
  <2>1. /\ auth'[r].decision = "authorized" /\ auth'[r].mark = "consumed"
        /\ \A q \in Requests \ {r} : auth'[q] = auth[q]
    BY <1>1 DEF IInv, TypeOK
  <2> QED BY <1>0, <1>1, <1>2, <2>1 DEF IInv, RowsCohere, Recorded
<1>5. /\ event'[e].episode = event[e].episode /\ event'[e].status = "pending"
      /\ \A d \in Events \ {e} : event'[d] = event[d]
  BY <1>1 DEF IInv, TypeOK
<1>6. ExecutedAreOver'
  <2> SUFFICES ASSUME NEW q \in Requests, request'[q].state = "executed"
               PROVE  LET d == event'[request'[q].event]
                      IN  request'[q].episode < d.episode
                          \/ (request'[q].episode = d.episode /\ d.status # "dead")
    BY DEF ExecutedAreOver
  <2>1. CASE q = r
    BY <1>1, <1>2, <1>5, <2>1
  <2>2. CASE q # r
    <3>1. request'[q] = request[q] /\ request[q].state = "executed" /\ request[q].event \in Events
      BY <1>2, <2>2 DEF IInv, RowsCohere
    <3> QED BY <1>5, <3>1 DEF IInv, ExecutedAreOver
  <2> QED BY <2>1, <2>2
<1>7. PaidOnce'
  <2>1. ASSUME NEW q \in Requests, q # r, request[q].state = "executed", request[q].event = e
        PROVE  request[q].episode # request[r].episode
    <3>1. request[q].episode < event[e].episode /\ request[q].episode \in Nat
      BY <1>1, <2>1, ReplayAssumption DEF IInv, ExecutedAreOver, TypeOK
    <3> QED BY <1>1, <3>1
  <2> QED BY <1>0, <1>2, <2>1 DEF IInv, PaidOnce
<1>8. \A b \in Actors : RequestsBy(b)' = RequestsBy(b)
  BY <1>1, <1>2 DEF RequestsBy, Recorded
<1>9. ReplaysOf(e)' = ReplaysOf(e) \cup {r} /\ r \notin ReplaysOf(e)
  BY <1>0, <1>1, <1>2 DEF ReplaysOf
<1>10. \A d \in Events \ {e} : ReplaysOf(d)' = ReplaysOf(d)
  BY <1>0, <1>1, <1>2 DEF ReplaysOf
<1>11. \A q \in Requests : Opening(q)' => Opening(q) /\ request'[q] = request[q]
  BY <1>2 DEF Opening
<1>12. ActorsCounted'
  <2>1. \A b \in Actors : ActorLocked(b)' => ActorLocked(b)
    BY <1>11 DEF ActorLocked
  <2>2. \A b \in Actors : /\ IsFiniteSet(RequestsBy(b)') /\ Cardinality(RequestsBy(b)') <= ActorCap
                          /\ ActorLocked(b)' => Cardinality(RequestsBy(b)') < ActorCap
    BY <1>8, <2>1 DEF IInv, ActorsCounted
  <2>3. ASSUME NEW b \in Actors, NEW p \in Requests, NEW q \in Requests, Opening(p)', Opening(q)',
               request'[p].actor = b, request'[q].actor = b
        PROVE  p = q
    BY <1>11, <2>3 DEF IInv, ActorsCounted
  <2> QED BY <2>2, <2>3 DEF ActorsCounted
<1>13. EventsCounted'
  <2>1. Active(r)
    BY <1>1 DEF Active, ActiveStates
  <2>2. \A q \in Requests : Active(q)' => q # r /\ Active(q) /\ request'[q] = request[q]
    BY <1>2 DEF Active, ActiveStates, TerminalStates
  <2>3. IsFiniteSet(ReplaysOf(e)) /\ Cardinality(ReplaysOf(e)) < EventCap
    BY <1>0, <2>1 DEF IInv, EventsCounted
  <2>4. IsFiniteSet(ReplaysOf(e)') /\ Cardinality(ReplaysOf(e)') <= EventCap
    <3>1. /\ IsFiniteSet(ReplaysOf(e) \cup {r})
          /\ Cardinality(ReplaysOf(e) \cup {r}) = Cardinality(ReplaysOf(e)) + 1
      BY <1>9, <2>3, FS_AddElement
    <3>2. Cardinality(ReplaysOf(e)) \in Nat
      BY <2>3, FS_CardinalityType
    <3> QED BY <1>9, <2>3, <3>1, <3>2, ReplayAssumption
  <2>5. \A q \in Requests : Opening(q)' \/ Active(q)' => request'[q].event # e
    BY <1>0, <1>1, <1>11, <2>1, <2>2 DEF RowLocked, IInv, EventsCounted
  <2>6. ASSUME NEW d \in Events
        PROVE  /\ IsFiniteSet(ReplaysOf(d)') /\ Cardinality(ReplaysOf(d)') <= EventCap
               /\ (\E q \in Requests : request'[q].event = d /\ (Opening(q)' \/ Active(q)')) =>
                     Cardinality(ReplaysOf(d)') < EventCap
    <3>1. CASE d = e
      BY <2>4, <2>5, <3>1
    <3>2. CASE d # e
      BY <1>10, <1>11, <2>2, <3>2 DEF IInv, EventsCounted
    <3> QED BY <3>1, <3>2
  <2>7. ASSUME NEW d \in Events, NEW p \in Requests, NEW q \in Requests, Active(p)', Active(q)',
               request'[p].event = d, request'[q].event = d
        PROVE  p = q
    BY <2>2, <2>7 DEF IInv, EventsCounted
  <2> QED BY <2>6, <2>7 DEF EventsCounted
<1> QED BY <1>3, <1>4, <1>6, <1>7, <1>12, <1>13 DEF IInv
-----------------------------------------------------------------------------
\* Every step of the specification keeps the invariant.
LEMMA NextIInv == IInv /\ [Next]_vars => IInv'
<1> SUFFICES ASSUME IInv, [Next]_vars PROVE IInv'
  OBVIOUS
<1>1. CASE \E e \in Events : RelayStep(e)
  BY <1>1, RelayKeeps
<1>2. CASE \E r \in Requests : RequestStep(r)
  <2>1. PICK r \in Requests : RequestStep(r)
    BY <1>2
  <2>2. CASE \E a \in Actors, e \in Events : request_replay(r, a, e)
    BY <2>2, RequestKeeps
  <2>3. CASE insert_replay_request(r)
    BY <2>3, InsertKeeps
  <2>4. CASE execute_authorized_replay(r)
    BY <2>4, ExecuteKeeps
  <2>5. CASE \/ RollBack(r) \/ authorize_replay(r) \/ Withdraw(r, "rejected")
             \/ Withdraw(r, "canceled") \/ revoke(r) \/ BecomesOverdue(r)
    BY <2>5, QuietSteps
  <2> QED BY <2>1, <2>2, <2>3, <2>4, <2>5 DEF RequestStep
<1>3. CASE expire_due_authorizations \/ expire_due_replay_requests
  BY <1>3, QuietSteps
<1>4. CASE UNCHANGED vars
  <2>1. UNCHANGED <<event, request, auth>>
    BY <1>4 DEF vars
  <2>2. TypeOK' /\ RowsCohere' /\ ExecutedAreOver' /\ PaidOnce'
    BY <2>1 DEF IInv, TypeOK, RowsCohere, Recorded, ExecutedAreOver, PaidOnce
  <2>3. ActorsCounted'
    BY <2>1 DEF IInv, ActorsCounted, RequestsBy, Recorded, ActorLocked, Opening
  <2>4. EventsCounted'
    BY <2>1 DEF IInv, EventsCounted, ReplaysOf, Opening, Active
  <2> QED BY <2>2, <2>3, <2>4 DEF IInv
<1> QED BY <1>1, <1>2, <1>3, <1>4 DEF Next

\* The invariant holds in every reachable state.
LEMMA Invariant == Spec => []IInv
BY InitIInv, NextIInv, PTL DEF Spec
-----------------------------------------------------------------------------
\* Events, requests and authorizations keep their types, for any number of them
\* (replay_service.py, replay_request_repository.py).
THEOREM ReplayTyped == Spec => []TypeOK
<1>1. IInv => TypeOK
  BY DEF IInv
<1> QED BY <1>1, Invariant, PTL

\* For any number of operators, events and requests that overlap, no actor has more requests and
\* no event more replays than their caps: acquire_actor_rate_limit_lock keeps the actor's count,
\* the event's row lock and uq_rpr_active_per_event keep the event's until it is executed.
THEOREM LimitsAlwaysHold == Spec => []LimitsHold
<1>1. IInv => LimitsHold
  BY DEF IInv, ActorsCounted, EventsCounted, LimitsHold
<1> QED BY <1>1, Invariant, PTL

\* However relay, expiry and revocation interfere, an authorization is consumed exactly when its
\* replay is carried out, and no dead episode is replayed for two of them
\* (execute_authorized_replay).
THEOREM ReplaysAlwaysPaid == Spec => []ReplaysArePaidFor
<1>1. IInv => ReplaysArePaidFor
  BY DEF IInv, RowsCohere, PaidOnce, ReplaysArePaidFor
<1> QED BY <1>1, Invariant, PTL

\* What is requeued is the dead episode the request was made for: a row the relay has published,
\* or has replayed and given up again, is never touched (_dead_eligibility_denial and the
\* comparison of the state versions, on the row that is locked).
THEOREM NeverReplaysStale == Spec => NoStaleReplay
<1> DEFINE Fresh ==
      \A r \in Requests : request'[r].state = "executed" /\ request[r].state # "executed" =>
          LET e == request[r].event
          IN  /\ event[e] = [status |-> "dead", episode |-> request[r].episode]
              /\ event'[e].status = "pending"
<1>1. ASSUME IInv, [Next]_vars PROVE [Fresh]_vars
  <2> SUFFICES ASSUME NEW r \in Requests, request'[r].state = "executed", request[r].state # "executed"
               PROVE  LET e == request[r].event
                      IN  /\ event[e] = [status |-> "dead", episode |-> request[r].episode]
                          /\ event'[e].status = "pending"
    OBVIOUS
  <2>1. \A q \in Requests : request[q] \in [state : States, event : Events \cup {None},
                                            actor : Actors \cup {None}, episode : 0..MaxEpisodes]
    BY <1>1 DEF IInv, TypeOK, States
  <2>2. execute_authorized_replay(r)
    <3>1. CASE UNCHANGED request
      BY <3>1
    <3>2. CASE expire_due_replay_requests
      BY <2>1, <3>2 DEF expire_due_replay_requests
    <3>3. CASE \E q \in Requests : RequestStep(q)
      <4>1. PICK q \in Requests : RequestStep(q)
        BY <3>3
      <4>2. CASE execute_authorized_replay(q)
        <5>1. q = r
          BY <4>2, <1>1 DEF execute_authorized_replay, IInv, TypeOK
        <5> QED BY <4>2, <5>1
      <4>3. CASE \E s \in {"authorization_pending", "authorized", "rejected", "canceled"} :
                    request' = [request EXCEPT ![q].state = s]
        BY <4>3, <1>1 DEF IInv, TypeOK
      <4>4. CASE request' = [request EXCEPT ![q] = NoRequest]
        BY <4>4, <1>1 DEF IInv, TypeOK, NoRequest
      <4>5. CASE \E a \in Actors, e \in Events : request_replay(q, a, e)
        BY <4>5, <1>1 DEF request_replay, IInv, TypeOK
      <4>6. CASE revoke(q) \/ BecomesOverdue(q)
        BY <3>1, <4>6 DEF revoke, BecomesOverdue
      <4> QED BY <4>1, <4>2, <4>3, <4>4, <4>5, <4>6
              DEF RequestStep, insert_replay_request, RollBack, authorize_replay, Withdraw
    <3>4. CASE \E e \in Events : RelayStep(e)
      BY <3>1, <3>4 DEF RelayStep, Publishes, Dies, replay_dead
    <3>5. CASE expire_due_authorizations \/ UNCHANGED vars
      BY <3>1, <3>5 DEF expire_due_authorizations, vars
    <3> QED BY <1>1, <3>2, <3>3, <3>4, <3>5 DEF Next
  <2>3. request[r].event \in Events
    BY <1>1, <2>2 DEF execute_authorized_replay, IInv, RowsCohere
  <2>4. event[request[r].event] \in [status : {"pending", "dead", "published"}, episode : 0..MaxEpisodes]
    BY <1>1, <2>3 DEF IInv, TypeOK
  <2>5. event[request[r].event] = [status |-> "dead", episode |-> request[r].episode]
    BY <2>2, <2>4 DEF execute_authorized_replay, StillDead
  <2>6. event'[request[r].event].status = "pending"
    BY <1>1, <2>2, <2>3 DEF execute_authorized_replay, IInv, TypeOK
  <2> QED BY <2>5, <2>6
<1> QED BY <1>1, Invariant, PTL DEF Spec, NoStaleReplay
-----------------------------------------------------------------------------
(* Authorizations keep the contract of SingleUseGrant *)

\* What was counted and not yet inserted is about an event that is still dead: the
\* transaction holds its row.
OpeningIsFresh == \A r \in Requests : Opening(r) => StillDead(r)

LEMMA FreshInit == Init => OpeningIsFresh
BY DEF Init, OpeningIsFresh, Opening, NoRequest

\* A request that goes on leaves those that are being opened alone, or is opened itself.
LEMMA OthersOpen ==
    ASSUME IInv, NEW r \in Requests, RequestStep(r)
    PROVE  \A q \in Requests :
              Opening(q)' => \/ Opening(q) /\ request'[q] = request[q]
                             \/ StillDead(q)' /\ UNCHANGED event
<1>1. TypeOK
  BY DEF IInv
<1>2. CASE \E a \in Actors, e \in Events : request_replay(r, a, e)
  BY <1>1, <1>2 DEF request_replay, Opening, StillDead, TypeOK
<1>3. CASE revoke(r) \/ BecomesOverdue(r)
  BY <1>3 DEF revoke, BecomesOverdue, Opening
<1>4. CASE RollBack(r)
  BY <1>1, <1>4 DEF RollBack, Opening, NoRequest, TypeOK
<1>5. CASE \E s \in {"authorization_pending", "authorized", "rejected", "canceled", "executed"} :
              request' = [request EXCEPT ![r].state = s]
  BY <1>1, <1>5 DEF Opening, TypeOK
<1> QED BY <1>2, <1>3, <1>4, <1>5
        DEF RequestStep, insert_replay_request, authorize_replay, Withdraw, execute_authorized_replay

LEMMA FreshNext ==
    ASSUME IInv, OpeningIsFresh, [Next]_vars
    PROVE  OpeningIsFresh'
<1> SUFFICES ASSUME NEW q \in Requests, Opening(q)'
             PROVE  StillDead(q)'
  BY DEF OpeningIsFresh
<1>1. TypeOK /\ RowsCohere
  BY DEF IInv
<1>2. ASSUME Opening(q), request'[q] = request[q], event'[request[q].event] = event[request[q].event]
      PROVE  StillDead(q)'
  BY <1>2 DEF OpeningIsFresh, StillDead
<1>3. ASSUME Opening(q)
      PROVE  request[q].event \in Events /\ RowLocked(request[q].event)
             /\ event[request[q].event].status = "dead"
  BY <1>1, <1>3 DEF RowsCohere, RowLocked, Opening, OpeningIsFresh, StillDead
<1>4. ASSUME NEW e \in Events, RelayStep(e) PROVE StillDead(q)'
  <2>1. request' = request /\ Opening(q)
    BY <1>4 DEF RelayStep, Publishes, Dies, replay_dead, Opening
  <2>2. request[q].event # e
    BY <1>3, <1>4, <2>1 DEF RelayStep, Publishes, Dies, replay_dead
  <2>3. event'[request[q].event] = event[request[q].event]
    BY <1>1, <1>3, <1>4, <2>1, <2>2 DEF TypeOK, RelayStep, Publishes, Dies, replay_dead
  <2> QED BY <1>2, <2>1, <2>3
<1>5. ASSUME NEW r \in Requests, RequestStep(r) PROVE StillDead(q)'
  <2>1. CASE StillDead(q)'
    BY <2>1
  <2>2. CASE Opening(q) /\ request'[q] = request[q]
    <3>1. CASE execute_authorized_replay(r)
      <4>1. request[r].event # request[q].event
        BY <1>3, <2>2, <3>1 DEF execute_authorized_replay
      <4>2. event'[request[q].event] = event[request[q].event]
        BY <1>1, <1>3, <2>2, <3>1, <4>1 DEF TypeOK, execute_authorized_replay
      <4> QED BY <1>2, <2>2, <4>2
    <3>2. CASE UNCHANGED event
      BY <1>2, <2>2, <3>2
    <3> QED BY <1>5, <3>1, <3>2 DEF RequestStep, request_replay, insert_replay_request, RollBack,
              authorize_replay, Withdraw, revoke, BecomesOverdue
  <2> QED BY <1>5, <2>1, <2>2, OthersOpen
<1>6. CASE expire_due_authorizations \/ expire_due_replay_requests \/ UNCHANGED vars
  <2>1. event' = event
    BY <1>6 DEF expire_due_authorizations, expire_due_replay_requests, vars
  <2>2. Opening(q) /\ request'[q] = request[q]
    BY <1>1, <1>6 DEF expire_due_authorizations, expire_due_replay_requests, vars, Opening, Due,
                      TypeOK
  <2> QED BY <1>2, <2>1, <2>2
<1> QED BY <1>4, <1>5, <1>6 DEF Next

\* What the contract sees of a step that moves no recorded request and carries out none.
LEMMA SameDeeds ==
    ASSUME \A q \in Requests :
              /\ Recorded(q)' <=> Recorded(q)
              /\ Recorded(q) => request'[q].event = request[q].event
                                /\ request'[q].episode = request[q].episode
              /\ request'[q].state = "executed" <=> request[q].state = "executed"
    PROVE  Subjects' = Subjects /\ Replayed' = Replayed
<1>1. Subjects' = Subjects
  BY DEF Subjects, Episode
<1>2. \A q \in Requests : request[q].state = "executed" => Recorded(q)
  BY DEF Recorded
<1>3. Replayed' = Replayed
  BY <1>2 DEF Replayed, Episode
<1> QED BY <1>1, <1>3

LEMMA PhaseOfRow ==
    ASSUME NEW q \in Requests,
           auth'[q].decision = auth[q].decision, auth'[q].mark = auth[q].mark
    PROVE  Phase(q)' = Phase(q)
BY DEF Phase, ActiveAuth

LEMMA OnePhase ==
    ASSUME NEW r \in Requests, \A q \in Requests \ {r} : auth'[q] = auth[q]
    PROVE  Phases' = [Phases EXCEPT ![r] = Phase(r)']
<1>1. \A q \in Requests \ {r} : Phase(q)' = Phase(q)
  BY PhaseOfRow
<1> QED BY <1>1 DEF Phases

LEMMA LiveIsActive ==
    ASSUME NEW q \in Requests
    PROVE  Grant!Live(q) <=> ActiveAuth(q)
BY DEF Grant!Live, Phases, Phase, ActiveAuth

\* Steps that take authorizations away, or leave them as they are.
LEMMA GrantVoided ==
    ASSUME Subjects' = Subjects, Replayed' = Replayed,
           \A q \in Requests : \/ Phase(q)' = Phase(q)
                               \/ Phase(q) \in {"asked", "granted"} /\ Phase(q)' = "void"
    PROVE  Grant!Next
<1> DEFINE S == {q \in Requests : Phase(q)' # Phase(q)}
<1>1. \A q \in S : Grant!Live(q)
  BY DEF Grant!Live, Phases
<1>2. Phases' = [q \in Requests |-> IF q \in S THEN "void" ELSE Phases[q]]
  BY DEF Phases
<1>3. Grant!Void(S)
  BY <1>1, <1>2 DEF Grant!Void
<1> QED BY <1>3 DEF Grant!Next

\* The dead episode that is there has not been replayed.
LEMMA DeadIsNotReplayed ==
    ASSUME IInv, NEW r \in Requests, request[r].event \in Events, StillDead(r)
    PROVE  Episode(r) \notin Replayed
<1> SUFFICES ASSUME NEW q \in Requests, request[q].state = "executed", Episode(q) = Episode(r)
             PROVE  FALSE
  BY DEF Replayed
<1>1. request[q].event = request[r].event /\ request[q].episode = request[r].episode
  BY DEF Episode
<1>2. request[r].episode \in Nat
  BY ReplayAssumption DEF IInv, TypeOK
<1> QED BY <1>1, <1>2 DEF IInv, ExecutedAreOver, StillDead

\* insert_replay_request asks for an episode that nobody else can replay.
LEMMA GrantAsked ==
    ASSUME IInv, OpeningIsFresh, NEW r \in Requests, insert_replay_request(r)
    PROVE  Grant!Next
<1>1. TypeOK /\ RowsCohere
  BY DEF IInv
<1>2. /\ Opening(r) /\ ~SlotTaken(request[r].event) /\ StillDead(r)
      /\ request' = [request EXCEPT ![r].state = "authorization_pending"]
      /\ auth' = [auth EXCEPT ![r] = [decision |-> "pending", mark |-> "none", overdue |-> FALSE]]
  BY DEF insert_replay_request, OpeningIsFresh
<1>3. /\ request'[r].state = "authorization_pending"
      /\ request'[r].event = request[r].event /\ request'[r].episode = request[r].episode
      /\ \A q \in Requests \ {r} : request'[q] = request[q] /\ auth'[q] = auth[q]
      /\ auth'[r].decision = "pending" /\ auth'[r].mark = "none"
  BY <1>1, <1>2 DEF TypeOK
<1>4. ~Recorded(r) /\ Recorded(r)' /\ request[r].event \in Events
  BY <1>1, <1>2, <1>3 DEF Opening, Recorded, RowsCohere
<1>5. Phases[r] = "none"
  <2>1. auth[r].decision = "absent" /\ auth[r].mark # "consumed"
    BY <1>1, <1>2, <1>4 DEF RowsCohere, Opening
  <2> QED BY <2>1 DEF Phases, Phase, ActiveAuth
<1>6. Phases' = [Phases EXCEPT ![r] = "asked"]
  <2>1. Phase(r)' = "asked"
    BY <1>3 DEF Phase, ActiveAuth
  <2> QED BY <1>3, <2>1, OnePhase
<1>7. Subjects' = [Subjects EXCEPT ![r] = Episode(r)]
  BY <1>3, <1>4 DEF Subjects, Episode, Recorded
<1>8. Replayed' = Replayed
  <2>1. \A q \in Requests : request'[q].state = "executed" <=> request[q].state = "executed"
    BY <1>2, <1>3 DEF Opening
  <2>2. \A q \in Requests : Episode(q)' = Episode(q)
    BY <1>3 DEF Episode
  <2> QED BY <2>1, <2>2 DEF Replayed
<1>9. Episode(r) \notin Replayed
  BY <1>2, <1>4, DeadIsNotReplayed
<1>10. \A h \in Requests : Grant!Live(h) => Subjects[h] # Episode(r)
  <2> SUFFICES ASSUME NEW h \in Requests, Grant!Live(h) PROVE Subjects[h] # Episode(r)
    OBVIOUS
  <2>1. ActiveAuth(h)
    BY LiveIsActive
  <2>2. request[h].event # request[r].event
    BY <1>2, <2>1 DEF SlotTaken
  <2>3. Recorded(h)
    BY <1>1, <2>1 DEF RowsCohere, ActiveAuth
  <2> QED BY <2>2, <2>3 DEF Subjects, Episode
<1>11. Episode(r) \in Events \X (0..MaxEpisodes)
  BY <1>1, <1>4 DEF TypeOK, Episode
<1>12. Grant!Ask(r, Episode(r))
  BY <1>5, <1>6, <1>7, <1>8, <1>9, <1>10 DEF Grant!Ask
<1> QED BY <1>11, <1>12 DEF Grant!Next

\* authorize_replay, reject_replay and cancel_replay decide what is still asked for.
LEMMA GrantDecided ==
    ASSUME IInv, NEW r \in Requests,
           authorize_replay(r) \/ Withdraw(r, "rejected") \/ Withdraw(r, "canceled")
    PROVE  Grant!Next \/ UNCHANGED <<Phases, Subjects, Replayed>>
<1>1. TypeOK /\ RowsCohere
  BY DEF IInv
<1>2. PICK s \in {"authorized", "rejected", "canceled"} :
          /\ request[r].state = "authorization_pending" /\ Undecided(r)
          /\ request' = [request EXCEPT ![r].state = s]
          /\ auth' = [auth EXCEPT ![r].decision = s]
  BY DEF authorize_replay, Withdraw
<1>3. /\ request'[r].state = s /\ auth[r].decision = "pending"
      /\ auth'[r].decision = s /\ auth'[r].mark = auth[r].mark
      /\ \A q \in Requests : /\ request'[q].event = request[q].event
                             /\ request'[q].episode = request[q].episode
      /\ \A q \in Requests \ {r} : request'[q] = request[q] /\ auth'[q] = auth[q]
  BY <1>1, <1>2 DEF TypeOK, Undecided
<1>4. auth[r].mark \in {"none", "revoked"}
  BY <1>1, <1>2 DEF TypeOK, RowsCohere, Undecided
<1>5. \A q \in Requests : /\ Recorded(q)' <=> Recorded(q)
                          /\ request'[q].state = "executed" <=> request[q].state = "executed"
  BY <1>2, <1>3 DEF Recorded
<1>6. Subjects' = Subjects /\ Replayed' = Replayed
  BY <1>3, <1>5, SameDeeds
<1>7. CASE s = "authorized" /\ auth[r].mark = "none"
  <2>1. Phases[r] = "asked" /\ Phase(r)' = "granted"
    BY <1>3, <1>7 DEF Phases, Phase, ActiveAuth
  <2>2. Phases' = [Phases EXCEPT ![r] = "granted"]
    BY <1>3, <2>1, OnePhase
  <2>3. Grant!Approve(r)
    BY <1>6, <2>1, <2>2 DEF Grant!Approve
  <2> QED BY <2>3 DEF Grant!Next
<1>8. CASE s # "authorized" \/ auth[r].mark = "revoked"
  <2>1. Phase(r) \in {"asked", "void"} /\ Phase(r)' = "void"
    BY <1>2, <1>3, <1>4, <1>8 DEF Phase, ActiveAuth
  <2>2. \A q \in Requests : \/ Phase(q)' = Phase(q)
                            \/ Phase(q) \in {"asked", "granted"} /\ Phase(q)' = "void"
    BY <1>3, <2>1, PhaseOfRow
  <2> QED BY <1>6, <2>2, GrantVoided
<1> QED BY <1>4, <1>7, <1>8

\* execute_authorized_replay: requeueing the event and consuming the authorization are one step.
LEMMA GrantSpent ==
    ASSUME IInv, NEW r \in Requests, execute_authorized_replay(r)
    PROVE  Grant!Next
<1>1. TypeOK /\ RowsCohere
  BY DEF IInv
<1>2. /\ request[r].state = "authorized" /\ StillDead(r) /\ Consumable(r)
      /\ auth' = [auth EXCEPT ![r].mark = "consumed"]
      /\ request' = [request EXCEPT ![r].state = "executed"]
  BY DEF execute_authorized_replay
<1>3. /\ request'[r].state = "executed"
      /\ auth'[r].decision = auth[r].decision /\ auth'[r].mark = "consumed"
      /\ \A q \in Requests : /\ request'[q].event = request[q].event
                             /\ request'[q].episode = request[q].episode
      /\ \A q \in Requests \ {r} : request'[q] = request[q] /\ auth'[q] = auth[q]
  BY <1>1, <1>2 DEF TypeOK
<1>4. Recorded(r) /\ request[r].event \in Events
  BY <1>1, <1>2 DEF Recorded, RowsCohere
<1>5. Phases[r] = "granted" /\ Phase(r)' = "spent"
  BY <1>2, <1>3 DEF Consumable, Phases, Phase, ActiveAuth
<1>6. Phases' = [Phases EXCEPT ![r] = "spent"]
  BY <1>3, <1>5, OnePhase
<1>7. \A q \in Requests : Episode(q)' = Episode(q)
  BY <1>3 DEF Episode
<1>8. Subjects' = Subjects
  <2>1. \A q \in Requests : Recorded(q)' <=> Recorded(q)
    BY <1>3, <1>4 DEF Recorded
  <2> QED BY <1>7, <2>1 DEF Subjects
<1>9. Replayed' = Replayed \cup {Subjects[r]}
  <2>1. \A q \in Requests : request'[q].state = "executed" <=> request[q].state = "executed" \/ q = r
    BY <1>3
  <2> QED BY <1>4, <1>7, <2>1 DEF Replayed, Subjects
<1>10. Subjects[r] \notin Replayed
  BY <1>2, <1>4, DeadIsNotReplayed DEF Subjects
<1>11. Grant!Spend(r)
  BY <1>5, <1>6, <1>8, <1>9, <1>10 DEF Grant!Spend
<1> QED BY <1>11 DEF Grant!Next

\* revoke and expire_due_authorizations.
LEMMA GrantRevoked ==
    ASSUME IInv, (\E r \in Requests : revoke(r)) \/ expire_due_authorizations
    PROVE  Grant!Next
<1>1. TypeOK
  BY DEF IInv
<1>2. request' = request
  BY DEF revoke, expire_due_authorizations
<1>3. \A q \in Requests :
         \/ auth'[q] = auth[q]
         \/ ActiveAuth(q) /\ auth'[q].decision = auth[q].decision
            /\ auth'[q].mark \in {"revoked", "expired"}
  BY <1>1 DEF TypeOK, revoke, expire_due_authorizations, ActiveAuth
<1>4. \A q \in Requests : \/ Phase(q)' = Phase(q)
                          \/ Phase(q) \in {"asked", "granted"} /\ Phase(q)' = "void"
  BY <1>3 DEF Phase, ActiveAuth
<1>5. Subjects' = Subjects /\ Replayed' = Replayed
  BY <1>2, SameDeeds DEF Recorded
<1> QED BY <1>4, <1>5, GrantVoided

\* Every step is one of the contract, or does not concern it: a request that is opened or rolled
\* back has no authorization, and the expiry of a request leaves its authorization to expire.
LEMMA GrantStep ==
    ASSUME IInv, OpeningIsFresh, [Next]_vars
    PROVE  Grant!Next \/ UNCHANGED <<Phases, Subjects, Replayed>>
<1>1. TypeOK
  BY DEF IInv
<1>2. ASSUME \A q \in Requests : auth'[q].decision = auth[q].decision /\ auth'[q].mark = auth[q].mark,
             \A q \in Requests :
                /\ Recorded(q)' <=> Recorded(q)
                /\ Recorded(q) => request'[q].event = request[q].event
                                  /\ request'[q].episode = request[q].episode
                /\ request'[q].state = "executed" <=> request[q].state = "executed"
      PROVE  UNCHANGED <<Phases, Subjects, Replayed>>
  <2>1. Phases' = Phases
    BY <1>2, PhaseOfRow DEF Phases
  <2> QED BY <1>2, <2>1, SameDeeds
<1>3. CASE (\E e \in Events : RelayStep(e)) \/ UNCHANGED vars
  <2>1. request' = request /\ auth' = auth
    BY <1>3 DEF RelayStep, Publishes, Dies, replay_dead, vars
  <2> QED BY <1>2, <2>1 DEF Recorded
<1>4. CASE expire_due_replay_requests
  <2>1. auth' = auth
    BY <1>4 DEF expire_due_replay_requests
  <2>2. ASSUME NEW q \in Requests
        PROVE  \/ request'[q] = request[q]
               \/ /\ Active(q) /\ request'[q].state = "expired"
                  /\ request'[q].event = request[q].event
                  /\ request'[q].episode = request[q].episode
    <3>1. request'[q] = IF Due(q) THEN [request[q] EXCEPT !.state = "expired"] ELSE request[q]
      BY <1>4 DEF expire_due_replay_requests
    <3>2. DOMAIN request[q] = {"state", "event", "actor", "episode"}
      BY <1>1 DEF TypeOK
    <3> QED BY <3>1, <3>2 DEF Due
  <2> QED BY <1>2, <2>1, <2>2 DEF Recorded, Active, ActiveStates
<1>5. ASSUME NEW r \in Requests, (\E a \in Actors, e \in Events : request_replay(r, a, e)) \/ RollBack(r)
      PROVE  UNCHANGED <<Phases, Subjects, Replayed>>
  <2>1. auth' = auth /\ request[r].state \in {"absent", "opening"}
    BY <1>5 DEF request_replay, RollBack, Opening
  <2>2. /\ request'[r].state \in {"absent", "opening"}
        /\ \A q \in Requests \ {r} : request'[q] = request[q]
    BY <1>1, <1>5 DEF TypeOK, request_replay, RollBack, NoRequest
  <2> QED BY <1>2, <2>1, <2>2 DEF Recorded
<1>6. ASSUME NEW r \in Requests, BecomesOverdue(r)
      PROVE  UNCHANGED <<Phases, Subjects, Replayed>>
  <2>1. request' = request /\ auth' = [auth EXCEPT ![r].overdue = TRUE]
    BY <1>6 DEF BecomesOverdue
  <2>2. \A q \in Requests : auth'[q].decision = auth[q].decision /\ auth'[q].mark = auth[q].mark
    BY <1>1, <2>1 DEF TypeOK
  <2> QED BY <1>2, <2>1, <2>2 DEF Recorded
<1>7. ASSUME NEW r \in Requests, RequestStep(r)
      PROVE  Grant!Next \/ UNCHANGED <<Phases, Subjects, Replayed>>
  BY <1>5, <1>6, <1>7, GrantAsked, GrantDecided, GrantSpent, GrantRevoked DEF RequestStep
<1> QED BY <1>3, <1>4, <1>7, GrantRevoked DEF Next

\* Requests of several operators, the relay's own replays, revocation and expiry: an episode's
\* authorizations are used one at a time, for one replay, in the step that carries it out.
THEOREM ReplayKeepsGrant == Spec => ImplementsGrant
<1>1. Init => Grant!Init
  <2> SUFFICES ASSUME Init PROVE Grant!Init
    OBVIOUS
  <2>1. \A r \in Requests : /\ auth[r].decision = "absent" /\ auth[r].mark = "none"
                            /\ request[r].state = "absent"
    BY DEF Init, NoRequest
  <2>2. \A r \in Requests : Phase(r) = "none" /\ ~Recorded(r)
    BY <2>1 DEF Phase, ActiveAuth, Recorded
  <2> QED BY <2>1, <2>2 DEF Grant!Init, Phases, Subjects, Replayed
<1>2. IInv /\ OpeningIsFresh /\ [Next]_vars => OpeningIsFresh'
  BY FreshNext
<1>3. IInv /\ OpeningIsFresh /\ [Next]_vars => [Grant!Next]_(Grant!vars)
  BY GrantStep DEF Grant!vars
<1>4. Spec => Grant!Init /\ [][Grant!Next]_(Grant!vars)
  BY <1>1, <1>2, <1>3, FreshInit, Invariant, PTL DEF Spec
<1> QED BY <1>4 DEF ImplementsGrant, Grant!Spec
=============================================================================
