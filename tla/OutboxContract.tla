--------------------------- MODULE OutboxContract ---------------------------
(***************************************************************************)
(* What the transactional outbox promises, whatever relays, retries and    *)
(* crashes do: an event recorded in a committed transaction is delivered   *)
(* at least once, or parked for an operator, and is never lost.            *)
(***************************************************************************)
CONSTANT Events

VARIABLES
    state,      \* event -> "unrecorded", "queued", "settled" or "parked"
    delivered   \* events that have reached their destination at least once

vars == <<state, delivered>>

Init ==
    /\ state = [e \in Events |-> "unrecorded"]
    /\ delivered = {}

\* The writer's transaction commits.
Record(e) ==
    /\ state[e] = "unrecorded"
    /\ state' = [state EXCEPT ![e] = "queued"]
    /\ UNCHANGED delivered

\* A copy reaches the destination; possible again while the event is queued.
Deliver(e) ==
    /\ state[e] = "queued"
    /\ delivered' = delivered \cup {e}
    /\ UNCHANGED state

\* Delivery is acknowledged: nothing more will be sent.
Settle(e) ==
    /\ state[e] = "queued"
    /\ e \in delivered
    /\ state' = [state EXCEPT ![e] = "settled"]
    /\ UNCHANGED delivered

\* The event is given up, visibly, for an operator.
Park(e) ==
    /\ state[e] = "queued"
    /\ state' = [state EXCEPT ![e] = "parked"]
    /\ UNCHANGED delivered

\* An operator replays it.
Requeue(e) ==
    /\ state[e] = "parked"
    /\ state' = [state EXCEPT ![e] = "queued"]
    /\ UNCHANGED delivered

Next == \E e \in Events :
    Record(e) \/ Deliver(e) \/ Settle(e) \/ Park(e) \/ Requeue(e)

Leave(e) == Settle(e) \/ Park(e)

Spec ==
    /\ Init /\ [][Next]_vars
    /\ \A e \in Events : WF_vars(Leave(e))
=============================================================================
