---------------------------- MODULE OutboxRelay ----------------------------
(***************************************************************************)
(* The transactional outbox clarification_lifecycle_outbox and the relays  *)
(* that publish it to stream.audit (shared/sdk/tasks/lifecycle_outbox.py,  *)
(* shared/sdk/tasks/outbox_relay.py).                                      *)
(*                                                                         *)
(* Every relay runs publish_one inside one database transaction: claim a   *)
(* pending row FOR UPDATE SKIP LOCKED, XADD it to Redis, write the outcome *)
(* and commit.  The XADD is not part of the transaction, so the model has  *)
(* one step for each of the three and lets a relay die between any two.    *)
(*                                                                         *)
(* Time is relative: a row stores available_at - now and now - created_at, *)
(* both saturating at AgeCap, so clocks need no bound.                     *)
(***************************************************************************)
EXTENDS Integers, Sequences, FiniteSets

CONSTANTS
    Rows,           \* the outbox rows that may ever be inserted
    CommandRows,    \* those whose event_type is resume.execution_requested
    Relays,         \* relay processes
    RETRY_BACKOFF,  \* RETRY_BACKOFF_SECONDS: wait after the n-th failure
    TotalWait,      \* TotalWait[n]: the sum of the first n backoffs
    NoRow,          \* "no row claimed"
    AgeCap,         \* saturation of relative times
    MaxCrashes,     \* bound: relay deaths in the middle of a transaction
    MaxReplays      \* bound: operator replays of dead rows

ASSUME OutboxAssumption ==
    /\ CommandRows \subseteq Rows
    /\ NoRow \notin Rows
    /\ RETRY_BACKOFF \in Seq(Nat \ {0})
    /\ TotalWait \in [0..Len(RETRY_BACKOFF) -> Nat]
    /\ TotalWait[0] = 0
    /\ \A n \in 1..Len(RETRY_BACKOFF) :
          TotalWait[n] = TotalWait[n-1] + RETRY_BACKOFF[n]
    /\ AgeCap \in Nat
    /\ \A n \in 0..Len(RETRY_BACKOFF) : AgeCap >= TotalWait[n]
    /\ MaxCrashes \in Nat
    /\ MaxReplays \in Nat

VARIABLES
    outbox,    \* row -> its status, attempts and relative times
    relay,     \* relay -> where its transaction stands, and on which row
    landed,    \* row -> copies of the event that reached stream.audit
    crashes,   \* relay deaths so far
    replays    \* operator replays so far

vars == <<outbox, relay, landed, crashes, replays>>

MAX_PUBLISH_ATTEMPTS == Len(RETRY_BACKOFF) + 1

RowState == [status   : {"absent", "pending", "published", "dead"},
             attempts : Nat,
             avail    : Int,     \* available_at - now
             age      : Nat]     \* now - created_at

RelayState == [pc : {"idle", "claimed", "ok", "failed"}, row : Rows \cup {NoRow}]

TypeOK ==
    /\ outbox \in [Rows -> RowState]
    /\ relay \in [Relays -> RelayState]
    /\ landed \in [Rows -> Nat]
    /\ crashes \in Nat
    /\ replays \in Nat

Idle == [pc |-> "idle", row |-> NoRow]

Init ==
    /\ outbox = [e \in Rows |-> [status |-> "absent", attempts |-> 0,
                                 avail |-> 0, age |-> 0]]
    /\ relay = [r \in Relays |-> Idle]
    /\ landed = [e \in Rows |-> 0]
    /\ crashes = 0
    /\ replays = 0

-----------------------------------------------------------------------------
\* Faulty variants of plan_retry_state, used only by the mutation runs.

\* A dead row is given a status outside the CHECK of migration 031.
plan_retry_state_FailedStatus(attempts) ==
    [status |-> IF attempts + 1 >= MAX_PUBLISH_ATTEMPTS THEN "failed" ELSE "pending",
     attempts |-> attempts + 1, backoff |-> 1]

\* The attempt is not persisted: nothing is ever dead-lettered.
plan_retry_state_NotCounted(attempts) ==
    [status |-> "pending", attempts |-> attempts, backoff |-> RETRY_BACKOFF[1]]

\* The last backoff is skipped.
plan_retry_state_OffByOne(attempts) ==
    IF attempts + 1 >= Len(RETRY_BACKOFF)
    THEN [status |-> "dead", attempts |-> attempts + 1, backoff |-> 0]
    ELSE [status |-> "pending", attempts |-> attempts + 1,
          backoff |-> RETRY_BACKOFF[attempts + 1]]

-----------------------------------------------------------------------------
\* The pure retry and replay plans.

\* plan_retry_state: the outcome of one more failed attempt.
plan_retry_state(attempts) ==
    IF attempts + 1 >= MAX_PUBLISH_ATTEMPTS
    THEN [status |-> "dead", attempts |-> attempts + 1, backoff |-> 0]
    ELSE [status |-> "pending", attempts |-> attempts + 1,
          backoff |-> RETRY_BACKOFF[attempts + 1]]

\* plan_replay_state: attempts survive a replay, everything else is reset.
plan_replay_state(row) ==
    [status |-> "pending", attempts |-> row.attempts, avail |-> 0, age |-> row.age]

-----------------------------------------------------------------------------
\* insert_lifecycle_outbox_event, inside the caller's transaction: the row is
\* claimable at once.
Insert(e) ==
    /\ outbox[e].status = "absent"
    /\ outbox' = [outbox EXCEPT ![e] = [status |-> "pending", attempts |-> 0,
                                        avail |-> 0, age |-> 0]]
    /\ UNCHANGED <<relay, landed, crashes, replays>>

\* A row lock is held from the claim to the end of the relay's transaction.
Locked(e) == \E r \in Relays : relay[r].row = e

\* The WHERE clause of the claim, with SKIP LOCKED and the event-type filter
\* audit_relay_claimable_event_types.
Claimable(e) ==
    /\ outbox[e].status = "pending"
    /\ outbox[e].avail <= 0
    /\ e \notin CommandRows
    /\ ~Locked(e)

\* ORDER BY available_at, created_at
Before(e, f) ==
    \/ outbox[e].avail < outbox[f].avail
    \/ outbox[e].avail = outbox[f].avail /\ outbox[e].age >= outbox[f].age

\* publish_one up to the claim
Claim(r) ==
    /\ relay[r].pc = "idle"
    /\ \E e \in Rows :
          /\ Claimable(e)
          /\ \A f \in Rows : Claimable(f) => Before(e, f)
          /\ relay' = [relay EXCEPT ![r] = [pc |-> "claimed", row |-> e]]
    /\ UNCHANGED <<outbox, landed, crashes, replays>>

\* _publish returned the XADD id: the event is in the stream.
PublishOk(r) ==
    /\ relay[r].pc = "claimed"
    /\ relay' = [relay EXCEPT ![r].pc = "ok"]
    /\ landed' = [landed EXCEPT ![relay[r].row] = @ + 1]
    /\ UNCHANGED <<outbox, crashes, replays>>

\* _publish failed before the broker applied the XADD: an exception, or a
\* publish_audit_event that returned None.
PublishFailed(r) ==
    /\ relay[r].pc = "claimed"
    /\ relay' = [relay EXCEPT ![r].pc = "failed"]
    /\ UNCHANGED <<outbox, landed, crashes, replays>>

\* _publish timed out (or lost its connection) after the broker applied the
\* XADD: reported as a failure although the event is in the stream.
PublishTimeout(r) ==
    /\ relay[r].pc = "claimed"
    /\ relay' = [relay EXCEPT ![r].pc = "failed"]
    /\ landed' = [landed EXCEPT ![relay[r].row] = @ + 1]
    /\ UNCHANGED <<outbox, crashes, replays>>

\* _process_claimed after a success, and the commit.
MarkPublished(r) ==
    /\ relay[r].pc = "ok"
    /\ outbox' = [outbox EXCEPT ![relay[r].row].status = "published"]
    /\ relay' = [relay EXCEPT ![r] = Idle]
    /\ UNCHANGED <<landed, crashes, replays>>

\* _process_claimed after a failure, and the commit: the row dies, or it waits
\* for the persisted backoff.
RecordFailure(r) ==
    /\ relay[r].pc = "failed"
    /\ LET e    == relay[r].row
           plan == plan_retry_state(outbox[e].attempts)
       IN  outbox' = [outbox EXCEPT ![e] =
               [status   |-> plan.status,
                attempts |-> plan.attempts,
                avail    |-> IF plan.status = "dead" THEN @.avail ELSE plan.backoff,
                age      |-> @.age]]
    /\ relay' = [relay EXCEPT ![r] = Idle]
    /\ UNCHANGED <<landed, crashes, replays>>

\* The process dies, loses its database connection or is cancelled before the
\* commit: the transaction rolls back and the row is pending as before.
Rollback(r) ==
    /\ relay[r].pc # "idle"
    /\ crashes < MaxCrashes
    /\ relay' = [relay EXCEPT ![r] = Idle]
    /\ crashes' = crashes + 1
    /\ UNCHANGED <<outbox, landed, replays>>

\* replay_dead: one dead row back to pending, in its own transaction.
replay_dead(e) ==
    /\ outbox[e].status = "dead"
    /\ replays < MaxReplays
    /\ outbox' = [outbox EXCEPT ![e] = plan_replay_state(@)]
    /\ replays' = replays + 1
    /\ UNCHANGED <<relay, landed, crashes>>

\* One unit of PostgreSQL time passes.
Older(row) ==
    IF row.status = "absent" THEN row
    ELSE [status   |-> row.status,
          attempts |-> row.attempts,
          avail    |-> IF row.avail > -AgeCap THEN row.avail - 1 ELSE row.avail,
          age      |-> IF row.age < AgeCap THEN row.age + 1 ELSE row.age]

Tick ==
    /\ outbox' = [e \in Rows |-> Older(outbox[e])]
    /\ UNCHANGED <<relay, landed, crashes, replays>>

RelayStep(r) ==
    \/ Claim(r)
    \/ PublishOk(r) \/ PublishFailed(r) \/ PublishTimeout(r)
    \/ MarkPublished(r) \/ RecordFailure(r)

Next ==
    \/ \E e \in Rows : Insert(e) \/ replay_dead(e)
    \/ \E r \in Relays : RelayStep(r) \/ Rollback(r)
    \/ Tick

\* run polls forever, every await inside publish_one is bounded by a timeout,
\* and the database clock advances.
Fairness ==
    /\ \A r \in Relays : WF_vars(RelayStep(r))
    /\ WF_vars(Tick)

Spec == Init /\ [][Next]_vars

FairSpec == Spec /\ Fairness

-----------------------------------------------------------------------------
\* Properties

\* SKIP LOCKED: no two relay transactions work on the same row, and nothing
\* (neither another relay nor replay_dead) changes the status of a row while a
\* relay's publish is in flight.
ClaimIsExclusive ==
    \A r \in Relays : relay[r].pc # "idle" =>
        /\ outbox[relay[r].row].status = "pending"
        /\ outbox[relay[r].row].avail <= 0
        /\ \A q \in Relays \ {r} : relay[q].row # relay[r].row

\* A row marked published really is in stream.audit: a timeout, a drop or a
\* crash is never mistaken for a delivery.
PublishedWasDelivered ==
    \A e \in Rows : outbox[e].status = "published" => landed[e] > 0

\* At-least-once, with the duplicates accounted for: every copy in the stream
\* beyond the first is explained by a recorded failed attempt or by a relay
\* that died before its commit.
DuplicatesAccounted ==
    \A e \in Rows : landed[e] <= outbox[e].attempts + crashes + 1

\* The backoff is persisted, so attempts are bounded in time as well as in
\* count: however many relays poll and crash, a row is dead-lettered only
\* when the whole backoff schedule has elapsed since its insertion.
NoPrematureDeath ==
    \A e \in Rows : outbox[e].status = "dead" =>
        outbox[e].age >= TotalWait[Len(RETRY_BACKOFF)]

\* What the outbox promises its writers (module OutboxContract): a recorded
\* event stays queued until it has been delivered or parked as dead, a parked
\* event can only be requeued, and no queued event waits for ever.
Contract == INSTANCE OutboxContract WITH
    Events    <- Rows \ CommandRows,
    state     <- [e \in Rows \ CommandRows |->
                    CASE outbox[e].status = "absent"    -> "unrecorded"
                      [] outbox[e].status = "pending"   -> "queued"
                      [] outbox[e].status = "published" -> "settled"
                      [] outbox[e].status = "dead"      -> "parked"],
    delivered <- {e \in Rows \ CommandRows : landed[e] > 0}

ImplementsContract == Contract!Spec
=============================================================================
