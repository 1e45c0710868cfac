---------------------------- MODULE AuditIngest ----------------------------
(***************************************************************************)
(* The audit-worker: it consumes stream.audit and inserts one audit_logs   *)
(* row per entry (apps/audit-worker/src/worker.py and                      *)
(* shared/sdk/audit/store.py).                                             *)
(*                                                                         *)
(* Producers deliver an event at least once: the outbox relay publishes it *)
(* again when it does not learn that the first XADD landed (OutboxRelay).  *)
(* The second entry carries the same idempotency_key and another id.       *)
(* Faults are bounded: an INSERT, an XACK or a dead-letter publication     *)
(* that raises after it may have taken effect, a worker that stops.        *)
(***************************************************************************)
EXTENDS RedisStreams

CONSTANTS
    Events,         \* by idempotency_key
    Echoes,         \* those that are audit.recorded envelopes of the audit-service
    MAX_FAILURES_BEFORE_DEADLETTER,
    BatchSize,      \* count of consume_events
    MaxCopies,      \* bound: entries a producer makes of one event
    MaxFaults       \* bound: faults

ASSUME IngestAssumption ==
    /\ Echoes \subseteq Events
    /\ MAX_FAILURES_BEFORE_DEADLETTER \in Nat \ {0} /\ BatchSize \in Nat \ {0}
    /\ MaxCopies \in Nat /\ MaxFaults \in Nat

VARIABLES
    audit,      \* stream.audit; an entry's id is its place in the stream
    batch,      \* the entries the worker still has to deal with
    outcome,    \* what handle said of the first: acknowledge it or keep it
    cache,      \* _dedup_cache: entries known to have a row
    tries,      \* _retry_counts: entry -> failures
    rows,       \* audit_logs: the source_message_id of every row
    parked,     \* entries published to stream.deadletter
    faults

vars == <<audit, batch, outcome, cache, tries, rows, parked, faults>>

Entries == DOMAIN audit.log

TypeOK ==
    /\ audit \in Streams(Events)
    /\ batch \in Seq(Entries) /\ outcome \in {"none", "ack", "keep"}
    /\ cache \subseteq Entries
    /\ DOMAIN tries \subseteq Entries
    /\ \A i \in DOMAIN tries : tries[i] \in 1..(MAX_FAILURES_BEFORE_DEADLETTER - 1)
    /\ rows \in Seq(Entries)
    /\ parked \subseteq Entries
    /\ faults \in 0..MaxFaults

Init ==
    /\ \E exists \in BOOLEAN : audit = EmptyStream(exists)
    /\ batch = <<>> /\ outcome = "none"
    /\ cache = {} /\ tries = <<>>
    /\ rows = <<>> /\ parked = {}
    /\ faults = 0

Faults(n) == faults + n <= MaxFaults /\ faults' = faults + n

Current == Head(batch)

-----------------------------------------------------------------------------
Copies(e) == {i \in Entries : audit.log[i] = e}

Publish(e) ==
    /\ Cardinality(Copies(e)) < MaxCopies
    /\ audit' = XAdd(audit, e)
    /\ UNCHANGED <<batch, outcome, cache, tries, rows, parked, faults>>

Read ==
    /\ batch = <<>>
    /\ ~audit.group \/ Unread(audit) # {}
    /\ LET s == EnsureGroup(audit)
       IN  audit' = XReadGroup(s, BatchSize) /\ batch' = Delivered(s, BatchSize)
    /\ UNCHANGED <<outcome, cache, tries, rows, parked, faults>>

\* handle: is_audit_recorded_echo, or write_audit_log found the id in its cache.
Skips(i) == audit.log[i] \in Echoes \/ i \in cache

Handling == batch # <<>> /\ outcome = "none"

Skip ==
    /\ Handling /\ Skips(Current)
    /\ outcome' = "ack"
    /\ tries' = [i \in DOMAIN tries \ {Current} |-> tries[i]]
    /\ UNCHANGED <<audit, batch, cache, rows, parked, faults>>

Persist ==
    /\ Handling /\ ~Skips(Current)
    /\ rows' = Append(rows, Current)
    /\ cache' = cache \cup {Current}
    /\ tries' = [i \in DOMAIN tries \ {Current} |-> tries[i]]
    /\ outcome' = "ack"
    /\ UNCHANGED <<audit, batch, parked, faults>>

Tries(i) == IF i \in DOMAIN tries THEN tries[i] ELSE 0

\* Faulty: acknowledged although nothing was stored.
AfterFailure_Ack ==
    /\ outcome' = "ack" /\ UNCHANGED <<tries, parked>> /\ Faults(1)

\* Faulty: the count survives the dead-lettering.
AfterFailure_KeepsCount ==
    /\ tries' = [i \in DOMAIN tries \cup {Current} |->
                    IF i = Current THEN Tries(i) + 1 ELSE tries[i]]
    /\ parked' = parked \cup {Current} /\ outcome' = "ack" /\ Faults(1)

\* After enough failures the entry is dead-lettered, and acknowledged if that
\* publication worked; before, the failure is only counted.
AfterFailure ==
    IF Tries(Current) + 1 >= MAX_FAILURES_BEFORE_DEADLETTER
    THEN /\ tries' = [i \in DOMAIN tries \ {Current} |-> tries[i]]
         /\ \/ parked' = parked \cup {Current} /\ outcome' = "ack" /\ Faults(1)
            \/ parked' \in {parked, parked \cup {Current}} /\ outcome' = "keep" /\ Faults(2)
    ELSE /\ tries' = [i \in DOMAIN tries \cup {Current} |->
                         IF i = Current THEN Tries(i) + 1 ELSE tries[i]]
         /\ outcome' = "keep" /\ UNCHANGED parked /\ Faults(1)

\* The INSERT raises; the row may be there all the same.
PersistFails ==
    /\ Handling /\ ~Skips(Current)
    /\ rows' \in {rows, Append(rows, Current)}
    /\ AfterFailure
    /\ UNCHANGED <<audit, batch, cache>>

\* Faulty: one acknowledgement finishes the batch.
Acknowledge_WholeBatch ==
    /\ outcome = "ack"
    /\ audit' = XAck(audit, Current) /\ Faults(0)
    /\ batch' = <<>> /\ outcome' = "none"
    /\ UNCHANGED <<cache, tries, rows, parked>>

\* An XACK that raises is suppressed.
Acknowledge ==
    /\ outcome = "ack"
    /\ \/ audit' = XAck(audit, Current) /\ Faults(0)
       \/ audit' \in {audit, XAck(audit, Current)} /\ Faults(1)
    /\ batch' = Tail(batch) /\ outcome' = "none"
    /\ UNCHANGED <<cache, tries, rows, parked>>

Keep ==
    /\ outcome = "keep"
    /\ batch' = Tail(batch) /\ outcome' = "none"
    /\ UNCHANGED <<audit, cache, tries, rows, parked, faults>>

\* A new process starts with an empty cache.
WorkerStops ==
    /\ batch # <<>> \/ cache # {} \/ tries # <<>>
    /\ batch' = <<>> /\ outcome' = "none" /\ cache' = {} /\ tries' = <<>>
    /\ Faults(1)
    /\ UNCHANGED <<audit, rows, parked>>

WorkerStep == Read \/ Skip \/ Persist \/ PersistFails \/ Acknowledge \/ Keep

Next ==
    \/ \E e \in Events : Publish(e)
    \/ WorkerStep
    \/ WorkerStops

Spec == Init /\ [][Next]_vars

\* run() loops until it is told to stop, and is started again.
FairSpec == Spec /\ WF_vars(WorkerStep)

-----------------------------------------------------------------------------
\* Properties

Pending == Unread(audit) \cup audit.pel

\* worker.py: "ACK only after a successful INSERT (or after a successful
\* deadletter publish ...)": an entry the group has let go of has a row, is in
\* stream.deadletter, is an echo, or came before the group.  Whatever is lost
\* is still in the pending list.
NothingIsAcknowledgedUnstored ==
    \A i \in Entries \ Pending :
        \/ i <= audit.missed
        \/ audit.log[i] \in Echoes
        \/ \E k \in DOMAIN rows : rows[k] = i
        \/ i \in parked

\* Without faults, what arrives after the group was created reaches audit_logs.
ArrivalsArePersisted ==
    \A i \in 1..Cardinality(Events) :
        (i \in Entries /\ audit.log[i] \notin Echoes)
            ~> (i <= audit.missed \/ faults > 0 \/ \E k \in DOMAIN rows : rows[k] = i)
=============================================================================
