---------------------------- MODULE RedisStreams ----------------------------
(***************************************************************************)
(* A Redis stream with one consumer group, as the event bus uses it        *)
(* (shared/sdk/event_bus/redis_streams.py): XADD, XGROUP CREATE at "$",    *)
(* XREADGROUP with ">", XACK.  Nothing in the repository reads an entry    *)
(* that was delivered before: there is no XAUTOCLAIM, no XCLAIM and no     *)
(* XREADGROUP with an id.                                                  *)
(***************************************************************************)
EXTENDS Naturals, Sequences, FiniteSets

\* log: all entries; group: the group exists; missed: how many entries were there
\* when it was created; last: how many it has missed or been given; pel: those it
\* was given and has not acknowledged.
Streams(Entry) ==
    [log : Seq(Entry), group : BOOLEAN, missed : Nat, last : Nat, pel : SUBSET Nat]

EmptyStream(group) ==
    [log |-> <<>>, group |-> group, missed |-> 0, last |-> 0, pel |-> {}]

\* publish_event
XAdd(s, entry) == [s EXCEPT !.log = Append(@, entry)]

\* ensure_group: created at "$", so it never sees the entries that are there.
EnsureGroup(s) ==
    IF s.group THEN s
    ELSE [s EXCEPT !.group = TRUE, !.missed = Len(s.log), !.last = Len(s.log)]

Unread(s) == {i \in DOMAIN s.log : s.last < i}

\* consume_events: at most n entries that were never given to the group.
Delivered(s, n) ==
    LET size == IF Cardinality(Unread(s)) < n THEN Cardinality(Unread(s)) ELSE n
    IN  [k \in 1..size |-> s.last + k]

XReadGroup(s, n) ==
    [s EXCEPT !.last = @ + Len(Delivered(s, n)),
              !.pel  = @ \cup {s.last + k : k \in DOMAIN Delivered(s, n)}]

\* ack_event
XAck(s, i) == [s EXCEPT !.pel = @ \ {i}]
=============================================================================
