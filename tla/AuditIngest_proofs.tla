------------------------- MODULE AuditIngest_proofs -------------------------
(***************************************************************************)
(* The audit-worker loses nothing that it acknowledges and stores no entry *)
(* twice, for any stream, batch size and number of faults; with the lemmas *)
(* about a stream and its consumer group.  The second part is about        *)
(* RetryPipeline, whose agent and scheduler read streams of the same kind. *)
(***************************************************************************)
EXTENDS AuditIngest, RetryPipeline, SequenceTheorems, FiniteSetTheorems, TLAPS

\* The group has missed, or been given, entries that are there.
GroupWithinLog == audit.missed <= audit.last /\ audit.last <= Len(audit.log)

HasRow(i) == \E k \in DOMAIN rows : rows[k] = i

\* An entry that may be acknowledged.
Stored(i) == i <= audit.missed \/ audit.log[i] \in Echoes \/ HasRow(i) \/ i \in parked

\* The cache knows of rows only, for its process can die and it is not written otherwise.
CacheHasRows == \A i \in cache : HasRow(i)

\* handle says "acknowledge" only of an entry that is stored.
AckMeansStored ==
    /\ outcome # "none" => batch # <<>>
    /\ outcome = "ack" => Stored(Current)

IInv ==
    /\ TypeOK
    /\ GroupWithinLog
    /\ CacheHasRows
    /\ AckMeansStored
    /\ NothingIsAcknowledgedUnstored
-----------------------------------------------------------------------------
(* Streams *)

\* What was never delivered are the entries behind the group's last one.
LEMMA UnreadIsInterval ==
    ASSUME NEW S, NEW s \in Streams(S), s.last <= Len(s.log)
    PROVE  /\ Unread(s) = (s.last + 1)..Len(s.log)
           /\ IsFiniteSet(Unread(s)) /\ Cardinality(Unread(s)) = Len(s.log) - s.last
<1>1. s.log \in Seq(S) /\ s.last \in Nat /\ Len(s.log) \in Nat /\ DOMAIN s.log = 1..Len(s.log)
  BY LenProperties DEF Streams
<1>2. Unread(s) = (s.last + 1)..Len(s.log)
  BY <1>1 DEF Unread
<1>3. /\ IsFiniteSet((s.last + 1)..Len(s.log))
      /\ Cardinality((s.last + 1)..Len(s.log)) =
            IF s.last + 1 > Len(s.log) THEN 0 ELSE Len(s.log) - (s.last + 1) + 1
  <2>1. s.last + 1 \in Int /\ Len(s.log) \in Int
    BY <1>1
  <2> QED BY <2>1, FS_Interval, Zenon
<1> QED BY <1>1, <1>2, <1>3

\* ensure_group gives a stream whose group exists; one created now is behind all entries.
LEMMA EnsureGroupProperties ==
    ASSUME NEW S, NEW s \in Streams(S), s.missed <= s.last, s.last <= Len(s.log)
    PROVE  LET t == EnsureGroup(s)
           IN  /\ t \in Streams(S) /\ t.log = s.log /\ t.pel = s.pel
               /\ t.missed <= t.last /\ t.last <= Len(t.log)
               /\ \/ t.missed = s.missed /\ t.last = s.last
                  \/ t.missed = Len(s.log) /\ t.last = Len(s.log)
<1>1. s.log \in Seq(S) /\ Len(s.log) \in Nat
  BY LenProperties DEF Streams
<1>2. CASE s.group
  BY <1>1, <1>2 DEF EnsureGroup
<1>3. CASE ~s.group
  <2>1. EnsureGroup(s) = [s EXCEPT !.group = TRUE, !.missed = Len(s.log), !.last = Len(s.log)]
    BY <1>3 DEF EnsureGroup
  <2>2. /\ EnsureGroup(s).log = s.log /\ EnsureGroup(s).pel = s.pel
        /\ EnsureGroup(s).missed = Len(s.log) /\ EnsureGroup(s).last = Len(s.log)
    BY <2>1 DEF Streams
  <2>3. EnsureGroup(s) \in Streams(S)
    BY <1>1, <2>1 DEF Streams
  <2> QED BY <1>1, <2>2, <2>3
<1> QED BY <1>2, <1>3

\* A read gives the group the entries that follow, at most n and none that is not there.
LEMMA XReadGroupProperties ==
    ASSUME NEW S, NEW s \in Streams(S), s.last <= Len(s.log), NEW n \in Nat
    PROVE  LET d == Delivered(s, n)
               t == XReadGroup(s, n)
           IN  /\ d \in Seq(DOMAIN s.log) /\ Len(d) = t.last - s.last
               /\ \A k \in DOMAIN d : d[k] = s.last + k
               /\ t \in Streams(S) /\ t.log = s.log /\ t.missed = s.missed
               /\ s.last <= t.last /\ t.last <= Len(s.log)
               /\ t.pel = s.pel \cup ((s.last + 1)..t.last)
<1> DEFINE d == Delivered(s, n)
           t == XReadGroup(s, n)
           left == Cardinality(Unread(s))
           size == IF left < n THEN left ELSE n
<1>1. s.log \in Seq(S) /\ s.last \in Nat /\ Len(s.log) \in Nat /\ DOMAIN s.log = 1..Len(s.log)
  BY LenProperties DEF Streams
<1>2. left = Len(s.log) - s.last
  BY UnreadIsInterval
<1> HIDE DEF left
<1>3. size \in Nat /\ s.last + size <= Len(s.log)
  BY <1>1, <1>2
<1>4. d = [k \in 1..size |-> s.last + k]
  BY DEF Delivered, left
<1> HIDE DEF size
<1>5. \A k \in 1..size : s.last + k \in DOMAIN s.log
  BY <1>1, <1>3
<1>6. d \in Seq(DOMAIN s.log) /\ Len(d) = size /\ DOMAIN d = 1..size
  <2>1. d \in Seq(DOMAIN s.log)
    BY <1>3, <1>4, <1>5, IsASeq
  <2>2. DOMAIN d = 1..size
    BY <1>4
  <2> QED BY <1>3, <2>1, <2>2, LenProperties
<1>7. {s.last + k : k \in 1..size} = (s.last + 1)..(s.last + size)
  <2>1. ASSUME NEW i \in (s.last + 1)..(s.last + size)
        PROVE  i \in {s.last + k : k \in 1..size}
    <3>1. i - s.last \in 1..size /\ i = s.last + (i - s.last)
      BY <1>1, <1>3
    <3> QED BY <3>1
  <2>2. ASSUME NEW k \in 1..size
        PROVE  s.last + k \in (s.last + 1)..(s.last + size)
    BY <1>1, <1>3
  <2> QED BY <2>1, <2>2
<1>8. t = [s EXCEPT !.last = s.last + Len(d), !.pel = s.pel \cup {s.last + k : k \in DOMAIN d}]
  BY DEF XReadGroup
<1>8a. \A k \in DOMAIN d : d[k] = s.last + k
  BY <1>4
<1> HIDE DEF d, t
<1>9. /\ t.log = s.log /\ t.missed = s.missed /\ t.group = s.group /\ t.last = s.last + size
      /\ t.pel = s.pel \cup ((s.last + 1)..(s.last + size))
      /\ t = [log |-> t.log, group |-> t.group, missed |-> t.missed,
              last |-> t.last, pel |-> t.pel]
  BY <1>6, <1>7, <1>8 DEF Streams
<1>10. (s.last + 1)..(s.last + size) \subseteq Nat
  BY <1>1, <1>3
<1>11. t \in Streams(S)
  BY <1>1, <1>3, <1>9, <1>10 DEF Streams
<1> QED BY <1>1, <1>3, <1>6, <1>9, <1>11, <1>8a DEF d, t
-----------------------------------------------------------------------------
\* What the type of the state says, where it is needed.
LEMMA StateTypes ==
    ASSUME IInv
    PROVE  /\ audit.log \in Seq(Events) /\ Len(audit.log) \in Nat
           /\ Entries = 1..Len(audit.log) /\ audit.last \in Nat /\ audit.missed \in Nat
           /\ batch \in Seq(Entries) /\ rows \in Seq(Entries) /\ DOMAIN rows = 1..Len(rows)
           /\ Len(rows) \in Nat
           /\ batch # <<>> => Current \in Entries /\ Tail(batch) \in Seq(Entries)
           /\ faults \in 0..MaxFaults /\ audit \in Streams(Events)
<1>1. audit.log \in Seq(Events) /\ audit.last \in Nat /\ audit.missed \in Nat
  BY DEF IInv, TypeOK, Streams
<1>2. batch # <<>> => Current \in Entries /\ Tail(batch) \in Seq(Entries)
  BY HeadTailProperties DEF IInv, TypeOK, Current
<1> QED BY <1>1, <1>2, LenProperties DEF IInv, TypeOK, Entries

\* A counted fault is within the bound.
LEMMA FaultsBounded ==
    ASSUME IInv, NEW n \in Nat, Faults(n)
    PROVE  faults' \in 0..MaxFaults
BY StateTypes, IngestAssumption DEF Faults

\* The initial states satisfy the invariant.
LEMMA InitIInv == Init => IInv
<1> SUFFICES ASSUME Init PROVE IInv
  OBVIOUS
<1>1. /\ audit.log = <<>> /\ audit.missed = 0 /\ audit.last = 0 /\ audit.pel = {}
      /\ audit \in Streams(Events)
  BY DEF Init, EmptyStream, Streams
<1>2. Entries = {}
  BY <1>1 DEF Entries
<1>3. TypeOK
  <2>1. batch \in Seq(Entries) /\ rows \in Seq(Entries)
    BY DEF Init
  <2>2. DOMAIN tries = {}
    BY DEF Init
  <2> QED BY <1>1, <2>1, <2>2, IngestAssumption DEF Init, TypeOK
<1> QED BY <1>1, <1>2, <1>3, IngestAssumption
        DEF Init, IInv, GroupWithinLog, CacheHasRows, AckMeansStored, NothingIsAcknowledgedUnstored

\* A producer appends an entry, which is unread.
LEMMA PublishKeeps ==
    ASSUME IInv, NEW e \in Events, Publish(e)
    PROVE  IInv'
<1>1. audit' = XAdd(audit, e) /\ UNCHANGED <<batch, outcome, cache, tries, rows, parked, faults>>
  BY DEF Publish
<1> DEFINE n == Len(audit.log)
<1>2. /\ Append(audit.log, e) \in Seq(Events) /\ Len(Append(audit.log, e)) = n + 1
      /\ \A i \in 1..n : Append(audit.log, e)[i] = audit.log[i]
  BY StateTypes, AppendProperties
<1>3. /\ audit'.log = Append(audit.log, e) /\ audit'.missed = audit.missed
      /\ audit'.last = audit.last /\ audit'.pel = audit.pel /\ audit' \in Streams(Events)
  BY <1>1, <1>2, StateTypes DEF XAdd, Streams
<1>4. Entries' = 1..(n + 1) /\ Entries \subseteq Entries'
  BY <1>2, <1>3, StateTypes, LenProperties DEF Entries
<1>5. TypeOK'
  <2>1. batch \in Seq(Entries') /\ rows \in Seq(Entries')
    BY <1>4, StateTypes, SeqMonotonic
  <2> QED BY <1>1, <1>3, <1>4, <2>1 DEF IInv, TypeOK
<1>6. GroupWithinLog'
  BY <1>2, <1>3, StateTypes DEF IInv, GroupWithinLog
<1>7. CacheHasRows'
  BY <1>1 DEF IInv, CacheHasRows, HasRow
<1>8. ASSUME NEW i \in Entries, Stored(i) PROVE Stored(i)'
  BY <1>1, <1>2, <1>3, <1>8, StateTypes DEF Stored, HasRow
<1>9. AckMeansStored'
  <2>1. outcome # "none" => Current \in Entries
    BY StateTypes DEF IInv, AckMeansStored
  <2>2. UNCHANGED <<outcome, batch, Current>>
    BY <1>1 DEF Current
  <2> QED BY <1>8, <2>1, <2>2 DEF IInv, AckMeansStored, Stored, HasRow
<1>10. NothingIsAcknowledgedUnstored'
  <2> SUFFICES ASSUME NEW i \in Entries', i \notin Pending' PROVE Stored(i)'
    BY DEF NothingIsAcknowledgedUnstored, Stored, HasRow
  <2>1. /\ Unread(audit)' = {k \in 1..(n + 1) : audit.last < k}
        /\ Unread(audit) = {k \in 1..n : audit.last < k}
    BY <1>3, <1>4, StateTypes DEF Unread, Entries
  <2>2. i \in 1..(n + 1) /\ i \notin Unread(audit)' /\ i \notin audit.pel
    BY <1>3, <1>4 DEF Pending
  <2>4. audit.last \in Nat /\ n \in Nat /\ audit.last <= n
    BY StateTypes DEF IInv, GroupWithinLog
  <2>5. i \in 1..n /\ i \notin Unread(audit)
    BY <2>1, <2>2, <2>4
  <2>6. i \in Entries /\ i \notin Pending
    BY <2>2, <2>5, StateTypes DEF Pending
  <2>3. Stored(i)
    BY <2>6 DEF IInv, NothingIsAcknowledgedUnstored, Stored, HasRow
  <2> QED BY <1>8, <2>3, <2>6
<1> QED BY <1>5, <1>6, <1>7, <1>9, <1>10 DEF IInv
\* The worker reads: what it is given is pending, what it missed stays missed.
LEMMA ReadKeeps ==
    ASSUME IInv, Read
    PROVE  IInv'
<1>1. UNCHANGED <<outcome, cache, tries, rows, parked, faults>> /\ batch = <<>>
  BY DEF Read
<1>2. PICK s : /\ s = EnsureGroup(audit)
               /\ audit' = XReadGroup(s, BatchSize) /\ batch' = Delivered(s, BatchSize)
  BY DEF Read
<1>3. /\ s \in Streams(Events) /\ s.log = audit.log /\ s.pel = audit.pel
      /\ s.missed <= s.last /\ s.last <= Len(s.log)
      /\ \/ s.missed = audit.missed /\ s.last = audit.last
         \/ s.missed = Len(audit.log) /\ s.last = Len(audit.log)
  BY <1>2, StateTypes, EnsureGroupProperties DEF IInv, GroupWithinLog
<1>4. /\ batch' \in Seq(DOMAIN s.log)
      /\ audit' \in Streams(Events) /\ audit'.log = s.log /\ audit'.missed = s.missed
      /\ s.last <= audit'.last /\ audit'.last <= Len(s.log)
      /\ audit'.pel = s.pel \cup ((s.last + 1)..audit'.last)
  <2>1. LET d == Delivered(s, BatchSize)
            t == XReadGroup(s, BatchSize)
        IN  /\ d \in Seq(DOMAIN s.log) /\ t \in Streams(Events) /\ t.log = s.log
            /\ t.missed = s.missed /\ s.last <= t.last /\ t.last <= Len(s.log)
            /\ t.pel = s.pel \cup ((s.last + 1)..t.last)
    <3>1. s \in Streams(Events) /\ s.last <= Len(s.log) /\ BatchSize \in Nat
      BY <1>3, IngestAssumption
    <3> QED BY <3>1, XReadGroupProperties
  <2> QED BY <1>2, <2>1
<1>5. Entries' = Entries /\ audit'.log = audit.log
  BY <1>3, <1>4 DEF Entries
<1>6. /\ s.last \in Nat /\ s.missed \in Nat /\ audit'.last \in Nat /\ audit'.missed \in Nat
      /\ audit.missed <= s.missed /\ audit.missed <= audit.last /\ audit.last <= Len(audit.log)
  BY <1>3, <1>4, StateTypes DEF Streams, IInv, GroupWithinLog
<1>7. TypeOK'
  BY <1>1, <1>3, <1>4, <1>5 DEF IInv, TypeOK, Entries
<1>8. GroupWithinLog'
  BY <1>3, <1>4, <1>6 DEF GroupWithinLog
<1>9. CacheHasRows'
  BY <1>1 DEF IInv, CacheHasRows, HasRow
<1>10. AckMeansStored'
  BY <1>1, StateTypes DEF IInv, AckMeansStored
<1>11. NothingIsAcknowledgedUnstored'
  <2> SUFFICES ASSUME NEW i \in Entries, i \notin Pending', ~(i <= audit'.missed)
               PROVE  \/ audit.log[i] \in Echoes
                      \/ \E k \in DOMAIN rows : rows[k] = i
                      \/ i \in parked
    BY <1>1, <1>5 DEF NothingIsAcknowledgedUnstored
  <2>1. i \in 1..Len(audit.log) /\ i \in Nat /\ Len(audit.log) \in Nat
    BY StateTypes
  <2>2. ~(audit'.last < i) /\ i \notin audit'.pel
    BY <1>5, <2>1 DEF Pending, Unread, Entries
  <2>3. s.missed = audit.missed /\ s.last = audit.last
    BY <1>3, <1>4, <2>1
  <2>4. ~(audit.last < i) /\ i \notin audit.pel
    BY <1>3, <1>4, <1>6, <2>1, <2>2, <2>3
  <2>5. i \notin Pending /\ ~(i <= audit.missed)
    BY <1>4, <2>3, <2>4 DEF Pending, Unread
  <2> QED BY <2>5 DEF IInv, NothingIsAcknowledgedUnstored
<1> QED BY <1>7, <1>8, <1>9, <1>10, <1>11 DEF IInv

\* A row that may or may not be written leaves the rows that are there.
LEMMA RowsGrow ==
    ASSUME IInv, NEW c \in Entries, NEW grown \in {rows, Append(rows, c)}
    PROVE  /\ grown \in Seq(Entries)
           /\ \A i : HasRow(i) => \E k \in DOMAIN grown : grown[k] = i
           /\ grown = Append(rows, c) => \E k \in DOMAIN grown : grown[k] = c
<1>1. CASE grown = Append(rows, c)
  <2>1. /\ grown \in Seq(Entries) /\ Len(grown) = Len(rows) + 1
        /\ \A k \in 1..Len(rows) : grown[k] = rows[k]
        /\ grown[Len(rows) + 1] = c
    BY <1>1, StateTypes, AppendProperties
  <2>2. DOMAIN grown = 1..(Len(rows) + 1) /\ DOMAIN rows = 1..Len(rows) /\ Len(rows) \in Nat
    BY <2>1, StateTypes, LenProperties
  <2> QED BY <2>1, <2>2 DEF HasRow
<1>2. CASE grown = rows /\ grown # Append(rows, c)
  BY <1>2, StateTypes DEF HasRow
<1> QED BY <1>1, <1>2

\* A step of the worker that leaves the stream as it is: what is stored stays so.
LEMMA StreamUnchanged ==
    ASSUME IInv, UNCHANGED audit, parked \subseteq parked',
           \A i : HasRow(i) => HasRow(i)'
    PROVE  /\ Entries' = Entries /\ GroupWithinLog' /\ NothingIsAcknowledgedUnstored'
           /\ \A i : Stored(i) => Stored(i)'
<1>1. Entries' = Entries /\ Pending' = Pending /\ GroupWithinLog'
  BY DEF Entries, Pending, Unread, IInv, GroupWithinLog
<1>2. \A i : Stored(i) => Stored(i)'
  BY DEF Stored
<1>3. \A i \in Entries \ Pending : Stored(i)
  BY DEF IInv, NothingIsAcknowledgedUnstored, Stored, HasRow
<1>4. \A i \in Entries' \ Pending' : Stored(i)'
  BY <1>1, <1>2, <1>3
<1>5. NothingIsAcknowledgedUnstored'
  BY <1>4 DEF NothingIsAcknowledgedUnstored, Stored, HasRow
<1> QED BY <1>1, <1>2, <1>5

\* Forgetting the failures of an entry leaves the counts of the others.
LEMMA TriesForgotten ==
    ASSUME IInv, NEW c, tries' = [i \in DOMAIN tries \ {c} |-> tries[i]]
    PROVE  /\ DOMAIN tries' \subseteq Entries
           /\ \A i \in DOMAIN tries' : tries'[i] \in 1..(MAX_FAILURES_BEFORE_DEADLETTER - 1)
BY DEF IInv, TypeOK

\* An entry of which the cache knows, or an echo, is acknowledged.
LEMMA SkipKeeps ==
    ASSUME IInv, Skip
    PROVE  IInv'
<1>1. /\ batch # <<>> /\ Skips(Current) /\ outcome' = "ack"
      /\ tries' = [i \in DOMAIN tries \ {Current} |-> tries[i]]
      /\ UNCHANGED <<audit, batch, cache, rows, parked, faults>>
  BY DEF Skip, Handling
<1>2. \A i : HasRow(i) => HasRow(i)'
  BY <1>1 DEF HasRow
<1>3. /\ Entries' = Entries /\ GroupWithinLog' /\ NothingIsAcknowledgedUnstored'
      /\ \A i : Stored(i) => Stored(i)'
  BY <1>1, <1>2, StreamUnchanged
<1>4. TypeOK'
  BY <1>1, <1>3, TriesForgotten DEF IInv, TypeOK
<1>5. CacheHasRows'
  BY <1>1, <1>2 DEF IInv, CacheHasRows
<1>6. AckMeansStored'
  <2>1. Stored(Current)
    BY <1>1 DEF Skips, Stored, IInv, CacheHasRows
  <2>2. Stored(Current)'
    BY <1>1, <2>1 DEF Stored, HasRow, Current
  <2> QED BY <1>1, <2>2 DEF AckMeansStored
<1> QED BY <1>3, <1>4, <1>5, <1>6 DEF IInv

\* An INSERT that works.
LEMMA PersistKeeps ==
    ASSUME IInv, Persist
    PROVE  IInv'
<1>1. /\ batch # <<>> /\ outcome' = "ack"
      /\ rows' = Append(rows, Current) /\ cache' = cache \cup {Current}
      /\ tries' = [i \in DOMAIN tries \ {Current} |-> tries[i]]
      /\ UNCHANGED <<audit, batch, parked, faults>>
  BY DEF Persist, Handling
<1>2. Current \in Entries
  BY <1>1, StateTypes
<1>3. /\ rows' \in Seq(Entries) /\ \A i : HasRow(i) => HasRow(i)'
      /\ \E k \in DOMAIN rows' : rows'[k] = Current
  BY <1>1, <1>2, RowsGrow DEF HasRow
<1>4. /\ Entries' = Entries /\ GroupWithinLog' /\ NothingIsAcknowledgedUnstored'
  BY <1>1, <1>3, StreamUnchanged
<1>5. TypeOK'
  BY <1>1, <1>2, <1>3, <1>4, TriesForgotten DEF IInv, TypeOK
<1>6. CacheHasRows'
  BY <1>1, <1>3 DEF IInv, CacheHasRows, HasRow
<1>7. AckMeansStored'
  BY <1>1, <1>3 DEF AckMeansStored, Stored, HasRow, Current
<1> QED BY <1>4, <1>5, <1>6, <1>7 DEF IInv

\* An INSERT that raises: the failure is counted, or the entry is dead-lettered.
LEMMA PersistFailsKeeps ==
    ASSUME IInv, PersistFails
    PROVE  IInv'
<1>1. /\ batch # <<>> /\ rows' \in {rows, Append(rows, Current)} /\ AfterFailure
      /\ UNCHANGED <<audit, batch, cache>>
  BY DEF PersistFails, Handling
<1>2. Current \in Entries
  BY <1>1, StateTypes
<1>3. rows' \in Seq(Entries) /\ \A i : HasRow(i) => HasRow(i)'
  BY <1>1, <1>2, RowsGrow DEF HasRow
<1>4. /\ parked \subseteq parked' /\ parked' \subseteq Entries
      /\ outcome' = "ack" \/ outcome' = "keep"
      /\ outcome' = "ack" => Current \in parked'
      /\ faults' \in 0..MaxFaults
  <2>1. parked \subseteq Entries
    BY DEF IInv, TypeOK
  <2>2. Faults(1) \/ Faults(2)
    BY <1>1 DEF AfterFailure
  <2>3. faults' \in 0..MaxFaults
    BY <2>2, FaultsBounded
  <2> QED BY <1>1, <1>2, <2>1, <2>3 DEF AfterFailure
<1>5. /\ DOMAIN tries' \subseteq Entries
      /\ \A i \in DOMAIN tries' : tries'[i] \in 1..(MAX_FAILURES_BEFORE_DEADLETTER - 1)
  <2>1. CASE Tries(Current) + 1 >= MAX_FAILURES_BEFORE_DEADLETTER
    BY <1>1, <2>1, TriesForgotten DEF AfterFailure
  <2>2. CASE ~(Tries(Current) + 1 >= MAX_FAILURES_BEFORE_DEADLETTER)
    <3>1. tries' = [i \in DOMAIN tries \cup {Current} |->
                       IF i = Current THEN Tries(i) + 1 ELSE tries[i]]
      BY <1>1, <2>2 DEF AfterFailure
    <3>2. /\ DOMAIN tries \subseteq Entries
          /\ \A i \in DOMAIN tries : tries[i] \in 1..(MAX_FAILURES_BEFORE_DEADLETTER - 1)
      BY DEF IInv, TypeOK
    <3>3. Tries(Current) \in Nat
      BY <3>2, IngestAssumption DEF Tries
    <3>4. Tries(Current) + 1 \in 1..(MAX_FAILURES_BEFORE_DEADLETTER - 1)
      BY <2>2, <3>3, IngestAssumption
    <3> HIDE DEF Tries
    <3> QED BY <1>2, <3>1, <3>2, <3>4
  <2> QED BY <2>1, <2>2
<1>6. /\ Entries' = Entries /\ GroupWithinLog' /\ NothingIsAcknowledgedUnstored'
  BY <1>1, <1>3, <1>4, StreamUnchanged
<1>7. TypeOK'
  BY <1>1, <1>3, <1>4, <1>5, <1>6 DEF IInv, TypeOK
<1>8. CacheHasRows'
  BY <1>1, <1>3 DEF IInv, CacheHasRows
<1>9. AckMeansStored'
  BY <1>1, <1>4 DEF AckMeansStored, Stored, Current
<1> QED BY <1>6, <1>7, <1>8, <1>9 DEF IInv

\* An XACK, which may be lost: only a stored entry leaves the pending list.
LEMMA AcknowledgeKeeps ==
    ASSUME IInv, Acknowledge
    PROVE  IInv'
<1>1. /\ outcome = "ack" /\ audit' \in {audit, XAck(audit, Current)}
      /\ batch' = Tail(batch) /\ outcome' = "none"
      /\ UNCHANGED <<cache, tries, rows, parked>>
      /\ Faults(0) \/ Faults(1)
  BY DEF Acknowledge
<1>2. batch # <<>> /\ Stored(Current)
  BY <1>1 DEF IInv, AckMeansStored
<1>3. faults' \in 0..MaxFaults /\ batch' \in Seq(Entries)
  BY <1>1, <1>2, FaultsBounded, StateTypes
<1>4. /\ audit' \in Streams(Events) /\ audit'.log = audit.log /\ audit'.missed = audit.missed
      /\ audit'.last = audit.last /\ audit.pel \ {Current} \subseteq audit'.pel
  BY <1>1, StateTypes DEF XAck, Streams
<1>5. Entries' = Entries
  BY <1>4 DEF Entries
<1>6. TypeOK'
  BY <1>1, <1>3, <1>4, <1>5 DEF IInv, TypeOK
<1>7. GroupWithinLog' /\ CacheHasRows' /\ AckMeansStored'
  BY <1>1, <1>4 DEF IInv, GroupWithinLog, CacheHasRows, HasRow, AckMeansStored
<1>8. NothingIsAcknowledgedUnstored'
  <2> SUFFICES ASSUME NEW i \in Entries', i \notin Pending' PROVE Stored(i)'
    BY DEF NothingIsAcknowledgedUnstored, Stored, HasRow
  <2>1. i \in Entries /\ (i \notin Pending \/ i = Current)
    BY <1>4, <1>5 DEF Pending, Unread
  <2>2. Stored(i)
    BY <1>2, <2>1 DEF IInv, NothingIsAcknowledgedUnstored, Stored, HasRow
  <2> QED BY <1>1, <1>4, <2>2 DEF Stored, HasRow
<1> QED BY <1>6, <1>7, <1>8 DEF IInv

\* An entry that stays pending, and a worker that stops, change nothing that is stored.
LEMMA KeepOrStopKeeps ==
    ASSUME IInv, Keep \/ WorkerStops
    PROVE  IInv'
<1>1. /\ UNCHANGED <<audit, rows, parked>> /\ outcome' = "none"
      /\ \/ batch' = Tail(batch) /\ batch # <<>> /\ UNCHANGED <<cache, tries, faults>>
         \/ batch' = <<>> /\ cache' = {} /\ tries' = <<>> /\ Faults(1)
  BY DEF Keep, WorkerStops, IInv, AckMeansStored
<1>2. \A i : HasRow(i) => HasRow(i)'
  BY <1>1 DEF HasRow
<1>3. Entries' = Entries /\ GroupWithinLog' /\ NothingIsAcknowledgedUnstored'
  BY <1>1, <1>2, StreamUnchanged
<1>4. batch' \in Seq(Entries) /\ faults' \in 0..MaxFaults
  <2>1. Tail(batch) \in Seq(Entries) \/ batch = <<>>
    BY StateTypes
  <2>2. <<>> \in Seq(Entries)
    OBVIOUS
  <2>3. faults \in 0..MaxFaults /\ (Faults(1) => faults' \in 0..MaxFaults)
    BY StateTypes, FaultsBounded
  <2> QED BY <1>1, <2>1, <2>2, <2>3
<1>5. tries' = <<>> => DOMAIN tries' = {}
  OBVIOUS
<1>6. TypeOK'
  BY <1>1, <1>3, <1>4, <1>5 DEF IInv, TypeOK
<1>7. CacheHasRows' /\ AckMeansStored'
  BY <1>1, <1>2 DEF IInv, CacheHasRows, AckMeansStored
<1> QED BY <1>3, <1>6, <1>7 DEF IInv

\* A step in which nothing happens.
LEMMA StutterKeeps ==
    ASSUME IInv, UNCHANGED vars
    PROVE  IInv'
BY DEF vars, IInv, TypeOK, Entries, GroupWithinLog, CacheHasRows, HasRow, AckMeansStored, Stored,
       Current, NothingIsAcknowledgedUnstored, Pending, Unread

\* Every step keeps the invariant.
LEMMA NextIInv == IInv /\ [Next]_vars => IInv'
<1> SUFFICES ASSUME IInv, [Next]_vars PROVE IInv'
  OBVIOUS
<1>1. CASE \E e \in Events : Publish(e)
  BY <1>1, PublishKeeps
<1>2. CASE Read
  BY <1>2, ReadKeeps
<1>3. CASE Skip
  BY <1>3, SkipKeeps
<1>4. CASE Persist
  BY <1>4, PersistKeeps
<1>5. CASE PersistFails
  BY <1>5, PersistFailsKeeps
<1>6. CASE Acknowledge
  BY <1>6, AcknowledgeKeeps
<1>7. CASE Keep \/ WorkerStops
  BY <1>7, KeepOrStopKeeps
<1>8. CASE UNCHANGED vars
  BY <1>8, StutterKeeps
<1> QED BY <1>1, <1>2, <1>3, <1>4, <1>5, <1>6, <1>7, <1>8 DEF Next, WorkerStep

\* The invariant holds of every reachable state.
LEMMA Invariant == Spec => []IInv
<1>1. Init => IInv
  BY InitIInv
<1>2. IInv /\ [Next]_vars => IInv'
  BY NextIInv
<1> QED BY <1>1, <1>2, PTL DEF Spec
-----------------------------------------------------------------------------
\* The worker's batch, cache, counters and rows are about entries of the stream, a
\* counter stays below the number of failures that dead-letters, and the faults
\* stay within their bound.
THEOREM IngestTyped == Spec => []TypeOK
<1>1. IInv => TypeOK
  BY DEF IInv
<1> QED BY <1>1, Invariant, PTL

\* worker.py acknowledges an entry only when it is in audit_logs or in
\* stream.deadletter, or is an echo: whatever the INSERTs, the acknowledgements and
\* the process do, an entry that came after the group and is neither is still pending.
THEOREM AcknowledgedIsStored == Spec => []NothingIsAcknowledgedUnstored
<1>1. IInv => NothingIsAcknowledgedUnstored
  BY DEF IInv
<1> QED BY <1>1, Invariant, PTL

-----------------------------------------------------------------------------
(* One row for an entry *)

\* The rows of audit_logs follow the order of the stream; so no entry has two.
StoredInOrder == \A k, l \in DOMAIN rows : k < l => rows[k] < rows[l]

\* A batch holds entries the group was given, in their order.
BatchInOrder ==
    /\ \A k \in DOMAIN batch : batch[k] <= audit.last
    /\ \A k, l \in DOMAIN batch : k < l => batch[k] < batch[l]

\* The rows are of entries before those of the batch, but for the first when handle is done with it.
RowsBehindBatch ==
    \A r \in DOMAIN rows :
        /\ rows[r] <= audit.last
        /\ \A k \in DOMAIN batch :
              rows[r] < batch[k] \/ (outcome # "none" /\ rows[r] = Current)

OrderInv == StoredInOrder /\ BatchInOrder /\ RowsBehindBatch

\* The numbers the order is about.
LEMMA OrderTypes ==
    ASSUME IInv
    PROVE  /\ audit.last \in Nat /\ \A r \in DOMAIN rows : rows[r] \in Nat
           /\ \A k \in DOMAIN batch : batch[k] \in Nat
           /\ batch # <<>> => 1 \in DOMAIN batch /\ Current = batch[1] /\ Current \in Nat
<1>1. /\ Entries \subseteq Nat /\ audit.last \in Nat
      /\ batch \in Seq(Entries) /\ rows \in Seq(Entries)
  BY StateTypes
<1>2. /\ DOMAIN batch = 1..Len(batch) /\ Len(batch) \in Nat
      /\ \A k \in DOMAIN batch : batch[k] \in Entries
      /\ \A r \in DOMAIN rows : rows[r] \in Entries
  BY <1>1, ElementOfSeq, LenProperties
<1>3. batch # <<>> => Len(batch) # 0 /\ Current = batch[1]
  BY <1>1, EmptySeq, HeadTailProperties DEF Current
<1>4. batch # <<>> => 1 \in DOMAIN batch /\ Current = batch[1] /\ Current \in Nat
  <2>1. Len(batch) # 0 => 1 \in 1..Len(batch)
    BY <1>2
  <2> QED BY <1>1, <1>2, <1>3, <2>1
<1>5. (\A r \in DOMAIN rows : rows[r] \in Nat) /\ \A k \in DOMAIN batch : batch[k] \in Nat
  BY <1>1, <1>2
<1> QED BY <1>1, <1>4, <1>5

\* What is left of the batch when its first entry is done comes after that entry.
LEMMA RestIsAhead ==
    ASSUME IInv, BatchInOrder, batch # <<>>, NEW b, b = Tail(batch)
    PROVE  /\ \A k \in DOMAIN b : b[k] <= audit.last /\ Current < b[k]
           /\ \A k, l \in DOMAIN b : k < l => b[k] < b[l]
           /\ \A k \in DOMAIN b : \E m \in DOMAIN batch : b[k] = batch[m]
<1>1. batch \in Seq(Entries)
  BY StateTypes
<1>2. /\ Len(batch) \in Nat \ {0} /\ Len(b) = Len(batch) - 1 /\ b \in Seq(Entries)
      /\ \A k \in 1..Len(b) : b[k] = batch[k + 1]
  BY <1>1, HeadTailProperties, EmptySeq, LenProperties
<1>3. DOMAIN batch = 1..Len(batch) /\ DOMAIN b = 1..(Len(batch) - 1)
  BY <1>1, <1>2, LenProperties
<1>4. \A k \in DOMAIN b : k \in Nat /\ 1 < k + 1 /\ k + 1 \in DOMAIN batch /\ b[k] = batch[k + 1]
  BY <1>2, <1>3
<1>5. \A k, l \in DOMAIN b : k < l => k + 1 < l + 1
  BY <1>4
<1>6. 1 \in DOMAIN batch /\ Current = batch[1]
  BY OrderTypes
<1> QED BY <1>4, <1>5, <1>6 DEF BatchInOrder

\* A row of the batch's first entry comes after all the others.
LEMMA RowKeepsOrder ==
    ASSUME IInv, OrderInv, batch # <<>>, outcome = "none", outcome' # "none",
           UNCHANGED <<audit, batch>>, rows' \in {rows, Append(rows, Current)}
    PROVE  OrderInv'
<1>1. \A r \in DOMAIN rows : rows[r] <= audit.last /\ rows[r] < Current
  BY OrderTypes DEF OrderInv, RowsBehindBatch
<1>2. BatchInOrder' /\ Current' = Current
  BY DEF OrderInv, BatchInOrder, Current
<1>3. Current <= audit.last /\ Current \in Nat
  BY OrderTypes DEF OrderInv, BatchInOrder
<1>4. CASE rows' = rows
  BY <1>2, <1>4 DEF OrderInv, StoredInOrder, RowsBehindBatch
<1>5. CASE rows' = Append(rows, Current)
  <2>1. /\ Len(rows') = Len(rows) + 1 /\ rows' \in Seq(Entries)
        /\ \A r \in 1..Len(rows) : rows'[r] = rows[r]
        /\ rows'[Len(rows) + 1] = Current
    BY <1>5, StateTypes, AppendProperties
  <2>2. DOMAIN rows' = 1..(Len(rows) + 1) /\ DOMAIN rows = 1..Len(rows) /\ Len(rows) \in Nat
    BY <2>1, StateTypes, LenProperties
  <2>3. \A r \in DOMAIN rows' :
           \/ r \in DOMAIN rows /\ rows'[r] = rows[r]
           \/ r = Len(rows) + 1 /\ rows'[r] = Current
    BY <2>1, <2>2
  <2>4. StoredInOrder'
    <3> SUFFICES ASSUME NEW k \in DOMAIN rows', NEW l \in DOMAIN rows', k < l
                 PROVE  rows'[k] < rows'[l]
      BY DEF StoredInOrder
    <3>1. k \in DOMAIN rows /\ rows'[k] = rows[k]
      BY <2>1, <2>2
    <3>2. CASE l \in DOMAIN rows /\ rows'[l] = rows[l]
      BY <3>1, <3>2 DEF OrderInv, StoredInOrder
    <3>3. CASE rows'[l] = Current
      BY <1>1, <3>1, <3>3
    <3> QED BY <2>3, <3>2, <3>3
  <2>5. RowsBehindBatch'
    <3> SUFFICES ASSUME NEW r \in DOMAIN rows'
                 PROVE  /\ rows'[r] <= audit.last
                        /\ \A k \in DOMAIN batch : rows'[r] < batch[k] \/ rows'[r] = Current
      BY <1>2 DEF RowsBehindBatch
    <3>1. CASE rows'[r] = Current
      BY <1>3, <3>1
    <3>2. CASE r \in DOMAIN rows /\ rows'[r] = rows[r]
      BY <1>1, <3>2 DEF OrderInv, RowsBehindBatch
    <3> QED BY <2>3, <3>1, <3>2
  <2> QED BY <1>2, <2>4, <2>5 DEF OrderInv
<1> QED BY <1>4, <1>5

\* A read gives the worker entries that no row is of, in their order.
LEMMA ReadKeepsOrder ==
    ASSUME IInv, OrderInv, Read
    PROVE  OrderInv'
<1>1. rows' = rows
  BY DEF Read
<1>2. PICK s : /\ s = EnsureGroup(audit)
               /\ audit' = XReadGroup(s, BatchSize) /\ batch' = Delivered(s, BatchSize)
  BY DEF Read
<1>3. /\ s \in Streams(Events) /\ s.last <= Len(s.log) /\ BatchSize \in Nat
      /\ audit.last <= s.last /\ s.last \in Nat /\ audit.last \in Nat
  <2>1. /\ s \in Streams(Events) /\ s.log = audit.log /\ s.last <= Len(s.log)
        /\ s.last = audit.last \/ s.last = Len(audit.log)
    BY <1>2, StateTypes, EnsureGroupProperties DEF IInv, GroupWithinLog
  <2>2. s.last \in Nat /\ audit.last \in Nat /\ audit.last <= Len(audit.log)
    BY <2>1, StateTypes DEF Streams, IInv, GroupWithinLog
  <2> QED BY <2>1, <2>2, IngestAssumption
<1>4. /\ batch' \in Seq(DOMAIN s.log) /\ Len(batch') = audit'.last - s.last
      /\ \A k \in DOMAIN batch' : batch'[k] = s.last + k
      /\ s.last <= audit'.last /\ audit' \in Streams(Events)
  <2>1. LET d == Delivered(s, BatchSize)
            t == XReadGroup(s, BatchSize)
        IN  /\ d \in Seq(DOMAIN s.log) /\ Len(d) = t.last - s.last
            /\ \A k \in DOMAIN d : d[k] = s.last + k
            /\ s.last <= t.last /\ t \in Streams(Events)
    BY <1>3, XReadGroupProperties
  <2> QED BY <1>2, <2>1
<1>5. audit'.last \in Nat /\ DOMAIN batch' = 1..(audit'.last - s.last)
  BY <1>4, LenProperties DEF Streams
<1>6. \A k \in DOMAIN batch' : batch'[k] <= audit'.last /\ s.last < batch'[k] /\ k \in Nat
  BY <1>3, <1>4, <1>5
<1>7. BatchInOrder'
  BY <1>3, <1>4, <1>6 DEF BatchInOrder
<1>8. \A r \in DOMAIN rows : rows[r] \in Nat /\ rows[r] <= audit.last
  BY OrderTypes DEF OrderInv, RowsBehindBatch
<1>9. RowsBehindBatch'
  <2> SUFFICES ASSUME NEW r \in DOMAIN rows
               PROVE  rows[r] <= audit'.last /\ \A k \in DOMAIN batch' : rows[r] < batch'[k]
    BY <1>1 DEF RowsBehindBatch
  <2>1. ASSUME NEW k \in DOMAIN batch' PROVE rows[r] < batch'[k]
    BY <1>3, <1>4, <1>6, <1>8
  <2> QED BY <1>3, <1>4, <1>5, <1>8, <2>1
<1>10. StoredInOrder'
  BY <1>1 DEF OrderInv, StoredInOrder
<1> QED BY <1>7, <1>9, <1>10 DEF OrderInv

\* The worker goes on to the next entry of its batch, or stops.
LEMMA MovingOnKeepsOrder ==
    ASSUME IInv, OrderInv, audit'.last = audit.last, rows' = rows, outcome' = "none",
           (batch # <<>> /\ batch' = Tail(batch)) \/ batch' = <<>>
    PROVE  OrderInv'
<1>1. StoredInOrder'
  BY DEF OrderInv, StoredInOrder
<1>2. CASE batch' = <<>>
  BY <1>1, <1>2 DEF OrderInv, BatchInOrder, RowsBehindBatch
<1>3. CASE batch # <<>> /\ batch' = Tail(batch)
  <2>1. /\ \A k \in DOMAIN batch' : batch'[k] <= audit.last /\ Current < batch'[k]
        /\ \A k, l \in DOMAIN batch' : k < l => batch'[k] < batch'[l]
        /\ \A k \in DOMAIN batch' : \E m \in DOMAIN batch : batch'[k] = batch[m]
    BY <1>3, RestIsAhead DEF OrderInv
  <2>2. BatchInOrder'
    BY <2>1 DEF BatchInOrder
  <2>3. RowsBehindBatch'
    <3> SUFFICES ASSUME NEW r \in DOMAIN rows
                 PROVE  /\ rows[r] <= audit.last
                        /\ \A k \in DOMAIN batch' : rows[r] < batch'[k]
      BY DEF RowsBehindBatch
    <3>1. ASSUME NEW k \in DOMAIN batch' PROVE rows[r] < batch'[k]
      <4>1. PICK m \in DOMAIN batch : batch'[k] = batch[m]
        BY <2>1
      <4>2. rows[r] < batch[m] \/ rows[r] = Current
        BY DEF OrderInv, RowsBehindBatch
      <4> QED BY <2>1, <4>1, <4>2
    <3> QED BY <3>1 DEF OrderInv, RowsBehindBatch
  <2> QED BY <1>1, <2>2, <2>3 DEF OrderInv
<1> QED BY <1>2, <1>3

\* Every step keeps the order.
LEMMA NextKeepsOrder == IInv /\ OrderInv /\ [Next]_vars => OrderInv'
<1> SUFFICES ASSUME IInv, OrderInv, [Next]_vars PROVE OrderInv'
  OBVIOUS
<1>1. CASE \E e \in Events : Publish(e)
  <2>1. PICK e \in Events : audit' = XAdd(audit, e) /\ UNCHANGED <<batch, rows, outcome>>
    BY <1>1 DEF Publish
  <2>2. audit'.last = audit.last /\ Current' = Current
    BY <2>1, StateTypes DEF XAdd, Streams, Current
  <2> QED BY <2>1, <2>2 DEF OrderInv, StoredInOrder, BatchInOrder, RowsBehindBatch
<1>2. CASE Read
  BY <1>2, ReadKeepsOrder
<1>3. CASE Skip \/ Persist \/ PersistFails
  <2>1. /\ batch # <<>> /\ outcome = "none" /\ outcome' # "none"
        /\ UNCHANGED <<audit, batch>> /\ rows' \in {rows, Append(rows, Current)}
    BY <1>3 DEF Skip, Persist, PersistFails, Handling, AfterFailure
  <2> QED BY <2>1, RowKeepsOrder
<1>4. CASE Acknowledge \/ Keep \/ WorkerStops
  <2>1. audit'.last = audit.last
    BY <1>4, StateTypes DEF Acknowledge, Keep, WorkerStops, XAck, Streams
  <2>2. /\ rows' = rows /\ outcome' = "none"
        /\ (batch # <<>> /\ batch' = Tail(batch)) \/ batch' = <<>>
    BY <1>4 DEF Acknowledge, Keep, WorkerStops, IInv, AckMeansStored
  <2> QED BY <2>1, <2>2, MovingOnKeepsOrder
<1>5. CASE UNCHANGED vars
  BY <1>5 DEF vars, OrderInv, StoredInOrder, BatchInOrder, RowsBehindBatch, Current
<1> QED BY <1>1, <1>2, <1>3, <1>4, <1>5 DEF Next, WorkerStep

\* handle (write_audit_log) makes at most one audit_logs row of a stream entry, and the rows come
\* in the order of the stream, whatever raises and however often the worker is started again with an
\* empty cache and no counts: what an event has twice, its producer published twice.
THEOREM EntriesAreStoredOnce == Spec => []StoredInOrder
<1>1. Init => OrderInv
  BY DEF Init, OrderInv, StoredInOrder, BatchInOrder, RowsBehindBatch
<1>2. IInv /\ OrderInv /\ [Next]_vars => OrderInv'
  BY NextKeepsOrder
<1>3. OrderInv => StoredInOrder
  BY DEF OrderInv
<1> QED BY <1>1, <1>2, <1>3, Invariant, PTL DEF Spec

-----------------------------------------------------------------------------
(* The retry pipeline *)

\* Appending an entry: it is unread, and the other entries stay what they are.
LEMMA AddFacts ==
    ASSUME NEW S, NEW s \in Streams(S), s.last <= Len(s.log), NEW e \in S
    PROVE  LET t == XAdd(s, e)
               n == Len(s.log) + 1
           IN  /\ t \in Streams(S) /\ t.missed = s.missed /\ t.last = s.last
               /\ Len(t.log) = n /\ DOMAIN t.log = DOMAIN s.log \cup {n} /\ n \notin DOMAIN s.log
               /\ t.log[n] = e /\ \A i \in DOMAIN s.log : t.log[i] = s.log[i]
               /\ Unread(t) \subseteq Unread(s) \cup {n}
<1> DEFINE t == XAdd(s, e)
           n == Len(s.log) + 1
<1>1. /\ s.log \in Seq(S) /\ Len(s.log) \in Nat /\ DOMAIN s.log = 1..Len(s.log)
      /\ s.last \in Nat
  BY LenProperties DEF Streams
<1>2. /\ Append(s.log, e) \in Seq(S) /\ Len(Append(s.log, e)) = n
      /\ Append(s.log, e)[n] = e /\ \A i \in 1..Len(s.log) : Append(s.log, e)[i] = s.log[i]
  BY <1>1, AppendProperties
<1>3. /\ t.log = Append(s.log, e) /\ t.missed = s.missed /\ t.last = s.last
      /\ t \in Streams(S)
  BY <1>2 DEF XAdd, Streams
<1>4. DOMAIN t.log = 1..n
  BY <1>2, <1>3, LenProperties
<1>5. DOMAIN t.log = DOMAIN s.log \cup {n} /\ n \notin DOMAIN s.log
  BY <1>1, <1>4
<1>6. Unread(t) \subseteq Unread(s) \cup {n}
  BY <1>1, <1>3, <1>5 DEF Unread
<1> QED BY <1>1, <1>2, <1>3, <1>5, <1>6

\* An acknowledgement leaves the entries, and what is unread, alone.
LEMMA AckFacts ==
    ASSUME NEW S, NEW s \in Streams(S), NEW i
    PROVE  LET t == XAck(s, i)
           IN  /\ t \in Streams(S) /\ t.log = s.log /\ t.missed = s.missed
               /\ t.last = s.last
               /\ Unread(t) = Unread(s)
BY DEF XAck, Streams, Unread

\* A read that finds, or makes, its group: what it delivers was unread and is no more.
LEMMA ReadFacts ==
    ASSUME NEW S, NEW s \in Streams(S), s.missed <= s.last, s.last <= Len(s.log),
           NEW n \in Nat
    PROVE  LET d == Delivered(EnsureGroup(s), n)
               t == XReadGroup(EnsureGroup(s), n)
           IN  /\ t \in Streams(S) /\ t.log = s.log /\ t.missed <= t.last
               /\ t.last <= Len(t.log)
               /\ s.last <= t.last
               /\ d \in Seq(Nat) /\ \A k \in DOMAIN d : d[k] \in (s.last + 1)..t.last
               /\ \A k, l \in DOMAIN d : d[k] = d[l] => k = l
               /\ Unread(t) \cup {d[k] : k \in DOMAIN d} \subseteq Unread(s)
<1> DEFINE g == EnsureGroup(s)
           d == Delivered(g, n)
           t == XReadGroup(g, n)
<1>1. /\ g \in Streams(S) /\ g.log = s.log /\ g.missed <= g.last /\ g.last <= Len(g.log)
      /\ g.last = s.last \/ g.last = Len(s.log)
  BY EnsureGroupProperties
<1>2. /\ d \in Seq(DOMAIN g.log) /\ Len(d) = t.last - g.last
      /\ \A k \in DOMAIN d : d[k] = g.last + k
      /\ t \in Streams(S) /\ t.log = g.log /\ t.missed = g.missed
      /\ g.last <= t.last /\ t.last <= Len(g.log)
  <2>1. g \in Streams(S)
    BY <1>1
  <2>2. LET e == Delivered(g, n)
            u == XReadGroup(g, n)
        IN  /\ e \in Seq(DOMAIN g.log) /\ Len(e) = u.last - g.last
            /\ \A k \in DOMAIN e : e[k] = g.last + k
            /\ u \in Streams(S) /\ u.log = g.log /\ u.missed = g.missed
            /\ g.last <= u.last /\ u.last <= Len(g.log)
    BY <1>1, <2>1, XReadGroupProperties
  <2> QED BY <2>2
<1>3. /\ s.log \in Seq(S) /\ Len(s.log) \in Nat /\ DOMAIN s.log = 1..Len(s.log)
      /\ s.last \in Nat /\ g.last \in Nat /\ t.last \in Nat /\ t.missed \in Nat
  BY <1>1, <1>2, LenProperties DEF Streams
<1>4. DOMAIN d = 1..(t.last - g.last)
  BY <1>2, LenProperties
<1>5. d \in Seq(Nat)
  <2>1. DOMAIN g.log \subseteq Nat
    BY <1>1, <1>3
  <2> QED BY <1>2, <2>1, SeqMonotonic
<1> HIDE DEF g, d, t
<1>6. /\ \A k \in DOMAIN d : d[k] \in (s.last + 1)..t.last
      /\ \A k, l \in DOMAIN d : d[k] = d[l] => k = l
  <2>1. s.last <= g.last
    BY <1>1, <1>3
  <2>2. \A k \in DOMAIN d : d[k] = g.last + k
    BY <1>2
  <2> QED BY <1>3, <1>4, <2>1, <2>2
<1>7. Unread(t) \cup {d[k] : k \in DOMAIN d} \subseteq Unread(s)
  BY <1>1, <1>2, <1>3, <1>6 DEF Unread
<1> QED BY <1>1, <1>2, <1>3, <1>5, <1>6, <1>7 DEF g, d, t

\* What is left of a batch when its first entry is done.
LEMMA TailFacts ==
    ASSUME NEW b \in Seq(Nat), b # <<>>, \A k, l \in DOMAIN b : b[k] = b[l] => k = l
    PROVE  /\ \E k \in DOMAIN b : Head(b) = b[k]
           /\ Tail(b) \in Seq(Nat)
           /\ \A k \in DOMAIN Tail(b) :
                 Tail(b)[k] # Head(b) /\ \E l \in DOMAIN b : Tail(b)[k] = b[l]
           /\ \A k, l \in DOMAIN Tail(b) : Tail(b)[k] = Tail(b)[l] => k = l
<1>1. /\ Head(b) = b[1] /\ Tail(b) \in Seq(Nat) /\ Len(b) \in Nat \ {0}
      /\ Len(Tail(b)) = Len(b) - 1
      /\ \A k \in 1..Len(Tail(b)) : Tail(b)[k] = b[k + 1]
  BY HeadTailProperties, EmptySeq, LenProperties
<1>2. DOMAIN b = 1..Len(b) /\ DOMAIN Tail(b) = 1..(Len(b) - 1)
  BY <1>1, LenProperties
<1>3. 1 \in DOMAIN b /\ \A k \in DOMAIN Tail(b) :
         k + 1 \in DOMAIN b /\ k + 1 # 1 /\ Tail(b)[k] = b[k + 1]
  BY <1>1, <1>2
<1>4. \A k, l \in DOMAIN Tail(b) : k + 1 = l + 1 => k = l
  BY <1>2
<1> QED BY <1>1, <1>3, <1>4

-----------------------------------------------------------------------------
\* Both groups have missed, or been given, entries that are there.
GroupsWithinLogs ==
    /\ input.missed <= input.last /\ input.last <= Len(input.log)
    /\ dead.missed <= dead.last /\ dead.last <= Len(dead.log)

\* A batch holds entries that were delivered, each once.
AgentCoherent ==
    /\ agent.stage # "handle" => agent.batch # <<>>
    /\ \A k \in DOMAIN agent.batch : agent.batch[k] \in 1..input.last
    /\ \A k, l \in DOMAIN agent.batch : agent.batch[k] = agent.batch[l] => k = l

\* The same of the scheduler; an entry has a task or is in the batch, never both.
SchedulerCoherent ==
    /\ sched.tasks \subseteq 1..dead.last
    /\ \A k \in DOMAIN sched.batch :
          sched.batch[k] \in 1..dead.last /\ sched.batch[k] \notin sched.tasks
    /\ \A k, l \in DOMAIN sched.batch : sched.batch[k] = sched.batch[l] => k = l

DeadWereSubmitted == \A i \in DOMAIN dead.log : Submitted(dead.log[i].job)

Coherent ==
    PipelineTypeOK /\ GroupsWithinLogs /\ AgentCoherent /\ SchedulerCoherent /\ DeadWereSubmitted

RInv == Coherent /\ OneCopyInFlight

\* The entries that are still under way, in either stream.
BatchOf(b) == {b[k] : k \in DOMAIN b}
Held == BatchOf(agent.batch) \ (IF agent.stage = "ack" THEN {CurrentEntry} ELSE {})
LiveIn == Unread(input) \cup Held
LiveDead == Unread(dead) \cup BatchOf(sched.batch) \cup sched.tasks

CopiesOf(s, I, j) == Cardinality(Of(s, I, j))

-----------------------------------------------------------------------------
\* Fewer entries of one log are fewer copies of a job, and one copy less where one of
\* its own is gone.
LEMMA FewerCopies ==
    ASSUME NEW s \in Streams(Entry), NEW t,
           NEW I \in SUBSET DOMAIN s.log, NEW J \in SUBSET I,
           NEW j, \A i \in DOMAIN s.log : t.log[i] = s.log[i]
    PROVE  /\ CopiesOf(s, I, j) \in Nat /\ CopiesOf(t, J, j) \in Nat
           /\ CopiesOf(t, J, j) <= CopiesOf(s, I, j)
           /\ \A c \in I \ J : s.log[c].job = j => CopiesOf(t, J, j) <= CopiesOf(s, I, j) - 1
<1> DEFINE A == Of(s, I, j)
           B == Of(t, J, j)
<1>1. IsFiniteSet(A) /\ B \subseteq A
  <2>1. s.log \in Seq(Entry) /\ Len(s.log) \in Nat /\ DOMAIN s.log = 1..Len(s.log)
    BY LenProperties DEF Streams
  <2>2. IsFiniteSet(1..Len(s.log))
    BY <2>1, FS_Interval
  <2>3. A \subseteq 1..Len(s.log)
    BY <2>1 DEF Of
  <2>4. B \subseteq A
    BY DEF Of
  <2> QED BY <2>2, <2>3, <2>4, FS_Subset
<1>2. IsFiniteSet(B) /\ Cardinality(B) <= Cardinality(A)
      /\ Cardinality(A) \in Nat /\ Cardinality(B) \in Nat
  BY <1>1, FS_Subset, FS_CardinalityType
<1>3. ASSUME NEW c \in I \ J, s.log[c].job = j
      PROVE  Cardinality(B) <= Cardinality(A) - 1
  <2>1. c \in A /\ c \notin B
    BY <1>3 DEF Of
  <2>2. Cardinality(B) < Cardinality(A)
    BY <1>1, <1>2, <2>1, FS_Subset
  <2> QED BY <1>2, <2>2
<1> QED BY <1>2, <1>3 DEF CopiesOf

\* An entry added is a copy more of its own job.
LEMMA CopyAdded ==
    ASSUME NEW s \in Streams(Entry), s.last <= Len(s.log), NEW e \in Entry,
           NEW t, t = XAdd(s, e),
           NEW I \in SUBSET DOMAIN s.log, NEW J \in SUBSET (I \cup {Len(s.log) + 1}), NEW j
    PROVE  /\ CopiesOf(s, I, j) \in Nat /\ CopiesOf(t, J, j) \in Nat
           /\ CopiesOf(t, J, j) <= CopiesOf(s, I, j) + 1
           /\ e.job # j => CopiesOf(t, J, j) <= CopiesOf(s, I, j)
<1> DEFINE n == Len(s.log) + 1
           K == J \ {n}
<1>1. /\ \A i \in DOMAIN s.log : t.log[i] = s.log[i]
      /\ t.log[n] = e /\ n \notin DOMAIN s.log
  BY AddFacts
<1>2. K \in SUBSET I
  OBVIOUS
<1>3. /\ CopiesOf(s, I, j) \in Nat /\ CopiesOf(t, K, j) \in Nat
      /\ CopiesOf(t, K, j) <= CopiesOf(s, I, j)
  BY <1>1, <1>2, FewerCopies
<1>4. IsFiniteSet(Of(t, K, j))
  <2>1. s.log \in Seq(Entry) /\ Len(s.log) \in Nat /\ DOMAIN s.log = 1..Len(s.log)
    BY LenProperties DEF Streams
  <2>2. IsFiniteSet(1..Len(s.log))
    BY <2>1, FS_Interval
  <2>3. Of(t, K, j) \subseteq 1..Len(s.log)
    BY <1>2, <2>1 DEF Of
  <2> QED BY <2>2, <2>3, FS_Subset
<1>5. CASE n \in J /\ e.job = j
  <2>1. Of(t, J, j) = Of(t, K, j) \cup {n} /\ n \notin Of(t, K, j)
    BY <1>1, <1>5 DEF Of
  <2>2. Cardinality(Of(t, J, j)) = Cardinality(Of(t, K, j)) + 1
    <3> HIDE DEF n, K
    <3>1. Cardinality(Of(t, K, j) \cup {n}) = Cardinality(Of(t, K, j)) + 1
      BY <1>4, <2>1, FS_AddElement, Zenon
    <3> QED BY <2>1, <3>1
  <2> QED BY <1>3, <1>5, <2>2 DEF CopiesOf
<1>6. CASE ~(n \in J /\ e.job = j)
  <2>1. Of(t, J, j) = Of(t, K, j)
    BY <1>1, <1>6 DEF Of
  <2> QED BY <1>3, <2>1 DEF CopiesOf
<1> QED BY <1>5, <1>6

\* The copies of a job that are under way, now and after a step.
LEMMA InFlightCounts ==
    ASSUME NEW j
    PROVE  /\ InFlight(j) = CopiesOf(input, LiveIn, j) + CopiesOf(dead, LiveDead, j)
           /\ InFlight(j)' = CopiesOf(input', LiveIn', j) + CopiesOf(dead', LiveDead', j)
BY DEF InFlight, CopiesOf, LiveIn, LiveDead, Held, BatchOf

\* A publication that may have failed: at most one entry more.
LEMMA PublishFacts ==
    ASSUME NEW s \in Streams(Entry), s.missed <= s.last, s.last <= Len(s.log),
           NEW e \in Entry,
           NEW u, u = s \/ u = XAdd(s, e)
    PROVE  /\ u \in Streams(Entry) /\ u.missed <= u.last /\ u.last <= Len(u.log)
           /\ u.last = s.last
           /\ DOMAIN s.log \subseteq DOMAIN u.log /\ \A i \in DOMAIN s.log : u.log[i] = s.log[i]
           /\ \A i \in DOMAIN u.log \ DOMAIN s.log : u.log[i] = e
           /\ Unread(u) \subseteq Unread(s) \cup {Len(s.log) + 1}
<1>1. /\ s.log \in Seq(Entry) /\ Len(s.log) \in Nat /\ DOMAIN s.log = 1..Len(s.log)
      /\ s.last \in Nat /\ s.missed \in Nat
  BY LenProperties DEF Streams
<1>2. CASE u = s
  BY <1>2
<1>3. CASE u = XAdd(s, e)
  <2>1. /\ u \in Streams(Entry) /\ u.missed = s.missed /\ u.last = s.last
        /\ Len(u.log) = Len(s.log) + 1 /\ DOMAIN u.log = DOMAIN s.log \cup {Len(s.log) + 1}
        /\ u.log[Len(s.log) + 1] = e /\ \A i \in DOMAIN s.log : u.log[i] = s.log[i]
        /\ Unread(u) \subseteq Unread(s) \cup {Len(s.log) + 1}
    BY <1>3, AddFacts
  <2> QED BY <1>1, <2>1
<1> QED BY <1>2, <1>3

\* It makes at most one copy more, of the entry's job.
LEMMA PublishCopies ==
    ASSUME NEW s \in Streams(Entry), s.last <= Len(s.log), NEW e \in Entry,
           NEW u, u = s \/ u = XAdd(s, e),
           NEW I \in SUBSET DOMAIN s.log, NEW J \in SUBSET DOMAIN u.log, NEW j,
           J \subseteq I \cup {Len(s.log) + 1}
    PROVE  /\ CopiesOf(s, I, j) \in Nat /\ CopiesOf(u, J, j) \in Nat
           /\ CopiesOf(u, J, j) <= CopiesOf(s, I, j) + 1
           /\ e.job # j => CopiesOf(u, J, j) <= CopiesOf(s, I, j)
<1>1. CASE u = s
  <2>1. s.log \in Seq(Entry) /\ Len(s.log) \in Nat /\ DOMAIN s.log = 1..Len(s.log)
    BY LenProperties DEF Streams
  <2>2. J \in SUBSET I
    BY <1>1, <2>1
  <2>3. /\ CopiesOf(s, I, j) \in Nat /\ CopiesOf(u, J, j) \in Nat
        /\ CopiesOf(u, J, j) <= CopiesOf(s, I, j)
    BY <1>1, <2>2, FewerCopies
  <2> QED BY <2>3
<1>2. CASE u = XAdd(s, e)
  <2>1. J \in SUBSET (I \cup {Len(s.log) + 1})
    OBVIOUS
  <2> QED BY <1>2, <2>1, CopyAdded
<1> QED BY <1>1, <1>2

\* A counted fault is within the bound.
LEMMA FaultsCounted ==
    ASSUME Coherent, NoMishap \/ Mishap
    PROVE  mishaps' \in 0..MaxMishaps
BY PipelineAssumption DEF Coherent, PipelineTypeOK, NoMishap, Mishap

LEMMA PublishCases ==
    ASSUME NEW s, NEW e, NEW u, PublishTo(s, e, u)
    PROVE  (u = s \/ u = XAdd(s, e)) /\ (NoMishap \/ Mishap)
BY DEF PublishTo

\* What the type of the state says, where it is needed.
LEMMA StateFacts ==
    ASSUME Coherent
    PROVE  /\ input \in Streams(Entry) /\ input.last \in Nat /\ Len(input.log) \in Nat
           /\ DOMAIN input.log = 1..Len(input.log) /\ input.last <= Len(input.log)
           /\ dead \in Streams(Entry) /\ dead.last \in Nat /\ Len(dead.log) \in Nat
           /\ DOMAIN dead.log = 1..Len(dead.log) /\ dead.last <= Len(dead.log)
           /\ \A i \in DOMAIN input.log : input.log[i] \in Entry
           /\ \A i \in DOMAIN dead.log : dead.log[i] \in Entry
           /\ agent.batch \in Seq(Nat) /\ sched.batch \in Seq(Nat) /\ sched.tasks \subseteq Nat
           /\ BatchOf(agent.batch) \subseteq 1..input.last
           /\ BatchOf(sched.batch) \subseteq 1..dead.last
           /\ LiveIn \in SUBSET DOMAIN input.log /\ LiveDead \in SUBSET DOMAIN dead.log
           /\ agent.batch # <<>> =>
                 CurrentEntry \in BatchOf(agent.batch) /\ CurrentEntry \in DOMAIN input.log
<1>1. /\ input \in Streams(Entry) /\ input.last \in Nat
      /\ input.log \in Seq(Entry)
      /\ dead \in Streams(Entry) /\ dead.last \in Nat /\ dead.log \in Seq(Entry)
      /\ agent.batch \in Seq(Nat) /\ sched.batch \in Seq(Nat) /\ sched.tasks \subseteq Nat
  BY DEF Coherent, PipelineTypeOK, Streams
<1>2. /\ Len(input.log) \in Nat /\ DOMAIN input.log = 1..Len(input.log)
      /\ Len(dead.log) \in Nat /\ DOMAIN dead.log = 1..Len(dead.log)
      /\ \A i \in DOMAIN input.log : input.log[i] \in Entry
      /\ \A i \in DOMAIN dead.log : dead.log[i] \in Entry
  BY <1>1, LenProperties, ElementOfSeq
<1>3. /\ BatchOf(agent.batch) \subseteq 1..input.last
      /\ BatchOf(sched.batch) \subseteq 1..dead.last
      /\ sched.tasks \subseteq 1..dead.last
      /\ input.last <= Len(input.log) /\ dead.last <= Len(dead.log)
  BY DEF Coherent, AgentCoherent, SchedulerCoherent, GroupsWithinLogs, BatchOf
<1>4. LiveIn \subseteq DOMAIN input.log /\ LiveDead \subseteq DOMAIN dead.log
  BY <1>1, <1>2, <1>3 DEF LiveIn, LiveDead, Held, Unread
<1>5. agent.batch # <<>> => CurrentEntry \in BatchOf(agent.batch)
  BY <1>1, TailFacts DEF Coherent, AgentCoherent, CurrentEntry, BatchOf
<1> QED BY <1>1, <1>2, <1>3, <1>4, <1>5

-----------------------------------------------------------------------------
\* The producer: the first entry of a job, of which there is no copy in either stream.
LEMMA SubmitKeeps ==
    ASSUME RInv, NEW j \in Jobs, Submit(j)
    PROVE  RInv'
<1> DEFINE e == [job |-> j, retries |-> 0]
<1>1. /\ e \in Entry /\ e.job = j /\ input' = XAdd(input, e)
      /\ UNCHANGED <<dead, terminal, agent, sched, done, replays, mishaps>>
      /\ ~Submitted(j)
  BY DEF Submit, Entry, Submitted
<1> HIDE DEF e
<1>2. Coherent
  BY DEF RInv
<1>3. /\ input' \in Streams(Entry) /\ input'.missed <= input'.last
      /\ input'.last <= Len(input'.log)
      /\ input'.last = input.last
      /\ DOMAIN input.log \subseteq DOMAIN input'.log
      /\ \A i \in DOMAIN input.log : input'.log[i] = input.log[i]
      /\ Unread(input') \subseteq Unread(input) \cup {Len(input.log) + 1}
  BY <1>1, <1>2, StateFacts, PublishFacts DEF Coherent, GroupsWithinLogs
<1>4. Coherent'
  <2>1. PipelineTypeOK'
    BY <1>1, <1>2, <1>3 DEF Coherent, PipelineTypeOK
  <2>2. GroupsWithinLogs' /\ AgentCoherent' /\ SchedulerCoherent'
    BY <1>1, <1>2, <1>3 DEF Coherent, GroupsWithinLogs, AgentCoherent, SchedulerCoherent
  <2>3. DeadWereSubmitted'
    BY <1>1, <1>2, <1>3 DEF Coherent, DeadWereSubmitted, Submitted
  <2> QED BY <2>1, <2>2, <2>3 DEF Coherent
<1>5. /\ LiveIn' \in SUBSET DOMAIN input'.log
      /\ LiveIn' \subseteq LiveIn \cup {Len(input.log) + 1}
      /\ LiveDead' = LiveDead
  <2>1. LiveIn' \in SUBSET DOMAIN input'.log
    BY <1>1, <1>2, <1>3, StateFacts DEF LiveIn, Held, Unread, CurrentEntry
  <2>2. LiveIn' \subseteq LiveIn \cup {Len(input.log) + 1} /\ LiveDead' = LiveDead
    BY <1>1, <1>3 DEF LiveIn, LiveDead, Held, CurrentEntry
  <2> QED BY <2>1, <2>2
<1>6. ASSUME NEW k \in Jobs
      PROVE  InFlight(k)' <= 1 + replays'[k]
  <2>1. /\ CopiesOf(input, LiveIn, k) \in Nat /\ CopiesOf(input', LiveIn', k) \in Nat
        /\ CopiesOf(input', LiveIn', k) <= CopiesOf(input, LiveIn, k) + 1
        /\ j # k => CopiesOf(input', LiveIn', k) <= CopiesOf(input, LiveIn, k)
    BY <1>1, <1>2, <1>5, StateFacts, PublishCopies
  <2>2. /\ CopiesOf(dead, LiveDead, k) \in Nat
        /\ CopiesOf(dead', LiveDead', k) = CopiesOf(dead, LiveDead, k)
    BY <1>1, <1>2, <1>5, StateFacts, FewerCopies
  <2>3. replays[k] \in Nat /\ replays' = replays
    BY <1>1, <1>2 DEF Coherent, PipelineTypeOK
  <2>4. k = j => CopiesOf(input, LiveIn, k) = 0 /\ CopiesOf(dead, LiveDead, k) = 0
    <3> SUFFICES ASSUME k = j
                 PROVE  Of(input, LiveIn, k) = {} /\ Of(dead, LiveDead, k) = {}
      BY FS_EmptySet DEF CopiesOf
    <3> QED BY <1>1, <1>2, StateFacts DEF Of, Coherent, DeadWereSubmitted, Submitted
  <2>5. InFlight(k) <= 1 + replays[k]
    BY DEF RInv, OneCopyInFlight
  <2> QED BY <2>1, <2>2, <2>3, <2>4, <2>5, InFlightCounts
<1> QED BY <1>4, <1>6 DEF RInv, OneCopyInFlight

\* The steps that publish nothing: the copies under way are among those there were.
LEMMA NoNewCopy ==
    ASSUME RInv, input'.log = input.log, dead'.log = dead.log,
           LiveIn' \subseteq LiveIn, LiveDead' \subseteq LiveDead,
           UNCHANGED replays
    PROVE  OneCopyInFlight'
<1>1. Coherent
  BY DEF RInv
<1> SUFFICES ASSUME NEW k \in Jobs PROVE InFlight(k)' <= 1 + replays'[k]
  BY DEF OneCopyInFlight
<1>2. /\ CopiesOf(input, LiveIn, k) \in Nat /\ CopiesOf(input', LiveIn', k) \in Nat
      /\ CopiesOf(input', LiveIn', k) <= CopiesOf(input, LiveIn, k)
  BY <1>1, StateFacts, FewerCopies
<1>3. /\ CopiesOf(dead, LiveDead, k) \in Nat /\ CopiesOf(dead', LiveDead', k) \in Nat
      /\ CopiesOf(dead', LiveDead', k) <= CopiesOf(dead, LiveDead, k)
  BY <1>1, StateFacts, FewerCopies
<1>4. replays[k] \in Nat /\ InFlight(k) <= 1 + replays[k]
  BY <1>1 DEF Coherent, PipelineTypeOK, RInv, OneCopyInFlight
<1> QED BY <1>2, <1>3, <1>4, InFlightCounts

\* A read moves entries from the stream to the batch.
LEMMA AgentReadKeeps ==
    ASSUME RInv, AgentRead
    PROVE  RInv'
<1>1. /\ input' = XReadGroup(EnsureGroup(input), ReadCount)
      /\ agent' = [batch |-> Delivered(EnsureGroup(input), ReadCount),
                   stage |-> "handle"]
      /\ UNCHANGED <<dead, terminal, sched, done, replays, mishaps>>
  BY DEF AgentRead
<1>2. Coherent /\ ReadCount \in Nat
  BY PipelineAssumption DEF RInv
<1>3. /\ input' \in Streams(Entry) /\ input'.log = input.log
      /\ input'.missed <= input'.last
      /\ input'.last <= Len(input'.log) /\ input.last <= input'.last
      /\ agent'.batch \in Seq(Nat)
      /\ \A k \in DOMAIN agent'.batch : agent'.batch[k] \in (input.last + 1)..input'.last
      /\ \A k, l \in DOMAIN agent'.batch : agent'.batch[k] = agent'.batch[l] => k = l
      /\ Unread(input') \cup BatchOf(agent'.batch) \subseteq Unread(input)
  <2> DEFINE d == Delivered(EnsureGroup(input), ReadCount)
  <2>1. /\ input \in Streams(Entry)
        /\ input.missed <= input.last /\ input.last <= Len(input.log)
    BY <1>2, StateFacts DEF Coherent, GroupsWithinLogs
  <2>2. /\ input' \in Streams(Entry) /\ input'.log = input.log
        /\ input'.missed <= input'.last
        /\ input'.last <= Len(input'.log) /\ input.last <= input'.last
        /\ d \in Seq(Nat) /\ \A k \in DOMAIN d : d[k] \in (input.last + 1)..input'.last
        /\ \A k, l \in DOMAIN d : d[k] = d[l] => k = l
        /\ Unread(input') \cup {d[k] : k \in DOMAIN d} \subseteq Unread(input)
    BY <1>1, <1>2, <2>1, ReadFacts
  <2>3. agent'.batch = d
    BY <1>1
  <2> QED BY <2>2, <2>3 DEF BatchOf
<1>4. PipelineTypeOK'
  BY <1>1, <1>2, <1>3 DEF Coherent, PipelineTypeOK
<1>5. GroupsWithinLogs' /\ SchedulerCoherent' /\ DeadWereSubmitted'
  BY <1>1, <1>2, <1>3 DEF Coherent, GroupsWithinLogs, SchedulerCoherent, DeadWereSubmitted,
     Submitted
<1>6. AgentCoherent'
  <2>1. \A k \in DOMAIN agent'.batch : agent'.batch[k] \in 1..input'.last
    BY <1>2, <1>3, StateFacts
  <2> QED BY <1>1, <1>3, <2>1 DEF AgentCoherent
<1>7. LiveIn' \subseteq LiveIn /\ LiveDead' \subseteq LiveDead
  BY <1>1, <1>3 DEF LiveIn, LiveDead, Held
<1>8. OneCopyInFlight'
  BY <1>1, <1>3, <1>7, NoNewCopy
<1> QED BY <1>4, <1>5, <1>6, <1>8 DEF RInv, Coherent

\* The handler works, or fails: no stream changes.
LEMMA ProcessKeeps ==
    ASSUME RInv, process
    PROVE  RInv'
<1>1. Coherent
  BY DEF RInv
<1>2. /\ UNCHANGED <<input, dead, terminal, sched, replays>>
      /\ agent.batch # <<>> /\ agent.stage = "handle"
      /\ \E st \in {"failed", "ack"} : agent' = [agent EXCEPT !.stage = st]
      /\ done' = done \/ done' = [done EXCEPT ![input.log[CurrentEntry].job] = @ + 1]
      /\ NoMishap \/ Mishap
  BY DEF process
<1>3. /\ agent' \in [batch : Seq(Nat), stage : {"handle", "failed", "ack"}]
      /\ agent'.batch = agent.batch /\ agent'.stage \in {"failed", "ack"}
  BY <1>1, <1>2 DEF Coherent, PipelineTypeOK
<1>4. done' \in [Jobs -> Nat]
  <2>1. input.log[CurrentEntry].job \in Jobs
    BY <1>1, <1>2, StateFacts DEF Entry
  <2>2. done \in [Jobs -> Nat]
    BY <1>1 DEF Coherent, PipelineTypeOK
  <2>3. CASE done' = done
    BY <2>2, <2>3
  <2>4. CASE done' = [done EXCEPT ![input.log[CurrentEntry].job] = @ + 1]
    BY <2>1, <2>2, <2>4
  <2> QED BY <1>2, <2>3, <2>4
<1>5. Coherent'
  <2>1. PipelineTypeOK'
    BY <1>1, <1>2, <1>3, <1>4, FaultsCounted DEF Coherent, PipelineTypeOK
  <2>2. GroupsWithinLogs' /\ AgentCoherent' /\ SchedulerCoherent' /\ DeadWereSubmitted'
    BY <1>1, <1>2, <1>3
       DEF Coherent, GroupsWithinLogs, AgentCoherent, SchedulerCoherent, DeadWereSubmitted,
          Submitted
  <2> QED BY <2>1, <2>2 DEF Coherent
<1>6. LiveIn' \subseteq LiveIn /\ LiveDead' \subseteq LiveDead
  BY <1>2, <1>3 DEF LiveIn, LiveDead, Held
<1> QED BY <1>2, <1>5, <1>6, NoNewCopy DEF RInv

\* A failure replaces the entry by a retry or by a dead letter of the same job, or by nothing.
LEMMA HandleFailureKeeps ==
    ASSUME RInv, _handle_failure
    PROVE  RInv'
<1> DEFINE c == CurrentEntry
           e == with_incremented_retry(input.log[c])
<1>1. Coherent
  BY DEF RInv
<1>2. /\ agent.batch # <<>> /\ agent.stage = "failed"
      /\ agent' = [agent EXCEPT !.stage = "ack"]
      /\ UNCHANGED <<terminal, sched, done, replays>>
  BY DEF _handle_failure
<1>3. /\ agent' \in [batch : Seq(Nat), stage : {"handle", "failed", "ack"}]
      /\ agent'.batch = agent.batch /\ agent'.stage = "ack"
  BY <1>1, <1>2 DEF Coherent, PipelineTypeOK
<1>4. /\ c \in DOMAIN input.log /\ c \in BatchOf(agent.batch) /\ c \notin Unread(input)
      /\ e \in Entry /\ e.job = input.log[c].job
  <2>1. c \in DOMAIN input.log /\ c \in BatchOf(agent.batch) /\ c \in 1..input.last
    BY <1>1, <1>2, StateFacts
  <2>2. input.log[c] \in Entry
    BY <1>1, <2>1, StateFacts
  <2>3. e \in Entry /\ e.job = input.log[c].job
    BY <2>2 DEF with_incremented_retry, Entry
  <2>4. c \notin Unread(input)
    BY <1>1, <2>1, StateFacts DEF Unread
  <2> QED BY <2>1, <2>3, <2>4
<1>5. /\ input \in Streams(Entry) /\ input.missed <= input.last
      /\ input.last <= Len(input.log)
      /\ dead \in Streams(Entry) /\ dead.missed <= dead.last
      /\ dead.last <= Len(dead.log)
      /\ \A j \in Jobs : replays[j] \in Nat /\ InFlight(j) <= 1 + replays[j]
  BY <1>1, StateFacts DEF Coherent, PipelineTypeOK, GroupsWithinLogs, RInv, OneCopyInFlight
<1>6. LiveIn = Unread(input) \cup BatchOf(agent.batch)
  BY <1>2 DEF LiveIn, Held
<1>7. LiveIn' = Unread(input') \cup (BatchOf(agent.batch) \ {c})
  BY <1>3 DEF LiveIn, Held, CurrentEntry
<1>8. CASE PublishTo(dead, e, dead') /\ UNCHANGED input
  <2>1. (dead' = dead \/ dead' = XAdd(dead, e)) /\ (NoMishap \/ Mishap)
    BY <1>8, PublishCases
  <2>2. /\ dead' \in Streams(Entry) /\ dead'.missed <= dead'.last
        /\ dead'.last <= Len(dead'.log)
        /\ dead'.last = dead.last
        /\ DOMAIN dead.log \subseteq DOMAIN dead'.log
        /\ \A i \in DOMAIN dead.log : dead'.log[i] = dead.log[i]
        /\ \A i \in DOMAIN dead'.log \ DOMAIN dead.log : dead'.log[i] = e
        /\ Unread(dead') \subseteq Unread(dead) \cup {Len(dead.log) + 1}
    BY <1>4, <1>5, <2>1, PublishFacts
  <2>3. Coherent'
    <3>1. PipelineTypeOK'
      BY <1>1, <1>2, <1>3, <1>8, <2>1, <2>2, FaultsCounted DEF Coherent, PipelineTypeOK
    <3>2. GroupsWithinLogs' /\ AgentCoherent' /\ SchedulerCoherent'
      BY <1>1, <1>2, <1>3, <1>8, <2>2
         DEF Coherent, GroupsWithinLogs, AgentCoherent, SchedulerCoherent
    <3>3. DeadWereSubmitted'
      <4>1. \A j : Submitted(j)' <=> Submitted(j)
        BY <1>8 DEF Submitted
      <4>2. Submitted(e.job)
        BY <1>4 DEF Submitted
      <4> QED BY <1>1, <2>2, <4>1, <4>2 DEF Coherent, DeadWereSubmitted
    <3> QED BY <3>1, <3>2, <3>3 DEF Coherent
  <2>4. /\ LiveIn' \in SUBSET LiveIn /\ c \in LiveIn \ LiveIn'
    BY <1>4, <1>6, <1>7, <1>8
  <2>5. /\ LiveDead' \in SUBSET DOMAIN dead'.log
        /\ LiveDead' \subseteq LiveDead \cup {Len(dead.log) + 1}
    <3>1. LiveDead' \subseteq LiveDead \cup {Len(dead.log) + 1}
      BY <1>2, <2>2 DEF LiveDead
    <3>2. LiveDead' \subseteq DOMAIN dead'.log
      BY <2>3, StateFacts, <1>1, <1>2, <2>2 DEF LiveDead, Unread
    <3> QED BY <3>1, <3>2
  <2>6. ASSUME NEW j \in Jobs PROVE InFlight(j)' <= 1 + replays'[j]
    <3>1. /\ CopiesOf(input, LiveIn, j) \in Nat /\ CopiesOf(input', LiveIn', j) \in Nat
          /\ CopiesOf(input', LiveIn', j) <= CopiesOf(input, LiveIn, j)
          /\ e.job = j => CopiesOf(input', LiveIn', j) <= CopiesOf(input, LiveIn, j) - 1
      BY <1>1, <1>4, <1>8, <2>4, StateFacts, FewerCopies
    <3>2. /\ CopiesOf(dead, LiveDead, j) \in Nat /\ CopiesOf(dead', LiveDead', j) \in Nat
          /\ CopiesOf(dead', LiveDead', j) <= CopiesOf(dead, LiveDead, j) + 1
          /\ e.job # j => CopiesOf(dead', LiveDead', j) <= CopiesOf(dead, LiveDead, j)
      BY <1>1, <1>4, <1>5, <2>1, <2>5, StateFacts, PublishCopies
    <3>3. /\ InFlight(j) = CopiesOf(input, LiveIn, j) + CopiesOf(dead, LiveDead, j)
          /\ InFlight(j)' = CopiesOf(input', LiveIn', j) + CopiesOf(dead', LiveDead', j)
      BY InFlightCounts
    <3>4. replays[j] \in Nat /\ replays'[j] = replays[j] /\ InFlight(j) <= 1 + replays[j]
      BY <1>2, <1>5
    <3> HIDE DEF e
    <3>5. CopiesOf(input', LiveIn', j) + CopiesOf(dead', LiveDead', j)
             <= CopiesOf(input, LiveIn, j) + CopiesOf(dead, LiveDead, j)
      BY <3>1, <3>2
    <3> QED BY <3>1, <3>2, <3>3, <3>4, <3>5
  <2> QED BY <2>3, <2>6 DEF RInv, OneCopyInFlight
<1>9. CASE PublishTo(input, e, input') /\ UNCHANGED dead
  <2>1. (input' = input \/ input' = XAdd(input, e)) /\ (NoMishap \/ Mishap)
    BY <1>9, PublishCases
  <2>2. /\ input' \in Streams(Entry) /\ input'.missed <= input'.last
        /\ input'.last <= Len(input'.log)
        /\ input'.last = input.last
        /\ DOMAIN input.log \subseteq DOMAIN input'.log
        /\ \A i \in DOMAIN input.log : input'.log[i] = input.log[i]
        /\ Unread(input') \subseteq Unread(input) \cup {Len(input.log) + 1}
    BY <1>4, <1>5, <2>1, PublishFacts
  <2>3. Coherent'
    <3>1. PipelineTypeOK'
      BY <1>1, <1>2, <1>3, <1>9, <2>1, <2>2, FaultsCounted DEF Coherent, PipelineTypeOK
    <3>2. GroupsWithinLogs' /\ AgentCoherent' /\ SchedulerCoherent'
      BY <1>1, <1>2, <1>3, <1>9, <2>2
         DEF Coherent, GroupsWithinLogs, AgentCoherent, SchedulerCoherent
    <3>3. DeadWereSubmitted'
      BY <1>1, <1>9, <2>2 DEF Coherent, DeadWereSubmitted, Submitted
    <3> QED BY <3>1, <3>2, <3>3 DEF Coherent
  <2>4. /\ LiveIn \ {c} \in SUBSET LiveIn /\ c \in LiveIn \ (LiveIn \ {c})
        /\ LiveIn \ {c} \in SUBSET DOMAIN input.log
    BY <1>1, <1>4, <1>6, StateFacts
  <2>5. /\ LiveIn' \subseteq (LiveIn \ {c}) \cup {Len(input.log) + 1}
        /\ LiveIn' \in SUBSET DOMAIN input'.log
    <3>1. LiveIn' \subseteq (LiveIn \ {c}) \cup {Len(input.log) + 1}
      BY <1>4, <1>6, <1>7, <2>2
    <3>2. LiveIn' \subseteq DOMAIN input'.log
      BY <1>1, <1>7, <2>2, StateFacts DEF Unread
    <3> QED BY <3>1, <3>2
  <2>6. ASSUME NEW j \in Jobs PROVE InFlight(j)' <= 1 + replays'[j]
    <3>1. /\ CopiesOf(input, LiveIn, j) \in Nat /\ CopiesOf(input, LiveIn \ {c}, j) \in Nat
          /\ CopiesOf(input, LiveIn \ {c}, j) <= CopiesOf(input, LiveIn, j)
          /\ e.job = j => CopiesOf(input, LiveIn \ {c}, j) <= CopiesOf(input, LiveIn, j) - 1
      BY <1>1, <1>4, <2>4, StateFacts, FewerCopies
    <3>2. /\ CopiesOf(input', LiveIn', j) \in Nat
          /\ CopiesOf(input', LiveIn', j) <= CopiesOf(input, LiveIn \ {c}, j) + 1
          /\ e.job # j => CopiesOf(input', LiveIn', j) <= CopiesOf(input, LiveIn \ {c}, j)
      BY <1>4, <1>5, <2>1, <2>4, <2>5, PublishCopies
    <3>3. LiveDead' = LiveDead /\ dead' = dead /\ CopiesOf(dead, LiveDead, j) \in Nat
      BY <1>1, <1>2, <1>9, StateFacts, FewerCopies DEF LiveDead
    <3>4. /\ InFlight(j) = CopiesOf(input, LiveIn, j) + CopiesOf(dead, LiveDead, j)
          /\ InFlight(j)' = CopiesOf(input', LiveIn', j) + CopiesOf(dead', LiveDead', j)
      BY InFlightCounts
    <3>5. replays[j] \in Nat /\ replays'[j] = replays[j] /\ InFlight(j) <= 1 + replays[j]
      BY <1>2, <1>5
    <3> HIDE DEF e, c
    <3>6. CopiesOf(input', LiveIn', j) <= CopiesOf(input, LiveIn, j)
      BY <3>1, <3>2
    <3> QED BY <3>1, <3>2, <3>3, <3>4, <3>5, <3>6
  <2> QED BY <2>3, <2>6 DEF RInv, OneCopyInFlight
<1> QED BY <1>8, <1>9 DEF _handle_failure

\* The first entry of the batch is acknowledged, or the rest of the batch is forgotten.
LEMMA AgentAcknowledgeKeeps ==
    ASSUME RInv, AgentAcknowledge \/ AgentStops
    PROVE  RInv'
<1>1. Coherent
  BY DEF RInv
<1>2. /\ UNCHANGED <<dead, terminal, sched, done, replays>>
      /\ agent.batch # <<>> /\ (NoMishap \/ Mishap)
      /\ input' = input \/ input' = XAck(input, CurrentEntry)
      /\ \/ agent.stage = "ack" /\ agent' = [batch |-> Tail(agent.batch), stage |-> "handle"]
         \/ agent' = Waiting
  BY DEF AgentAcknowledge, AgentStops
<1>3. /\ input' \in Streams(Entry) /\ input'.log = input.log
      /\ input'.missed = input.missed
      /\ input'.last = input.last /\ Unread(input') = Unread(input)
  BY <1>1, <1>2, StateFacts, AckFacts
<1>4. /\ agent' \in [batch : Seq(Nat), stage : {"handle", "failed", "ack"}]
      /\ agent'.stage = "handle"
      /\ \A k \in DOMAIN agent'.batch : agent'.batch[k] \in 1..input.last
      /\ \A k, l \in DOMAIN agent'.batch : agent'.batch[k] = agent'.batch[l] => k = l
      /\ BatchOf(agent'.batch) \subseteq Held
  <2>1. CASE agent' = Waiting
    <3>1. /\ agent'.batch = <<>> /\ agent'.stage = "handle"
          /\ agent' \in [batch : Seq(Nat), stage : {"handle", "failed", "ack"}]
      BY <2>1 DEF Waiting
    <3>2. DOMAIN agent'.batch = {}
      BY <3>1
    <3> QED BY <3>1, <3>2 DEF BatchOf
  <2>2. CASE agent.stage = "ack" /\ agent' = [batch |-> Tail(agent.batch), stage |-> "handle"]
    <3> DEFINE b == agent.batch
    <3>1. /\ b \in Seq(Nat) /\ b # <<>> /\ \A k, l \in DOMAIN b : b[k] = b[l] => k = l
          /\ \A k \in DOMAIN b : b[k] \in 1..input.last
      BY <1>1, <1>2, StateFacts DEF Coherent, AgentCoherent
    <3>2. /\ Tail(b) \in Seq(Nat)
          /\ \A k \in DOMAIN Tail(b) :
                Tail(b)[k] # Head(b) /\ \E l \in DOMAIN b : Tail(b)[k] = b[l]
          /\ \A k, l \in DOMAIN Tail(b) : Tail(b)[k] = Tail(b)[l] => k = l
      BY <3>1, TailFacts
    <3>3. agent'.batch = Tail(b) /\ agent'.stage = "handle"
      BY <2>2
    <3>4. agent' \in [batch : Seq(Nat), stage : {"handle", "failed", "ack"}]
      BY <2>2, <3>2
    <3>5. BatchOf(Tail(b)) \subseteq BatchOf(b) \ {Head(b)}
      BY <3>2 DEF BatchOf
    <3>6. Held = BatchOf(b) \ {Head(b)}
      BY <2>2 DEF Held, CurrentEntry
    <3>7. \A k \in DOMAIN Tail(b) : Tail(b)[k] \in 1..input.last
      BY <3>1, <3>2
    <3> QED BY <3>2, <3>3, <3>4, <3>5, <3>6, <3>7
  <2> QED BY <1>2, <2>1, <2>2
<1>5. Coherent'
  <2>1. PipelineTypeOK'
    BY <1>1, <1>2, <1>3, <1>4, FaultsCounted DEF Coherent, PipelineTypeOK
  <2>2. GroupsWithinLogs' /\ AgentCoherent' /\ SchedulerCoherent' /\ DeadWereSubmitted'
    BY <1>1, <1>2, <1>3, <1>4
       DEF Coherent, GroupsWithinLogs, AgentCoherent, SchedulerCoherent, DeadWereSubmitted,
          Submitted
  <2> QED BY <2>1, <2>2 DEF Coherent
<1>6. LiveIn' \subseteq LiveIn /\ LiveDead' \subseteq LiveDead
  <2>1. Held' = BatchOf(agent'.batch)
    BY <1>4 DEF Held
  <2> QED BY <1>2, <1>3, <1>4, <2>1 DEF LiveIn, LiveDead
<1> QED BY <1>2, <1>3, <1>5, <1>6, NoNewCopy DEF RInv

-----------------------------------------------------------------------------
\* The scheduler's read.
LEMMA ReadDeadKeeps ==
    ASSUME RInv, ReadDeadLetters
    PROVE  RInv'
<1> DEFINE d == Delivered(EnsureGroup(dead), ReadCount)
<1>1. /\ dead' = XReadGroup(EnsureGroup(dead), ReadCount)
      /\ sched' = [sched EXCEPT !.batch = d]
      /\ UNCHANGED <<input, terminal, agent, done, replays, mishaps>>
  BY DEF ReadDeadLetters
<1>2. Coherent /\ ReadCount \in Nat
  BY PipelineAssumption DEF RInv
<1>3. /\ dead' \in Streams(Entry) /\ dead'.log = dead.log
      /\ dead'.missed <= dead'.last
      /\ dead'.last <= Len(dead'.log) /\ dead.last <= dead'.last
      /\ d \in Seq(Nat) /\ \A k \in DOMAIN d : d[k] \in (dead.last + 1)..dead'.last
      /\ \A k, l \in DOMAIN d : d[k] = d[l] => k = l
      /\ Unread(dead') \cup BatchOf(d) \subseteq Unread(dead)
  <2>1. /\ dead \in Streams(Entry)
        /\ dead.missed <= dead.last /\ dead.last <= Len(dead.log)
    BY <1>2, StateFacts DEF Coherent, GroupsWithinLogs
  <2> QED BY <1>1, <1>2, <2>1, ReadFacts DEF BatchOf
<1> HIDE DEF d
<1>4. /\ sched' \in [batch : Seq(Nat), tasks : SUBSET Nat]
      /\ sched'.batch = d /\ sched'.tasks = sched.tasks
  BY <1>1, <1>2, <1>3 DEF Coherent, PipelineTypeOK
<1>5. PipelineTypeOK'
  BY <1>1, <1>2, <1>3, <1>4 DEF Coherent, PipelineTypeOK
<1>6. GroupsWithinLogs' /\ AgentCoherent' /\ DeadWereSubmitted'
  BY <1>1, <1>2, <1>3 DEF Coherent, GroupsWithinLogs, AgentCoherent, DeadWereSubmitted,
     Submitted
<1>7. SchedulerCoherent'
  <2>1. sched.tasks \subseteq 1..dead.last /\ dead.last \in Nat /\ dead'.last \in Nat
    BY <1>2, <1>3, StateFacts DEF Coherent, SchedulerCoherent, Streams
  <2>2. \A k \in DOMAIN d : d[k] \in 1..dead'.last /\ d[k] \notin sched.tasks
    BY <1>3, <2>1
  <2>3. sched.tasks \subseteq 1..dead'.last
    BY <1>3, <2>1
  <2> QED BY <1>3, <1>4, <2>2, <2>3 DEF SchedulerCoherent
<1>8. LiveIn' \subseteq LiveIn /\ LiveDead' \subseteq LiveDead
  BY <1>1, <1>3, <1>4 DEF LiveIn, LiveDead, Held, CurrentEntry
<1> QED BY <1>1, <1>3, <1>5, <1>6, <1>7, <1>8, NoNewCopy DEF RInv, Coherent

\* A task takes an entry over from the batch; a task that ends with a terminal mark, and a stop of
\* the scheduler, only forget.
LEMMA SchedulerForgets ==
    ASSUME RInv,
           SpawnTask \/ SchedulerStops \/ \E i \in sched.tasks : MarkTerminal(i)
    PROVE  RInv'
<1>1. Coherent
  BY DEF RInv
<1>2. /\ UNCHANGED <<input, agent, done, replays>> /\ (NoMishap \/ Mishap)
      /\ dead' = dead \/ dead' = XAck(dead, Head(sched.batch))
  BY DEF SpawnTask, SchedulerStops, MarkTerminal
<1>3. /\ dead' \in Streams(Entry) /\ dead'.log = dead.log
      /\ dead'.missed = dead.missed
      /\ dead'.last = dead.last /\ Unread(dead') = Unread(dead)
  BY <1>1, <1>2, StateFacts, AckFacts
<1>4. terminal' \subseteq DOMAIN dead.log
  <2>1. \/ terminal' = terminal
        \/ \E t \in sched.tasks : terminal' \subseteq terminal \cup {t}
    BY DEF SpawnTask, SchedulerStops, MarkTerminal
  <2>2. terminal \subseteq DOMAIN dead.log /\ sched.tasks \subseteq 1..dead.last
    BY <1>1 DEF Coherent, PipelineTypeOK, SchedulerCoherent
  <2>3. 1..dead.last \subseteq DOMAIN dead.log
    BY <1>1, StateFacts
  <2> QED BY <2>1, <2>2, <2>3
<1> DEFINE b == sched.batch
           i == Head(b)
<1>5. /\ sched \in [batch : Seq(Nat), tasks : SUBSET Nat] /\ b \in Seq(Nat)
      /\ sched.tasks \subseteq 1..dead.last
      /\ \A k \in DOMAIN b : b[k] \in 1..dead.last /\ b[k] \notin sched.tasks
      /\ \A k, l \in DOMAIN b : b[k] = b[l] => k = l
  BY <1>1 DEF Coherent, PipelineTypeOK, SchedulerCoherent
<1>6. /\ sched' \in [batch : Seq(Nat), tasks : SUBSET Nat]
      /\ sched'.tasks \subseteq 1..dead.last
      /\ \A k \in DOMAIN sched'.batch :
            sched'.batch[k] \in 1..dead.last /\ sched'.batch[k] \notin sched'.tasks
      /\ \A k, l \in DOMAIN sched'.batch : sched'.batch[k] = sched'.batch[l] => k = l
      /\ BatchOf(sched'.batch) \cup sched'.tasks \subseteq BatchOf(b) \cup sched.tasks
  <2>1. CASE SpawnTask
    <3>1. /\ b # <<>>
          /\ \/ sched' = [batch |-> Tail(b), tasks |-> sched.tasks \cup {i}]
             \/ sched' = [batch |-> <<>>, tasks |-> sched.tasks \cup {i}]
      BY <2>1 DEF SpawnTask
    <3>2. /\ \E k \in DOMAIN b : i = b[k]
          /\ Tail(b) \in Seq(Nat)
          /\ \A k \in DOMAIN Tail(b) : Tail(b)[k] # i /\ \E l \in DOMAIN b : Tail(b)[k] = b[l]
          /\ \A k, l \in DOMAIN Tail(b) : Tail(b)[k] = Tail(b)[l] => k = l
      BY <1>5, <3>1, TailFacts
    <3> HIDE DEF b, i
    <3>3. /\ i \in BatchOf(b) /\ i \in 1..dead.last /\ sched.tasks \cup {i} \in SUBSET Nat
          /\ sched.tasks \cup {i} \subseteq 1..dead.last
      BY <1>5, <3>2 DEF BatchOf
    <3>4. CASE sched' = [batch |-> Tail(b), tasks |-> sched.tasks \cup {i}]
      <4>1. sched'.batch = Tail(b) /\ sched'.tasks = sched.tasks \cup {i}
        BY <3>4
      <4>2. sched' \in [batch : Seq(Nat), tasks : SUBSET Nat]
        BY <3>2, <3>3, <3>4
      <4>3. \A k \in DOMAIN Tail(b) :
               Tail(b)[k] \in 1..dead.last /\ Tail(b)[k] \notin sched.tasks \cup {i}
        BY <1>5, <3>2
      <4>4. BatchOf(Tail(b)) \subseteq BatchOf(b)
        BY <3>2 DEF BatchOf
      <4> QED BY <3>2, <3>3, <4>1, <4>2, <4>3, <4>4
    <3>5. CASE sched' = [batch |-> <<>>, tasks |-> sched.tasks \cup {i}]
      <4>1. sched'.batch = <<>> /\ sched'.tasks = sched.tasks \cup {i} /\ DOMAIN sched'.batch = {}
        BY <3>5
      <4>2. sched' \in [batch : Seq(Nat), tasks : SUBSET Nat]
        BY <3>3, <3>5
      <4> QED BY <3>3, <4>1, <4>2 DEF BatchOf
    <3> QED BY <3>1, <3>4, <3>5
  <2>2. CASE SchedulerStops
    <3>1. sched' = NoWork /\ NoWork.batch = <<>> /\ NoWork.tasks = {}
      BY <2>2 DEF SchedulerStops, NoWork
    <3>2. sched' \in [batch : Seq(Nat), tasks : SUBSET Nat] /\ DOMAIN sched'.batch = {}
      BY <3>1 DEF NoWork
    <3> QED BY <3>1, <3>2 DEF BatchOf
  <2>3. CASE \E t \in sched.tasks : MarkTerminal(t)
    <3>1. PICK t \in sched.tasks : sched' = [sched EXCEPT !.tasks = @ \ {t}]
      BY <2>3 DEF MarkTerminal
    <3>2. /\ sched'.batch = b /\ sched'.tasks = sched.tasks \ {t}
          /\ sched' \in [batch : Seq(Nat), tasks : SUBSET Nat]
      BY <1>5, <3>1
    <3> QED BY <1>5, <3>2
  <2> QED BY <2>1, <2>2, <2>3
<1>7. Coherent'
  <2>1. PipelineTypeOK'
    BY <1>1, <1>2, <1>3, <1>4, <1>6, FaultsCounted DEF Coherent, PipelineTypeOK
  <2>2. GroupsWithinLogs' /\ AgentCoherent' /\ SchedulerCoherent' /\ DeadWereSubmitted'
    BY <1>1, <1>2, <1>3, <1>6
       DEF Coherent, GroupsWithinLogs, AgentCoherent, SchedulerCoherent, DeadWereSubmitted,
          Submitted
  <2> QED BY <2>1, <2>2 DEF Coherent
<1>8. LiveIn' \subseteq LiveIn /\ LiveDead' \subseteq LiveDead
  BY <1>2, <1>3, <1>6 DEF LiveIn, LiveDead, Held, CurrentEntry
<1> QED BY <1>2, <1>3, <1>7, <1>8, NoNewCopy DEF RInv

\* A dead letter is published again: in place of the task that waited for it, or as
\* a manual replay.
LEMMA RequeueKeeps ==
    ASSUME RInv,
           (\E i \in sched.tasks : Requeue(i)) \/ \E i \in DOMAIN dead.log : replay(i)
    PROVE  RInv'
<1>1. Coherent
  BY DEF RInv
<1>2. PICK i \in DOMAIN dead.log : \/ i \in sched.tasks /\ Requeue(i)
                                   \/ replay(i)
  BY <1>1, StateFacts DEF Coherent, SchedulerCoherent
<1> DEFINE e == dead.log[i]
           n == Len(input.log) + 1
<1>3. /\ e \in Entry /\ e.job \in Jobs
      /\ input' = input \/ input' = XAdd(input, e)
      /\ NoMishap \/ Mishap
      /\ UNCHANGED <<dead, terminal, agent, done>>
  <2>1. e \in Entry /\ e.job \in Jobs
    BY <1>1, StateFacts DEF Entry
  <2>2. CASE Requeue(i)
    <3>1. PublishTo(input, e, input') /\ UNCHANGED <<dead, terminal, agent, done>>
      BY <2>2 DEF Requeue, _build_requeue_event
    <3> QED BY <2>1, <3>1, PublishCases
  <2>3. CASE replay(i)
    BY <2>1, <2>3 DEF replay, _build_requeue_event, NoMishap
  <2> QED BY <1>2, <2>2, <2>3
<1>4. \/ i \in sched.tasks /\ sched' = [sched EXCEPT !.tasks = @ \ {i}] /\ UNCHANGED replays
      \/ /\ replays[e.job] < MaxReplays /\ sched' = sched
         /\ replays' = [replays EXCEPT ![e.job] = @ + 1]
  BY <1>2 DEF Requeue, replay
<1>5. /\ sched' \in [batch : Seq(Nat), tasks : SUBSET Nat]
      /\ sched'.batch = sched.batch /\ sched'.tasks \subseteq sched.tasks
  BY <1>1, <1>4 DEF Coherent, PipelineTypeOK
<1>6. /\ replays' \in [Jobs -> 0..MaxReplays] /\ replays \in [Jobs -> 0..MaxReplays]
      /\ MaxReplays \in Nat
  <2>1. replays \in [Jobs -> 0..MaxReplays] /\ MaxReplays \in Nat
    BY <1>1, PipelineAssumption DEF Coherent, PipelineTypeOK
  <2>2. replays[e.job] < MaxReplays => replays[e.job] + 1 \in 0..MaxReplays
    BY <1>3, <2>1
  <2> QED BY <1>3, <1>4, <2>1, <2>2
<1>7. /\ input \in Streams(Entry) /\ input.missed <= input.last
      /\ input.last <= Len(input.log)
  BY <1>1, StateFacts DEF Coherent, GroupsWithinLogs
<1> HIDE DEF e
<1>8. /\ input' \in Streams(Entry) /\ input'.missed <= input'.last
      /\ input'.last <= Len(input'.log)
      /\ input'.last = input.last
      /\ DOMAIN input.log \subseteq DOMAIN input'.log
      /\ \A k \in DOMAIN input.log : input'.log[k] = input.log[k]
      /\ Unread(input') \subseteq Unread(input) \cup {n}
  BY <1>3, <1>7, PublishFacts
<1>9. Coherent'
  <2>1. PipelineTypeOK'
    BY <1>1, <1>3, <1>5, <1>6, <1>8, FaultsCounted DEF Coherent, PipelineTypeOK
  <2>2. GroupsWithinLogs' /\ AgentCoherent' /\ SchedulerCoherent'
    BY <1>1, <1>3, <1>5, <1>8 DEF Coherent, GroupsWithinLogs, AgentCoherent, SchedulerCoherent
  <2>3. DeadWereSubmitted'
    BY <1>1, <1>3, <1>8 DEF Coherent, DeadWereSubmitted, Submitted
  <2> QED BY <2>1, <2>2, <2>3 DEF Coherent
<1>10. /\ LiveIn' \in SUBSET DOMAIN input'.log /\ LiveIn' \subseteq LiveIn \cup {n}
       /\ LiveIn \in SUBSET DOMAIN input.log
  <2>1. LiveIn' \subseteq LiveIn \cup {n}
    BY <1>3, <1>8 DEF LiveIn, Held, CurrentEntry
  <2>2. LiveIn' \subseteq DOMAIN input'.log
    BY <1>1, <1>3, <1>8, StateFacts DEF LiveIn, Held, Unread, CurrentEntry
  <2> QED BY <1>1, <2>1, <2>2, StateFacts
<1>11. LiveDead' \in SUBSET LiveDead /\ (UNCHANGED replays => i \in LiveDead \ LiveDead')
  <2>1. LiveDead' \subseteq LiveDead
    BY <1>3, <1>5 DEF LiveDead
  <2>2. ASSUME i \in sched.tasks, sched' = [sched EXCEPT !.tasks = @ \ {i}]
        PROVE  i \in LiveDead \ LiveDead'
    <3>1. i \notin Unread(dead) /\ i \notin BatchOf(sched.batch) /\ i \notin sched'.tasks
      <4>1. i \in 1..dead.last /\ dead.last \in Nat
        BY <1>1, <2>2, StateFacts DEF Coherent, SchedulerCoherent
      <4>2. i \notin Unread(dead)
        BY <4>1 DEF Unread
      <4>3. i \notin BatchOf(sched.batch)
        BY <1>1, <2>2 DEF Coherent, SchedulerCoherent, BatchOf
      <4>4. i \notin sched'.tasks
        BY <1>1, <2>2 DEF Coherent, PipelineTypeOK
      <4> QED BY <4>2, <4>3, <4>4
    <3> QED BY <1>3, <1>5, <2>2, <3>1 DEF LiveDead
  <2>3. ASSUME replays' = [replays EXCEPT ![e.job] = @ + 1]
        PROVE  replays' # replays
    BY <1>3, <1>6, <2>3
  <2> QED BY <1>4, <2>1, <2>2, <2>3
<1>12. ASSUME NEW k \in Jobs PROVE InFlight(k)' <= 1 + replays'[k]
  <2>1. /\ CopiesOf(input, LiveIn, k) \in Nat /\ CopiesOf(input', LiveIn', k) \in Nat
        /\ CopiesOf(input', LiveIn', k) <= CopiesOf(input, LiveIn, k) + 1
        /\ e.job # k => CopiesOf(input', LiveIn', k) <= CopiesOf(input, LiveIn, k)
    BY <1>3, <1>7, <1>10, PublishCopies
  <2>2. /\ CopiesOf(dead, LiveDead, k) \in Nat /\ CopiesOf(dead', LiveDead', k) \in Nat
        /\ CopiesOf(dead', LiveDead', k) <= CopiesOf(dead, LiveDead, k)
        /\ UNCHANGED replays /\ e.job = k =>
              CopiesOf(dead', LiveDead', k) <= CopiesOf(dead, LiveDead, k) - 1
    BY <1>1, <1>3, <1>11, StateFacts, FewerCopies DEF e
  <2>3. /\ InFlight(k) = CopiesOf(input, LiveIn, k) + CopiesOf(dead, LiveDead, k)
        /\ InFlight(k)' = CopiesOf(input', LiveIn', k) + CopiesOf(dead', LiveDead', k)
    BY InFlightCounts
  <2>4. InFlight(k) <= 1 + replays[k] /\ replays[k] \in Nat
    BY <1>6 DEF RInv, OneCopyInFlight
  <2>5. \/ UNCHANGED replays
        \/ e.job = k /\ replays'[k] = replays[k] + 1
        \/ e.job # k /\ replays'[k] = replays[k]
    BY <1>3, <1>4, <1>6
  <2> QED BY <2>1, <2>2, <2>3, <2>4, <2>5
<1> QED BY <1>9, <1>12 DEF RInv, OneCopyInFlight

-----------------------------------------------------------------------------
LEMMA StutteringKeeps ==
    ASSUME RInv, UNCHANGED pipelineVars
    PROVE  RInv'
<1>1. Coherent'
  BY DEF RInv, Coherent, pipelineVars, PipelineTypeOK, GroupsWithinLogs, AgentCoherent,
     SchedulerCoherent, DeadWereSubmitted, Submitted
<1>2. /\ input' = input /\ dead' = dead /\ LiveIn' \subseteq LiveIn
      /\ LiveDead' \subseteq LiveDead
      /\ UNCHANGED replays
  BY DEF pipelineVars, LiveIn, LiveDead, Held, CurrentEntry
<1> QED BY <1>1, <1>2, NoNewCopy DEF RInv

LEMMA InitRInv ==
    ASSUME PipelineInit
    PROVE  RInv
<1>1. \A g \in BOOLEAN :
         /\ EmptyStream(g) \in Streams(Entry)
         /\ EmptyStream(g).log = <<>> /\ EmptyStream(g).missed = 0
         /\ EmptyStream(g).last = 0
  BY DEF EmptyStream, Streams
<1>2. /\ input \in Streams(Entry) /\ input.log = <<>> /\ input.missed = 0
      /\ input.last = 0
      /\ dead \in Streams(Entry) /\ dead.log = <<>> /\ dead.missed = 0
      /\ dead.last = 0
  <2>1. PICK d \in Deployments : input = EmptyStream(d[1]) /\ dead = EmptyStream(d[2])
    BY DEF PipelineInit
  <2>2. d[1] \in BOOLEAN /\ d[2] \in BOOLEAN
    BY PipelineAssumption
  <2> QED BY <1>1, <2>1, <2>2
<1>3. /\ agent = [batch |-> <<>>, stage |-> "handle"] /\ sched = [batch |-> <<>>, tasks |-> {}]
      /\ Len(input.log) = 0 /\ Len(dead.log) = 0 /\ DOMAIN input.log = {} /\ DOMAIN dead.log = {}
      /\ DOMAIN agent.batch = {} /\ DOMAIN sched.batch = {}
  BY <1>2 DEF PipelineInit, Waiting, NoWork
<1>4. PipelineTypeOK
  BY <1>2, <1>3, PipelineAssumption DEF PipelineInit, PipelineTypeOK
<1>5. GroupsWithinLogs /\ AgentCoherent /\ SchedulerCoherent /\ DeadWereSubmitted
  BY <1>2, <1>3 DEF GroupsWithinLogs, AgentCoherent, SchedulerCoherent, DeadWereSubmitted
<1>6. ASSUME NEW j \in Jobs PROVE InFlight(j) <= 1 + replays[j]
  <2>1. Of(input, LiveIn, j) = {} /\ Of(dead, LiveDead, j) = {}
    BY <1>3 DEF LiveIn, LiveDead, Held, BatchOf, Unread, Of
  <2>2. InFlight(j) = 0
    <3>1. CopiesOf(input, LiveIn, j) = 0 /\ CopiesOf(dead, LiveDead, j) = 0
      BY <2>1, FS_EmptySet DEF CopiesOf
    <3>2. InFlight(j) = CopiesOf(input, LiveIn, j) + CopiesOf(dead, LiveDead, j)
      BY InFlightCounts
    <3> QED BY <3>1, <3>2
  <2> QED BY <2>2 DEF PipelineInit
<1> QED BY <1>4, <1>5, <1>6 DEF RInv, Coherent, OneCopyInFlight

\* Every step keeps the invariant.
LEMMA NextRInv ==
    ASSUME RInv, [PipelineNext]_(pipelineVars)
    PROVE  RInv'
<1>1. CASE \E j \in Jobs : Submit(j)
  BY <1>1, SubmitKeeps
<1>2. CASE AgentStep \/ AgentStops
  BY <1>2, AgentReadKeeps, ProcessKeeps, HandleFailureKeeps,
     AgentAcknowledgeKeeps DEF AgentStep
<1>3. CASE SchedulerStep \/ SchedulerStops
  BY <1>3, ReadDeadKeeps, SchedulerForgets, RequeueKeeps DEF SchedulerStep
<1>4. CASE \E i \in DOMAIN dead.log : replay(i)
  BY <1>4, RequeueKeeps
<1>5. CASE UNCHANGED pipelineVars
  BY <1>5, StutteringKeeps
<1> QED BY <1>1, <1>2, <1>3, <1>4, <1>5 DEF PipelineNext

LEMMA PipelineInvariant == PipelineSpec => []RInv
<1>1. PipelineInit => RInv
  BY InitRInv
<1>2. RInv /\ [PipelineNext]_(pipelineVars) => RInv'
  BY NextRInv
<1> QED BY <1>1, <1>2, PTL DEF PipelineSpec

-----------------------------------------------------------------------------
\* How often a message can be retried: an entry of the agent's stream carries at most
\* max_retries and one more per manual replay; a dead letter has used them up, and
\* exceeds them by one attempt.
RetriesAreBounded ==
    /\ \A i \in DOMAIN input.log : input.log[i].retries <= MaxRetries + replays[input.log[i].job]
    /\ \A i \in DOMAIN dead.log :
          /\ MaxRetries <= dead.log[i].retries
          /\ dead.log[i].retries <= MaxRetries + 1 + replays[dead.log[i].job]

\* An entry with few enough retries may be added to the agent's stream.
LEMMA InputBounded ==
    ASSUME Coherent, RetriesAreBounded, NEW e \in Entry,
           input' = input \/ input' = XAdd(input, e), dead' = dead,
           replays' \in [Jobs -> Nat], \A j \in Jobs : replays[j] <= replays'[j],
           e.retries <= MaxRetries + replays'[e.job]
    PROVE  RetriesAreBounded'
<1>1. /\ DOMAIN input.log \subseteq DOMAIN input'.log
      /\ \A i \in DOMAIN input.log : input'.log[i] = input.log[i]
      /\ \A i \in DOMAIN input'.log \ DOMAIN input.log : input'.log[i] = e
  BY StateFacts, PublishFacts DEF Coherent, GroupsWithinLogs
<1>2. /\ MaxRetries \in Nat /\ \A j \in Jobs : replays[j] \in Nat /\ replays'[j] \in Nat
      /\ \A i \in DOMAIN input.log : input.log[i].job \in Jobs /\ input.log[i].retries \in Nat
      /\ \A i \in DOMAIN dead.log : dead.log[i].job \in Jobs /\ dead.log[i].retries \in Nat
  <2>1. MaxRetries \in Nat /\ \A j \in Jobs : replays[j] \in Nat /\ replays'[j] \in Nat
    BY PipelineAssumption DEF Coherent, PipelineTypeOK
  <2>2. /\ \A i \in DOMAIN input.log : input.log[i] \in Entry
        /\ \A i \in DOMAIN dead.log : dead.log[i] \in Entry
    BY StateFacts
  <2> QED BY <2>1, <2>2 DEF Entry
<1>3. ASSUME NEW i \in DOMAIN input'.log
      PROVE  input'.log[i].retries <= MaxRetries + replays'[input'.log[i].job]
  <2>1. CASE i \in DOMAIN input.log
    BY <1>1, <1>2, <2>1 DEF RetriesAreBounded
  <2>2. CASE i \notin DOMAIN input.log
    BY <1>1, <2>2
  <2> QED BY <2>1, <2>2
<1>4. ASSUME NEW i \in DOMAIN dead.log
      PROVE  /\ MaxRetries <= dead.log[i].retries
             /\ dead.log[i].retries <= MaxRetries + 1 + replays'[dead.log[i].job]
  BY <1>2 DEF RetriesAreBounded
<1> QED BY <1>3, <1>4 DEF RetriesAreBounded

LEMMA NextRetries ==
    ASSUME RInv, RetriesAreBounded, [PipelineNext]_(pipelineVars)
    PROVE  RetriesAreBounded'
<1>1. Coherent
  BY DEF RInv
<1>2. /\ MaxRetries \in Nat /\ replays \in [Jobs -> Nat] /\ MaxReplays \in Nat
      /\ \A i \in DOMAIN input.log : input.log[i] \in Entry
      /\ \A i \in DOMAIN dead.log : dead.log[i] \in Entry
      /\ input \in Streams(Entry) /\ dead \in Streams(Entry)
  BY <1>1, StateFacts, PipelineAssumption DEF Coherent, PipelineTypeOK
<1>3. ASSUME input'.log = input.log, dead'.log = dead.log, UNCHANGED replays
      PROVE  RetriesAreBounded'
  BY <1>3 DEF RetriesAreBounded
<1>4. ASSUME NEW j \in Jobs, Submit(j) PROVE RetriesAreBounded'
  <2> DEFINE e == [job |-> j, retries |-> 0]
  <2>1. /\ e \in Entry /\ e.retries = 0 /\ e.job = j
        /\ input' = XAdd(input, e) /\ dead' = dead /\ replays' = replays
    BY <1>4 DEF Submit, Entry
  <2> HIDE DEF e
  <2>2. e.retries <= MaxRetries + replays'[e.job] /\ \A k \in Jobs : replays[k] <= replays'[k]
    BY <1>2, <2>1
  <2> QED BY <1>1, <1>2, <2>1, <2>2, InputBounded
<1>5. CASE AgentRead \/ AgentAcknowledge \/ AgentStops \/ process
  <2>1. input'.log = input.log
    <3>1. AgentRead => input'.log = input.log
      <4>1. input.missed <= input.last /\ input.last <= Len(input.log) /\ ReadCount \in Nat
        BY <1>1, PipelineAssumption DEF Coherent, GroupsWithinLogs
      <4>2. XReadGroup(EnsureGroup(input), ReadCount).log = input.log
        BY <1>2, <4>1, ReadFacts
      <4> QED BY <4>2 DEF AgentRead
    <3>2. AgentAcknowledge => input'.log = input.log
      BY <1>2, AckFacts DEF AgentAcknowledge
    <3> QED BY <1>5, <3>1, <3>2 DEF AgentStops, process
  <2>2. dead'.log = dead.log /\ UNCHANGED replays
    BY <1>5 DEF AgentRead, AgentAcknowledge, AgentStops, process
  <2> QED BY <1>3, <2>1, <2>2
<1>6. CASE _handle_failure
  <2> DEFINE c == CurrentEntry
             e == with_incremented_retry(input.log[c])
  <2>1. /\ c \in DOMAIN input.log /\ UNCHANGED replays
        /\ \/ is_retry_exhausted(e) /\ PublishTo(dead, e, dead') /\ UNCHANGED input
           \/ ~is_retry_exhausted(e) /\ PublishTo(input, e, input') /\ UNCHANGED dead
    BY <1>1, <1>6, StateFacts DEF _handle_failure
  <2>2. /\ e \in Entry /\ e.job = input.log[c].job /\ e.retries = input.log[c].retries + 1
        /\ e.job \in Jobs /\ e.retries \in Nat /\ input.log[c].retries \in Nat
    <3>1. input.log[c] \in Entry
      BY <1>2, <2>1
    <3> QED BY <3>1 DEF with_incremented_retry, Entry
  <2>3. input.log[c].retries <= MaxRetries + replays[e.job]
    BY <2>1, <2>2 DEF RetriesAreBounded
  <2> HIDE DEF e, c
  <2>4. CASE ~is_retry_exhausted(e) /\ PublishTo(input, e, input') /\ UNCHANGED dead
    <3>1. /\ e.retries <= MaxRetries + replays'[e.job] /\ \A k \in Jobs : replays[k] <= replays'[k]
          /\ replays' \in [Jobs -> Nat]
      BY <1>2, <2>1, <2>2, <2>4 DEF is_retry_exhausted
    <3>2. input' = input \/ input' = XAdd(input, e)
      BY <2>4, PublishCases
    <3> QED BY <1>1, <2>2, <2>4, <3>1, <3>2, InputBounded
  <2>5. CASE is_retry_exhausted(e) /\ PublishTo(dead, e, dead') /\ UNCHANGED input
    <3>1. dead' = dead \/ dead' = XAdd(dead, e)
      BY <2>5, PublishCases
    <3>2. /\ \A i \in DOMAIN dead.log : dead'.log[i] = dead.log[i]
          /\ \A i \in DOMAIN dead'.log \ DOMAIN dead.log : dead'.log[i] = e
      BY <1>1, <2>2, <3>1, StateFacts, PublishFacts DEF Coherent, GroupsWithinLogs
    <3>3. MaxRetries <= e.retries /\ e.retries <= MaxRetries + 1 + replays[e.job]
      BY <1>2, <2>2, <2>3, <2>5 DEF is_retry_exhausted
    <3> QED BY <2>1, <2>5, <3>2, <3>3 DEF RetriesAreBounded
  <2> QED BY <2>1, <2>4, <2>5
<1>7. CASE \/ ReadDeadLetters \/ SpawnTask \/ SchedulerStops
           \/ \E i \in sched.tasks : MarkTerminal(i)
  <2>1. dead'.log = dead.log
    <3>1. ReadDeadLetters => dead'.log = dead.log
      <4>1. dead.missed <= dead.last /\ dead.last <= Len(dead.log) /\ ReadCount \in Nat
        BY <1>1, PipelineAssumption DEF Coherent, GroupsWithinLogs
      <4>2. XReadGroup(EnsureGroup(dead), ReadCount).log = dead.log
        BY <1>2, <4>1, ReadFacts
      <4> QED BY <4>2 DEF ReadDeadLetters
    <3>2. SpawnTask => dead'.log = dead.log
      BY <1>2, AckFacts DEF SpawnTask
    <3> QED BY <1>7, <3>1, <3>2 DEF SchedulerStops, MarkTerminal
  <2>2. input'.log = input.log /\ UNCHANGED replays
    BY <1>7 DEF ReadDeadLetters, SpawnTask, SchedulerStops, MarkTerminal
  <2> QED BY <1>3, <2>1, <2>2
<1>8. ASSUME NEW i \in sched.tasks, Requeue(i) PROVE RetriesAreBounded'
  <2> DEFINE e == dead.log[i]
  <2>1. i \in DOMAIN dead.log
    BY <1>1, StateFacts DEF Coherent, SchedulerCoherent
  <2>2. /\ e \in Entry /\ e.job \in Jobs /\ e.retries \in Nat /\ ~(e.retries > MaxRetries)
        /\ dead' = dead /\ replays' = replays /\ PublishTo(input, e, input')
    BY <1>2, <1>8, <2>1 DEF Requeue, _build_requeue_event, _is_terminal,
       Entry
  <2> HIDE DEF e
  <2>3. e.retries <= MaxRetries + replays'[e.job] /\ \A k \in Jobs : replays[k] <= replays'[k]
    BY <1>2, <2>2
  <2> QED BY <1>1, <1>2, <2>2, <2>3, InputBounded, PublishCases
<1>9. ASSUME NEW i \in DOMAIN dead.log, replay(i) PROVE RetriesAreBounded'
  <2> DEFINE e == dead.log[i]
  <2>1. /\ e \in Entry /\ e.job \in Jobs /\ e.retries \in Nat
        /\ e.retries <= MaxRetries + 1 + replays[e.job]
        /\ dead' = dead /\ input' = XAdd(input, e)
        /\ replays' = [replays EXCEPT ![e.job] = @ + 1]
    BY <1>2, <1>9 DEF replay, _build_requeue_event, RetriesAreBounded, Entry
  <2> HIDE DEF e
  <2>2. /\ replays' \in [Jobs -> Nat] /\ \A k \in Jobs : replays[k] <= replays'[k]
        /\ replays'[e.job] = replays[e.job] + 1
    BY <1>2, <2>1
  <2>3. e.retries <= MaxRetries + replays'[e.job]
    BY <1>2, <2>1, <2>2
  <2> QED BY <1>1, <2>1, <2>2, <2>3, InputBounded
<1>10. CASE UNCHANGED pipelineVars
  BY <1>3, <1>10 DEF pipelineVars
<1> QED BY <1>4, <1>5, <1>6, <1>7, <1>8, <1>9, <1>10 DEF PipelineNext, AgentStep,
           SchedulerStep

\* Type correctness of the retry pipeline.
THEOREM PipelineTyped == PipelineSpec => []PipelineTypeOK
<1>1. RInv => PipelineTypeOK
  BY DEF RInv, Coherent
<1> QED BY <1>1, PipelineInvariant, PTL

\* Neither a failure, nor a crash of the agent or of the scheduler, nor a call whose outcome is
\* unknown multiplies a job: one copy of it is under way, and one more per manual replay
\* (StreamAgent._handle_failure, RetryScheduler._schedule_retry).
THEOREM JobsAreNeverMultiplied ==
    PipelineSpec => []OneCopyInFlight
<1>1. RInv => OneCopyInFlight
  BY DEF RInv
<1> QED BY <1>1, PipelineInvariant, PTL

\* No message is retried for ever: its retry_count never passes max_retries by more than one, but
\* for manual replays, and only an exhausted message is dead-lettered.
THEOREM RetriesEnd == PipelineSpec => []RetriesAreBounded
<1>1. PipelineInit => RetriesAreBounded
  <2> SUFFICES ASSUME PipelineInit PROVE RetriesAreBounded
    OBVIOUS
  <2>1. input.log = <<>> /\ dead.log = <<>>
    BY DEF PipelineInit, EmptyStream
  <2> QED BY <2>1 DEF RetriesAreBounded
<1>2. RInv /\ RetriesAreBounded /\ [PipelineNext]_(pipelineVars) => RetriesAreBounded'
  BY NextRetries
<1> QED BY <1>1, <1>2, PipelineInvariant, PTL DEF PipelineSpec

-----------------------------------------------------------------------------
(* Only faults lose a job *)

UnderWay(j) == Of(input, LiveIn, j) # {} \/ Of(dead, LiveDead, j) # {}

\* While no process has stopped and no call has raised, a job that was submitted has ended, was
\* missed by a group that was created later, or is still under way.
OnlyFaultsLose ==
    mishaps = 0 => \A j \in Jobs : Submitted(j) => Ended(j) \/ Missed(j) \/ UnderWay(j)

\* What one call to Redis may do to a stream.
Called(s, u) ==
    \/ u = s
    \/ \E e \in Entry : u = XAdd(s, e)
    \/ \E i : u = XAck(s, i)
    \/ u = XReadGroup(EnsureGroup(s), ReadCount)

\* A stream only grows, and what its group has missed stays missed.
Grows(s, u) ==
    /\ DOMAIN s.log \subseteq DOMAIN u.log /\ \A i \in DOMAIN s.log : u.log[i] = s.log[i]
    /\ s.missed <= u.missed /\ s.missed \in Nat /\ u.missed \in Nat

LEMMA CalledGrows ==
    ASSUME NEW s \in Streams(Entry), s.missed <= s.last, s.last <= Len(s.log), NEW u, Called(s, u)
    PROVE  Grows(s, u)
<1>1. s.missed \in Nat /\ s.last \in Nat /\ s.log \in Seq(Entry) /\ Len(s.log) \in Nat
  BY LenProperties DEF Streams
<1>2. CASE u = s
  BY <1>1, <1>2 DEF Grows
<1>3. ASSUME NEW e \in Entry, u = XAdd(s, e) PROVE Grows(s, u)
  <2>1. /\ u.missed = s.missed /\ DOMAIN u.log = DOMAIN s.log \cup {Len(s.log) + 1}
        /\ \A i \in DOMAIN s.log : u.log[i] = s.log[i]
    BY <1>3, AddFacts
  <2> QED BY <1>1, <2>1 DEF Grows
<1>4. ASSUME NEW i, u = XAck(s, i) PROVE Grows(s, u)
  <2>1. u.missed = s.missed /\ u.log = s.log
    BY <1>4, AckFacts
  <2> QED BY <1>1, <2>1 DEF Grows
<1>5. CASE u = XReadGroup(EnsureGroup(s), ReadCount)
  <2> DEFINE g == EnsureGroup(s)
  <2>1. /\ g \in Streams(Entry) /\ g.log = s.log /\ g.missed <= g.last /\ g.last <= Len(g.log)
        /\ g.missed = s.missed \/ g.missed = Len(s.log)
    BY EnsureGroupProperties
  <2> HIDE DEF g
  <2>2. ReadCount \in Nat
    BY PipelineAssumption
  <2>3. u.log = g.log /\ u.missed = g.missed
    BY <1>5, <2>1, <2>2, XReadGroupProperties DEF g
  <2> QED BY <1>1, <2>1, <2>3 DEF Grows
<1> QED BY <1>2, <1>3, <1>4, <1>5 DEF Called

\* A retry is an entry of the same job.
LEMMA RetryFacts ==
    ASSUME Coherent, agent.batch # <<>>
    PROVE  LET e == with_incremented_retry(input.log[CurrentEntry])
           IN  e \in Entry /\ e.job = input.log[CurrentEntry].job
<1>1. input.log[CurrentEntry] \in Entry
  BY StateFacts
<1> QED BY <1>1 DEF with_incremented_retry, Entry

\* Every step makes at most one call to each stream; marks and work done stay.
LEMMA StepsCall ==
    ASSUME RInv, [PipelineNext]_(pipelineVars)
    PROVE  /\ Called(input, input') /\ Called(dead, dead')
           /\ terminal \subseteq terminal'
           /\ \A j \in Jobs : done[j] > 0 => done'[j] > 0
<1>1. Coherent /\ done \in [Jobs -> Nat]
  BY DEF RInv, Coherent, PipelineTypeOK
<1>2. ASSUME NEW s, NEW e \in Entry, NEW u, PublishTo(s, e, u) PROVE Called(s, u)
  BY <1>2, PublishCases DEF Called
<1>3. CASE \E j \in Jobs : Submit(j)
  BY <1>3 DEF Submit, Called, Entry
<1>4. CASE AgentRead \/ AgentAcknowledge \/ AgentStops
  BY <1>4 DEF AgentRead, AgentAcknowledge, AgentStops, Called
<1>5. CASE process
  <2>1. \/ done' = done
        \/ done' = [done EXCEPT ![input.log[CurrentEntry].job] = @ + 1]
    BY <1>5 DEF process
  <2>2. \A j \in Jobs : done[j] > 0 => done'[j] > 0
    BY <1>1, <2>1
  <2> QED BY <1>5, <2>2 DEF process, Called
<1>6. CASE _handle_failure
  <2>1. with_incremented_retry(input.log[CurrentEntry]) \in Entry
    BY <1>1, <1>6, RetryFacts DEF _handle_failure
  <2>2. UNCHANGED <<terminal, done>>
    BY <1>6 DEF _handle_failure
  <2>3. Called(input, input') /\ Called(dead, dead')
    BY <1>2, <1>6, <2>1 DEF _handle_failure, Called
  <2> QED BY <2>2, <2>3
<1>7. CASE ReadDeadLetters \/ SpawnTask \/ SchedulerStops
  BY <1>7 DEF ReadDeadLetters, SpawnTask, SchedulerStops, Called
<1>8. CASE \E i \in sched.tasks : MarkTerminal(i)
  BY <1>8 DEF MarkTerminal, Called
<1>9. CASE \E i \in sched.tasks : Requeue(i)
  <2>1. PICK i \in sched.tasks : Requeue(i)
    BY <1>9
  <2>2. dead.log[i] \in Entry
    BY <1>1, StateFacts DEF Coherent, SchedulerCoherent
  <2>3. PublishTo(input, dead.log[i], input') /\ UNCHANGED <<dead, terminal, done>>
    BY <2>1 DEF Requeue, _build_requeue_event
  <2> QED BY <1>2, <2>2, <2>3 DEF Called
<1>10. CASE \E i \in DOMAIN dead.log : replay(i)
  BY <1>1, <1>10, StateFacts DEF replay, _build_requeue_event, Called
<1>11. CASE UNCHANGED pipelineVars
  BY <1>11 DEF pipelineVars, Called
<1> QED BY <1>3, <1>4, <1>5, <1>6, <1>7, <1>8, <1>9, <1>10, <1>11
        DEF PipelineNext, AgentStep, SchedulerStep

LEMMA StreamsGrow ==
    ASSUME RInv, [PipelineNext]_(pipelineVars)
    PROVE  Grows(input, input') /\ Grows(dead, dead')
BY StepsCall, StateFacts, CalledGrows DEF RInv, Coherent, GroupsWithinLogs

\* A job that has ended stays so, and one that was missed stays missed.
LEMMA EndsStay ==
    ASSUME RInv, [PipelineNext]_(pipelineVars), NEW j \in Jobs, Ended(j) \/ Missed(j)
    PROVE  (Ended(j) \/ Missed(j))'
<1>1. /\ Grows(input, input') /\ Grows(dead, dead') /\ terminal \subseteq terminal'
      /\ done[j] > 0 => done'[j] > 0
  BY StepsCall, StreamsGrow
<1>2. /\ terminal \subseteq DOMAIN dead.log
      /\ 1..input.missed \subseteq DOMAIN input.log /\ 1..dead.missed \subseteq DOMAIN dead.log
  <2>1. Coherent
    BY DEF RInv
  <2>2. input.missed \in Nat /\ dead.missed \in Nat
    BY <1>1 DEF Grows
  <2>3. /\ input.missed <= input.last /\ input.last <= Len(input.log)
        /\ dead.missed <= dead.last /\ dead.last <= Len(dead.log)
        /\ terminal \subseteq DOMAIN dead.log
    BY <2>1 DEF Coherent, PipelineTypeOK, GroupsWithinLogs
  <2>4. /\ DOMAIN input.log = 1..Len(input.log) /\ DOMAIN dead.log = 1..Len(dead.log)
        /\ input.last \in Nat /\ Len(input.log) \in Nat
        /\ dead.last \in Nat /\ Len(dead.log) \in Nat
    BY <2>1, StateFacts
  <2>5. 1..input.missed \subseteq 1..Len(input.log) /\ 1..dead.missed \subseteq 1..Len(dead.log)
    BY <2>2, <2>3, <2>4
  <2> QED BY <2>3, <2>4, <2>5
<1>3. 1..input.missed \subseteq 1..input'.missed /\ 1..dead.missed \subseteq 1..dead'.missed
  BY <1>1 DEF Grows
<1>4. CASE Ended(j)
  BY <1>1, <1>2, <1>4 DEF Ended, Of, Grows
<1>5. CASE Missed(j)
  BY <1>1, <1>2, <1>3, <1>5 DEF Missed, Of, Grows
<1> QED BY <1>4, <1>5

\* What is appended is unread, and so is what was.
LEMMA AddedIsUnread ==
    ASSUME NEW S, NEW s \in Streams(S), s.last <= Len(s.log), NEW e \in S
    PROVE  LET t == XAdd(s, e)
           IN  Unread(t) = Unread(s) \cup {Len(s.log) + 1} /\ t.log[Len(s.log) + 1] = e
<1> DEFINE t == XAdd(s, e)
           n == Len(s.log) + 1
<1>1. s.last \in Nat /\ Len(s.log) \in Nat /\ s.last < n
  BY LenProperties DEF Streams
<1>2. /\ t.last = s.last /\ DOMAIN t.log = DOMAIN s.log \cup {n} /\ t.log[n] = e
      /\ n \notin DOMAIN s.log
  BY AddFacts
<1> HIDE DEF t, n
<1>3. Unread(t) = Unread(s) \cup {n}
  BY <1>1, <1>2 DEF Unread
<1> QED BY <1>2, <1>3 DEF t, n

\* What a read takes off the unread entries is in the batch, or the group was created just now.
LEMMA ReadLosesNothing ==
    ASSUME NEW S, NEW s \in Streams(S), s.missed <= s.last, s.last <= Len(s.log), NEW n \in Nat
    PROVE  LET d == Delivered(EnsureGroup(s), n)
               t == XReadGroup(EnsureGroup(s), n)
           IN  \A i \in Unread(s) :
                  i \in Unread(t) \/ (\E k \in DOMAIN d : d[k] = i) \/ i \in 1..t.missed
<1> DEFINE g == EnsureGroup(s)
           d == Delivered(g, n)
           t == XReadGroup(g, n)
<1>1. /\ g \in Streams(S) /\ g.log = s.log /\ g.missed <= g.last /\ g.last <= Len(g.log)
      /\ \/ g.missed = s.missed /\ g.last = s.last
         \/ g.missed = Len(s.log) /\ g.last = Len(s.log)
  BY EnsureGroupProperties
<1>2. /\ d \in Seq(DOMAIN g.log) /\ Len(d) = t.last - g.last
      /\ \A k \in DOMAIN d : d[k] = g.last + k
      /\ t \in Streams(S) /\ t.log = g.log /\ t.missed = g.missed
      /\ g.last <= t.last /\ t.last <= Len(g.log)
  <2>1. g \in Streams(S) /\ g.last <= Len(g.log)
    BY <1>1
  <2> HIDE DEF g
  <2> QED BY <2>1, XReadGroupProperties
<1>3. /\ Len(s.log) \in Nat /\ DOMAIN s.log = 1..Len(s.log)
      /\ s.last \in Nat /\ g.last \in Nat /\ t.last \in Nat
  BY <1>1, <1>2, LenProperties DEF Streams
<1>4. DOMAIN d = 1..(t.last - g.last)
  BY <1>2, LenProperties
<1> HIDE DEF g, d, t
<1>5. ASSUME NEW i \in Unread(s)
      PROVE  i \in Unread(t) \/ (\E k \in DOMAIN d : d[k] = i) \/ i \in 1..t.missed
  <2>1. i \in 1..Len(s.log) /\ s.last < i
    BY <1>3 DEF Unread
  <2>2. CASE g.missed = Len(s.log)
    BY <1>2, <2>1, <2>2
  <2>3. CASE g.last = s.last /\ t.last < i
    BY <1>1, <1>2, <1>3, <2>1, <2>3 DEF Unread
  <2>4. CASE g.last = s.last /\ ~(t.last < i)
    <3>1. i - g.last \in DOMAIN d
      BY <1>3, <1>4, <2>1, <2>4
    <3>2. d[i - g.last] = i
      BY <1>2, <1>3, <2>1, <3>1
    <3> QED BY <3>1, <3>2
  <2> QED BY <1>1, <2>2, <2>3, <2>4
<1> QED BY <1>5 DEF g, d, t

\* A copy that is still among the live entries afterwards keeps its job under way.
LEMMA StaysUnderWay ==
    ASSUME RInv, [PipelineNext]_(pipelineVars), NEW j,
           \/ \E i \in LiveIn \cap LiveIn' : input.log[i].job = j
           \/ \E i \in LiveDead \cap LiveDead' : dead.log[i].job = j
    PROVE  UnderWay(j)'
<1>1. Grows(input, input') /\ Grows(dead, dead') /\ Coherent
  BY StreamsGrow DEF RInv
<1>2. LiveIn \subseteq DOMAIN input.log /\ LiveDead \subseteq DOMAIN dead.log
  BY <1>1, StateFacts
<1> QED BY <1>1, <1>2 DEF UnderWay, Of, Grows

\* An entry that is published without a fault is under way.
LEMMA PublishedIsUnderWay ==
    ASSUME RInv, NEW e \in Entry,
           input' = XAdd(input, e) \/ dead' = XAdd(dead, e)
    PROVE  UnderWay(e.job)'
<1>1. /\ input \in Streams(Entry) /\ input.last <= Len(input.log)
      /\ dead \in Streams(Entry) /\ dead.last <= Len(dead.log)
  BY StateFacts DEF RInv
<1>2. CASE input' = XAdd(input, e)
  <2>1. Len(input.log) + 1 \in Unread(input') /\ input'.log[Len(input.log) + 1] = e
    BY <1>1, <1>2, AddedIsUnread
  <2> QED BY <2>1 DEF UnderWay, Of, LiveIn
<1>3. CASE dead' = XAdd(dead, e)
  <2>1. Len(dead.log) + 1 \in Unread(dead') /\ dead'.log[Len(dead.log) + 1] = e
    BY <1>1, <1>3, AddedIsUnread
  <2> QED BY <2>1 DEF UnderWay, Of, LiveDead
<1> QED BY <1>2, <1>3

\* A publication leaves what is unread unread.
LEMMA PublishKeepsUnread ==
    ASSUME RInv
    PROVE  /\ \A e \in Entry : input' = XAdd(input, e) => Unread(input) \subseteq Unread(input')
           /\ \A e \in Entry : dead' = XAdd(dead, e) => Unread(dead) \subseteq Unread(dead')
<1>1. /\ input \in Streams(Entry) /\ input.last <= Len(input.log)
      /\ dead \in Streams(Entry) /\ dead.last <= Len(dead.log)
  BY StateFacts DEF RInv
<1> QED BY <1>1, AddedIsUnread

\* Every entry of a batch is its first, or one of the rest.
LEMMA TailIsRest ==
    ASSUME NEW b \in Seq(Nat), b # <<>>
    PROVE  BatchOf(b) \ {Head(b)} \subseteq BatchOf(Tail(b))
<1>1. /\ Head(b) = b[1] /\ Tail(b) \in Seq(Nat) /\ Len(b) \in Nat \ {0}
      /\ Len(Tail(b)) = Len(b) - 1
      /\ \A k \in 1..Len(Tail(b)) : Tail(b)[k] = b[k + 1]
  BY HeadTailProperties, EmptySeq, LenProperties
<1>2. DOMAIN b = 1..Len(b) /\ DOMAIN Tail(b) = 1..(Len(b) - 1)
  BY <1>1, LenProperties
<1>3. ASSUME NEW k \in DOMAIN b, b[k] # Head(b)
      PROVE  \E l \in DOMAIN Tail(b) : Tail(b)[l] = b[k]
  <2>1. k - 1 \in DOMAIN Tail(b) /\ (k - 1) + 1 = k
    BY <1>1, <1>2, <1>3
  <2> QED BY <1>1, <1>2, <2>1
<1> QED BY <1>3 DEF BatchOf

\* The agent's steps without a fault: what it drops has been done, or was published again.
LEMMA AgentLosesNothing ==
    ASSUME RInv, AgentStep, NoMishap, NEW j \in Jobs, UnderWay(j)
    PROVE  (Ended(j) \/ Missed(j) \/ UnderWay(j))'
<1>1. Coherent /\ [PipelineNext]_(pipelineVars)
  BY DEF RInv, PipelineNext
<1>2. /\ agent \in [batch : Seq(Nat), stage : {"handle", "failed", "ack"}]
      /\ done \in [Jobs -> Nat] /\ mishaps \in Nat /\ mishaps' = mishaps
  BY <1>1, PipelineAssumption DEF Coherent, PipelineTypeOK, NoMishap
<1>3. ~Mishap
  BY <1>2 DEF Mishap
<1>4. CASE AgentRead
  <2>1. /\ agent.batch = <<>> /\ LiveDead' = LiveDead /\ dead' = dead
        /\ input' = XReadGroup(EnsureGroup(input), ReadCount)
        /\ agent' = [batch |-> Delivered(EnsureGroup(input), ReadCount), stage |-> "handle"]
    BY <1>4 DEF AgentRead, LiveDead
  <2>2. BatchOf(agent.batch) = {} /\ LiveIn = Unread(input)
    BY <2>1 DEF BatchOf, LiveIn, Held
  <2>3. LiveIn' = Unread(input') \cup BatchOf(agent'.batch)
    BY <2>1 DEF LiveIn, Held
  <2>4. \A i \in Unread(input) : i \in LiveIn' \/ i \in 1..input'.missed
    <3>1. /\ input \in Streams(Entry) /\ input.missed <= input.last
          /\ input.last <= Len(input.log) /\ ReadCount \in Nat
      BY <1>1, StateFacts, PipelineAssumption DEF Coherent, GroupsWithinLogs
    <3>2. agent'.batch = Delivered(EnsureGroup(input), ReadCount)
      BY <2>1
    <3> QED BY <2>1, <2>3, <3>1, <3>2, ReadLosesNothing DEF BatchOf
  <2>5. CASE \E i \in LiveDead : dead.log[i].job = j
    BY <1>1, <2>1, <2>5, StaysUnderWay
  <2>6. ASSUME NEW i \in LiveIn, input.log[i].job = j
        PROVE  (Missed(j) \/ UnderWay(j))'
    <3>1. CASE i \in LiveIn'
      BY <1>1, <2>6, <3>1, StaysUnderWay
    <3>2. CASE i \in 1..input'.missed
      <4>1. Grows(input, input') /\ i \in DOMAIN input.log
        BY <1>1, StreamsGrow, StateFacts
      <4> QED BY <2>6, <3>2, <4>1 DEF Missed, Of, Grows
    <3> QED BY <2>2, <2>4, <3>1, <3>2
  <2> QED BY <2>5, <2>6 DEF UnderWay, Of
<1>5. CASE process
  <2>1. /\ agent.stage = "handle" /\ agent.batch # <<>> /\ UNCHANGED <<input, dead, sched>>
        /\ \/ agent' = [agent EXCEPT !.stage = "failed"]
           \/ /\ agent' = [agent EXCEPT !.stage = "ack"]
              /\ done' = [done EXCEPT ![input.log[CurrentEntry].job] = @ + 1]
    BY <1>3, <1>5 DEF process
  <2>2. /\ agent'.batch = agent.batch /\ CurrentEntry' = CurrentEntry
        /\ LiveDead' = LiveDead
    BY <1>2, <2>1 DEF CurrentEntry, LiveDead
  <2>3. CASE agent' = [agent EXCEPT !.stage = "failed"]
    <3>1. LiveIn' = LiveIn
      BY <1>2, <2>1, <2>2, <2>3 DEF LiveIn, Held
    <3> QED BY <1>1, <2>2, <3>1, StaysUnderWay DEF UnderWay, Of
  <2>4. CASE /\ agent' = [agent EXCEPT !.stage = "ack"]
             /\ done' = [done EXCEPT ![input.log[CurrentEntry].job] = @ + 1]
    <3>1. LiveIn \ {CurrentEntry} \subseteq LiveIn'
      BY <1>2, <2>1, <2>2, <2>4 DEF LiveIn, Held
    <3>2. CASE input.log[CurrentEntry].job = j
      BY <1>2, <2>4, <3>2 DEF Ended
    <3>3. CASE input.log[CurrentEntry].job # j
      BY <1>1, <2>2, <3>1, <3>3, StaysUnderWay DEF UnderWay, Of
    <3> QED BY <3>2, <3>3
  <2> QED BY <2>1, <2>3, <2>4
<1>6. CASE _handle_failure
  <2> DEFINE e == with_incremented_retry(input.log[CurrentEntry])
  <2>1. /\ agent.batch # <<>> /\ agent.stage = "failed"
        /\ agent' = [agent EXCEPT !.stage = "ack"] /\ sched' = sched
        /\ \/ dead' = XAdd(dead, e) /\ input' = input
           \/ input' = XAdd(input, e) /\ dead' = dead
    BY <1>3, <1>6 DEF _handle_failure, PublishTo
  <2>2. e \in Entry /\ e.job = input.log[CurrentEntry].job
    BY <1>1, <2>1, RetryFacts
  <2> HIDE DEF e
  <2>3. CASE e.job = j
    BY <2>1, <2>2, <2>3, PublishedIsUnderWay
  <2>4. CASE e.job # j
    <3>1. Unread(input) \subseteq Unread(input') /\ Unread(dead) \subseteq Unread(dead')
      BY <2>1, <2>2, PublishKeepsUnread
    <3>2. agent'.batch = agent.batch /\ CurrentEntry' = CurrentEntry
      BY <1>2, <2>1 DEF CurrentEntry
    <3>3. LiveDead \subseteq LiveDead' /\ LiveIn \ {CurrentEntry} \subseteq LiveIn'
      BY <1>2, <2>1, <3>1, <3>2 DEF LiveDead, LiveIn, Held
    <3> QED BY <1>1, <2>2, <2>4, <3>3, StaysUnderWay DEF UnderWay, Of
  <2> QED BY <2>3, <2>4
<1>7. CASE AgentAcknowledge
  <2>1. /\ agent.batch # <<>> /\ agent.stage = "ack" /\ UNCHANGED <<dead, sched>>
        /\ agent' = [batch |-> Tail(agent.batch), stage |-> "handle"]
        /\ input' = XAck(input, CurrentEntry)
    BY <1>3, <1>7 DEF AgentAcknowledge
  <2>2. BatchOf(agent.batch) \ {Head(agent.batch)} \subseteq BatchOf(Tail(agent.batch))
    BY <1>2, <2>1, TailIsRest
  <2>3. Unread(input') = Unread(input)
    BY <1>1, <2>1, StateFacts, AckFacts
  <2>4. LiveIn \subseteq LiveIn' /\ LiveDead' = LiveDead
    BY <2>1, <2>2, <2>3 DEF LiveIn, LiveDead, Held, CurrentEntry
  <2> QED BY <1>1, <2>4, StaysUnderWay DEF UnderWay, Of
<1> QED BY <1>4, <1>5, <1>6, <1>7 DEF AgentStep

\* The scheduler's: an entry goes from the stream to the batch, from there to a task, and from
\* there to the agent's stream or to its mark.
LEMMA SchedulerLosesNothing ==
    ASSUME RInv, SchedulerStep, NoMishap, NEW j \in Jobs, UnderWay(j)
    PROVE  (Ended(j) \/ Missed(j) \/ UnderWay(j))'
<1>1. Coherent /\ [PipelineNext]_(pipelineVars)
  BY DEF RInv, PipelineNext
<1>2. /\ sched \in [batch : Seq(Nat), tasks : SUBSET Nat]
      /\ mishaps \in Nat /\ mishaps' = mishaps
  BY <1>1, PipelineAssumption DEF Coherent, PipelineTypeOK, NoMishap
<1>3. ~Mishap
  BY <1>2 DEF Mishap
<1>4. CASE ReadDeadLetters
  <2> DEFINE d == Delivered(EnsureGroup(dead), ReadCount)
  <2>1. /\ sched.batch = <<>> /\ LiveIn' = LiveIn /\ input' = input
        /\ dead' = XReadGroup(EnsureGroup(dead), ReadCount)
        /\ sched' = [sched EXCEPT !.batch = d]
    BY <1>4 DEF ReadDeadLetters, LiveIn, Held, CurrentEntry
  <2>2. /\ LiveDead = Unread(dead) \cup sched.tasks
        /\ LiveDead' = Unread(dead') \cup BatchOf(d) \cup sched.tasks
    <3> HIDE DEF d
    <3>1. sched'.batch = d /\ sched'.tasks = sched.tasks /\ BatchOf(sched.batch) = {}
      BY <1>2, <2>1 DEF BatchOf
    <3> QED BY <3>1 DEF LiveDead
  <2>3. \A i \in Unread(dead) : i \in LiveDead' \/ i \in 1..dead'.missed
    <3>1. /\ dead \in Streams(Entry) /\ dead.missed <= dead.last
          /\ dead.last <= Len(dead.log) /\ ReadCount \in Nat
      BY <1>1, StateFacts, PipelineAssumption DEF Coherent, GroupsWithinLogs
    <3> QED BY <2>1, <2>2, <3>1, ReadLosesNothing DEF BatchOf
  <2> HIDE DEF d
  <2>4. CASE \E i \in LiveIn : input.log[i].job = j
    BY <1>1, <2>1, <2>4, StaysUnderWay
  <2>5. ASSUME NEW i \in LiveDead, dead.log[i].job = j
        PROVE  (Missed(j) \/ UnderWay(j))'
    <3>1. CASE i \in LiveDead'
      BY <1>1, <2>5, <3>1, StaysUnderWay
    <3>2. CASE i \in 1..dead'.missed
      <4>1. Grows(dead, dead') /\ i \in DOMAIN dead.log
        BY <1>1, StreamsGrow, StateFacts
      <4> QED BY <2>5, <3>2, <4>1 DEF Missed, Of, Grows
    <3> QED BY <2>2, <2>3, <3>1, <3>2
  <2> QED BY <2>4, <2>5 DEF UnderWay, Of
<1>5. CASE SpawnTask
  <2>1. /\ sched.batch # <<>> /\ UNCHANGED <<input, agent>>
        /\ sched' = [batch |-> Tail(sched.batch), tasks |-> sched.tasks \cup {Head(sched.batch)}]
        /\ dead' = XAck(dead, Head(sched.batch))
    BY <1>3, <1>5 DEF SpawnTask
  <2>2. BatchOf(sched.batch) \ {Head(sched.batch)} \subseteq BatchOf(Tail(sched.batch))
    BY <1>2, <2>1, TailIsRest
  <2>3. Unread(dead') = Unread(dead)
    BY <1>1, <2>1, StateFacts, AckFacts
  <2>4. LiveDead \subseteq LiveDead' /\ LiveIn' = LiveIn
    BY <2>1, <2>2, <2>3 DEF LiveIn, LiveDead, Held, CurrentEntry
  <2> QED BY <1>1, <2>4, StaysUnderWay DEF UnderWay, Of
<1>6. ASSUME NEW i \in sched.tasks, MarkTerminal(i)
      PROVE  (Ended(j) \/ UnderWay(j))'
  <2>1. /\ terminal' = terminal \cup {i} /\ sched' = [sched EXCEPT !.tasks = @ \ {i}]
        /\ UNCHANGED <<input, dead, agent>>
    BY <1>3, <1>6 DEF MarkTerminal
  <2>2. LiveDead \ {i} \subseteq LiveDead' /\ LiveIn' = LiveIn
    BY <1>2, <2>1 DEF LiveIn, LiveDead, Held, CurrentEntry
  <2>3. CASE dead.log[i].job = j
    BY <2>1, <2>3 DEF Ended, Of
  <2>4. CASE dead.log[i].job # j
    BY <1>1, <2>2, <2>4, StaysUnderWay DEF UnderWay, Of
  <2> QED BY <2>3, <2>4
<1>7. ASSUME NEW i \in sched.tasks, Requeue(i)
      PROVE  UnderWay(j)'
  <2>1. /\ input' = XAdd(input, dead.log[i]) /\ sched' = [sched EXCEPT !.tasks = @ \ {i}]
        /\ UNCHANGED <<dead, agent>>
    BY <1>3, <1>7 DEF Requeue, PublishTo, _build_requeue_event
  <2>2. dead.log[i] \in Entry
    BY <1>1, StateFacts DEF Coherent, SchedulerCoherent
  <2>3. CASE dead.log[i].job = j
    BY <2>1, <2>2, <2>3, PublishedIsUnderWay
  <2>4. CASE dead.log[i].job # j
    <3>1. Unread(input) \subseteq Unread(input')
      BY <2>1, <2>2, PublishKeepsUnread
    <3>2. LiveDead \ {i} \subseteq LiveDead' /\ LiveIn \subseteq LiveIn'
      BY <1>2, <2>1, <3>1 DEF LiveIn, LiveDead, Held, CurrentEntry
    <3> QED BY <1>1, <2>4, <3>2, StaysUnderWay DEF UnderWay, Of
  <2> QED BY <2>3, <2>4
<1> QED BY <1>4, <1>5, <1>6, <1>7 DEF SchedulerStep

\* Entries that come from outside, a submission or a manual replay, add to what is under way.
LEMMA ArrivalsLoseNothing ==
    ASSUME RInv, (\E k \in Jobs : Submit(k)) \/ \E i \in DOMAIN dead.log : replay(i),
           NEW j \in Jobs, UnderWay(j)
    PROVE  UnderWay(j)'
<1>1. Coherent /\ [PipelineNext]_(pipelineVars)
  BY DEF RInv, PipelineNext
<1>2. PICK e \in Entry : input' = XAdd(input, e) /\ UNCHANGED <<dead, agent, sched>>
  BY <1>1, StateFacts DEF Submit, replay, _build_requeue_event, Entry
<1>3. Unread(input) \subseteq Unread(input')
  BY <1>2, PublishKeepsUnread
<1>4. LiveIn \subseteq LiveIn' /\ LiveDead' = LiveDead
  BY <1>2, <1>3 DEF LiveIn, LiveDead, Held, CurrentEntry
<1> QED BY <1>1, <1>4, StaysUnderWay DEF UnderWay, Of

\* A job appears with an entry that is unread.
LEMMA NewJobsAreUnderWay ==
    ASSUME RInv, [PipelineNext]_(pipelineVars), NEW j \in Jobs, Submitted(j)', ~Submitted(j)
    PROVE  UnderWay(j)'
<1>1. /\ input \in Streams(Entry) /\ input.missed <= input.last /\ input.last <= Len(input.log)
      /\ ReadCount \in Nat
  BY StateFacts, PipelineAssumption DEF RInv, Coherent, GroupsWithinLogs
<1>2. CASE input' = input \/ (\E i : input' = XAck(input, i))
           \/ input' = XReadGroup(EnsureGroup(input), ReadCount)
  <2>1. input'.log = input.log
    BY <1>1, <1>2, AckFacts, ReadFacts
  <2> QED BY <2>1 DEF Submitted
<1>3. ASSUME NEW e \in Entry, input' = XAdd(input, e) PROVE UnderWay(j)'
  <2>1. /\ DOMAIN input'.log = DOMAIN input.log \cup {Len(input.log) + 1}
        /\ input'.log[Len(input.log) + 1] = e
        /\ \A i \in DOMAIN input.log : input'.log[i] = input.log[i]
    BY <1>1, <1>3, AddFacts
  <2>2. e.job = j
    BY <2>1 DEF Submitted
  <2> QED BY <1>3, <2>2, PublishedIsUnderWay
<1> QED BY <1>2, <1>3, StepsCall DEF Called

LEMMA NextLosesNothing ==
    ASSUME RInv, OnlyFaultsLose, [PipelineNext]_(pipelineVars)
    PROVE  OnlyFaultsLose'
<1> SUFFICES ASSUME mishaps' = 0, NEW j \in Jobs, Submitted(j)'
             PROVE  (Ended(j) \/ Missed(j) \/ UnderWay(j))'
  BY DEF OnlyFaultsLose
<1>1. mishaps \in Nat
  BY PipelineAssumption DEF RInv, Coherent, PipelineTypeOK
<1>2. ~Mishap
  BY <1>1 DEF Mishap
<1>3. NoMishap /\ mishaps = 0
  <2>1. NoMishap \/ Mishap \/ UNCHANGED mishaps
    BY DEF PipelineNext, Submit, AgentStep, AgentStops, AgentRead, process, _handle_failure,
           AgentAcknowledge, PublishTo, SchedulerStep, SchedulerStops, ReadDeadLetters, SpawnTask,
           MarkTerminal, Requeue, replay, pipelineVars
  <2> QED BY <1>2, <2>1 DEF NoMishap
<1>4. CASE ~Submitted(j)
  BY <1>4, NewJobsAreUnderWay
<1>5. CASE Submitted(j) /\ (Ended(j) \/ Missed(j))
  BY <1>5, EndsStay
<1>6. CASE Submitted(j) /\ UnderWay(j)
  <2>1. CASE (\E k \in Jobs : Submit(k)) \/ \E i \in DOMAIN dead.log : replay(i)
    BY <1>6, <2>1, ArrivalsLoseNothing
  <2>2. CASE AgentStep
    BY <1>3, <1>6, <2>2, AgentLosesNothing
  <2>3. CASE SchedulerStep
    BY <1>3, <1>6, <2>3, SchedulerLosesNothing
  <2>4. CASE AgentStops \/ SchedulerStops
    BY <1>2, <2>4 DEF AgentStops, SchedulerStops
  <2>5. CASE UNCHANGED pipelineVars
    <3>1. /\ LiveIn' = LiveIn /\ LiveDead' = LiveDead
      BY <2>5 DEF pipelineVars, LiveIn, LiveDead, Held, CurrentEntry
    <3> QED BY <1>6, <3>1, StaysUnderWay DEF UnderWay, Of
  <2> QED BY <2>1, <2>2, <2>3, <2>4, <2>5 DEF PipelineNext
<1> QED BY <1>3, <1>4, <1>5, <1>6 DEF OnlyFaultsLose

\* As long as no process stops and no call raises, the agent, its retries and the scheduler lose no
\* job: one that was submitted has been worked off or marked, came before the consumer group, or
\* is in a stream, a batch or a sleeping task.  The scheduler's early acknowledgement and the
\* errors _handle_failure swallows cost a job only together with a fault.
THEOREM JobsAreOnlyLostToFaults == PipelineSpec => []OnlyFaultsLose
<1>1. PipelineInit => OnlyFaultsLose
  <2> SUFFICES ASSUME PipelineInit PROVE OnlyFaultsLose
    OBVIOUS
  <2>1. input.log = <<>>
    BY DEF PipelineInit, EmptyStream
  <2> QED BY <2>1 DEF OnlyFaultsLose, Submitted
<1>2. RInv /\ OnlyFaultsLose /\ [PipelineNext]_(pipelineVars) => OnlyFaultsLose'
  BY NextLosesNothing
<1> QED BY <1>1, <1>2, PipelineInvariant, PTL DEF PipelineSpec
-----------------------------------------------------------------------------
(* The work on a job is bounded, whatever the faults *)

\* A live entry of the agent's stream is to be handled, but for the one whose handler failed.
ToHandle == LiveIn \ (IF agent.stage = "failed" THEN {CurrentEntry} ELSE {})

\* Entries that can still be retried, and those, in either stream, on their last try.
EarlyIn == {i \in LiveIn : input.log[i].retries < MaxRetries}
LastIn == {i \in ToHandle : input.log[i].retries >= MaxRetries}
LastDead == {i \in LiveDead : ~_is_terminal(dead.log[i])}

\* What has been done for a job, and what its last tries may still do.
Account(j) == done[j] + CopiesOf(input, LastIn, j) + CopiesOf(dead, LastDead, j)

\* What an entry that can be retried may still do: its own try, its retries and the last try.
Left(i) == MaxRetries - input.log[i].retries + (IF i \in ToHandle THEN 1 ELSE 0)

Budget(j) == MaxRetries + 1 + replays[j]

\* All of that is within the budget, and one entry at a time can be retried.
Paid(j) ==
    /\ Account(j) <= Budget(j)
    /\ \A i \in Of(input, EarlyIn, j) : Account(j) + Left(i) <= Budget(j)
    /\ \A i, k \in Of(input, EarlyIn, j) : i = k
    /\ ~Submitted(j) => done[j] = 0

WorkIsPaid == \A j \in Jobs : Paid(j)

\* Whatever is killed and whichever calls raise, the handler does the work of a job at most once
\* for the message, its retries and its requeue, and once per manual replay.
WorkIsBounded == \A j \in Jobs : done[j] <= MaxRetries + 1 + replays[j]

LEMMA WorkFacts ==
    ASSUME Coherent
    PROVE  /\ MaxRetries \in Nat /\ done \in [Jobs -> Nat] /\ replays \in [Jobs -> Nat]
           /\ ToHandle \subseteq LiveIn
           /\ LastIn \in SUBSET DOMAIN input.log /\ LastDead \in SUBSET DOMAIN dead.log
           /\ \A i \in DOMAIN input.log : input.log[i].retries \in Nat /\ input.log[i].job \in Jobs
           /\ \A i \in DOMAIN dead.log : dead.log[i].retries \in Nat /\ dead.log[i].job \in Jobs
           /\ \A i \in EarlyIn : i \in DOMAIN input.log /\ Left(i) \in Nat
           /\ \A j \in Jobs : /\ CopiesOf(input, LastIn, j) \in Nat
                              /\ CopiesOf(dead, LastDead, j) \in Nat
                              /\ Account(j) \in Nat
<1>1. MaxRetries \in Nat /\ done \in [Jobs -> Nat] /\ replays \in [Jobs -> Nat]
  BY PipelineAssumption DEF Coherent, PipelineTypeOK
<1>2. ToHandle \subseteq LiveIn /\ LastIn \subseteq ToHandle /\ LastDead \subseteq LiveDead
  BY DEF ToHandle, LastIn, LastDead
<1>3. LastIn \in SUBSET DOMAIN input.log /\ LastDead \in SUBSET DOMAIN dead.log
  BY <1>2, StateFacts
<1>4. /\ \A i \in DOMAIN input.log : input.log[i].retries \in Nat /\ input.log[i].job \in Jobs
      /\ \A i \in DOMAIN dead.log : dead.log[i].retries \in Nat /\ dead.log[i].job \in Jobs
  BY StateFacts DEF Entry
<1>5. ASSUME NEW i \in EarlyIn PROVE i \in DOMAIN input.log /\ Left(i) \in Nat
  <2>1. i \in DOMAIN input.log /\ input.log[i].retries < MaxRetries
    BY StateFacts DEF EarlyIn
  <2> QED BY <1>1, <1>4, <2>1 DEF Left
<1>6. ASSUME NEW j \in Jobs
      PROVE  /\ CopiesOf(input, LastIn, j) \in Nat /\ CopiesOf(dead, LastDead, j) \in Nat
             /\ Account(j) \in Nat
  <2>1. CopiesOf(input, LastIn, j) \in Nat /\ CopiesOf(dead, LastDead, j) \in Nat
    BY <1>3, StateFacts, FewerCopies
  <2> QED BY <1>1, <2>1 DEF Account
<1> QED BY <1>1, <1>2, <1>3, <1>4, <1>5, <1>6

\* Nothing new to do, but what a replay pays for.
LEMMA StillPaid ==
    ASSUME Coherent, NEW j \in Jobs, Paid(j),
           replays'[j] \in Nat, Account(j)' \in Nat,
           Account(j)' + replays[j] <= Account(j) + replays'[j],
           \A i \in Of(input', EarlyIn', j) :
              i \in Of(input, EarlyIn, j) /\ Left(i)' \in Nat /\ Left(i)' <= Left(i),
           ~Submitted(j)' => ~Submitted(j) /\ done'[j] = done[j]
    PROVE  Paid(j)'
<1>1. /\ MaxRetries \in Nat /\ replays[j] \in Nat /\ Account(j) \in Nat
      /\ \A i \in Of(input, EarlyIn, j) : Left(i) \in Nat
  BY WorkFacts DEF Of
<1>2. Account(j)' <= Budget(j)'
  BY <1>1 DEF Paid, Budget
<1>3. ASSUME NEW i \in Of(input', EarlyIn', j) PROVE Account(j)' + Left(i)' <= Budget(j)'
  <2>1. Account(j) + Left(i) <= Budget(j) /\ Left(i) \in Nat
    BY <1>1, <1>3 DEF Paid
  <2> QED BY <1>1, <1>3, <2>1 DEF Budget
<1>4. Of(input, EarlyIn, j)' = Of(input', EarlyIn', j)
  BY DEF Of
<1>5. \A i, k \in Of(input', EarlyIn', j) : i = k
  BY DEF Paid
<1>6. ~Submitted(j)' => done'[j] = 0
  BY DEF Paid
<1> QED BY <1>2, <1>3, <1>4, <1>5, <1>6 DEF Paid

\* What an entry that can be retried may still do is done, or handed on.
LEMMA PaidByEarly ==
    ASSUME Coherent, NEW j \in Jobs, Paid(j), NEW c \in Of(input, EarlyIn, j),
           replays' = replays, Account(j)' \in Nat,
           Account(j)' <= Account(j) + Left(c),
           \A i \in Of(input', EarlyIn', j) :
              Left(i)' \in Nat /\ Account(j)' + Left(i)' <= Account(j) + Left(c),
           \A i, k \in Of(input', EarlyIn', j) : i = k,
           Submitted(j)'
    PROVE  Paid(j)'
<1>1. /\ MaxRetries \in Nat /\ replays[j] \in Nat /\ Account(j) \in Nat
      /\ Left(c) \in Nat
  BY WorkFacts DEF Of
<1>2. Account(j) + Left(c) <= Budget(j)
  BY DEF Paid
<1>3. Budget(j)' = Budget(j) /\ Budget(j) \in Nat
  BY <1>1 DEF Budget
<1>4. Account(j)' <= Budget(j)'
  BY <1>1, <1>2, <1>3
<1>5. \A i \in Of(input', EarlyIn', j) : Account(j)' + Left(i)' <= Budget(j)'
  BY <1>1, <1>2, <1>3
<1>6. Of(input, EarlyIn, j)' = Of(input', EarlyIn', j)
  BY DEF Of
<1> QED BY <1>4, <1>5, <1>6 DEF Paid

\* Steps that only drop entries, or hand them on within a process.
LEMMA LessWork ==
    ASSUME RInv, WorkIsPaid,
           input'.log = input.log, dead'.log = dead.log,
           LiveIn' \subseteq LiveIn, ToHandle' \subseteq ToHandle, LiveDead' \subseteq LiveDead,
           UNCHANGED <<done, replays>>
    PROVE  WorkIsPaid'
<1>1. Coherent
  BY DEF RInv
<1> SUFFICES ASSUME NEW j \in Jobs PROVE Paid(j)'
  BY DEF WorkIsPaid
<1>2. /\ done[j] \in Nat /\ replays[j] \in Nat /\ MaxRetries \in Nat
      /\ LastIn \in SUBSET DOMAIN input.log /\ LastDead \in SUBSET DOMAIN dead.log
      /\ \A i \in DOMAIN input.log : input.log[i].retries \in Nat
      /\ \A i \in EarlyIn : i \in DOMAIN input.log
  BY <1>1, WorkFacts
<1>3. LastIn' \in SUBSET LastIn /\ LastDead' \in SUBSET LastDead /\ EarlyIn' \subseteq EarlyIn
  BY DEF LastIn, LastDead, EarlyIn, _is_terminal
<1>4. /\ CopiesOf(input, LastIn, j) \in Nat /\ CopiesOf(input', LastIn', j) \in Nat
      /\ CopiesOf(input', LastIn', j) <= CopiesOf(input, LastIn, j)
  BY <1>1, <1>2, <1>3, StateFacts, FewerCopies
<1>5. /\ CopiesOf(dead, LastDead, j) \in Nat /\ CopiesOf(dead', LastDead', j) \in Nat
      /\ CopiesOf(dead', LastDead', j) <= CopiesOf(dead, LastDead, j)
  BY <1>1, <1>2, <1>3, StateFacts, FewerCopies
<1>6. Account(j)' \in Nat /\ Account(j)' <= Account(j) /\ Account(j) \in Nat
  BY <1>2, <1>4, <1>5 DEF Account
<1>7. ASSUME NEW i \in Of(input', EarlyIn', j)
      PROVE  i \in Of(input, EarlyIn, j) /\ Left(i)' \in Nat /\ Left(i)' <= Left(i)
  <2>1. i \in EarlyIn /\ i \in EarlyIn' /\ i \in Of(input, EarlyIn, j) /\ i \in DOMAIN input.log
    BY <1>2, <1>3 DEF Of
  <2>2. input.log[i].retries \in Nat /\ input.log[i].retries < MaxRetries
    BY <1>2, <2>1 DEF EarlyIn
  <2> QED BY <1>2, <2>1, <2>2 DEF Left
<1>8. Submitted(j)' <=> Submitted(j)
  BY DEF Submitted
<1> QED BY <1>1, <1>2, <1>6, <1>7, <1>8, StillPaid DEF WorkIsPaid

\* The agent reads, acknowledges or stops.
LEMMA AgentLeavesWork ==
    ASSUME RInv, WorkIsPaid, AgentRead \/ AgentAcknowledge \/ AgentStops
    PROVE  WorkIsPaid'
<1>1. Coherent
  BY DEF RInv
<1>2. /\ UNCHANGED <<dead, sched, done, replays>> /\ LiveDead' = LiveDead
  BY DEF AgentRead, AgentAcknowledge, AgentStops, LiveDead
<1>3. CASE AgentRead
  <2>1. /\ agent.batch = <<>> /\ agent.stage = "handle"
        /\ input' = XReadGroup(EnsureGroup(input), ReadCount)
        /\ agent' = [batch |-> Delivered(EnsureGroup(input), ReadCount), stage |-> "handle"]
    BY <1>1, <1>3 DEF AgentRead, Coherent, AgentCoherent, PipelineTypeOK
  <2>2. /\ input \in Streams(Entry) /\ input.missed <= input.last
        /\ input.last <= Len(input.log) /\ ReadCount \in Nat
    BY <1>1, StateFacts, PipelineAssumption DEF Coherent, GroupsWithinLogs
  <2>3. /\ input'.log = input.log
        /\ Unread(input') \cup BatchOf(Delivered(EnsureGroup(input), ReadCount)) \subseteq Unread(input)
    BY <2>1, <2>2, ReadFacts DEF BatchOf
  <2>4. LiveIn' \subseteq LiveIn /\ ToHandle = LiveIn /\ ToHandle' = LiveIn'
    BY <2>1, <2>3 DEF LiveIn, Held, ToHandle
  <2> QED BY <1>2, <2>3, <2>4, LessWork
<1>4. CASE AgentAcknowledge \/ AgentStops
  <2>1. /\ agent.batch # <<>> /\ agent.batch \in Seq(Nat)
        /\ input' = input \/ input' = XAck(input, CurrentEntry)
        /\ \/ agent.stage = "ack" /\ agent' = [batch |-> Tail(agent.batch), stage |-> "handle"]
           \/ agent' = Waiting
    BY <1>1, <1>4, StateFacts DEF AgentAcknowledge, AgentStops
  <2>2. input'.log = input.log /\ Unread(input') = Unread(input)
    BY <1>1, <2>1, StateFacts, AckFacts
  <2>3. CASE agent.stage = "ack" /\ agent' = [batch |-> Tail(agent.batch), stage |-> "handle"]
    <3>1. \A k \in DOMAIN Tail(agent.batch) :
             /\ Tail(agent.batch)[k] # Head(agent.batch)
             /\ \E l \in DOMAIN agent.batch : Tail(agent.batch)[k] = agent.batch[l]
      BY <1>1, <2>1, TailFacts DEF Coherent, AgentCoherent
    <3>2. BatchOf(Tail(agent.batch)) \subseteq BatchOf(agent.batch) \ {Head(agent.batch)}
      BY <3>1 DEF BatchOf
    <3>3. LiveIn' \subseteq LiveIn /\ ToHandle = LiveIn /\ ToHandle' = LiveIn'
      BY <2>2, <2>3, <3>2 DEF LiveIn, Held, ToHandle, CurrentEntry
    <3> QED BY <1>2, <2>2, <3>3, LessWork
  <2>4. CASE agent' = Waiting
    <3>1. agent'.batch = <<>> /\ agent'.stage = "handle"
      BY <2>4 DEF Waiting
    <3>2. BatchOf(agent'.batch) = {}
      BY <3>1 DEF BatchOf
    <3>3. LiveIn' = Unread(input) /\ ToHandle' = Unread(input)
      BY <2>2, <3>1, <3>2 DEF LiveIn, Held, ToHandle
    <3>4. CurrentEntry \notin Unread(input)
      BY <1>1, <2>1, StateFacts DEF Unread
    <3>5. LiveIn' \subseteq LiveIn /\ ToHandle' \subseteq ToHandle
      BY <3>3, <3>4 DEF LiveIn, ToHandle
    <3> QED BY <1>2, <2>2, <3>5, LessWork
  <2> QED BY <2>1, <2>3, <2>4
<1> QED BY <1>3, <1>4

\* The scheduler reads, creates a task, marks or stops.
LEMMA SchedulerLeavesWork ==
    ASSUME RInv, WorkIsPaid,
           \/ ReadDeadLetters \/ SpawnTask \/ SchedulerStops
           \/ \E i \in sched.tasks : MarkTerminal(i)
    PROVE  WorkIsPaid'
<1>1. Coherent /\ sched \in [batch : Seq(Nat), tasks : SUBSET Nat]
  BY DEF RInv, Coherent, PipelineTypeOK
<1>2. UNCHANGED <<input, agent, done, replays>>
  BY DEF ReadDeadLetters, SpawnTask, SchedulerStops, MarkTerminal
<1>3. LiveIn' = LiveIn /\ ToHandle' = ToHandle
  BY <1>2 DEF LiveIn, Held, ToHandle, CurrentEntry
<1>4. dead'.log = dead.log /\ LiveDead' \subseteq LiveDead
  <2>1. CASE ReadDeadLetters
    <3>1. /\ dead \in Streams(Entry) /\ dead.missed <= dead.last
          /\ dead.last <= Len(dead.log) /\ ReadCount \in Nat
      BY <1>1, StateFacts, PipelineAssumption DEF Coherent, GroupsWithinLogs
    <3>2. /\ dead' = XReadGroup(EnsureGroup(dead), ReadCount)
          /\ sched'.batch = Delivered(EnsureGroup(dead), ReadCount)
          /\ sched'.tasks = sched.tasks
      BY <1>1, <2>1 DEF ReadDeadLetters
    <3>3. /\ dead'.log = dead.log
          /\ Unread(dead') \cup BatchOf(sched'.batch) \subseteq Unread(dead)
      BY <3>1, <3>2, ReadFacts DEF BatchOf
    <3> QED BY <3>2, <3>3 DEF LiveDead
  <2>2. CASE SpawnTask
    <3> DEFINE t == sched.tasks \cup {Head(sched.batch)}
    <3>1. sched.batch # <<>> /\ (dead' = dead \/ dead' = XAck(dead, Head(sched.batch)))
      BY <2>2 DEF SpawnTask
    <3>2. dead'.log = dead.log /\ Unread(dead') = Unread(dead)
      BY <1>1, <3>1, StateFacts, AckFacts
    <3>3. sched' = [batch |-> Tail(sched.batch), tasks |-> t] \/ sched' = [batch |-> <<>>, tasks |-> t]
      BY <2>2 DEF SpawnTask
    <3>4. /\ \E k \in DOMAIN sched.batch : Head(sched.batch) = sched.batch[k]
          /\ \A k \in DOMAIN Tail(sched.batch) :
                \E l \in DOMAIN sched.batch : Tail(sched.batch)[k] = sched.batch[l]
      BY <1>1, <3>1, TailFacts DEF Coherent, SchedulerCoherent
    <3>5. /\ BatchOf(Tail(sched.batch)) \subseteq BatchOf(sched.batch)
          /\ BatchOf(<<>>) \subseteq BatchOf(sched.batch)
          /\ Head(sched.batch) \in BatchOf(sched.batch)
      BY <3>4 DEF BatchOf
    <3> HIDE DEF t
    <3>6. CASE sched' = [batch |-> Tail(sched.batch), tasks |-> t]
      <4>1. sched'.batch = Tail(sched.batch) /\ sched'.tasks = t
        BY <3>6
      <4> QED BY <3>2, <3>5, <4>1 DEF LiveDead, t
    <3>7. CASE sched' = [batch |-> <<>>, tasks |-> t]
      <4>1. sched'.batch = <<>> /\ sched'.tasks = t
        BY <3>7
      <4> QED BY <3>2, <3>5, <4>1 DEF LiveDead, t
    <3> QED BY <3>3, <3>6, <3>7
  <2>3. CASE SchedulerStops
    <3>1. dead' = dead /\ sched'.batch = <<>> /\ sched'.tasks = {}
      BY <2>3 DEF SchedulerStops, NoWork
    <3>2. BatchOf(sched'.batch) = {}
      BY <3>1 DEF BatchOf
    <3> QED BY <3>1, <3>2 DEF LiveDead
  <2>4. CASE \E i \in sched.tasks : MarkTerminal(i)
    <3>1. /\ dead' = dead /\ sched'.batch = sched.batch
          /\ sched'.tasks \subseteq sched.tasks
      BY <1>1, <2>4 DEF MarkTerminal
    <3> QED BY <3>1 DEF LiveDead
  <2> QED BY <2>1, <2>2, <2>3, <2>4
<1> QED BY <1>2, <1>3, <1>4, LessWork

\* The handler fails, or does the work: an entry on its last try is out of the account, one that
\* can be retried has one try less.
LEMMA ProcessPays ==
    ASSUME RInv, WorkIsPaid, process
    PROVE  WorkIsPaid'
<1> DEFINE c == CurrentEntry
           own == input.log[CurrentEntry].job
<1>1. /\ Coherent /\ agent.batch # <<>> /\ agent.stage = "handle"
      /\ UNCHANGED <<input, dead, sched, replays>>
      /\ agent \in [batch : Seq(Nat), stage : {"handle", "failed", "ack"}]
  BY DEF process, RInv, Coherent, PipelineTypeOK
<1>2. /\ c \in DOMAIN input.log /\ c \in BatchOf(agent.batch) /\ c \notin Unread(input)
      /\ LiveDead' = LiveDead /\ LiveIn \in SUBSET DOMAIN input.log
  BY <1>1, StateFacts DEF Unread, LiveDead
<1>3. \E st \in {"failed", "ack"} : agent' = [agent EXCEPT !.stage = st]
  BY DEF process
<1>4. /\ agent'.batch = agent.batch /\ agent'.stage \in {"failed", "ack"}
  BY <1>1, <1>3
<1>5. /\ c \in ToHandle /\ ToHandle = LiveIn /\ ToHandle' = LiveIn \ {c} /\ LiveIn' \subseteq LiveIn
  BY <1>1, <1>2, <1>4 DEF ToHandle, LiveIn, Held, CurrentEntry
<1>6. CASE done' = done
  BY <1>1, <1>2, <1>5, <1>6, LessWork
<1>7. CASE done' = [done EXCEPT ![own] = @ + 1]
  <2> SUFFICES ASSUME NEW j \in Jobs PROVE Paid(j)'
    BY DEF WorkIsPaid
  <2>1. /\ done \in [Jobs -> Nat] /\ replays[j] \in Nat /\ MaxRetries \in Nat /\ own \in Jobs
        /\ LastIn \in SUBSET DOMAIN input.log
        /\ \A i \in DOMAIN input.log : input.log[i].retries \in Nat
        /\ \A i \in EarlyIn : i \in DOMAIN input.log
    BY <1>1, <1>2, WorkFacts
  <2>2. LastIn' \in SUBSET LastIn /\ c \notin LastIn' /\ LastDead' = LastDead /\ EarlyIn' \subseteq EarlyIn
    BY <1>1, <1>2, <1>5 DEF LastIn, LastDead, EarlyIn, _is_terminal
  <2>3. /\ CopiesOf(input, LastIn, j) \in Nat /\ CopiesOf(input', LastIn', j) \in Nat
        /\ CopiesOf(input', LastIn', j) <= CopiesOf(input, LastIn, j)
        /\ \A i \in LastIn \ LastIn' : input.log[i].job = j =>
              CopiesOf(input', LastIn', j) <= CopiesOf(input, LastIn, j) - 1
    BY <1>1, <2>1, <2>2, StateFacts, FewerCopies
  <2>4. CopiesOf(dead', LastDead', j) = CopiesOf(dead, LastDead, j) /\ CopiesOf(dead, LastDead, j) \in Nat
    BY <1>1, <2>2, WorkFacts
  <2>5. ASSUME NEW i \in Of(input', EarlyIn', j)
        PROVE  /\ i \in Of(input, EarlyIn, j) /\ Left(i)' \in Nat /\ Left(i)' <= Left(i)
               /\ i = c => Left(i)' = Left(i) - 1
    <3>1. i \in EarlyIn /\ i \in Of(input, EarlyIn, j) /\ i \in DOMAIN input.log
      BY <1>1, <2>1, <2>2 DEF Of
    <3>2. input.log[i].retries \in Nat /\ input.log[i].retries < MaxRetries
      BY <2>1, <3>1 DEF EarlyIn
    <3> QED BY <1>1, <1>5, <2>1, <3>1, <3>2 DEF Left
  <2>6. Submitted(j)' <=> Submitted(j)
    BY <1>1 DEF Submitted
  <2>7. Paid(j)
    BY DEF WorkIsPaid
  <2>8. CASE own # j
    <3>1. done'[j] = done[j]
      BY <1>7, <2>1, <2>8
    <3>2. Account(j)' \in Nat /\ Account(j)' <= Account(j) /\ Account(j) \in Nat
      BY <2>1, <2>3, <2>4, <3>1 DEF Account
    <3> QED BY <1>1, <2>1, <2>5, <2>6, <2>7, <3>1, <3>2, StillPaid
  <2>9. CASE own = j
    <3>1. done'[j] = done[j] + 1 /\ Submitted(j)'
      BY <1>1, <1>2, <1>7, <2>1, <2>9 DEF Submitted
    <3>2. CASE c \in LastIn
      <4>1. CopiesOf(input', LastIn', j) <= CopiesOf(input, LastIn, j) - 1
        BY <2>2, <2>3, <2>9, <3>2
      <4>2. Account(j)' \in Nat /\ Account(j)' <= Account(j) /\ Account(j) \in Nat
        BY <2>1, <2>3, <2>4, <3>1, <4>1 DEF Account
      <4> QED BY <1>1, <2>1, <2>5, <2>7, <3>1, <4>2, StillPaid
    <3>3. CASE c \notin LastIn
      <4>1. c \in Of(input, EarlyIn, j)
        BY <1>2, <1>5, <2>1, <2>9, <3>3 DEF LastIn, EarlyIn, Of
      <4>2. Left(c) \in Nat /\ Left(c) >= 1
        <5>1. input.log[c].retries \in Nat /\ input.log[c].retries < MaxRetries
          BY <1>2, <2>1, <4>1 DEF EarlyIn, Of
        <5> QED BY <1>5, <2>1, <5>1 DEF Left
      <4>3. Account(j)' \in Nat /\ Account(j)' <= Account(j) + 1 /\ Account(j) \in Nat
        BY <2>1, <2>3, <2>4, <3>1 DEF Account
      <4>4. \A i \in Of(input', EarlyIn', j) : i = c
        BY <2>5, <2>7, <4>1 DEF Paid
      <4>5. \A i \in Of(input', EarlyIn', j) :
               Left(i)' \in Nat /\ Account(j)' + Left(i)' <= Account(j) + Left(c)
        BY <2>5, <4>2, <4>3, <4>4
      <4>6. Account(j)' <= Account(j) + Left(c)
        BY <4>2, <4>3
      <4> HIDE DEF c
      <4> QED BY <1>1, <2>7, <3>1, <4>1, <4>3, <4>4, <4>5, <4>6, PaidByEarly
    <3> QED BY <3>2, <3>3
  <2> QED BY <2>8, <2>9
<1> QED BY <1>6, <1>7 DEF process

\* A publication to the agent's stream that may have failed: what is live afterwards.
LEMMA PublishedWork ==
    ASSUME Coherent, NEW e \in Entry, input' = input \/ input' = XAdd(input, e),
           agent'.batch = agent.batch, Held' \subseteq Held
    PROVE  LET n == Len(input.log) + 1
           IN  /\ n \notin DOMAIN input.log /\ LiveIn' \subseteq LiveIn \cup {n}
               /\ \A i \in LiveIn' : /\ i \in DOMAIN input'.log
                                     /\ i = n => input'.log[i] = e
                                     /\ i # n => i \in LiveIn /\ input'.log[i] = input.log[i]
               /\ \A j : Submitted(j) => Submitted(j)'
<1> DEFINE n == Len(input.log) + 1
<1>1. /\ input \in Streams(Entry) /\ input.last <= Len(input.log) /\ Len(input.log) \in Nat
      /\ input.missed <= input.last
      /\ DOMAIN input.log = 1..Len(input.log) /\ LiveIn \subseteq DOMAIN input.log
  BY StateFacts DEF Coherent, GroupsWithinLogs
<1>2. /\ DOMAIN input.log \subseteq DOMAIN input'.log
      /\ \A i \in DOMAIN input.log : input'.log[i] = input.log[i]
      /\ \A i \in DOMAIN input'.log \ DOMAIN input.log : input'.log[i] = e
      /\ Unread(input') \subseteq Unread(input) \cup {n}
  BY <1>1, PublishFacts
<1>3. n \notin DOMAIN input.log
  BY <1>1
<1>4. LiveIn' \subseteq LiveIn \cup {n} /\ LiveIn' \subseteq DOMAIN input'.log
  <2>1. Held' \subseteq DOMAIN input'.log
    BY <1>1, <1>2 DEF LiveIn
  <2> QED BY <1>2, <2>1 DEF LiveIn, Unread
<1>5. \A j : Submitted(j) => Submitted(j)'
  BY <1>2 DEF Submitted
<1> HIDE DEF n
<1>6. ASSUME NEW i \in LiveIn'
      PROVE  /\ i \in DOMAIN input'.log
             /\ i = n => input'.log[i] = e
             /\ i # n => i \in LiveIn /\ input'.log[i] = input.log[i]
  BY <1>1, <1>2, <1>3, <1>4
<1> QED BY <1>3, <1>4, <1>5, <1>6 DEF n

\* A failed entry is replaced by its retry, by its dead letter, or by nothing.
LEMMA FailurePays ==
    ASSUME RInv, WorkIsPaid, _handle_failure
    PROVE  WorkIsPaid'
<1> DEFINE c == CurrentEntry
           e == with_incremented_retry(input.log[c])
           n == Len(input.log) + 1
<1>1. /\ Coherent /\ agent.batch # <<>> /\ agent.stage = "failed"
      /\ UNCHANGED <<sched, done, replays>>
      /\ agent' = [agent EXCEPT !.stage = "ack"]
      /\ agent \in [batch : Seq(Nat), stage : {"handle", "failed", "ack"}]
  BY DEF _handle_failure, RInv, Coherent, PipelineTypeOK
<1>2. /\ agent'.batch = agent.batch /\ agent'.stage = "ack" /\ CurrentEntry' = c
      /\ c \in DOMAIN input.log /\ c \in BatchOf(agent.batch) /\ c \notin Unread(input)
      /\ LiveIn \in SUBSET DOMAIN input.log
  BY <1>1, StateFacts DEF Unread, CurrentEntry
<1>3. /\ c \in LiveIn /\ ToHandle = LiveIn \ {c} /\ ToHandle' = LiveIn'
      /\ Held' = Held \ {c} /\ LiveIn' = Unread(input') \cup (Held \ {c})
  BY <1>1, <1>2 DEF ToHandle, LiveIn, Held, CurrentEntry
<1>4. /\ done \in [Jobs -> Nat] /\ replays \in [Jobs -> Nat] /\ MaxRetries \in Nat
      /\ LastIn \in SUBSET DOMAIN input.log /\ LastDead \in SUBSET DOMAIN dead.log
      /\ \A i \in DOMAIN input.log : input.log[i].retries \in Nat
      /\ \A i \in EarlyIn : i \in DOMAIN input.log /\ Left(i) \in Nat
      /\ \A j \in Jobs : /\ CopiesOf(input, LastIn, j) \in Nat
                         /\ CopiesOf(dead, LastDead, j) \in Nat
                         /\ Account(j) \in Nat
  BY <1>1, WorkFacts
<1>5. /\ e \in Entry /\ e.job = input.log[c].job
      /\ e.retries = input.log[c].retries + 1 /\ e.retries \in Nat
  <2>1. input.log[c] \in Entry
    BY <1>1, <1>2, StateFacts
  <2> QED BY <2>1 DEF with_incremented_retry, Entry
<1>6. Submitted(e.job)
  BY <1>2, <1>5 DEF Submitted
<1>7. \/ is_retry_exhausted(e) /\ PublishTo(dead, e, dead') /\ UNCHANGED input
      \/ ~is_retry_exhausted(e) /\ PublishTo(input, e, input') /\ UNCHANGED dead
  BY DEF _handle_failure
<1> SUFFICES ASSUME NEW j \in Jobs PROVE Paid(j)'
  BY DEF WorkIsPaid
<1>8. Paid(j)
  BY DEF WorkIsPaid
<1> HIDE DEF c, e, n
<1>9. CASE is_retry_exhausted(e) /\ PublishTo(dead, e, dead') /\ UNCHANGED input
  <2>1. /\ dead' = dead \/ dead' = XAdd(dead, e)
        /\ input' = input /\ MaxRetries <= e.retries
    BY <1>9, PublishCases DEF is_retry_exhausted
  <2>2. LiveIn' = LiveIn \ {c} /\ ToHandle' = ToHandle
    BY <1>2, <1>3, <2>1 DEF LiveIn
  <2>3. LastIn' = LastIn /\ EarlyIn' = EarlyIn \ {c}
    BY <2>1, <2>2 DEF LastIn, EarlyIn
  <2>4. CopiesOf(input', LastIn', j) = CopiesOf(input, LastIn, j)
    BY <2>1, <2>3
  <2>5. \A i \in Of(input', EarlyIn', j) :
           /\ i \in Of(input, EarlyIn, j) /\ i # c
           /\ Left(i)' \in Nat /\ Left(i)' <= Left(i)
    BY <1>4, <2>1, <2>2, <2>3 DEF Of, Left
  <2>6. \A k : Submitted(k)' <=> Submitted(k)
    BY <2>1 DEF Submitted
  <2>7. /\ dead \in Streams(Entry) /\ dead.missed <= dead.last /\ dead.last <= Len(dead.log)
        /\ DOMAIN dead.log = 1..Len(dead.log) /\ Len(dead.log) \in Nat
        /\ LiveDead \subseteq DOMAIN dead.log
    BY <1>1, StateFacts DEF Coherent, GroupsWithinLogs
  <2>8. /\ DOMAIN dead.log \subseteq DOMAIN dead'.log
        /\ \A i \in DOMAIN dead.log : dead'.log[i] = dead.log[i]
        /\ \A i \in DOMAIN dead'.log \ DOMAIN dead.log : dead'.log[i] = e
        /\ Unread(dead') \subseteq Unread(dead) \cup {Len(dead.log) + 1}
    BY <1>5, <2>1, <2>7, PublishFacts
  <2>9. /\ LiveDead' \subseteq LiveDead \cup {Len(dead.log) + 1}
        /\ LiveDead' \subseteq DOMAIN dead'.log
    BY <1>1, <2>7, <2>8 DEF LiveDead, Unread
  <2>10. /\ LastDead' \subseteq LastDead \cup {Len(dead.log) + 1}
         /\ LastDead' \in SUBSET DOMAIN dead'.log
         /\ _is_terminal(e) => LastDead' \subseteq LastDead
    BY <2>7, <2>8, <2>9 DEF LastDead, _is_terminal
  <2>11. /\ CopiesOf(dead', LastDead', j) \in Nat
         /\ CopiesOf(dead', LastDead', j) <= CopiesOf(dead, LastDead, j) + 1
         /\ e.job # j => CopiesOf(dead', LastDead', j) <= CopiesOf(dead, LastDead, j)
    BY <1>4, <1>5, <2>1, <2>7, <2>10, PublishCopies
  <2>12. _is_terminal(e) => CopiesOf(dead', LastDead', j) <= CopiesOf(dead, LastDead, j)
    BY <1>4, <2>7, <2>8, <2>10, FewerCopies
  <2>13. /\ done'[j] = done[j] /\ replays'[j] = replays[j] /\ replays[j] \in Nat
         /\ done[j] \in Nat /\ Account(j)' \in Nat
    BY <1>1, <1>4, <2>4, <2>11 DEF Account
  <2>14. CASE e.job # j \/ _is_terminal(e)
    <3>1. Account(j)' <= Account(j) /\ Account(j) \in Nat
      BY <1>4, <2>4, <2>11, <2>12, <2>13, <2>14 DEF Account
    <3>2. Account(j)' + replays[j] <= Account(j) + replays'[j]
      BY <2>13, <3>1
    <3> QED BY <1>1, <1>8, <2>5, <2>6, <2>13, <3>2, StillPaid
  <2>15. CASE e.job = j /\ ~_is_terminal(e)
    <3>1. e.retries = MaxRetries /\ input.log[c].retries = MaxRetries - 1
      BY <1>2, <1>4, <1>5, <2>1, <2>15 DEF _is_terminal
    <3>2. c \in Of(input, EarlyIn, j)
      <4>1. input.log[c].retries < MaxRetries
        BY <1>4, <3>1
      <4>2. c \in EarlyIn
        BY <1>3, <4>1 DEF EarlyIn
      <4> QED BY <1>5, <2>15, <4>2 DEF Of
    <3>3. Left(c) = 1
      BY <1>3, <1>4, <3>1 DEF Left
    <3>4. Of(input', EarlyIn', j) = {}
      BY <1>8, <2>5, <3>2 DEF Paid
    <3>5. Account(j)' <= Account(j) + Left(c)
      BY <1>4, <2>4, <2>11, <2>13, <3>3 DEF Account
    <3> QED BY <1>1, <1>6, <1>8, <2>6, <2>13, <2>15, <3>2, <3>4, <3>5, PaidByEarly
  <2> QED BY <2>14, <2>15
<1>10. CASE ~is_retry_exhausted(e) /\ PublishTo(input, e, input') /\ UNCHANGED dead
  <2>1. /\ input' = input \/ input' = XAdd(input, e)
        /\ dead' = dead /\ e.retries < MaxRetries
    BY <1>4, <1>5, <1>10, PublishCases DEF is_retry_exhausted
  <2>2. Held' \subseteq Held
    BY <1>3
  <2>3. /\ n \notin DOMAIN input.log /\ LiveIn' \subseteq LiveIn \cup {n}
        /\ \A i \in LiveIn' : /\ i \in DOMAIN input'.log
                              /\ i = n => input'.log[i] = e
                              /\ i # n => i \in LiveIn /\ input'.log[i] = input.log[i]
        /\ \A k : Submitted(k) => Submitted(k)'
    BY <1>1, <1>2, <1>5, <2>1, <2>2, PublishedWork DEF n
  <2>4. \A i \in LiveIn' : i # n => i # c
    <3>1. Unread(input') \subseteq Unread(input) \cup {n}
      BY <1>1, <1>5, <2>1, StateFacts, PublishFacts DEF n, Coherent, GroupsWithinLogs
    <3> QED BY <1>2, <1>3, <3>1
  <2>5. LastIn' \in SUBSET LastIn /\ \A i \in LastIn' : input'.log[i] = input.log[i]
    BY <1>3, <1>4, <1>5, <2>1, <2>3, <2>4 DEF LastIn
  <2>6. /\ CopiesOf(input', LastIn', j) \in Nat
        /\ CopiesOf(input', LastIn', j) <= CopiesOf(input, LastIn, j)
    <3>1. \A i \in DOMAIN input.log : input'.log[i] = input.log[i]
      BY <1>1, <1>5, <2>1, StateFacts, PublishFacts DEF Coherent, GroupsWithinLogs
    <3> QED BY <1>1, <1>4, <2>5, <3>1, StateFacts, FewerCopies
  <2>7. LastDead' = LastDead
    BY <1>1, <2>1 DEF LastDead, LiveDead, _is_terminal
  <2>8. CopiesOf(dead', LastDead', j) = CopiesOf(dead, LastDead, j)
    BY <2>1, <2>7
  <2>9. /\ done'[j] = done[j] /\ replays'[j] = replays[j] /\ replays[j] \in Nat
        /\ done[j] \in Nat /\ Account(j)' \in Nat
        /\ Account(j)' <= Account(j) /\ Account(j) \in Nat
    BY <1>1, <1>4, <2>6, <2>8 DEF Account
  <2>10. ASSUME NEW i \in Of(input', EarlyIn', j), i # n
         PROVE  /\ i \in Of(input, EarlyIn, j) /\ i # c
                /\ Left(i)' \in Nat /\ Left(i)' <= Left(i)
    <3>1. i \in LiveIn' /\ input'.log[i].job = j /\ input'.log[i].retries < MaxRetries
      BY <2>10 DEF Of, EarlyIn
    <3>2. /\ i \in LiveIn /\ input'.log[i] = input.log[i] /\ i # c
          /\ input.log[i].retries \in Nat
      BY <1>2, <1>4, <2>3, <2>4, <2>10, <3>1
    <3>3. i \in ToHandle /\ i \in Of(input, EarlyIn, j)
      BY <1>3, <3>1, <3>2 DEF Of, EarlyIn
    <3> QED BY <1>4, <3>1, <3>2, <3>3 DEF Left
  <2>11. ASSUME NEW i \in Of(input', EarlyIn', j), i = n
         PROVE  /\ e.job = j /\ Left(i)' \in Nat
                /\ Left(i)' <= MaxRetries - input.log[c].retries
    <3>1. i \in LiveIn' /\ input'.log[i] = e /\ e.job = j
      BY <2>3, <2>11 DEF Of, EarlyIn
    <3>2. Left(i)' = MaxRetries - e.retries + 1
      BY <1>3, <3>1 DEF Left
    <3> QED BY <1>2, <1>4, <1>5, <2>1, <3>1, <3>2
  <2>12. CASE e.job # j
    <3>1. Account(j)' + replays[j] <= Account(j) + replays'[j]
      BY <2>9
    <3>2. \A i \in Of(input', EarlyIn', j) :
             i \in Of(input, EarlyIn, j) /\ Left(i)' \in Nat /\ Left(i)' <= Left(i)
      BY <2>10, <2>11, <2>12
    <3> QED BY <1>1, <1>8, <2>3, <2>9, <3>1, <3>2, StillPaid
  <2>13. CASE e.job = j
    <3>1. c \in Of(input, EarlyIn, j)
      <4>1. input.log[c].retries \in Nat /\ input.log[c].retries < MaxRetries
        BY <1>2, <1>4, <1>5, <2>1
      <4>2. c \in EarlyIn
        BY <1>3, <4>1 DEF EarlyIn
      <4> QED BY <1>5, <2>13, <4>2 DEF Of
    <3>2. Left(c) = MaxRetries - input.log[c].retries /\ Left(c) \in Nat
      BY <1>2, <1>3, <1>4, <3>1 DEF Left, Of
    <3>3. \A i \in Of(input', EarlyIn', j) : i = n
      BY <1>8, <2>10, <3>1 DEF Paid
    <3>4. \A i \in Of(input', EarlyIn', j) :
             Left(i)' \in Nat /\ Account(j)' + Left(i)' <= Account(j) + Left(c)
      BY <2>9, <2>11, <3>2, <3>3
    <3>5. Account(j)' <= Account(j) + Left(c)
      BY <2>9, <3>2
    <3>6. Submitted(j)'
      BY <1>6, <2>3, <2>13
    <3> QED BY <1>1, <1>8, <2>9, <3>1, <3>3, <3>4, <3>5, <3>6, PaidByEarly
  <2> QED BY <2>12, <2>13
<1> QED BY <1>7, <1>9, <1>10

\* A job begins with the whole budget.
LEMMA SubmitPays ==
    ASSUME RInv, WorkIsPaid, NEW k \in Jobs, Submit(k)
    PROVE  WorkIsPaid'
<1> DEFINE e == [job |-> k, retries |-> 0]
           n == Len(input.log) + 1
<1>1. /\ Coherent /\ ~Submitted(k) /\ input' = XAdd(input, e)
      /\ UNCHANGED <<dead, terminal, agent, sched, done, replays>>
  BY DEF Submit, RInv, Submitted
<1>2. e \in Entry /\ e.job = k /\ e.retries = 0
  BY DEF Entry
<1>3. /\ done \in [Jobs -> Nat] /\ replays \in [Jobs -> Nat] /\ MaxRetries \in Nat
      /\ MaxRetries # 0
      /\ LastIn \in SUBSET DOMAIN input.log /\ LastDead \in SUBSET DOMAIN dead.log
      /\ \A i \in DOMAIN input.log : input.log[i].retries \in Nat
      /\ \A j \in Jobs : /\ CopiesOf(input, LastIn, j) \in Nat
                         /\ CopiesOf(dead, LastDead, j) \in Nat
                         /\ Account(j) \in Nat
  BY <1>1, WorkFacts, PipelineAssumption
<1> HIDE DEF e, n
<1>4. Held' = Held /\ agent'.batch = agent.batch /\ LastDead' = LastDead
  BY <1>1 DEF Held, CurrentEntry, LastDead, LiveDead, _is_terminal
<1>5. /\ n \notin DOMAIN input.log /\ LiveIn' \subseteq LiveIn \cup {n}
      /\ \A i \in LiveIn' : /\ i \in DOMAIN input'.log
                            /\ i = n => input'.log[i] = e
                            /\ i # n => i \in LiveIn /\ input'.log[i] = input.log[i]
      /\ \A j : Submitted(j) => Submitted(j)'
  BY <1>1, <1>2, <1>4, PublishedWork DEF n
<1>6. /\ \A i \in DOMAIN input.log : input'.log[i] = input.log[i]
      /\ input'.log[n] = e /\ n \in DOMAIN input'.log
  BY <1>1, <1>2, StateFacts, AddFacts DEF n
<1>7. ToHandle' \subseteq LiveIn' /\ \A i \in ToHandle' : i # n => i \in ToHandle
  BY <1>1, <1>5 DEF ToHandle, CurrentEntry
<1>8. LastIn' \in SUBSET LastIn
  BY <1>2, <1>3, <1>5, <1>7 DEF LastIn
<1> SUFFICES ASSUME NEW j \in Jobs PROVE Paid(j)'
  BY DEF WorkIsPaid
<1>9. /\ CopiesOf(input', LastIn', j) \in Nat
      /\ CopiesOf(input', LastIn', j) <= CopiesOf(input, LastIn, j)
  BY <1>1, <1>3, <1>6, <1>8, StateFacts, FewerCopies
<1>10. /\ done'[j] = done[j] /\ replays'[j] = replays[j] /\ replays[j] \in Nat /\ done[j] \in Nat
       /\ Account(j)' \in Nat /\ Account(j)' <= Account(j) /\ Account(j) \in Nat
  BY <1>1, <1>3, <1>4, <1>9 DEF Account
<1>11. Paid(j)
  BY DEF WorkIsPaid
<1>12. CASE j # k
  <2>1. ASSUME NEW i \in Of(input', EarlyIn', j)
        PROVE  i \in Of(input, EarlyIn, j) /\ Left(i)' \in Nat /\ Left(i)' <= Left(i)
    <3>1. i \in LiveIn' /\ input'.log[i].job = j /\ input'.log[i].retries < MaxRetries
      BY <2>1 DEF Of, EarlyIn
    <3>2. i # n /\ i \in LiveIn /\ input'.log[i] = input.log[i] /\ input.log[i].retries \in Nat
      BY <1>1, <1>2, <1>3, <1>5, <1>12, <3>1, StateFacts
    <3> QED BY <1>3, <1>7, <3>1, <3>2 DEF Of, EarlyIn, Left
  <2>2. Submitted(j) => Submitted(j)'
    BY <1>5
  <2>3. Account(j)' + replays[j] <= Account(j) + replays'[j]
    BY <1>10
  <2> QED BY <1>1, <1>10, <1>11, <2>1, <2>2, <2>3, StillPaid
<1>13. CASE j = k
  <2>1. Of(input, LastIn, j) = {}
    BY <1>1, <1>3, <1>13 DEF Of, Submitted
  <2>2. Of(dead, LastDead, j) = {}
    BY <1>1, <1>3, <1>13 DEF Of, Coherent, DeadWereSubmitted
  <2>3. Account(j) = 0 /\ Account(j)' = 0
    <3>1. Cardinality({}) = 0
      BY FS_EmptySet
    <3>2. CopiesOf(input, LastIn, j) = 0 /\ CopiesOf(dead, LastDead, j) = 0 /\ done[j] = 0
      BY <1>1, <1>11, <1>13, <2>1, <2>2, <3>1 DEF CopiesOf, Paid
    <3> QED BY <1>10, <3>2 DEF Account
  <2>4. ASSUME NEW i \in Of(input', EarlyIn', j)
        PROVE  i = n /\ Left(i)' \in Nat /\ Left(i)' <= MaxRetries + 1
    <3>1. i \in LiveIn' /\ input'.log[i].job = j
      BY <2>4 DEF Of, EarlyIn
    <3>2. i = n
      BY <1>1, <1>5, <1>13, <3>1, StateFacts DEF Submitted
    <3>3. input'.log[i].retries = 0
      BY <1>2, <1>6, <3>2
    <3> QED BY <1>3, <3>2, <3>3 DEF Left
  <2>5. Budget(j)' = MaxRetries + 1 + replays[j]
    BY <1>10 DEF Budget
  <2>6. Submitted(j)'
    BY <1>2, <1>6, <1>13 DEF Submitted
  <2>7. Of(input, EarlyIn, j)' = Of(input', EarlyIn', j)
    BY DEF Of
  <2>8. \A i \in Of(input', EarlyIn', j) : Account(j)' + Left(i)' <= Budget(j)'
    BY <1>3, <1>10, <2>3, <2>4, <2>5
  <2>9. Account(j)' <= Budget(j)'
    BY <1>3, <1>10, <2>3, <2>5
  <2> QED BY <2>4, <2>6, <2>7, <2>8, <2>9 DEF Paid
<1> QED BY <1>12, <1>13

\* A dead letter that is requeued becomes the last try it stood for; a replay pays for one more.
LEMMA RequeuePays ==
    ASSUME RInv, RetriesAreBounded, WorkIsPaid,
           (\E i \in sched.tasks : Requeue(i)) \/ \E i \in DOMAIN dead.log : replay(i)
    PROVE  WorkIsPaid'
<1>1. Coherent /\ sched \in [batch : Seq(Nat), tasks : SUBSET Nat]
  BY DEF RInv, Coherent, PipelineTypeOK
<1>2. PICK t \in DOMAIN dead.log : \/ t \in sched.tasks /\ Requeue(t)
                                   \/ replay(t)
  BY <1>1, StateFacts DEF Coherent, SchedulerCoherent
<1> DEFINE e == dead.log[t]
           n == Len(input.log) + 1
<1>3. /\ e \in Entry /\ e.job \in Jobs /\ e.retries \in Nat /\ MaxRetries <= e.retries
      /\ Submitted(e.job)
  BY <1>1, StateFacts DEF Entry, RetriesAreBounded, Coherent, DeadWereSubmitted
<1>4. /\ input' = input \/ input' = XAdd(input, e)
      /\ UNCHANGED <<dead, terminal, agent, done>>
  <2>1. CASE Requeue(t)
    <3>1. PublishTo(input, e, input') /\ UNCHANGED <<dead, terminal, agent, done>>
      BY <2>1 DEF Requeue, _build_requeue_event
    <3> QED BY <3>1, PublishCases
  <2>2. CASE replay(t)
    BY <2>2 DEF replay, _build_requeue_event
  <2> QED BY <1>2, <2>1, <2>2
<1>5. \/ /\ t \in sched.tasks /\ ~_is_terminal(e)
         /\ sched' = [sched EXCEPT !.tasks = @ \ {t}] /\ replays' = replays
      \/ sched' = sched /\ replays' = [replays EXCEPT ![e.job] = @ + 1]
  BY <1>2 DEF Requeue, replay
<1>6. /\ done \in [Jobs -> Nat] /\ replays \in [Jobs -> Nat] /\ MaxRetries \in Nat
      /\ LastIn \in SUBSET DOMAIN input.log /\ LastDead \in SUBSET DOMAIN dead.log
      /\ \A i \in DOMAIN input.log : input.log[i].retries \in Nat
      /\ \A j \in Jobs : /\ CopiesOf(input, LastIn, j) \in Nat
                         /\ CopiesOf(dead, LastDead, j) \in Nat
                         /\ Account(j) \in Nat
  BY <1>1, WorkFacts
<1> HIDE DEF e, n
<1>7. Held' = Held /\ agent'.batch = agent.batch
  BY <1>4 DEF Held, CurrentEntry
<1>8. /\ n \notin DOMAIN input.log /\ LiveIn' \subseteq LiveIn \cup {n}
      /\ \A i \in LiveIn' : /\ i \in DOMAIN input'.log
                            /\ i = n => input'.log[i] = e
                            /\ i # n => i \in LiveIn /\ input'.log[i] = input.log[i]
      /\ \A j : Submitted(j) => Submitted(j)'
  BY <1>1, <1>3, <1>4, <1>7, PublishedWork DEF n
<1>9. ToHandle' \subseteq LiveIn' /\ \A i \in ToHandle' : i # n => i \in ToHandle
  BY <1>4, <1>8 DEF ToHandle, CurrentEntry
<1>10. LastIn' \in SUBSET DOMAIN input'.log /\ LastIn' \subseteq LastIn \cup {n}
  BY <1>8, <1>9 DEF LastIn
<1>11. /\ LastDead' \in SUBSET LastDead
       /\ t \in sched.tasks /\ t \notin sched'.tasks => t \in LastDead \ LastDead'
  <2>1. sched'.batch = sched.batch /\ sched'.tasks \subseteq sched.tasks
    BY <1>1, <1>5
  <2>2. LiveDead' \subseteq LiveDead
    BY <1>4, <2>1 DEF LiveDead
  <2>3. LastDead' \subseteq LastDead
    BY <1>4, <2>2 DEF LastDead, _is_terminal
  <2>4. ASSUME t \in sched.tasks, t \notin sched'.tasks
        PROVE  t \in LastDead /\ t \notin LastDead'
    <3>1. ~_is_terminal(dead.log[t])
      BY <1>5, <2>4 DEF e
    <3>2. t \notin Unread(dead) /\ t \notin BatchOf(sched.batch)
      <4>1. t \in 1..dead.last /\ dead.last \in Nat
        BY <1>1, <2>4, StateFacts DEF Coherent, SchedulerCoherent
      <4>2. t \notin Unread(dead)
        BY <4>1 DEF Unread
      <4>3. t \notin BatchOf(sched.batch)
        BY <1>1, <2>4 DEF Coherent, SchedulerCoherent, BatchOf
      <4> QED BY <4>2, <4>3
    <3>3. t \in LiveDead /\ t \notin LiveDead'
      BY <1>4, <2>1, <2>4, <3>2 DEF LiveDead
    <3> QED BY <3>1, <3>3 DEF LastDead
  <2> QED BY <2>3, <2>4
<1> SUFFICES ASSUME NEW j \in Jobs PROVE Paid(j)'
  BY DEF WorkIsPaid
<1>12. /\ CopiesOf(input', LastIn', j) \in Nat
       /\ CopiesOf(input', LastIn', j) <= CopiesOf(input, LastIn, j) + 1
       /\ e.job # j => CopiesOf(input', LastIn', j) <= CopiesOf(input, LastIn, j)
  BY <1>1, <1>3, <1>4, <1>6, <1>10, StateFacts, PublishCopies DEF n
<1>13. /\ CopiesOf(dead', LastDead', j) \in Nat
       /\ CopiesOf(dead', LastDead', j) <= CopiesOf(dead, LastDead, j)
       /\ \A i \in LastDead \ LastDead' : dead.log[i].job = j =>
             CopiesOf(dead', LastDead', j) <= CopiesOf(dead, LastDead, j) - 1
  BY <1>1, <1>4, <1>6, <1>11, StateFacts, FewerCopies
<1>14. \/ e.job # j /\ replays'[j] = replays[j]
       \/ e.job = j /\ replays'[j] = replays[j] + 1
       \/ /\ e.job = j /\ replays'[j] = replays[j]
          /\ CopiesOf(dead', LastDead', j) <= CopiesOf(dead, LastDead, j) - 1
  <2>1. CASE /\ t \in sched.tasks /\ sched' = [sched EXCEPT !.tasks = @ \ {t}]
             /\ replays' = replays
    <3>1. t \notin sched'.tasks
      BY <1>1, <2>1
    <3> QED BY <1>11, <1>13, <2>1, <3>1 DEF e
  <2>2. CASE replays' = [replays EXCEPT ![e.job] = @ + 1]
    BY <1>3, <1>6, <2>2
  <2> QED BY <1>5, <2>1, <2>2
<1>15. /\ done'[j] = done[j] /\ done[j] \in Nat /\ replays[j] \in Nat /\ replays'[j] \in Nat
       /\ Account(j)' \in Nat /\ Account(j)' + replays[j] <= Account(j) + replays'[j]
  BY <1>4, <1>6, <1>12, <1>13, <1>14 DEF Account
<1>16. ASSUME NEW i \in Of(input', EarlyIn', j)
       PROVE  i \in Of(input, EarlyIn, j) /\ Left(i)' \in Nat /\ Left(i)' <= Left(i)
  <2>1. i \in LiveIn' /\ input'.log[i].job = j /\ input'.log[i].retries < MaxRetries
    BY <1>16 DEF Of, EarlyIn
  <2>2. i # n
    <3>1. i = n => input'.log[i].retries = e.retries
      BY <1>8, <2>1
    <3> QED BY <1>3, <1>6, <2>1, <3>1
  <2>3. i \in LiveIn /\ input'.log[i] = input.log[i] /\ input.log[i].retries \in Nat
    BY <1>1, <1>6, <1>8, <2>1, <2>2, StateFacts
  <2> QED BY <1>6, <1>9, <2>1, <2>2, <2>3 DEF Of, EarlyIn, Left
<1> QED BY <1>1, <1>8, <1>15, <1>16, StillPaid DEF WorkIsPaid

LEMMA NextPays ==
    ASSUME RInv, RetriesAreBounded, WorkIsPaid, [PipelineNext]_(pipelineVars)
    PROVE  WorkIsPaid'
<1>1. CASE UNCHANGED pipelineVars
  <2>1. UNCHANGED <<input, dead, agent, sched, done, replays>>
    BY <1>1 DEF pipelineVars
  <2>2. LiveIn' = LiveIn /\ ToHandle' = ToHandle /\ LiveDead' = LiveDead
    BY <2>1 DEF LiveIn, Held, ToHandle, LiveDead, CurrentEntry
  <2> QED BY <2>1, <2>2, LessWork
<1> QED BY <1>1, SubmitPays, ProcessPays, FailurePays, AgentLeavesWork, SchedulerLeavesWork,
           RequeuePays DEF PipelineNext, AgentStep, SchedulerStep

\* However often processes stop and calls raise, the handler of an agent (process) does the work of a
\* job at most max_retries + 1 times, and once more per manual replay: no way a publication, an
\* acknowledgement or a scheduler's task can end buys a further try.
THEOREM WorkEnds == PipelineSpec => []WorkIsBounded
<1>1. PipelineInit => RetriesAreBounded /\ WorkIsPaid
  <2> SUFFICES ASSUME PipelineInit PROVE RetriesAreBounded /\ WorkIsPaid
    OBVIOUS
  <2>1. /\ input.log = <<>> /\ dead.log = <<>> /\ DOMAIN input.log = {} /\ DOMAIN dead.log = {}
        /\ \A j \in Jobs : done[j] = 0 /\ replays[j] = 0
    BY DEF PipelineInit, EmptyStream
  <2>2. RetriesAreBounded
    BY <2>1 DEF RetriesAreBounded
  <2>3. Coherent
    BY InitRInv DEF RInv
  <2>4. LastIn = {} /\ LastDead = {} /\ EarlyIn = {}
    BY <2>1, <2>3, StateFacts, WorkFacts
  <2>5. ASSUME NEW j \in Jobs PROVE Paid(j)
    <3>1. Of(input, LastIn, j) = {} /\ Of(dead, LastDead, j) = {} /\ Of(input, EarlyIn, j) = {}
      BY <2>4 DEF Of
    <3>2. CopiesOf(input, LastIn, j) = 0 /\ CopiesOf(dead, LastDead, j) = 0
      BY <3>1, FS_EmptySet DEF CopiesOf
    <3>3. Account(j) = 0 /\ Budget(j) = MaxRetries + 1 /\ MaxRetries \in Nat
      BY <2>1, <3>2, PipelineAssumption DEF Account, Budget
    <3> QED BY <2>1, <3>1, <3>3 DEF Paid
  <2> QED BY <2>2, <2>5 DEF WorkIsPaid
<1>2. RInv /\ RetriesAreBounded /\ WorkIsPaid /\ [PipelineNext]_(pipelineVars)
         => RetriesAreBounded' /\ WorkIsPaid'
  BY NextRetries, NextPays
<1>3. RInv /\ WorkIsPaid => WorkIsBounded
  <2> SUFFICES ASSUME RInv, WorkIsPaid, NEW j \in Jobs
               PROVE  done[j] <= MaxRetries + 1 + replays[j]
    BY DEF WorkIsBounded
  <2>1. /\ done[j] \in Nat /\ replays[j] \in Nat /\ MaxRetries \in Nat
        /\ CopiesOf(input, LastIn, j) \in Nat /\ CopiesOf(dead, LastDead, j) \in Nat
    BY WorkFacts DEF RInv
  <2> QED BY <2>1 DEF WorkIsPaid, Paid, Account, Budget
<1> QED BY <1>1, <1>2, <1>3, PipelineInvariant, PTL DEF PipelineSpec

=============================================================================
