------------------------ MODULE OutboxRelay_proofs ------------------------
(***************************************************************************)
(* Machine-checked proofs about OutboxRelay, for any set of rows, any      *)
(* number of relays, any backoff schedule and any number of crashes and    *)
(* replays; and, in the second part, about ClarificationLifecycle, whose   *)
(* events the relay delivers, for any tasks, requests and pollers.         *)
(***************************************************************************)
EXTENDS OutboxRelay, ClarificationLifecycle, TLAPS

\* A relay holds a row exactly while it is inside a transaction, and never an
\* orchestrator command.
RelayCoherent ==
    \A r \in Relays :
        /\ relay[r].pc = "idle" <=> relay[r].row = NoRow
        /\ relay[r].row \notin CommandRows

\* A relay that believes its XADD succeeded has a copy in the stream.
OkWasDelivered ==
    \A r \in Relays : relay[r].pc = "ok" => landed[relay[r].row] > 0

AbsentUntouched ==
    \A e \in Rows : outbox[e].status = "absent" => landed[e] = 0

\* A relay's publish of row e has ended and its outcome is not yet committed.
Uncommitted(e) == \E r \in Relays : relay[r].row = e /\ relay[r].pc \in {"ok", "failed"}

\* Without a published mark and without an uncommitted outcome, every copy is
\* paid for by a recorded attempt or a crash.
CopiesAccounted ==
    \A e \in Rows :
        /\ landed[e] <= outbox[e].attempts + crashes + 1
        /\ (outbox[e].status # "published" /\ ~Uncommitted(e)) =>
               landed[e] <= outbox[e].attempts + crashes

\* The time a row has lived, plus what it still has to wait, covers the
\* backoffs of the attempts it has made.
Waited(row) ==
    LET wait == IF row.avail > 0 THEN row.avail ELSE 0
        n    == IF row.attempts < Len(RETRY_BACKOFF) THEN row.attempts
                ELSE Len(RETRY_BACKOFF)
    IN  row.age + wait >= TotalWait[n]

ScheduleRespected ==
    \A e \in Rows :
        /\ outbox[e].status # "absent" => Waited(outbox[e])
        /\ outbox[e].status = "dead" =>
              /\ outbox[e].attempts >= MAX_PUBLISH_ATTEMPTS
              /\ outbox[e].age >= TotalWait[Len(RETRY_BACKOFF)]

IInv ==
    /\ TypeOK
    /\ RelayCoherent
    /\ ClaimIsExclusive
    /\ OkWasDelivered
    /\ AbsentUntouched
    /\ PublishedWasDelivered
    /\ CopiesAccounted
    /\ ScheduleRespected

LEMMA ScheduleFacts ==
    /\ Len(RETRY_BACKOFF) \in Nat
    /\ \A n \in 1..Len(RETRY_BACKOFF) : RETRY_BACKOFF[n] \in Nat \ {0}
    /\ \A n \in 0..Len(RETRY_BACKOFF) : TotalWait[n] \in Nat
    /\ \A n \in 1..Len(RETRY_BACKOFF) :
          TotalWait[n] = TotalWait[n-1] + RETRY_BACKOFF[n]
<1>1. RETRY_BACKOFF \in Seq(Nat \ {0})
  BY OutboxAssumption
<1>2. Len(RETRY_BACKOFF) \in Nat
  BY <1>1
<1>3. \A n \in 1..Len(RETRY_BACKOFF) : RETRY_BACKOFF[n] \in Nat \ {0}
  BY <1>1
<1>4. \A n \in 0..Len(RETRY_BACKOFF) : TotalWait[n] \in Nat
  BY OutboxAssumption
<1>5. \A n \in 1..Len(RETRY_BACKOFF) :
        TotalWait[n] = TotalWait[n-1] + RETRY_BACKOFF[n]
  BY OutboxAssumption
<1> QED
  BY <1>2, <1>3, <1>4, <1>5

\* The n-th backoff is what the schedule adds between n - 1 and n failures.
LEMMA NextWait ==
    ASSUME NEW n \in Nat, n < Len(RETRY_BACKOFF)
    PROVE  /\ TotalWait[n] \in Nat
           /\ RETRY_BACKOFF[n + 1] \in Nat
           /\ TotalWait[n + 1] = TotalWait[n] + RETRY_BACKOFF[n + 1]
<1>1. n \in 0..Len(RETRY_BACKOFF) /\ n + 1 \in 1..Len(RETRY_BACKOFF) /\ (n + 1) - 1 = n
  BY ScheduleFacts
<1>2. TotalWait[n + 1] = TotalWait[(n + 1) - 1] + RETRY_BACKOFF[n + 1]
  BY <1>1, ScheduleFacts
<1> QED
  BY <1>1, <1>2, ScheduleFacts

\* A row whose wait is over has lived through the backoffs of its attempts.
LEMMA WaitIsOver ==
    ASSUME NEW row \in RowState, row.avail <= 0, Waited(row)
    PROVE  /\ row.attempts < Len(RETRY_BACKOFF) => row.age >= TotalWait[row.attempts]
           /\ row.attempts >= Len(RETRY_BACKOFF) =>
                  row.age >= TotalWait[Len(RETRY_BACKOFF)]
<1>1. row.attempts \in Nat /\ row.age \in Nat /\ row.avail \in Int
  BY DEF RowState
<1>2. \A n \in 0..Len(RETRY_BACKOFF) : TotalWait[n] \in Nat
  BY ScheduleFacts
<1> QED
  BY <1>1, <1>2, ScheduleFacts DEF Waited

\* One more failed attempt keeps the accounting of the schedule: the row then
\* waits for the backoff it has just been given.
LEMMA AfterFailure ==
    ASSUME NEW row \in RowState, NEW next \in RowState,
           row.avail <= 0, Waited(row), row.attempts < Len(RETRY_BACKOFF),
           next.attempts = row.attempts + 1,
           next.avail = RETRY_BACKOFF[row.attempts + 1],
           next.age = row.age
    PROVE  Waited(next)
<1> DEFINE n == row.attempts
<1>1. n \in Nat /\ row.age \in Nat /\ Len(RETRY_BACKOFF) \in Nat
  BY ScheduleFacts DEF RowState
<1>2. row.age >= TotalWait[n]
  BY WaitIsOver
<1>3. /\ TotalWait[n] \in Nat /\ RETRY_BACKOFF[n + 1] \in Nat
      /\ TotalWait[n + 1] = TotalWait[n] + RETRY_BACKOFF[n + 1]
  BY <1>1, NextWait
<1>4. RETRY_BACKOFF[n + 1] > 0
  <2>1. n + 1 \in 1..Len(RETRY_BACKOFF)
    BY <1>1
  <2> QED
    BY <2>1, ScheduleFacts
<1>5. next.avail > 0 /\ next.age + next.avail >= TotalWait[n + 1]
  BY <1>1, <1>2, <1>3, <1>4
<1>6. (IF next.attempts < Len(RETRY_BACKOFF) THEN next.attempts
       ELSE Len(RETRY_BACKOFF)) = n + 1
  BY <1>1
<1> HIDE DEF n
<1> QED
  BY <1>5, <1>6 DEF Waited

\* Time passing trades a unit of wait for a unit of age; saturation at AgeCap
\* loses nothing, since AgeCap covers the schedule.
LEMMA OlderWaited ==
    ASSUME NEW row \in RowState, row.status # "absent", Waited(row)
    PROVE  Waited(Older(row))
<1> DEFINE n == IF row.attempts < Len(RETRY_BACKOFF) THEN row.attempts
                ELSE Len(RETRY_BACKOFF)
           old == Older(row)
<1>1. row.attempts \in Nat /\ row.age \in Nat /\ row.avail \in Int
  BY DEF RowState
<1>2. n \in 0..Len(RETRY_BACKOFF)
  BY <1>1, ScheduleFacts
<1>3. TotalWait[n] \in Nat /\ AgeCap >= TotalWait[n] /\ AgeCap \in Nat
  BY <1>2, ScheduleFacts, OutboxAssumption
<1>4. /\ old.attempts = row.attempts
      /\ old.age = IF row.age < AgeCap THEN row.age + 1 ELSE row.age
      /\ old.avail = IF row.avail > -AgeCap THEN row.avail - 1 ELSE row.avail
  BY DEF Older
<1>5. row.age + (IF row.avail > 0 THEN row.avail ELSE 0) >= TotalWait[n]
  BY DEF Waited
<1>6. old.age + (IF old.avail > 0 THEN old.avail ELSE 0) >= TotalWait[n]
  <2> HIDE DEF n, old
  <2> QED
    BY <1>1, <1>3, <1>4, <1>5
<1>7. n = IF old.attempts < Len(RETRY_BACKOFF) THEN old.attempts
          ELSE Len(RETRY_BACKOFF)
  BY <1>4
<1> HIDE DEF n, old
<1>8. Waited(old)
  BY <1>6, <1>7 DEF Waited
<1> QED
  BY <1>8 DEF old

LEMMA InitIInv == Init => IInv
<1> SUFFICES ASSUME Init PROVE IInv
  OBVIOUS
<1> USE OutboxAssumption DEF Init, Idle
<1>1. TypeOK
  BY DEF TypeOK, RowState, RelayState
<1>2. RelayCoherent /\ ClaimIsExclusive /\ OkWasDelivered
  BY DEF RelayCoherent, ClaimIsExclusive, OkWasDelivered
<1>3. AbsentUntouched /\ PublishedWasDelivered
  BY DEF AbsentUntouched, PublishedWasDelivered
<1>4. CopiesAccounted
  BY DEF CopiesAccounted
<1>5. ScheduleRespected
  BY DEF ScheduleRespected
<1> QED
  BY <1>1, <1>2, <1>3, <1>4, <1>5 DEF IInv
LEMMA StepIInv == IInv /\ [Next]_vars => IInv'
<1> SUFFICES ASSUME IInv, [Next]_vars PROVE IInv'
  OBVIOUS
<1> USE OutboxAssumption, ScheduleFacts DEF IInv, TypeOK, RowState, RelayState
<1>1. ASSUME NEW e \in Rows, Insert(e) PROVE IInv'
  <2> USE <1>1 DEF Insert
  <2>1. TypeOK'
    BY DEF RelayCoherent
  <2>2. RelayCoherent' /\ ClaimIsExclusive'
    BY DEF RelayCoherent, ClaimIsExclusive
  <2>3. OkWasDelivered' /\ AbsentUntouched' /\ PublishedWasDelivered'
    BY DEF OkWasDelivered, AbsentUntouched, PublishedWasDelivered, RelayCoherent, ClaimIsExclusive
  <2>4. CopiesAccounted'
    BY DEF CopiesAccounted, Uncommitted, AbsentUntouched, RelayCoherent, ClaimIsExclusive
  <2>5. ScheduleRespected'
    BY DEF ScheduleRespected, Waited, MAX_PUBLISH_ATTEMPTS, RelayCoherent, ClaimIsExclusive
  <2> QED
    BY <2>1, <2>2, <2>3, <2>4, <2>5
<1>2. ASSUME NEW e \in Rows, replay_dead(e) PROVE IInv'
  <2> USE <1>2 DEF replay_dead, plan_replay_state
  <2>1. TypeOK'
    BY DEF RelayCoherent
  <2>2. RelayCoherent' /\ ClaimIsExclusive'
    BY DEF RelayCoherent, ClaimIsExclusive
  <2>3. OkWasDelivered' /\ AbsentUntouched' /\ PublishedWasDelivered'
    BY DEF OkWasDelivered, AbsentUntouched, PublishedWasDelivered, RelayCoherent, ClaimIsExclusive
  <2>4. CopiesAccounted'
    BY DEF CopiesAccounted, Uncommitted, AbsentUntouched, RelayCoherent, ClaimIsExclusive
  <2>5. ScheduleRespected'
    BY DEF ScheduleRespected, Waited, MAX_PUBLISH_ATTEMPTS, RelayCoherent, ClaimIsExclusive
  <2> QED
    BY <2>1, <2>2, <2>3, <2>4, <2>5
<1>3. ASSUME NEW r \in Relays, Claim(r) PROVE IInv'
  <2> USE <1>3 DEF Claim, Claimable, Locked
  <2>1. TypeOK'
    BY DEF RelayCoherent
  <2>2. RelayCoherent' /\ ClaimIsExclusive'
    BY DEF RelayCoherent, ClaimIsExclusive
  <2>3. OkWasDelivered' /\ AbsentUntouched' /\ PublishedWasDelivered'
    BY DEF OkWasDelivered, AbsentUntouched, PublishedWasDelivered, RelayCoherent, ClaimIsExclusive
  <2>4. CopiesAccounted'
    BY DEF CopiesAccounted, Uncommitted, AbsentUntouched, RelayCoherent, ClaimIsExclusive
  <2>5. ScheduleRespected'
    BY DEF ScheduleRespected, Waited, MAX_PUBLISH_ATTEMPTS, RelayCoherent, ClaimIsExclusive
  <2> QED
    BY <2>1, <2>2, <2>3, <2>4, <2>5
<1>4. ASSUME NEW r \in Relays, PublishOk(r) PROVE IInv'
  <2> USE <1>4 DEF PublishOk
  <2>0. relay[r].row \in Rows
    BY DEF RelayCoherent
  <2>1. TypeOK'
    <3>1. relay' \in [Relays -> RelayState]
      OBVIOUS
    <3>2. landed' \in [Rows -> Nat]
      BY <2>0
    <3> QED
      BY <3>1, <3>2
  <2>2. RelayCoherent' /\ ClaimIsExclusive'
    BY DEF RelayCoherent, ClaimIsExclusive
  <2>3. OkWasDelivered' /\ AbsentUntouched' /\ PublishedWasDelivered'
    BY DEF OkWasDelivered, AbsentUntouched, PublishedWasDelivered, RelayCoherent, ClaimIsExclusive
  <2>4. CopiesAccounted'
    <3> SUFFICES ASSUME NEW f \in Rows
                 PROVE  /\ landed'[f] <= outbox'[f].attempts + crashes' + 1
                        /\ (outbox'[f].status # "published" /\ ~Uncommitted(f)') =>
                               landed'[f] <= outbox'[f].attempts + crashes'
      BY DEF CopiesAccounted
    <3>1. CASE f = relay[r].row
      <4>1. outbox[f].status = "pending" /\ ~Uncommitted(f)
        BY <3>1, <2>0 DEF ClaimIsExclusive, RelayCoherent, Uncommitted
      <4>2. landed[f] <= outbox[f].attempts + crashes
        BY <4>1 DEF CopiesAccounted
      <4>3. Uncommitted(f)'
        BY <3>1 DEF Uncommitted
      <4> QED
        BY <4>2, <4>3, <3>1, <2>0
    <3>2. CASE f # relay[r].row
      <4>1. landed'[f] = landed[f] /\ outbox' = outbox /\ crashes' = crashes
        BY <3>2, <2>0
      <4>2. Uncommitted(f)' <=> Uncommitted(f)
        BY <3>2 DEF Uncommitted
      <4> QED
        BY <4>1, <4>2 DEF CopiesAccounted
    <3> QED
      BY <3>1, <3>2
  <2>5. ScheduleRespected'
    BY DEF ScheduleRespected, Waited, MAX_PUBLISH_ATTEMPTS, RelayCoherent, ClaimIsExclusive
  <2> QED
    BY <2>1, <2>2, <2>3, <2>4, <2>5
<1>5. ASSUME NEW r \in Relays, PublishFailed(r) PROVE IInv'
  <2> USE <1>5 DEF PublishFailed
  <2>1. TypeOK'
    BY DEF RelayCoherent
  <2>2. RelayCoherent' /\ ClaimIsExclusive'
    BY DEF RelayCoherent, ClaimIsExclusive
  <2>3. OkWasDelivered' /\ AbsentUntouched' /\ PublishedWasDelivered'
    BY DEF OkWasDelivered, AbsentUntouched, PublishedWasDelivered, RelayCoherent, ClaimIsExclusive
  <2>4. CopiesAccounted'
    BY DEF CopiesAccounted, Uncommitted, AbsentUntouched, RelayCoherent, ClaimIsExclusive
  <2>5. ScheduleRespected'
    BY DEF ScheduleRespected, Waited, MAX_PUBLISH_ATTEMPTS, RelayCoherent, ClaimIsExclusive
  <2> QED
    BY <2>1, <2>2, <2>3, <2>4, <2>5
<1>6. ASSUME NEW r \in Relays, PublishTimeout(r) PROVE IInv'
  <2> USE <1>6 DEF PublishTimeout
  <2>0. relay[r].row \in Rows
    BY DEF RelayCoherent
  <2>1. TypeOK'
    <3>1. relay' \in [Relays -> RelayState]
      OBVIOUS
    <3>2. landed' \in [Rows -> Nat]
      BY <2>0
    <3> QED
      BY <3>1, <3>2
  <2>2. RelayCoherent' /\ ClaimIsExclusive'
    BY DEF RelayCoherent, ClaimIsExclusive
  <2>3. OkWasDelivered' /\ AbsentUntouched' /\ PublishedWasDelivered'
    BY DEF OkWasDelivered, AbsentUntouched, PublishedWasDelivered, RelayCoherent, ClaimIsExclusive
  <2>4. CopiesAccounted'
    <3> SUFFICES ASSUME NEW f \in Rows
                 PROVE  /\ landed'[f] <= outbox'[f].attempts + crashes' + 1
                        /\ (outbox'[f].status # "published" /\ ~Uncommitted(f)') =>
                               landed'[f] <= outbox'[f].attempts + crashes'
      BY DEF CopiesAccounted
    <3>1. CASE f = relay[r].row
      <4>1. outbox[f].status = "pending" /\ ~Uncommitted(f)
        BY <3>1, <2>0 DEF ClaimIsExclusive, RelayCoherent, Uncommitted
      <4>2. landed[f] <= outbox[f].attempts + crashes
        BY <4>1 DEF CopiesAccounted
      <4>3. Uncommitted(f)'
        BY <3>1 DEF Uncommitted
      <4> QED
        BY <4>2, <4>3, <3>1, <2>0
    <3>2. CASE f # relay[r].row
      <4>1. landed'[f] = landed[f] /\ outbox' = outbox /\ crashes' = crashes
        BY <3>2, <2>0
      <4>2. Uncommitted(f)' <=> Uncommitted(f)
        BY <3>2 DEF Uncommitted
      <4> QED
        BY <4>1, <4>2 DEF CopiesAccounted
    <3> QED
      BY <3>1, <3>2
  <2>5. ScheduleRespected'
    BY DEF ScheduleRespected, Waited, MAX_PUBLISH_ATTEMPTS, RelayCoherent, ClaimIsExclusive
  <2> QED
    BY <2>1, <2>2, <2>3, <2>4, <2>5
<1>7. ASSUME NEW r \in Relays, MarkPublished(r) PROVE IInv'
  <2> USE <1>7 DEF MarkPublished, Idle
  <2>1. TypeOK'
    BY DEF RelayCoherent
  <2>2. RelayCoherent' /\ ClaimIsExclusive'
    BY DEF RelayCoherent, ClaimIsExclusive
  <2>3. OkWasDelivered' /\ AbsentUntouched' /\ PublishedWasDelivered'
    BY DEF OkWasDelivered, AbsentUntouched, PublishedWasDelivered, RelayCoherent, ClaimIsExclusive
  <2>4. CopiesAccounted'
    <3> DEFINE e == relay[r].row
    <3>1. /\ e \in Rows /\ outbox'[e].status = "published"
          /\ outbox'[e].attempts = outbox[e].attempts
          /\ \A f \in Rows \ {e} : outbox'[f] = outbox[f]
          /\ landed' = landed /\ crashes' = crashes
      BY DEF RelayCoherent
    <3>2. \A f \in Rows \ {e} : Uncommitted(f)' <=> Uncommitted(f)
      BY DEF Uncommitted
    <3> HIDE DEF e
    <3> QED BY <3>1, <3>2 DEF CopiesAccounted
  <2>5. ScheduleRespected'
    BY DEF ScheduleRespected, Waited, MAX_PUBLISH_ATTEMPTS, RelayCoherent, ClaimIsExclusive
  <2> QED
    BY <2>1, <2>2, <2>3, <2>4, <2>5
<1>8. ASSUME NEW r \in Relays, RecordFailure(r) PROVE IInv'
  <2> USE <1>8 DEF RecordFailure, plan_retry_state, MAX_PUBLISH_ATTEMPTS, Idle
  <2>1. TypeOK'
    BY DEF RelayCoherent
  <2>2. RelayCoherent' /\ ClaimIsExclusive'
    BY DEF RelayCoherent, ClaimIsExclusive
  <2>3. OkWasDelivered' /\ AbsentUntouched' /\ PublishedWasDelivered'
    BY DEF OkWasDelivered, AbsentUntouched, PublishedWasDelivered, RelayCoherent, ClaimIsExclusive
  <2>4. CopiesAccounted'
    BY DEF CopiesAccounted, Uncommitted, AbsentUntouched, RelayCoherent, ClaimIsExclusive
  <2>5. ScheduleRespected'
    <3> DEFINE e == relay[r].row
               n == outbox[e].attempts
    <3>1. e \in Rows /\ outbox[e].status = "pending" /\ outbox[e].avail <= 0
      BY DEF RelayCoherent, ClaimIsExclusive
    <3>2. /\ \A f \in Rows \ {e} : outbox'[f] = outbox[f]
          /\ outbox'[e].age = outbox[e].age
          /\ outbox'[e].attempts = n + 1
      BY <3>1
    <3>5. outbox[e] \in RowState /\ Waited(outbox[e])
      BY <3>1 DEF ScheduleRespected
    <3>3. CASE n + 1 >= MAX_PUBLISH_ATTEMPTS
      <4>1. outbox[e].age >= TotalWait[Len(RETRY_BACKOFF)]
        BY <3>1, <3>3, <3>5, WaitIsOver DEF MAX_PUBLISH_ATTEMPTS
      <4>2. outbox'[e].status = "dead" /\ outbox'[e].avail <= 0
        BY <3>1, <3>3
      <4>3. Waited(outbox'[e])
        BY <4>1, <4>2, <3>1, <3>2, <3>3 DEF Waited, MAX_PUBLISH_ATTEMPTS
      <4> QED
        BY <3>1, <3>2, <3>3, <4>1, <4>2, <4>3 DEF ScheduleRespected
    <3>4. CASE n + 1 < MAX_PUBLISH_ATTEMPTS
      <4>1. n + 1 \in 1..Len(RETRY_BACKOFF)
        BY <3>1, <3>4 DEF MAX_PUBLISH_ATTEMPTS
      <4>2. outbox'[e] \in RowState
        BY <2>1, <3>1
      <4>3. outbox'[e].status = "pending" /\ outbox'[e].avail = RETRY_BACKOFF[n + 1]
        BY <3>1, <3>4, <4>1
      <4>4. n < Len(RETRY_BACKOFF)
        BY <3>5, <4>1
      <4>5. Waited(outbox'[e])
        <5> DEFINE old == outbox[e]
                   next == outbox'[e]
        <5>1. old \in RowState /\ next \in RowState /\ Waited(old)
          BY <3>5, <4>2
        <5>2. old.avail <= 0 /\ old.attempts < Len(RETRY_BACKOFF)
          BY <3>1, <4>4
        <5>3. /\ next.attempts = old.attempts + 1 /\ next.age = old.age
              /\ next.avail = RETRY_BACKOFF[old.attempts + 1]
          BY <3>2, <4>3
        <5> HIDE <1>8 DEF RecordFailure, plan_retry_state, RowState, IInv, TypeOK, old, next
        <5>4. Waited(next)
          BY <5>1, <5>2, <5>3, AfterFailure
        <5> QED
          BY <5>4 DEF next
      <4> QED
        BY <3>1, <3>2, <4>3, <4>5 DEF ScheduleRespected
    <3> QED
      BY <3>1, <3>3, <3>4 DEF MAX_PUBLISH_ATTEMPTS
  <2> QED
    BY <2>1, <2>2, <2>3, <2>4, <2>5
<1>9. ASSUME NEW r \in Relays, Rollback(r) PROVE IInv'
  <2> USE <1>9 DEF Rollback, Idle
  <2>1. TypeOK'
    BY DEF RelayCoherent
  <2>2. RelayCoherent' /\ ClaimIsExclusive'
    BY DEF RelayCoherent, ClaimIsExclusive
  <2>3. OkWasDelivered' /\ AbsentUntouched' /\ PublishedWasDelivered'
    BY DEF OkWasDelivered, AbsentUntouched, PublishedWasDelivered, RelayCoherent, ClaimIsExclusive
  <2>4. CopiesAccounted'
    BY DEF CopiesAccounted, Uncommitted, AbsentUntouched, RelayCoherent, ClaimIsExclusive
  <2>5. ScheduleRespected'
    BY DEF ScheduleRespected, Waited, MAX_PUBLISH_ATTEMPTS, RelayCoherent, ClaimIsExclusive
  <2> QED
    BY <2>1, <2>2, <2>3, <2>4, <2>5
<1>10. CASE Tick
  <2> USE <1>10 DEF Tick, Older
  <2>1. TypeOK'
    BY DEF RelayCoherent
  <2>2. RelayCoherent' /\ ClaimIsExclusive'
    BY DEF RelayCoherent, ClaimIsExclusive
  <2>3. OkWasDelivered' /\ AbsentUntouched' /\ PublishedWasDelivered'
    BY DEF OkWasDelivered, AbsentUntouched, PublishedWasDelivered, RelayCoherent, ClaimIsExclusive
  <2>4. CopiesAccounted'
    BY DEF CopiesAccounted, Uncommitted, AbsentUntouched, RelayCoherent, ClaimIsExclusive
  <2>5. ScheduleRespected'
    <3> SUFFICES ASSUME NEW e \in Rows, outbox[e].status # "absent"
                 PROVE  /\ Waited(outbox'[e])
                        /\ outbox'[e].status = "dead" =>
                              /\ outbox'[e].attempts >= MAX_PUBLISH_ATTEMPTS
                              /\ outbox'[e].age >= TotalWait[Len(RETRY_BACKOFF)]
      BY DEF ScheduleRespected
    <3>1. outbox'[e] = Older(outbox[e])
      OBVIOUS
    <3>2. /\ outbox'[e].status = outbox[e].status
          /\ outbox'[e].attempts = outbox[e].attempts
          /\ outbox'[e].age >= outbox[e].age
      OBVIOUS
    <3>3. outbox[e] \in RowState /\ Waited(outbox[e])
      BY DEF ScheduleRespected
    <3>4. Waited(outbox'[e])
      <4> HIDE <1>10 DEF Tick, Older, RowState, IInv, TypeOK
      <4> QED
        BY <3>1, <3>3, OlderWaited
    <3>5. outbox[e].status = "dead" =>
              /\ outbox[e].attempts >= MAX_PUBLISH_ATTEMPTS
              /\ outbox[e].age >= TotalWait[Len(RETRY_BACKOFF)]
      BY DEF ScheduleRespected
    <3> QED
      BY <3>2, <3>4, <3>5 DEF MAX_PUBLISH_ATTEMPTS
  <2> QED
    BY <2>1, <2>2, <2>3, <2>4, <2>5
<1>11. CASE UNCHANGED vars
  BY <1>11 DEF vars, RelayCoherent, ClaimIsExclusive, OkWasDelivered, AbsentUntouched,
     PublishedWasDelivered, CopiesAccounted, Uncommitted, ScheduleRespected, Waited
<1> QED
  BY <1>1, <1>2, <1>3, <1>4, <1>5, <1>6, <1>7, <1>8, <1>9, <1>10, <1>11 DEF Next, RelayStep

LEMMA Inductive == Spec => []IInv
<1> QED
  BY InitIInv, StepIInv, PTL DEF Spec

\* The variables keep their types (the row records of migration 031).
THEOREM OutboxTyped == Spec => []TypeOK
BY Inductive, PTL DEF IInv

\* FOR UPDATE SKIP LOCKED gives each row to at most one relay transaction, and
\* the row stays pending and due until that transaction ends (publish_one).
THEOREM ExclusiveClaims == Spec => []ClaimIsExclusive
BY Inductive, PTL DEF IInv

\* _process_claimed marks a row published only when its event is in the stream.
THEOREM NoPhantomPublication == Spec => []PublishedWasDelivered
BY Inductive, PTL DEF IInv

\* Each duplicate in the stream is paid for by a recorded attempt or a crash.
THEOREM DuplicatesAreBounded == Spec => []DuplicatesAccounted
<1>1. IInv => DuplicatesAccounted
  BY DEF IInv, CopiesAccounted, DuplicatesAccounted
<1> QED
  BY <1>1, Inductive, PTL

\* plan_retry_state with its persisted available_at: a row dies only after the
\* whole backoff schedule has elapsed.
THEOREM DeathTakesTheWholeSchedule == Spec => []NoPrematureDeath
<1>1. IInv => NoPrematureDeath
  BY DEF IInv, ScheduleRespected, NoPrematureDeath
<1> QED
  BY <1>1, Inductive, PTL
-----------------------------------------------------------------------------
(* The safety part of OutboxContract *)

SameStatus(e) == outbox'[e].status = outbox[e].status
SameCopies(e) == landed'[e] = landed[e]
Goes(e, from, to) == outbox[e].status = from /\ outbox'[e].status = to /\ SameCopies(e)

\* What a step may do to one row, seen from outside.
RowMoves(e) ==
    \/ Goes(e, "absent", "pending")
    \/ Goes(e, "dead", "pending")
    \/ Goes(e, "pending", "dead")
    \/ Goes(e, "pending", "published") /\ landed[e] > 0
    \/ outbox[e].status = "pending" /\ SameStatus(e) /\ landed'[e] = landed[e] + 1

\* A step moves at most one row.
LEMMA StepsMoveRows ==
    ASSUME IInv, [Next]_vars
    PROVE  \/ \A d \in Rows : SameStatus(d) /\ SameCopies(d)
           \/ \E e \in Rows : /\ RowMoves(e)
                              /\ \A d \in Rows \ {e} : SameStatus(d) /\ SameCopies(d)
<1> USE DEF SameStatus, SameCopies, Goes, RowMoves
<1>1. /\ outbox \in [Rows -> RowState] /\ landed \in [Rows -> Nat]
      /\ relay \in [Relays -> RelayState]
  BY DEF IInv, TypeOK
<1>2. ASSUME NEW r \in Relays, relay[r].pc # "idle"
      PROVE  /\ relay[r].row \in Rows /\ outbox[relay[r].row].status = "pending"
             /\ relay[r].pc = "ok" => landed[relay[r].row] > 0
  BY <1>1, <1>2 DEF IInv, RelayCoherent, ClaimIsExclusive, OkWasDelivered, RelayState
<1>3. ASSUME NEW e \in Rows, Insert(e) \/ replay_dead(e)
      PROVE  RowMoves(e) /\ \A d \in Rows \ {e} : SameStatus(d) /\ SameCopies(d)
  BY <1>1, <1>3 DEF Insert, replay_dead, plan_replay_state
<1>4. ASSUME NEW r \in Relays, PublishOk(r) \/ PublishTimeout(r)
      PROVE  /\ RowMoves(relay[r].row)
             /\ \A d \in Rows \ {relay[r].row} : SameStatus(d) /\ SameCopies(d)
  BY <1>1, <1>2, <1>4 DEF PublishOk, PublishTimeout
<1>5. ASSUME NEW r \in Relays, MarkPublished(r)
      PROVE  /\ RowMoves(relay[r].row)
             /\ \A d \in Rows \ {relay[r].row} : SameStatus(d) /\ SameCopies(d)
  <2>1. relay[r].pc = "ok" /\ UNCHANGED landed
        /\ outbox' = [outbox EXCEPT ![relay[r].row].status = "published"]
    BY <1>5 DEF MarkPublished
  <2>2. outbox'[relay[r].row].status = "published"
    BY <1>1, <1>2, <2>1 DEF RowState
  <2> QED BY <1>1, <1>2, <2>1, <2>2
<1>6. ASSUME NEW r \in Relays, RecordFailure(r)
      PROVE  /\ \A d \in Rows \ {relay[r].row} : SameStatus(d) /\ SameCopies(d)
             /\ SameCopies(relay[r].row)
             /\ SameStatus(relay[r].row) \/ RowMoves(relay[r].row)
  <2>1. /\ relay[r].pc = "failed" /\ UNCHANGED landed
        /\ \E s \in {"pending", "dead"} : \E n, a, g :
             outbox' = [outbox EXCEPT ![relay[r].row] =
                           [status |-> s, attempts |-> n, avail |-> a, age |-> g]]
    BY <1>6 DEF RecordFailure, plan_retry_state
  <2> QED BY <1>1, <1>2, <2>1
<1>7. ASSUME NEW r \in Relays, Claim(r) \/ PublishFailed(r) \/ Rollback(r)
      PROVE  UNCHANGED <<outbox, landed>>
  BY <1>7 DEF Claim, PublishFailed, Rollback
<1>8. CASE Tick
  BY <1>1, <1>8 DEF Tick, Older
<1>9. CASE \E e \in Rows : Insert(e) \/ replay_dead(e)
  BY <1>3, <1>9
<1>10. CASE \E r \in Relays : RelayStep(r) \/ Rollback(r)
  <2>1. PICK r \in Relays : RelayStep(r) \/ Rollback(r)
    BY <1>10
  <2>2. CASE PublishOk(r) \/ PublishTimeout(r) \/ MarkPublished(r)
    <3>1. relay[r].row \in Rows
      BY <1>2, <2>2 DEF PublishOk, PublishTimeout, MarkPublished
    <3> QED BY <1>4, <1>5, <2>2, <3>1
  <2>3. CASE RecordFailure(r)
    <3>1. relay[r].row \in Rows
      BY <1>2, <2>3 DEF RecordFailure
    <3> QED BY <1>6, <2>3, <3>1
  <2>4. CASE Claim(r) \/ PublishFailed(r) \/ Rollback(r)
    BY <1>7, <2>4
  <2> QED BY <2>1, <2>2, <2>3, <2>4 DEF RelayStep
<1>11. CASE UNCHANGED vars
  BY <1>11 DEF vars
<1> QED BY <1>8, <1>9, <1>10, <1>11 DEF Next

\* The mapping of OutboxRelay to the contract.
Phase(e) ==
    CASE outbox[e].status = "absent"    -> "unrecorded"
      [] outbox[e].status = "pending"   -> "queued"
      [] outbox[e].status = "published" -> "settled"
      [] outbox[e].status = "dead"      -> "parked"
Phases == [e \in Rows \ CommandRows |-> Phase(e)]
Delivered == {e \in Rows \ CommandRows : landed[e] > 0}

\* A row that stays as it is, and the set of delivered events, under the mapping.
LEMMA MappingMoves ==
    ASSUME IInv, NEW e \in Rows, \A d \in Rows \ {e} : SameStatus(d) /\ SameCopies(d)
    PROVE  /\ Phases' = [d \in Rows \ CommandRows |-> IF d = e THEN Phase(e)' ELSE Phases[d]]
           /\ SameCopies(e) \/ e \in CommandRows => Delivered' = Delivered
           /\ e \notin CommandRows /\ landed'[e] = landed[e] + 1 => Delivered' = Delivered \cup {e}
<1>1. \A d \in Rows \ CommandRows : d # e => Phase(d)' = Phase(d)
  BY DEF SameStatus, Phase
<1>2. Phases' = [d \in Rows \ CommandRows |-> IF d = e THEN Phase(e)' ELSE Phases[d]]
  BY <1>1 DEF Phases
<1>3. landed[e] \in Nat
  BY DEF IInv, TypeOK
<1>4. SameCopies(e) \/ e \in CommandRows => Delivered' = Delivered
  BY DEF SameCopies, Delivered
<1>5. e \notin CommandRows /\ landed'[e] = landed[e] + 1 => Delivered' = Delivered \cup {e}
  BY <1>3 DEF SameCopies, Delivered
<1> QED BY <1>2, <1>4, <1>5

\* An event changes its place as insert_lifecycle_outbox_event, publish_one and replay_dead let
\* it, and in no other way: it is settled only when it has been delivered, a parked one only
\* comes back to the queue, a settled one stays.  The fairness of the contract is not part of this.
THEOREM RelayKeepsContract == Spec => Contract!Init /\ [][Contract!Next]_(Contract!vars)
<1>1. Init => Contract!Init
  <2> SUFFICES ASSUME Init PROVE Contract!Init
    OBVIOUS
  <2>1. \A e \in Rows : outbox[e].status = "absent" /\ landed[e] = 0
    BY DEF Init
  <2> QED BY <2>1 DEF Contract!Init
<1>2. IInv /\ [Next]_vars => [Contract!Next]_<<Phases, Delivered>>
  <2> SUFFICES ASSUME IInv, [Next]_vars
               PROVE  Contract!Next \/ UNCHANGED <<Phases, Delivered>>
    OBVIOUS
  <2>1. CASE \A d \in Rows : SameStatus(d) /\ SameCopies(d)
    <3>1. \A d \in Rows \ CommandRows : Phase(d)' = Phase(d)
      BY <2>1 DEF Phase, SameStatus
    <3>2. Phases' = Phases
      BY <3>1 DEF Phases
    <3>3. Delivered' = Delivered
      BY <2>1 DEF Delivered, SameCopies
    <3> QED BY <3>2, <3>3
  <2>2. ASSUME NEW e \in Rows, RowMoves(e), \A d \in Rows \ {e} : SameStatus(d) /\ SameCopies(d)
        PROVE  Contract!Next \/ UNCHANGED <<Phases, Delivered>>
    <3>1. /\ Phases' = [d \in Rows \ CommandRows |-> IF d = e THEN Phase(e)' ELSE Phases[d]]
          /\ SameCopies(e) \/ e \in CommandRows => Delivered' = Delivered
          /\ e \notin CommandRows /\ landed'[e] = landed[e] + 1 => Delivered' = Delivered \cup {e}
      BY <2>2, MappingMoves
    <3>2. CASE e \in CommandRows
      <4>1. Phases' = Phases
        BY <3>1, <3>2 DEF Phases
      <4> QED BY <3>1, <3>2, <4>1
    <3>3. CASE e \notin CommandRows
      <4>1. /\ e \in Rows \ CommandRows /\ Phases[e] = Phase(e)
            /\ Phases' = [Phases EXCEPT ![e] = Phase(e)']
        BY <3>1, <3>3 DEF Phases
      <4>2. CASE Goes(e, "absent", "pending")
        <5>1. Phase(e) = "unrecorded" /\ Phase(e)' = "queued" /\ Delivered' = Delivered
          BY <3>1, <4>2 DEF Goes, Phase
        <5>2. Contract!Record(e)
          BY <4>1, <5>1 DEF Contract!Record, Phases, Phase, Delivered
        <5> QED BY <4>1, <5>2 DEF Contract!Next
      <4>3. CASE Goes(e, "dead", "pending")
        <5>1. Phase(e) = "parked" /\ Phase(e)' = "queued" /\ Delivered' = Delivered
          BY <3>1, <4>3 DEF Goes, Phase
        <5>2. Contract!Requeue(e)
          BY <4>1, <5>1 DEF Contract!Requeue, Phases, Phase, Delivered
        <5> QED BY <4>1, <5>2 DEF Contract!Next
      <4>4. CASE Goes(e, "pending", "dead")
        <5>1. Phase(e) = "queued" /\ Phase(e)' = "parked" /\ Delivered' = Delivered
          BY <3>1, <4>4 DEF Goes, Phase
        <5>2. Contract!Park(e)
          BY <4>1, <5>1 DEF Contract!Park, Phases, Phase, Delivered
        <5> QED BY <4>1, <5>2 DEF Contract!Next
      <4>5. CASE Goes(e, "pending", "published") /\ landed[e] > 0
        <5>1. Phase(e) = "queued" /\ Phase(e)' = "settled" /\ Delivered' = Delivered
          BY <3>1, <4>5 DEF Goes, Phase
        <5>2. e \in Delivered
          BY <4>1, <4>5 DEF Delivered
        <5>3. Contract!Settle(e)
          BY <4>1, <5>1, <5>2 DEF Contract!Settle, Phases, Phase, Delivered
        <5> QED BY <4>1, <5>3 DEF Contract!Next
      <4>6. CASE outbox[e].status = "pending" /\ SameStatus(e) /\ landed'[e] = landed[e] + 1
        <5>1. Phase(e) = "queued" /\ Phase(e)' = "queued" /\ Delivered' = Delivered \cup {e}
          BY <3>1, <3>3, <4>6 DEF SameStatus, Phase
        <5>2. Phases' = Phases
          BY <4>1, <5>1 DEF Phases
        <5>3. Contract!Deliver(e)
          BY <4>1, <5>1, <5>2 DEF Contract!Deliver, Phases, Phase, Delivered
        <5> QED BY <4>1, <5>3 DEF Contract!Next
      <4> QED BY <2>2, <4>2, <4>3, <4>4, <4>5, <4>6 DEF RowMoves
    <3> QED BY <3>2, <3>3
  <2> QED BY <2>1, <2>2, StepsMoveRows
<1>3. IInv /\ [Next]_vars => [Contract!Next]_(Contract!vars)
  BY <1>2 DEF Contract!vars, Phases, Phase, Delivered
<1> QED BY <1>1, <1>3, Inductive, PTL DEF Spec

-----------------------------------------------------------------------------
(* The clarification lifecycle, whose events the relay delivers *)

\* The rows of the tables and of the two kinds of actor.
TaskRow == [status : TaskStatus, asked : {"none", "open", "answered"}]
ClarRow == [status : {"absent", "open", "answered", "expired"}, due : 0..DueHours,
            reminded : BOOLEAN, message : BOOLEAN]
Request == [pc : {"idle", "mark_needed", "claim", "message", "mark_answered", "submit"},
            task : Tasks \cup {None}, clar : Clarifications \cup {None}]
Cycle   == [phase : {"idle", "expiry", "reminder"}, left : 0..BatchSize,
            skip : SUBSET Clarifications, row : Clarifications \cup {None}]

\* Type correctness, row by row.
LEMMA TypedByRow ==
    LifecycleTypeOK <=> /\ task \in [Tasks -> TaskRow] /\ clar \in [Clarifications -> ClarRow]
               /\ created \in Seq(Clarifications)
               /\ events \subseteq Clarifications \X {"reminder", "expired"}
               /\ handler \in [Handlers -> Request] /\ poller \in [Pollers -> Cycle]
               /\ deaths \in Nat
  BY DEF LifecycleTypeOK, TaskRow, ClarRow, Request, Cycle

\* The same of the next state.
LEMMA TypedByRowAfter ==
    LifecycleTypeOK' <=> /\ task' \in [Tasks -> TaskRow] /\ clar' \in [Clarifications -> ClarRow]
                /\ created' \in Seq(Clarifications)
                /\ events' \subseteq Clarifications \X {"reminder", "expired"}
                /\ handler' \in [Handlers -> Request] /\ poller' \in [Pollers -> Cycle]
                /\ deaths' \in Nat
  BY DEF LifecycleTypeOK, TaskRow, ClarRow, Request, Cycle

\* What an update of one field leaves behind.
LEMMA StatusUpdate ==
    ASSUME NEW f \in [Clarifications -> ClarRow], NEW c \in Clarifications,
           NEW s \in {"answered", "expired"}, NEW g, g = [f EXCEPT ![c].status = s]
    PROVE  /\ g \in [Clarifications -> ClarRow] /\ g[c].status = s
           /\ \A d \in Clarifications \ {c} : g[d] = f[d]
<1>1. f[c] \in ClarRow /\ g = [f EXCEPT ![c] = [f[c] EXCEPT !.status = s]]
  OBVIOUS
<1>2. [f[c] EXCEPT !.status = s] \in ClarRow /\ [f[c] EXCEPT !.status = s].status = s
  BY <1>1 DEF ClarRow
<1> QED BY <1>1, <1>2

LEMMA MessageUpdate ==
    ASSUME NEW f \in [Clarifications -> ClarRow], NEW c \in Clarifications, NEW g,
           g = [f EXCEPT ![c].message = TRUE]
    PROVE  /\ g \in [Clarifications -> ClarRow]
           /\ \A d \in Clarifications : g[d].status = f[d].status
<1>1. f[c] \in ClarRow /\ g = [f EXCEPT ![c] = [f[c] EXCEPT !.message = TRUE]]
  OBVIOUS
<1>2. /\ [f[c] EXCEPT !.message = TRUE] \in ClarRow
      /\ [f[c] EXCEPT !.message = TRUE].status = f[c].status
  BY <1>1 DEF ClarRow
<1> QED BY <1>1, <1>2

\* The same of a task.
LEMMA TaskUpdate ==
    ASSUME NEW f \in [Tasks -> TaskRow], NEW t \in Tasks, NEW s \in TaskStatus
    PROVE  /\ [f EXCEPT ![t].status = s] \in [Tasks -> TaskRow]
           /\ \A a \in {"none", "open", "answered"} :
                 [f EXCEPT ![t] = [status |-> s, asked |-> a]] \in [Tasks -> TaskRow]
<1>1. f[t] \in TaskRow
  OBVIOUS
<1>2. /\ [f[t] EXCEPT !.status = s] \in TaskRow
      /\ \A a \in {"none", "open", "answered"} : [status |-> s, asked |-> a] \in TaskRow
  BY <1>1 DEF TaskRow
<1> QED BY <1>2

\* A request that has reached the claim knows its clarification.
HandlersHaveClar ==
    \A h \in Handlers :
        handler[h].pc \in {"claim", "message", "mark_answered"} =>
            handler[h].clar \in Clarifications

\* The row lock: what a poller holds is open until its transaction ends, and no other poller
\* holds it.
HeldIsOpen ==
    \A p \in Pollers : poller[p].row # None =>
        /\ clar[poller[p].row].status = "open"
        /\ \A q \in Pollers \ {p} : poller[q].row # poller[p].row

LInv == LifecycleTypeOK /\ HandlersHaveClar /\ HeldIsOpen /\ AnswerIsExclusive

\* The requests' steps keep a poller's row and one another's answers.
LEMMA HandlersKeep ==
    ASSUME LInv, NEW h \in Handlers,
           \/ update_status(h) \/ MarkNeeded(h)
           \/ MarkAnswered(h) \/ RequestDies(h)
           \/ \E t \in Tasks : submit_task(h, t)
    PROVE  LInv'
<1> USE DEF LInv
<1>1. /\ task \in [Tasks -> TaskRow] /\ handler \in [Handlers -> Request] /\ deaths \in Nat
      /\ UNCHANGED <<clar, created, events, poller>>
  BY TypedByRow DEF update_status, MarkNeeded, MarkAnswered, RequestDies,
     submit_task
<1>2. /\ NoRequest \in Request
      /\ \A t \in Tasks : [pc |-> "submit", task |-> t, clar |-> None] \in Request
  BY DEF NoRequest, Request
<1>3. PICK r \in Request : r.pc \in {"idle", "submit"} /\ handler' = [handler EXCEPT ![h] = r]
  <2>1. CASE \E t \in Tasks : submit_task(h, t)
    BY <1>2, <2>1 DEF submit_task
  <2>2. CASE \/ update_status(h) \/ MarkNeeded(h)
             \/ MarkAnswered(h) \/ RequestDies(h)
    <3>1. handler' = [handler EXCEPT ![h] = NoRequest] /\ NoRequest.pc = "idle"
      BY <2>2 DEF update_status, MarkNeeded, MarkAnswered, RequestDies,
         NoRequest
    <3> QED BY <1>2, <3>1
  <2> QED BY <2>1, <2>2
<1>4. task' \in [Tasks -> TaskRow]
  <2>1. {"blocked", "intake_review", "clarification_needed"} \subseteq TaskStatus
    BY DEF TaskStatus
  <2>2. handler[h].task \in Tasks \cup {None}
    BY <1>1 DEF Request
  <2>3. ASSUME handler[h].task \notin Tasks, NEW row
        PROVE  [task EXCEPT ![handler[h].task] = row] = task
    BY <1>1, <2>3
  <2>4. CASE update_status(h)
    <3>1. PICK s \in TaskStatus : task' = [task EXCEPT ![handler[h].task].status = s]
      BY <2>1, <2>4 DEF update_status
    <3> QED BY <1>1, <2>3, <3>1, TaskUpdate
  <2>5. CASE MarkNeeded(h) \/ MarkAnswered(h)
    <3>1. PICK s \in TaskStatus, a \in {"open", "answered"} :
            task' = [task EXCEPT ![handler[h].task] = [status |-> s, asked |-> a]]
      BY <2>1, <2>5 DEF MarkNeeded, MarkAnswered, set_clarification_state
    <3> QED BY <1>1, <2>3, <3>1, TaskUpdate
  <2>6. CASE RequestDies(h) \/ \E t \in Tasks : submit_task(h, t)
    BY <1>1, <2>6 DEF RequestDies, submit_task
  <2> QED BY <2>4, <2>5, <2>6
<1>5. deaths' \in Nat
  BY <1>1 DEF update_status, MarkNeeded, MarkAnswered, RequestDies,
     submit_task
<1>6. handler' \in [Handlers -> Request]
  BY <1>1, <1>3
<1>7. LifecycleTypeOK'
  BY <1>1, <1>4, <1>5, <1>6, TypedByRow, TypedByRowAfter
<1>8. handler'[h].pc \in {"idle", "submit"} /\ \A g \in Handlers \ {h} : handler'[g] = handler[g]
  BY <1>1, <1>3
<1>9. HandlersHaveClar' /\ HeldIsOpen' /\ AnswerIsExclusive'
  BY <1>1, <1>8 DEF HandlersHaveClar, HeldIsOpen, AnswerIsExclusive, Answering
<1> QED BY <1>7, <1>9

\* A clarification is created only once, and is neither held nor answered then.
LEMMA CreateKeeps ==
    ASSUME LInv, NEW h \in Handlers, NEW c \in Clarifications,
           create_clarification(h, c) \/ answer_clarification(h, c)
    PROVE  LInv'
<1> USE DEF LInv
<1>1. /\ TaskOf[c] \in Tasks /\ UNCHANGED <<task, events, poller, deaths>>
      /\ clar[c].status = "absent" \/ UNCHANGED clar
      /\ \E pc \in {"mark_needed", "claim"} :
           handler' = [handler EXCEPT ![h] = [pc |-> pc, task |-> TaskOf[c], clar |-> c]]
      /\ created' \in {created, Append(created, c)}
  BY LifecycleAssumption DEF create_clarification, answer_clarification
<1>2. /\ task \in [Tasks -> TaskRow] /\ clar \in [Clarifications -> ClarRow]
      /\ handler \in [Handlers -> Request] /\ poller \in [Pollers -> Cycle]
      /\ created \in Seq(Clarifications)
  BY TypedByRow
<1>3. /\ clar' \in [Clarifications -> ClarRow]
      /\ \A d \in Clarifications \ {c} : clar'[d] = clar[d]
  <2>1. [status |-> "open", due |-> DueHours, reminded |-> FALSE, message |-> FALSE] \in ClarRow
    BY LifecycleAssumption DEF ClarRow
  <2>2. CASE create_clarification(h, c)
    BY <1>2, <2>1, <2>2 DEF create_clarification
  <2>3. CASE answer_clarification(h, c)
    BY <1>2, <2>3 DEF answer_clarification
  <2> QED BY <2>2, <2>3
<1>4. /\ handler'[h].pc \in {"mark_needed", "claim"} /\ handler'[h].clar = c
      /\ \A g \in Handlers \ {h} : handler'[g] = handler[g]
      /\ handler' \in [Handlers -> Request]
  <2>1. PICK pc \in {"mark_needed", "claim"} :
          handler' = [handler EXCEPT ![h] = [pc |-> pc, task |-> TaskOf[c], clar |-> c]]
    BY <1>1
  <2>2. [pc |-> pc, task |-> TaskOf[c], clar |-> c] \in Request
    BY <1>1 DEF Request
  <2> QED BY <1>2, <2>1, <2>2
<1>5. LifecycleTypeOK'
  <2>1. created' \in Seq(Clarifications)
    <3>1. Append(created, c) \in Seq(Clarifications)
      BY <1>2
    <3> QED BY <1>1, <1>2, <3>1
  <2> QED BY <1>1, <1>2, <1>3, <1>4, <2>1, TypedByRow, TypedByRowAfter
<1>6. HandlersHaveClar'
  BY <1>4 DEF HandlersHaveClar
<1>7. HeldIsOpen'
  <2>1. \A p \in Pollers : poller[p].row \in Clarifications \cup {None}
    BY <1>2 DEF Cycle
  <2> QED BY <1>1, <1>3, <2>1 DEF HeldIsOpen
<1>8. AnswerIsExclusive'
  <2>1. \A g \in Handlers :
           Answering(g)' => g # h /\ Answering(g) /\ handler'[g] = handler[g]
    BY <1>4 DEF Answering
  <2>2. \A g \in Handlers : Answering(g) =>
           handler[g].clar \in Clarifications /\ clar[handler[g].clar].status = "answered"
    BY DEF Answering, HandlersHaveClar, AnswerIsExclusive
  <2> QED BY <1>1, <1>3, <2>1, <2>2 DEF AnswerIsExclusive
<1> QED BY <1>5, <1>6, <1>7, <1>8

\* claim_clarification_answer and set_answer_message: of the requests that have found the row open,
\* one wins, and no poller holds the row then.
LEMMA AnswerKeeps ==
    ASSUME LInv, NEW h \in Handlers,
           claim_clarification_answer(h) \/ set_answer_message(h)
    PROVE  LInv'
<1> USE DEF LInv
<1> DEFINE c == handler[h].clar
<1>1. /\ UNCHANGED <<task, created, events, poller, deaths>>
      /\ c \in Clarifications
  BY DEF claim_clarification_answer, set_answer_message, HandlersHaveClar
<1>2. /\ clar \in [Clarifications -> ClarRow] /\ handler \in [Handlers -> Request]
      /\ poller \in [Pollers -> Cycle]
  BY TypedByRow
<1>3. ASSUME clar' \in [Clarifications -> ClarRow], handler' \in [Handlers -> Request]
      PROVE  LifecycleTypeOK'
  BY <1>1, <1>3, TypedByRow, TypedByRowAfter
<1>4. ASSUME NEW pc \in {"message", "mark_answered"}, handler' = [handler EXCEPT ![h].pc = pc]
      PROVE  /\ handler' \in [Handlers -> Request] /\ handler'[h].pc = pc /\ handler'[h].clar = c
             /\ \A g \in Handlers \ {h} : handler'[g] = handler[g]
  <2>1. handler[h] \in Request
    BY <1>2
  <2>2. /\ [handler[h] EXCEPT !.pc = pc] \in Request
        /\ [handler[h] EXCEPT !.pc = pc].pc = pc /\ [handler[h] EXCEPT !.pc = pc].clar = c
    BY <2>1 DEF Request
  <2>3. handler' = [handler EXCEPT ![h] = [handler[h] EXCEPT !.pc = pc]]
    BY <1>4
  <2> QED BY <1>2, <2>2, <2>3
<1>5. \A p \in Pollers : poller[p].row \in Clarifications \cup {None}
  BY <1>2 DEF Cycle
<1>6. CASE /\ Answerable(c) /\ ~RowLocked(c) /\ handler[h].pc = "claim"
           /\ clar' = [clar EXCEPT ![c].status = "answered"]
           /\ handler' = [handler EXCEPT ![h].pc = "message"]
  <2>1. /\ handler' \in [Handlers -> Request] /\ handler'[h].pc = "message" /\ handler'[h].clar = c
        /\ \A g \in Handlers \ {h} : handler'[g] = handler[g]
    BY <1>4, <1>6
  <2>2. /\ clar' \in [Clarifications -> ClarRow] /\ clar'[c].status = "answered"
        /\ \A d \in Clarifications \ {c} : clar'[d] = clar[d]
    BY <1>1, <1>2, <1>6, StatusUpdate
  <2>3. HandlersHaveClar'
    BY <1>1, <2>1 DEF HandlersHaveClar
  <2>4. HeldIsOpen'
    BY <1>1, <1>5, <1>6, <2>2 DEF HeldIsOpen, RowLocked
  <2>5. \A g \in Handlers \ {h} : Answering(g) =>
           handler[g].clar # c /\ handler[g].clar \in Clarifications
    BY <1>6 DEF AnswerIsExclusive, Answerable, HandlersHaveClar, Answering
  <2>6. AnswerIsExclusive'
    BY <2>1, <2>2, <2>5 DEF AnswerIsExclusive, Answering
  <2> QED BY <1>3, <2>1, <2>2, <2>3, <2>4, <2>6
<1>7. CASE /\ handler[h].pc = "claim" /\ UNCHANGED clar
           /\ handler' = [handler EXCEPT ![h] = NoRequest]
  <2>1. NoRequest \in Request /\ NoRequest.pc = "idle"
    BY DEF Request, NoRequest
  <2>2. /\ handler' \in [Handlers -> Request] /\ handler'[h].pc = "idle"
        /\ \A g \in Handlers \ {h} : handler'[g] = handler[g]
    BY <1>2, <1>7, <2>1
  <2>3. LifecycleTypeOK'
    BY <1>2, <1>3, <1>7, <2>2
  <2> QED BY <1>1, <1>7, <2>2, <2>3
          DEF HandlersHaveClar, HeldIsOpen, AnswerIsExclusive, Answering
<1>8. CASE /\ handler[h].pc = "message"
           /\ clar' = [clar EXCEPT ![c].message = TRUE]
           /\ handler' = [handler EXCEPT ![h].pc = "mark_answered"]
  <2>1. /\ handler' \in [Handlers -> Request] /\ handler'[h].pc = "mark_answered"
        /\ handler'[h].clar = c /\ \A g \in Handlers \ {h} : handler'[g] = handler[g]
    BY <1>4, <1>8
  <2>2. /\ clar' \in [Clarifications -> ClarRow]
        /\ \A d \in Clarifications : clar'[d].status = clar[d].status
    BY <1>1, <1>2, <1>8, MessageUpdate
  <2>3. /\ \A g \in Handlers : handler'[g].clar = handler[g].clar
        /\ \A g \in Handlers : Answering(g)' <=> Answering(g)
    BY <1>8, <2>1 DEF Answering
  <2>4. HandlersHaveClar'
    BY <1>1, <2>1, <2>3 DEF HandlersHaveClar
  <2>5. HeldIsOpen'
    BY <1>1, <1>5, <2>2 DEF HeldIsOpen
  <2>6. \A g \in Handlers : Answering(g) => handler[g].clar \in Clarifications
    BY DEF Answering, HandlersHaveClar
  <2>7. AnswerIsExclusive'
    BY <2>2, <2>3, <2>6 DEF AnswerIsExclusive
  <2> QED BY <1>3, <2>1, <2>2, <2>4, <2>5, <2>7
<1> QED BY <1>6, <1>7, <1>8 DEF claim_clarification_answer, set_answer_message

\* A poller's steps: it claims an open row nobody holds, and expires only the row it holds.
LEMMA PollersKeep ==
    ASSUME LInv,
           NEW p \in Pollers, PollerStep(p) \/ CycleFails(p)
    PROVE  LInv'
<1> USE DEF LInv
<1>1. /\ clar \in [Clarifications -> ClarRow]
      /\ poller \in [Pollers -> Cycle]
      /\ task \in [Tasks -> TaskRow] /\ events \subseteq Clarifications \X {"reminder", "expired"}
      /\ BatchSize \in Nat /\ BatchSize \in 0..BatchSize /\ None \notin Clarifications
      /\ deaths \in Nat
  BY TypedByRow, LifecycleAssumption
<1>2. UNCHANGED <<handler, created>>
  BY DEF PollerStep, WakeUp, BeginPhase, ClaimExpiry, CommitExpiry,
     SkipExpiry, EndExpiry, RemindOne,
         EndReminder, CycleFails
<1>3. ASSUME UNCHANGED clar, \A q \in Pollers \ {p} : poller'[q] = poller[q], poller'[p].row = None
      PROVE  HandlersHaveClar' /\ HeldIsOpen' /\ AnswerIsExclusive'
  BY <1>2, <1>3 DEF HandlersHaveClar, HeldIsOpen, AnswerIsExclusive, Answering
<1>4. ASSUME NEW r \in Cycle, poller' = [poller EXCEPT ![p] = r]
      PROVE  /\ poller' \in [Pollers -> Cycle] /\ poller'[p] = r
             /\ \A q \in Pollers \ {p} : poller'[q] = poller[q]
  BY <1>1, <1>4
<1>5. /\ poller[p] \in Cycle
      /\ \A q \in Pollers : poller[q].row \in Clarifications \cup {None}
  BY <1>1 DEF Cycle
<1>6. ASSUME poller' \in [Pollers -> Cycle], clar' \in [Clarifications -> ClarRow],
             task' \in [Tasks -> TaskRow], events' \subseteq Clarifications \X {"reminder",
                "expired"},
             deaths' \in Nat
      PROVE  LifecycleTypeOK'
  BY <1>2, <1>6, TypedByRow, TypedByRowAfter
<1>7. CASE \/ WakeUp(p) \/ EndExpiry(p)
           \/ EndReminder(p) \/ CycleFails(p)
  <2>1. UNCHANGED <<task, clar, events>> /\ deaths' \in Nat
    BY <1>1, <1>7 DEF WakeUp, EndExpiry, EndReminder, CycleFails
  <2>2. PICK ph \in {"idle", "expiry", "reminder"}, n \in 0..BatchSize :
          poller' = [poller EXCEPT ![p] = [phase |-> ph, left |-> n, skip |-> {}, row |-> None]]
    BY <1>1, <1>7 DEF WakeUp, EndExpiry, EndReminder, CycleFails,
       BeginPhase, Sleeping
  <2>3. [phase |-> ph, left |-> n, skip |-> {}, row |-> None] \in Cycle
    BY DEF Cycle
  <2>4. /\ poller' \in [Pollers -> Cycle] /\ poller'[p].row = None
        /\ \A q \in Pollers \ {p} : poller'[q] = poller[q]
    BY <1>4, <2>2, <2>3
  <2>5. LifecycleTypeOK'
    BY <1>1, <1>6, <2>1, <2>4
  <2> QED BY <1>3, <2>1, <2>4, <2>5
<1>8. CASE ClaimExpiry(p)
  <2>1. PICK d \in OverdueFor(p) :
          poller' = [poller EXCEPT ![p].row = d, ![p].left = @ - 1]
    BY <1>8 DEF ClaimExpiry
  <2>2. UNCHANGED <<task, clar, events, deaths>> /\ poller[p].left > 0
    BY <1>8 DEF ClaimExpiry
  <2>3. d \in Clarifications /\ ~RowLocked(d) /\ clar[d].status = "open"
    BY DEF OverdueFor, Candidates, Overdue
  <2>4. poller' = [poller EXCEPT ![p] = [poller[p] EXCEPT !.row = d, !.left = poller[p].left - 1]]
    BY <1>1, <2>1
  <2>5. /\ [poller[p] EXCEPT !.row = d, !.left = poller[p].left - 1] \in Cycle
        /\ [poller[p] EXCEPT !.row = d, !.left = poller[p].left - 1].row = d
    <3>1. poller[p].left - 1 \in 0..BatchSize
      BY <1>1, <1>5, <2>2 DEF Cycle
    <3> QED BY <1>5, <2>3, <3>1 DEF Cycle
  <2>6. /\ poller' \in [Pollers -> Cycle] /\ poller'[p].row = d
        /\ \A q \in Pollers \ {p} : poller'[q] = poller[q]
    BY <1>4, <2>4, <2>5
  <2>7. LifecycleTypeOK'
    BY <1>1, <1>6, <2>2, <2>6
  <2>8. HeldIsOpen'
    BY <2>2, <2>3, <2>6 DEF HeldIsOpen, RowLocked
  <2> QED BY <1>2, <2>2, <2>7, <2>8 DEF HandlersHaveClar, AnswerIsExclusive, Answering
<1>9. CASE CommitExpiry(p)
  <2> DEFINE d == poller[p].row
  <2>1. /\ d \in Clarifications /\ clar[d].status = "open" /\ TaskOf[d] \in Tasks
        /\ task' = [task EXCEPT ![TaskOf[d]].status = "clarification_expired"]
        /\ clar' = [clar EXCEPT ![d].status = "expired"]
        /\ events' = events \cup {<<d, "expired">>}
        /\ poller' = [poller EXCEPT ![p].row = None]
        /\ UNCHANGED deaths
    BY <1>5, <1>9, LifecycleAssumption DEF CommitExpiry, HeldIsOpen
  <2>2. /\ poller' \in [Pollers -> Cycle] /\ poller'[p].row = None
        /\ \A q \in Pollers \ {p} : poller'[q] = poller[q]
    <3>1. poller' = [poller EXCEPT ![p] = [poller[p] EXCEPT !.row = None]]
      BY <1>1, <2>1
    <3>2. [poller[p] EXCEPT !.row = None] \in Cycle /\ [poller[p] EXCEPT !.row = None].row = None
      BY <1>5 DEF Cycle
    <3> QED BY <1>4, <3>1, <3>2
  <2>3. /\ clar' \in [Clarifications -> ClarRow]
        /\ \A f \in Clarifications \ {d} : clar'[f] = clar[f]
    BY <1>1, <2>1, StatusUpdate
  <2>4. task' \in [Tasks -> TaskRow]
    <3>1. "clarification_expired" \in TaskStatus
      BY DEF TaskStatus
    <3> QED BY <1>1, <2>1, <3>1, TaskUpdate
  <2>5. LifecycleTypeOK'
    <3>1. events' \subseteq Clarifications \X {"reminder", "expired"}
      BY <1>1, <2>1
    <3> QED BY <1>1, <1>6, <2>1, <2>2, <2>3, <2>4, <3>1
  <2>6. HeldIsOpen'
    <3>1. \A q \in Pollers \ {p} : poller'[q].row # None =>
             poller[q].row \in Clarifications \ {d} /\ poller'[q] = poller[q]
      BY <1>5, <2>1, <2>2, LifecycleAssumption DEF HeldIsOpen
    <3> QED BY <2>2, <2>3, <3>1 DEF HeldIsOpen
  <2>7. AnswerIsExclusive'
    <3>1. \A h \in Handlers : Answering(h) => handler[h].clar \in Clarifications \ {d}
      BY <2>1 DEF AnswerIsExclusive, Answering, HandlersHaveClar
    <3> QED BY <1>2, <2>3, <3>1 DEF AnswerIsExclusive, Answering
  <2> QED BY <1>2, <2>5, <2>6, <2>7 DEF HandlersHaveClar
<1>10. CASE SkipExpiry(p)
  <2> DEFINE r == [poller[p] EXCEPT !.row = None, !.skip = poller[p].skip \cup {poller[p].row}]
  <2>1. /\ UNCHANGED <<task, clar, events, deaths>>
        /\ poller[p].row \in Clarifications /\ poller' = [poller EXCEPT ![p] = r]
    BY <1>1, <1>5, <1>10 DEF SkipExpiry
  <2>2. r \in Cycle /\ r.row = None
    BY <1>5, <2>1 DEF Cycle
  <2>3. /\ poller' \in [Pollers -> Cycle] /\ poller'[p].row = None
        /\ \A q \in Pollers \ {p} : poller'[q] = poller[q]
    BY <1>4, <2>1, <2>2
  <2>4. LifecycleTypeOK'
    BY <1>1, <1>6, <2>1, <2>3
  <2> QED BY <1>3, <2>1, <2>3, <2>4
<1>11. CASE RemindOne(p)
  <2>1. PICK d \in RemindableFor(p) :
          IF <<d, "reminder">> \in events
          THEN /\ poller' = [poller EXCEPT ![p].skip = @ \cup {d}, ![p].left = @ - 1]
               /\ UNCHANGED <<clar, events>>
          ELSE /\ clar' = [clar EXCEPT ![d].reminded = TRUE]
               /\ events' = events \cup {<<d, "reminder">>}
               /\ poller' = [poller EXCEPT ![p].left = @ - 1]
    BY <1>11 DEF RemindOne
  <2>2. d \in Clarifications /\ UNCHANGED <<task, deaths>> /\ poller[p].left > 0
    BY <1>11 DEF RemindableFor, Candidates, RemindOne
  <2>3. PICK r \in Cycle : r.row = poller[p].row /\ poller' = [poller EXCEPT ![p] = r]
    <3> DEFINE skipped == [poller[p] EXCEPT !.skip = poller[p].skip \cup {d},
                                            !.left = poller[p].left - 1]
               done    == [poller[p] EXCEPT !.left = poller[p].left - 1]
    <3>1. /\ skipped \in Cycle /\ skipped.row = poller[p].row
          /\ done \in Cycle /\ done.row = poller[p].row
      <4>1. poller[p].left - 1 \in 0..BatchSize
        BY <1>1, <1>5, <2>2 DEF Cycle
      <4> QED BY <1>5, <2>2, <4>1 DEF Cycle
    <3>2. CASE <<d, "reminder">> \in events
      <4>1. poller' = [poller EXCEPT ![p] = skipped]
        BY <1>1, <2>1, <3>2
      <4> QED BY <3>1, <4>1
    <3>3. CASE <<d, "reminder">> \notin events
      <4>1. poller' = [poller EXCEPT ![p] = done]
        BY <1>1, <2>1, <3>3
      <4> QED BY <3>1, <4>1
    <3> QED BY <3>2, <3>3
  <2>4. /\ clar' \in [Clarifications -> ClarRow]
        /\ events' \subseteq Clarifications \X {"reminder", "expired"}
        /\ \A f \in Clarifications : clar'[f].status = clar[f].status
    <3>1. CASE <<d, "reminder">> \in events
      BY <1>1, <2>1, <3>1
    <3>2. CASE <<d, "reminder">> \notin events
      <4>1. clar' = [clar EXCEPT ![d].reminded = TRUE] /\ events' = events \cup {<<d, "reminder">>}
        BY <2>1, <3>2
      <4>2. events' \subseteq Clarifications \X {"reminder", "expired"}
        BY <1>1, <2>2, <4>1
      <4>3. /\ clar' \in [Clarifications -> ClarRow]
            /\ \A f \in Clarifications : clar'[f].status = clar[f].status
        <5>1. /\ clar[d] \in ClarRow
              /\ clar' = [clar EXCEPT ![d] = [clar[d] EXCEPT !.reminded = TRUE]]
          BY <1>1, <2>2, <4>1
        <5>2. /\ [clar[d] EXCEPT !.reminded = TRUE] \in ClarRow
              /\ [clar[d] EXCEPT !.reminded = TRUE].status = clar[d].status
          BY <5>1 DEF ClarRow
        <5> QED BY <1>1, <2>2, <5>1, <5>2
      <4> QED BY <4>2, <4>3
    <3> QED BY <3>1, <3>2
  <2>5. /\ poller' \in [Pollers -> Cycle]
        /\ \A q \in Pollers : poller'[q].row = poller[q].row
    BY <1>4, <2>3
  <2>6. LifecycleTypeOK'
    BY <1>1, <1>6, <2>2, <2>4, <2>5
  <2>7. HeldIsOpen'
    BY <1>5, <2>4, <2>5 DEF HeldIsOpen
  <2>8. AnswerIsExclusive'
    <3>1. \A h \in Handlers : Answering(h) => handler[h].clar \in Clarifications
      BY DEF Answering, HandlersHaveClar
    <3> QED BY <1>2, <2>4, <3>1 DEF AnswerIsExclusive, Answering
  <2> QED BY <1>2, <2>6, <2>7, <2>8 DEF HandlersHaveClar
<1> QED BY <1>7, <1>8, <1>9, <1>10, <1>11 DEF PollerStep

\* Every step keeps the invariant.
LEMMA NextLInv ==
    ASSUME LInv, [LifecycleNext]_(lifecycleVars)
    PROVE  LInv'
<1> USE DEF LInv
<1>1. CASE \E t \in Tasks :
              CloseTask(t) \/ \E s \in {"draft", "submitted"} : create_task(t, s)
  <2>1. UNCHANGED <<clar, created, events, handler, poller, deaths>>
    BY <1>1 DEF CloseTask, create_task
  <2>2. PICK t \in Tasks, s \in TaskStatus : task' = [task EXCEPT ![t].status = s]
    <3>1. {"blocked", "draft", "submitted", "canceled"} \subseteq TaskStatus
      BY DEF TaskStatus, TERMINAL_TASK_STATUSES
    <3> QED BY <1>1, <3>1 DEF CloseTask, create_task
  <2>3. LifecycleTypeOK'
    <3>1. task' \in [Tasks -> TaskRow]
      BY <2>2, TypedByRow, TaskUpdate
    <3> QED BY <2>1, <3>1, TypedByRow, TypedByRowAfter
  <2> QED BY <2>1, <2>3 DEF HandlersHaveClar, HeldIsOpen, AnswerIsExclusive, Answering
<1>2. CASE \E h \in Handlers :
             \/ HandlerStep(h) \/ RequestDies(h)
             \/ \E t \in Tasks : submit_task(h, t)
             \/ \E c \in Clarifications :
                   create_clarification(h, c) \/ answer_clarification(h, c)
  BY <1>2, HandlersKeep, CreateKeeps, AnswerKeeps DEF HandlerStep
<1>3. CASE \E p \in Pollers : PollerStep(p) \/ CycleFails(p)
  BY <1>3, PollersKeep
<1>4. CASE HourPasses
  <2>1. /\ UNCHANGED <<task, created, events, handler, poller, deaths>>
        /\ clar' = [c \in Clarifications |->
                      [clar[c] EXCEPT !.due = IF clar[c].due > 0 THEN clar[c].due - 1 ELSE 0]]
    BY <1>4 DEF HourPasses
  <2>2. clar \in [Clarifications -> ClarRow] /\ poller \in [Pollers -> Cycle]
    BY TypedByRow
  <2>3. /\ clar' \in [Clarifications -> ClarRow]
        /\ \A c \in Clarifications : clar'[c].status = clar[c].status
    <3>1. ASSUME NEW r \in ClarRow
          PROVE  /\ [r EXCEPT !.due = IF r.due > 0 THEN r.due - 1 ELSE 0] \in ClarRow
                 /\ [r EXCEPT !.due = IF r.due > 0 THEN r.due - 1 ELSE 0].status = r.status
      BY LifecycleAssumption DEF ClarRow
    <3> QED BY <2>1, <2>2, <3>1
  <2>4. LifecycleTypeOK'
    BY <2>1, <2>3, TypedByRow, TypedByRowAfter
  <2>5. \A p \in Pollers : poller[p].row \in Clarifications \cup {None}
    BY <2>2 DEF Cycle
  <2> QED BY <2>1, <2>3, <2>4, <2>5 DEF HandlersHaveClar, HeldIsOpen, AnswerIsExclusive,
             Answering
<1>5. CASE UNCHANGED lifecycleVars
  BY <1>5 DEF lifecycleVars, LifecycleTypeOK, HandlersHaveClar, HeldIsOpen, AnswerIsExclusive,
     Answering
<1> QED BY <1>1, <1>2, <1>3, <1>4, <1>5 DEF LifecycleNext

\* The initial states satisfy the invariant.
LEMMA InitLInv ==
    ASSUME LifecycleInit
    PROVE  LInv
<1>1. LifecycleTypeOK
  BY LifecycleAssumption DEF LifecycleInit, LifecycleTypeOK, TaskStatus, NoRequest, Sleeping
<1>2. HandlersHaveClar /\ HeldIsOpen /\ AnswerIsExclusive
  BY DEF LifecycleInit, NoRequest, Sleeping, HandlersHaveClar, HeldIsOpen,
     AnswerIsExclusive, Answering
<1> QED BY <1>1, <1>2 DEF LInv

LEMMA LifecycleInvariant == LifecycleSpec => []LInv
<1>1. LifecycleInit => LInv
  BY InitLInv
<1>2. LInv /\ [LifecycleNext]_(lifecycleVars) => LInv'
  BY NextLInv
<1> QED BY <1>1, <1>2, PTL DEF LifecycleSpec

\* The lifecycle events in the outbox are those of the rows: an event is recorded in the
\* transaction that sets the mark of its row.
EventsMatchRows ==
    \A c \in Clarifications :
        /\ <<c, "expired">> \in events <=> clar[c].status = "expired"
        /\ <<c, "reminder">> \in events <=> clar[c].reminded
        /\ clar[c].reminded \/ clar[c].message => clar[c].status # "absent"
        /\ clar[c].message => clar[c].status = "answered"

\* What a step may do to a clarification and to its events.
RowKept(c) ==
    /\ clar'[c].status = clar[c].status /\ clar'[c].reminded = clar[c].reminded
    /\ clar'[c].message = clar[c].message
EventsKept(c) == \A k \in {"reminder", "expired"} : <<c, k>> \in events' <=> <<c, k>> \in events

RowMove(c) ==
    \/ RowKept(c) /\ EventsKept(c)
    \/ /\ clar[c].status = "absent" /\ EventsKept(c)
       /\ clar'[c].status = "open" /\ ~clar'[c].reminded /\ ~clar'[c].message
    \/ /\ clar[c].status = "open" /\ EventsKept(c) /\ clar'[c].status = "answered"
       /\ clar'[c].reminded = clar[c].reminded /\ clar'[c].message = clar[c].message
    \/ /\ clar[c].status = "answered" /\ EventsKept(c) /\ clar'[c].status = "answered"
       /\ clar'[c].reminded = clar[c].reminded
    \/ /\ clar[c].status = "open" /\ clar'[c].status = "open" /\ clar'[c].reminded
       /\ clar'[c].message = clar[c].message
       /\ <<c, "reminder">> \in events'
       /\ <<c, "expired">> \in events' <=> <<c, "expired">> \in events
    \/ /\ clar[c].status = "open" /\ clar'[c].status = "expired"
       /\ clar'[c].reminded = clar[c].reminded /\ clar'[c].message = clar[c].message
       /\ <<c, "expired">> \in events'
       /\ <<c, "reminder">> \in events' <=> <<c, "reminder">> \in events

\* Every step moves a row so.
LEMMA StepsMoveClarifications ==
    ASSUME LInv, [LifecycleNext]_(lifecycleVars),
           NEW c \in Clarifications
    PROVE  RowMove(c)
<1>1. /\ clar \in [Clarifications -> ClarRow] /\ clar[c] \in ClarRow
      /\ handler \in [Handlers -> Request] /\ poller \in [Pollers -> Cycle]
  BY TypedByRow DEF LInv
<1>2. ASSUME clar' = clar, events' = events
      PROVE  RowMove(c)
  BY <1>2 DEF RowMove, RowKept, EventsKept
<1>3. ASSUME NEW h \in Handlers, NEW e \in Clarifications, create_clarification(h, e)
      PROVE  RowMove(c)
  BY <1>1, <1>3 DEF create_clarification, RowMove, RowKept, EventsKept
<1>4. ASSUME NEW h \in Handlers,
             claim_clarification_answer(h) \/ set_answer_message(h)
      PROVE  RowMove(c)
  <2>1. events' = events
    BY <1>4 DEF claim_clarification_answer, set_answer_message
  <2>2. /\ handler[h].clar \in Clarifications
        /\ Answering(h) => clar[handler[h].clar].status = "answered"
    BY <1>4 DEF LInv, HandlersHaveClar, AnswerIsExclusive, claim_clarification_answer,
       set_answer_message
  <2>3. CASE UNCHANGED clar
    BY <1>2, <2>1, <2>3
  <2>4. CASE /\ clar[handler[h].clar].status = "open"
             /\ clar' = [clar EXCEPT ![handler[h].clar].status = "answered"]
    BY <1>1, <2>1, <2>2, <2>4 DEF RowMove, RowKept, EventsKept, ClarRow
  <2>5. CASE /\ clar[handler[h].clar].status = "answered"
             /\ clar' = [clar EXCEPT ![handler[h].clar].message = TRUE]
    BY <1>1, <2>1, <2>2, <2>5 DEF RowMove, RowKept, EventsKept, ClarRow
  <2> QED BY <1>4, <2>2, <2>3, <2>4, <2>5
          DEF claim_clarification_answer, set_answer_message, Answerable,
             Answering
<1>5. ASSUME NEW p \in Pollers, CommitExpiry(p)
      PROVE  RowMove(c)
  <2> DEFINE d == poller[p].row
  <2>1. /\ d \in Clarifications /\ clar[d].status = "open"
        /\ clar' = [clar EXCEPT ![d].status = "expired"] /\ events' = events \cup {<<d, "expired">>}
    BY <1>1, <1>5 DEF CommitExpiry, LInv, HeldIsOpen, Cycle
  <2> QED BY <1>1, <2>1 DEF RowMove, RowKept, EventsKept, ClarRow
<1>6. ASSUME NEW p \in Pollers, RemindOne(p)
      PROVE  RowMove(c)
  <2>1. PICK d \in RemindableFor(p) :
          \/ UNCHANGED <<clar, events>>
          \/ clar' = [clar EXCEPT ![d].reminded = TRUE] /\ events' = events \cup {<<d, "reminder">>}
    BY <1>6 DEF RemindOne
  <2>2. d \in Clarifications /\ clar[d].status = "open"
    BY DEF RemindableFor, Candidates, Remindable
  <2>3. CASE clar' = [clar EXCEPT ![d].reminded = TRUE] /\ events' = events \cup {<<d, "reminder">>}
    BY <1>1, <2>2, <2>3 DEF RowMove, RowKept, EventsKept, ClarRow
  <2> QED BY <1>2, <2>1, <2>3
<1>7. CASE HourPasses
  <2>1. /\ events' = events
        /\ clar'[c] = [clar[c] EXCEPT !.due = IF clar[c].due > 0 THEN clar[c].due - 1 ELSE 0]
    BY <1>7 DEF HourPasses
  <2> QED BY <1>1, <2>1 DEF RowMove, RowKept, EventsKept, ClarRow
<1>8. CASE UNCHANGED lifecycleVars
  BY <1>2, <1>8 DEF lifecycleVars
<1>9. CASE \E t \in Tasks :
              CloseTask(t) \/ \E s \in {"draft", "submitted"} : create_task(t, s)
  BY <1>2, <1>9 DEF CloseTask, create_task
<1>10. CASE \E h \in Handlers :
             \/ HandlerStep(h) \/ RequestDies(h)
             \/ \E t \in Tasks : submit_task(h, t)
             \/ \E e \in Clarifications :
                   create_clarification(h, e) \/ answer_clarification(h, e)
  BY <1>2, <1>3, <1>4, <1>10 DEF HandlerStep, update_status, MarkNeeded,
     MarkAnswered, RequestDies,
     submit_task, answer_clarification
<1>11. CASE \E p \in Pollers : PollerStep(p) \/ CycleFails(p)
  BY <1>2, <1>5, <1>6, <1>11 DEF PollerStep, WakeUp, ClaimExpiry, SkipExpiry,
     EndExpiry, EndReminder,
     CycleFails
<1> QED BY <1>7, <1>8, <1>9, <1>10, <1>11 DEF LifecycleNext

LEMMA NextEvents ==
    ASSUME LInv, EventsMatchRows, [LifecycleNext]_(lifecycleVars)
    PROVE  EventsMatchRows'
<1> SUFFICES ASSUME NEW c \in Clarifications
             PROVE  /\ <<c, "expired">> \in events' <=> clar'[c].status = "expired"
                    /\ <<c, "reminder">> \in events' <=> clar'[c].reminded
                    /\ clar'[c].reminded \/ clar'[c].message => clar'[c].status # "absent"
                    /\ clar'[c].message => clar'[c].status = "answered"
  BY DEF EventsMatchRows
<1>1. RowMove(c)
  BY StepsMoveClarifications
<1>2. clar[c] \in ClarRow /\ clar'[c] \in ClarRow
  BY NextLInv, TypedByRow, TypedByRowAfter DEF LInv
<1> QED BY <1>1, <1>2 DEF RowMove, RowKept, EventsKept, EventsMatchRows, ClarRow

\* Once it is answered or expired, a clarification stays so.
SettledIsFinal ==
    [][\A c \in Clarifications :
          clar[c].status \in {"answered", "expired"} =>
              clar'[c].status = clar[c].status]_(lifecycleVars)

\* Type correctness of the clarification lifecycle.
THEOREM LifecycleTyped == LifecycleSpec => []LifecycleTypeOK
<1>1. LInv => LifecycleTypeOK
  BY DEF LInv
<1> QED BY <1>1, LifecycleInvariant, PTL

\* Of concurrent answers to a clarification one at most gets beyond its claim, and the row it
\* works on stays answered: no poller expires it (answer_clarification).
THEOREM OneAnswerAtATime ==
    LifecycleSpec => []AnswerIsExclusive
<1>1. LInv => AnswerIsExclusive
  BY DEF LInv
<1> QED BY <1>1, LifecycleInvariant, PTL

\* The outbox and the clarifications agree at every moment: an expiry or a reminder is recorded
\* if and only if its row says so (_claim_one_expiry, _claim_one_reminder).
THEOREM RowsAnnounced == LifecycleSpec => []EventsMatchRows
<1>1. LifecycleInit => EventsMatchRows
  BY DEF LifecycleInit, EventsMatchRows
<1>2. LInv /\ EventsMatchRows /\ [LifecycleNext]_(lifecycleVars) => EventsMatchRows'
  BY NextEvents
<1> QED BY <1>1, <1>2, LifecycleInvariant, PTL DEF LifecycleSpec
\* An answered clarification is never expired, nor an expired one answered, by whatever
\* request read it before.
THEOREM SettledStaySettled == LifecycleSpec => SettledIsFinal
<1> DEFINE Kept(c) == clar[c].status \in {"answered", "expired"} => clar'[c].status = clar[c].status
<1>1. LInv /\ [LifecycleNext]_(lifecycleVars)
        => [\A c \in Clarifications : Kept(c)]_(lifecycleVars)
  <2> SUFFICES ASSUME LInv, [LifecycleNext]_(lifecycleVars), NEW c \in Clarifications
               PROVE  Kept(c)
    BY Zenon
  <2> QED BY StepsMoveClarifications DEF RowMove, RowKept
<1> QED BY <1>1, LifecycleInvariant, PTL DEF LifecycleSpec, SettledIsFinal
-----------------------------------------------------------------------------
(* Lifecycle and outbox together *)

\* A poller inserts the outbox row of an event in the transaction that records the event
\* (insert_lifecycle_outbox_event): there is a row exactly for what is recorded.
OneTransaction ==
    \A c \in Clarifications, kind \in {"reminder", "expired"} :
        /\ <<c, kind>> \in Rows
        /\ <<c, kind>> \in events <=> outbox[<<c, kind>>].status # "absent"

\* What reaches the stream is true of the clarification, and what is true of the clarification
\* has reached the stream, or waits in the outbox for a relay or an operator.
ToldTrulyAndInFull ==
    \A c \in Clarifications :
        /\ landed[<<c, "expired">>] > 0 => clar[c].status = "expired"
        /\ landed[<<c, "reminder">>] > 0 => clar[c].reminded
        /\ clar[c].status = "expired" =>
               landed[<<c, "expired">>] > 0 \/ outbox[<<c, "expired">>].status \in {"pending", "dead"}
        /\ clar[c].reminded =>
               landed[<<c, "reminder">>] > 0 \/ outbox[<<c, "reminder">>].status \in {"pending", "dead"}

\* Pollers that compete or die, relays that compete, die, fail and deliver twice, operators that
\* replay: nobody is told of an expiry or a reminder that did not happen, and none that happened
\* is forgotten, because mark and row come from one transaction.
THEOREM NoticesAreTrue == LifecycleSpec /\ Spec /\ []OneTransaction => []ToldTrulyAndInFull
<1>1. IInv /\ EventsMatchRows /\ OneTransaction => ToldTrulyAndInFull
  <2> SUFFICES ASSUME IInv, EventsMatchRows, OneTransaction,
                      NEW c \in Clarifications, NEW kind \in {"reminder", "expired"}
               PROVE  /\ landed[<<c, kind>>] > 0 => <<c, kind>> \in events
                      /\ <<c, kind>> \in events =>
                             landed[<<c, kind>>] > 0 \/ outbox[<<c, kind>>].status \in {"pending", "dead"}
    BY DEF EventsMatchRows, ToldTrulyAndInFull
  <2>1. /\ <<c, kind>> \in Rows
        /\ <<c, kind>> \in events <=> outbox[<<c, kind>>].status # "absent"
    BY DEF OneTransaction
  <2>2. CASE outbox[<<c, kind>>].status = "absent"
    <3>1. landed[<<c, kind>>] = 0
      BY <2>1, <2>2 DEF IInv, AbsentUntouched
    <3> QED BY <2>1, <2>2, <3>1
  <2>3. CASE outbox[<<c, kind>>].status # "absent"
    <3>1. outbox[<<c, kind>>].status \in {"pending", "published", "dead"}
      BY <2>1, <2>3 DEF IInv, TypeOK, RowState
    <3>2. outbox[<<c, kind>>].status = "published" => landed[<<c, kind>>] > 0
      BY <2>1 DEF IInv, PublishedWasDelivered
    <3> QED BY <2>1, <2>3, <3>1, <3>2
  <2> QED BY <2>2, <2>3
<1> QED BY <1>1, Inductive, RowsAnnounced, PTL
=============================================================================
