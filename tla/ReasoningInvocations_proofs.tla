--------------------- MODULE ReasoningInvocations_proofs ---------------------
(***************************************************************************)
(* No call that left is uncharged, no two callers are handed different     *)
(* artifacts, and the row implements CanonicalResult: for any number of    *)
(* correlation ids, workers, attempts and crashes, whatever the costs.     *)
(*                                                                         *)
(* The token carries the argument.  Each claim, takeover and retry draws a *)
(* new attempt, so no two workers ever work on the same one; the row keeps *)
(* the last one drawn, and only its owner, or somebody who has been handed *)
(* nothing else, can give its artifact away.                               *)
(*                                                                         *)
(* The second part bounds what the attempts together are charged.  The     *)
(* ledger is summed up with a fold, so it begins with what a fold over a   *)
(* finite set computes: that its recursive function exists, and what it    *)
(* is, is proved by induction on a set of numbers and on a set of sets.    *)
(***************************************************************************)
EXTENDS ReasoningInvocations, FiniteSetTheorems, NaturalsInduction, WellFoundedInduction,
        TLAPS

\* The row keeps the token of its last attempt, and at most that attempt's artifact.
RowsKeepToken ==
    \A c \in Correlations :
        /\ row[c].status = "absent" => row[c] = NoRow
        /\ row[c].token <= row[c].attempt
        /\ row[c].artifact \in {Failure, row[c].token}
        /\ row[c].status = "started" => row[c].artifact = Failure

\* A worker in an attempt drew it from its row, and no other worker is in the same one.
AttemptsAreApart ==
    /\ \A w \in Workers : worker[w].at \in Owning =>
         /\ worker[w].attempt \in 1..RowOf(w).attempt
         /\ worker[w].token = worker[w].attempt
         /\ worker[w].outcome \in {Failure, worker[w].attempt}
    /\ \A w \in Workers : worker[w].at # "complete" => worker[w].outcome = Failure
    /\ \A v, w \in Workers : v # w /\ worker[v].at \in Owning /\ worker[w].at \in Owning =>
         KeyOf(v) # KeyOf(w)

\* Nothing is charged or sent for attempts to come; before an attempt sends, it is charged.
ChargedBeforeSent ==
    /\ \A c \in Correlations, n \in Attempts : n > row[c].attempt =>
         ledger[<<c, n>>] = NoCharge /\ wire[<<c, n>>] = 0
    /\ \A w \in Workers :
         /\ worker[w].at \in {"budget", "reserve"} =>
              ledger[KeyOf(w)] = NoCharge /\ wire[KeyOf(w)] = 0
         /\ worker[w].at = "credential" =>
              ledger[KeyOf(w)].type = "reserved_usage" /\ wire[KeyOf(w)] = 0

\* An artifact that was handed out is the one of the last attempt of an ended row.
HandedIsLast ==
    \A c \in Correlations : \A a \in handed[c] \ {Failure} :
        row[c].status \in Terminal /\ a = row[c].token

IInv == /\ TypeOK /\ RowsKeepToken /\ AttemptsAreApart
        /\ ChargedBeforeSent /\ CallsAreCharged /\ HandedIsLast
-----------------------------------------------------------------------------
\* The idle worker, the absent row and the row from before the leases have their types.
LEMMA ConstantTypes ==
    /\ Idle \in WorkerType /\ Idle.at = "idle"
    /\ NoRow \in RowType /\ LegacyRow \in RowType
    /\ NoCharge \in [type : ChargeTypes, cost : Costs]
<1>1. (CHOOSE c \in Correlations : TRUE) \in Correlations
  BY ReasoningAssumption
<1>2. Idle \in WorkerType /\ Idle.at = "idle"
  BY <1>1, ReasoningAssumption DEF Idle, WorkerType, Phases, Outcomes
<1>3. NoRow \in RowType
  BY ReasoningAssumption DEF NoRow, RowType, Outcomes
<1>4. LegacyRow \in RowType
  BY ReasoningAssumption DEF LegacyRow, RowType, Outcomes
<1>5. NoCharge \in [type : ChargeTypes, cost : Costs]
  BY DEF NoCharge, ChargeTypes, Costs
<1> QED BY <1>2, <1>3, <1>4, <1>5

\* The initial states satisfy the invariant.
LEMMA InitIInv == Init => IInv
<1> SUFFICES ASSUME Init PROVE IInv
  OBVIOUS
<1>1. TypeOK
  <2>1. row \in [Correlations -> RowType]
    BY ConstantTypes DEF Init
  <2>2. worker \in [Workers -> WorkerType]
    BY ConstantTypes DEF Init
  <2>3. ledger \in [Keys -> [type : ChargeTypes, cost : Costs]]
    BY ConstantTypes DEF Init
  <2>4. wire \in [Keys -> 0..1] /\ handed \in [Correlations -> SUBSET Outcomes]
    BY DEF Init
  <2>5. crashes \in 0..MaxCrashes
    BY ReasoningAssumption DEF Init
  <2> QED BY <2>1, <2>2, <2>3, <2>4, <2>5 DEF TypeOK
<1>2. RowsKeepToken
  BY DEF Init, RowsKeepToken, NoRow, LegacyRow, Failure
<1>3. \A w \in Workers : worker[w].at = "idle"
  BY ConstantTypes DEF Init
<1>4. \A k \in Keys : wire[k] = 0 /\ ledger[k] = NoCharge
  BY DEF Init
<1>5. AttemptsAreApart
  BY <1>3 DEF AttemptsAreApart, Owning, Init, Idle
<1>6. ChargedBeforeSent
  BY <1>3, <1>4 DEF ChargedBeforeSent, Keys
<1>7. CallsAreCharged
  BY <1>4 DEF CallsAreCharged
<1>8. HandedIsLast
  BY DEF Init, HandedIsLast
<1> QED BY <1>1, <1>2, <1>5, <1>6, <1>7, <1>8 DEF IInv
-----------------------------------------------------------------------------
\* The columns a claim, a takeover and a retry stamp.
LEMMA NextAttemptType ==
    ASSUME NEW r \in RowType, r.attempt < MaxAttempts
    PROVE  /\ NextAttempt(r) \in RowType
           /\ NextAttempt(r).attempt = r.attempt + 1 /\ NextAttempt(r).token = r.attempt + 1
           /\ NextAttempt(r).status = r.status /\ NextAttempt(r).artifact = r.artifact
<1>1. r.attempt \in 0..MaxAttempts /\ r.attempt + 1 \in 0..MaxAttempts
  BY ReasoningAssumption DEF RowType
<1>2. NextAttempt(r) = [r EXCEPT !.attempt = r.attempt + 1, !.token = r.attempt + 1,
                                 !.lease = "live"]
  BY DEF NextAttempt, RowType
<1> QED BY <1>1, <1>2 DEF RowType

\* What the INSERT of a claim makes of an absent row.
LEMMA ClaimedType ==
    /\ Claimed(NoRow) \in RowType
    /\ Claimed(NoRow).attempt = 1 /\ Claimed(NoRow).token = 1
    /\ Claimed(NoRow).status = "started" /\ Claimed(NoRow).artifact = Failure
<1> DEFINE begun == [NoRow EXCEPT !.status = "started"]
<1>1. begun \in RowType /\ begun.attempt = 0 /\ begun.status = "started"
      /\ begun.artifact = Failure
  BY ConstantTypes DEF RowType, NoRow
<1>2. Claimed(NoRow) = NextAttempt(begun)
  BY DEF Claimed
<1> HIDE DEF begun
<1> QED BY <1>1, <1>2, NextAttemptType, ReasoningAssumption

\* What a terminal write makes of a row.
LEMMA EndedType ==
    ASSUME NEW r \in RowType, NEW o \in Outcomes
    PROVE  /\ Ended(r, o) \in RowType
           /\ Ended(r, o).status \in Terminal /\ Ended(r, o).artifact = o
           /\ Ended(r, o).attempt = r.attempt /\ Ended(r, o).token = r.token
<1> DEFINE status == IF o = Failure THEN "failed" ELSE "succeeded"
<1>1. status \in Terminal
  BY DEF Terminal
<1>2. Ended(r, o) = [r EXCEPT !.status = status, !.artifact = o, !.lease = "null"]
  BY DEF Ended
<1> HIDE DEF status
<1> QED BY <1>1, <1>2 DEF RowType

\* A caller that is given what its row says is given no artifact but the row's.
LEMMA SettledHands ==
    ASSUME IInv, NEW c \in Correlations, Settled(c), UNCHANGED row
    PROVE  handed' \in [Correlations -> SUBSET Outcomes] /\ HandedIsLast'
<1> USE DEF IInv
<1>1. row[c].artifact \in Outcomes /\ row[c].status \in {"absent", "started"} \cup Terminal
  BY DEF TypeOK, RowType
<1>2. CASE row[c].status = "started"
  BY <1>2 DEF Settled, TypeOK, HandedIsLast
<1>3. CASE row[c].status \in Terminal
  <2>1. handed' = [handed EXCEPT ![c] = @ \cup {row[c].artifact}]
    BY <1>1, <1>3 DEF Settled, Hand, Terminal
  <2>2. handed' \in [Correlations -> SUBSET Outcomes]
    BY <1>1, <2>1 DEF TypeOK
  <2>3. HandedIsLast'
    BY <1>3, <2>1 DEF TypeOK, HandedIsLast, RowsKeepToken
  <2> QED BY <2>2, <2>3
<1>4. CASE row[c].status = "absent"
  <2>1. handed' = [handed EXCEPT ![c] = @ \cup {Failure}]
    BY <1>4 DEF Settled, Hand, RowsKeepToken, NoRow
  <2>2. handed' \in [Correlations -> SUBSET Outcomes]
    BY <2>1 DEF TypeOK, Outcomes
  <2>3. HandedIsLast'
    BY <2>1 DEF TypeOK, HandedIsLast
  <2> QED BY <2>2, <2>3
<1> QED BY <1>1, <1>2, <1>3, <1>4

\* A worker that changes nothing but its own place: it leaves its attempt, or goes on in it
\* and does not come back to a place before its charge.
LEMMA PlaceChanges ==
    ASSUME IInv, NEW w \in Workers, NEW to \in WorkerType,
           worker' = [worker EXCEPT ![w] = to],
           to.at \in Owning => /\ worker[w].at \in Owning /\ to.corr = worker[w].corr
                               /\ to.attempt = worker[w].attempt /\ to.token = worker[w].token
                               /\ to.outcome \in {Failure, to.attempt},
           to.at # "complete" => to.outcome = Failure,
           to.at \in {"budget", "reserve"} => worker[w].at \in {"budget", "reserve"},
           to.at = "credential" => worker[w].at = "credential",
           UNCHANGED <<row, ledger, wire>>, crashes' \in 0..MaxCrashes,
           handed' \in [Correlations -> SUBSET Outcomes], HandedIsLast'
    PROVE  IInv'
<1> USE DEF IInv
<1>1. worker \in [Workers -> WorkerType] /\ worker' \in [Workers -> WorkerType]
  BY DEF TypeOK
<1>2. worker'[w] = to /\ \A v \in Workers : v # w => worker'[v] = worker[v]
  BY <1>1
<1>3. TypeOK'
  BY <1>1 DEF TypeOK
<1>4. RowsKeepToken' /\ CallsAreCharged'
  BY DEF RowsKeepToken, CallsAreCharged
<1>5. AttemptsAreApart'
  BY <1>2 DEF AttemptsAreApart, RowOf, KeyOf
<1>6. ChargedBeforeSent'
  BY <1>2 DEF ChargedBeforeSent, KeyOf, Owning
<1> QED BY <1>3, <1>4, <1>5, <1>6

\* A worker that draws the next attempt of a row that is not decided.
LEMMA NewAttempt ==
    ASSUME IInv, NEW w \in Workers, NEW c \in Correlations, NEW r \in RowType,
           NEW to \in WorkerType,
           row[c].status \notin Terminal,
           r.status = "started", r.attempt = row[c].attempt + 1, r.token = r.attempt,
           r.artifact = Failure,
           to.at \in {"complete", "budget"}, to.corr = c, to.attempt = r.attempt,
           to.token = r.attempt, to.outcome = Failure,
           row' = [row EXCEPT ![c] = r], worker' = [worker EXCEPT ![w] = to],
           UNCHANGED <<ledger, wire, handed, crashes>>
    PROVE  IInv'
<1> USE DEF IInv
<1>1. /\ row \in [Correlations -> RowType] /\ row' \in [Correlations -> RowType]
      /\ worker \in [Workers -> WorkerType] /\ worker' \in [Workers -> WorkerType]
  BY DEF TypeOK
<1>2. /\ row'[c] = r /\ \A d \in Correlations : d # c => row'[d] = row[d]
      /\ worker'[w] = to /\ \A v \in Workers : v # w => worker'[v] = worker[v]
  BY <1>1
<1>3. /\ \A d \in Correlations : row[d].attempt \in Nat /\ row[d].attempt <= row'[d].attempt
      /\ \A v \in Workers : worker[v].corr \in Correlations
      /\ r.attempt \in Attempts
  <2>1. /\ \A d \in Correlations : row[d].attempt \in 0..MaxAttempts
        /\ \A v \in Workers : worker[v].corr \in Correlations
        /\ r.attempt \in 0..MaxAttempts
    BY <1>1 DEF RowType, WorkerType
  <2> QED BY <1>2, <2>1, ReasoningAssumption DEF Attempts
<1>4. TypeOK'
  BY <1>1 DEF TypeOK
<1>5. RowsKeepToken'
  <2>1. r.attempt = r.token /\ r.attempt \in Nat
    BY DEF RowType
  <2> QED BY <1>2, <2>1 DEF RowsKeepToken
<1>6. AttemptsAreApart'
  <2>1. \A v \in Workers : v # w /\ worker[v].at \in Owning =>
                             worker[v].attempt < r.attempt \/ worker[v].corr # c
    BY <1>3 DEF AttemptsAreApart, RowOf
  <2>2. \A v \in Workers : worker'[v].at \in Owning =>
          /\ worker'[v].attempt \in 1..row'[worker'[v].corr].attempt
          /\ worker'[v].token = worker'[v].attempt
          /\ worker'[v].outcome \in {Failure, worker'[v].attempt}
    <3> SUFFICES ASSUME NEW v \in Workers, worker'[v].at \in Owning
                 PROVE  /\ worker'[v].attempt \in 1..row'[worker'[v].corr].attempt
                        /\ worker'[v].token = worker'[v].attempt
                        /\ worker'[v].outcome \in {Failure, worker'[v].attempt}
      OBVIOUS
    <3>1. CASE v = w
      BY <1>2, <1>3, <3>1 DEF Attempts
    <3>2. CASE v # w
      <4>1. /\ worker[v].attempt \in 1..row[worker[v].corr].attempt
            /\ worker[v].token = worker[v].attempt
            /\ worker[v].outcome \in {Failure, worker[v].attempt}
        BY <1>2, <3>2 DEF AttemptsAreApart, RowOf
      <4> QED BY <1>1, <1>2, <1>3, <3>2, <4>1 DEF RowType
    <3> QED BY <3>1, <3>2
  <2> QED BY <1>2, <2>1, <2>2 DEF AttemptsAreApart, RowOf, KeyOf
<1>7. ChargedBeforeSent'
  <2>1. ledger[<<c, r.attempt>>] = NoCharge /\ wire[<<c, r.attempt>>] = 0
    BY <1>1, <1>3 DEF ChargedBeforeSent, RowType
  <2>2. \A d \in Correlations, n \in Attempts : n > row'[d].attempt => n > row[d].attempt
    BY <1>1, <1>3 DEF Attempts, RowType
  <2> QED BY <1>2, <2>1, <2>2 DEF ChargedBeforeSent, KeyOf
<1>8. CallsAreCharged' /\ HandedIsLast'
  BY <1>2 DEF CallsAreCharged, HandedIsLast
<1> QED BY <1>4, <1>5, <1>6, <1>7, <1>8

\* The key of a worker in an attempt is a key of the ledger, and no later attempt's.
LEMMA KeyOfOwner ==
    ASSUME IInv, NEW w \in Workers, worker[w].at \in Owning
    PROVE  /\ KeyOf(w) \in Keys /\ worker[w].corr \in Correlations
           /\ worker[w].attempt \in Attempts /\ worker[w].attempt <= RowOf(w).attempt
<1>1. worker[w].corr \in Correlations /\ row[worker[w].corr] \in RowType
  BY DEF IInv, TypeOK, WorkerType
<1>2. worker[w].attempt \in 1..RowOf(w).attempt /\ RowOf(w).attempt \in 0..MaxAttempts
  BY <1>1 DEF IInv, AttemptsAreApart, RowOf, RowType
<1> QED BY <1>1, <1>2, ReasoningAssumption DEF KeyOf, Keys, Attempts

\* A worker that charges, sends, settles or releases its own attempt and goes on in it.
LEMMA KeyChanges ==
    ASSUME IInv, NEW w \in Workers, NEW to \in WorkerType, worker[w].at \in Owning,
           worker' = [worker EXCEPT ![w] = to],
           to.at \in {"credential", "waiting", "complete"},
           to.corr = worker[w].corr, to.attempt = worker[w].attempt,
           to.token = worker[w].token, to.outcome \in {Failure, to.attempt},
           to.at # "complete" => to.outcome = Failure,
           ledger' \in [Keys -> [type : ChargeTypes, cost : Costs]],
           wire' \in [Keys -> 0..1],
           \A k \in Keys : k # KeyOf(w) => ledger'[k] = ledger[k] /\ wire'[k] = wire[k],
           wire'[KeyOf(w)] > 0 => ledger'[KeyOf(w)].type \in CountedTypes,
           to.at = "credential" => /\ ledger'[KeyOf(w)].type = "reserved_usage"
                                   /\ wire'[KeyOf(w)] = 0,
           UNCHANGED <<row, handed, crashes>>
    PROVE  IInv'
<1> USE DEF IInv
<1>1. worker \in [Workers -> WorkerType] /\ worker' \in [Workers -> WorkerType]
  BY DEF TypeOK
<1>2. worker'[w] = to /\ \A v \in Workers : v # w => worker'[v] = worker[v]
  BY <1>1
<1>3. TypeOK'
  BY <1>1 DEF TypeOK
<1>4. RowsKeepToken' /\ HandedIsLast'
  BY DEF RowsKeepToken, HandedIsLast
<1>5. AttemptsAreApart'
  <2>1. "credential" \in Owning /\ "waiting" \in Owning /\ "complete" \in Owning
    BY DEF Owning
  <2> QED BY <1>2, <2>1 DEF AttemptsAreApart, RowOf, KeyOf
<1>6. ChargedBeforeSent'
  <2>1. \A c \in Correlations, n \in Attempts : n > row[c].attempt =>
          <<c, n>> \in Keys /\ <<c, n>> # KeyOf(w)
    <3>1. \A c \in Correlations : row[c].attempt \in Nat
      BY DEF TypeOK, RowType
    <3>2. worker[w].attempt \in Attempts /\ worker[w].attempt <= RowOf(w).attempt
      BY KeyOfOwner
    <3> QED BY <3>1, <3>2, ReasoningAssumption DEF KeyOf, RowOf, Keys, Attempts
  <2>2. \A v \in Workers : v # w /\ worker[v].at \in Owning =>
          KeyOf(v) \in Keys /\ KeyOf(v) # KeyOf(w)
    BY KeyOfOwner DEF AttemptsAreApart
  <2>3. "budget" \in Owning /\ "reserve" \in Owning /\ "credential" \in Owning
    BY DEF Owning
  <2>4. \A v \in Workers : v # w => KeyOf(v)' = KeyOf(v)
    BY <1>2 DEF KeyOf
  <2>5. KeyOf(w)' = KeyOf(w)
    BY <1>2 DEF KeyOf
  <2>6. \A c \in Correlations, n \in Attempts : n > row[c].attempt =>
          ledger'[<<c, n>>] = NoCharge /\ wire'[<<c, n>>] = 0
    BY <2>1 DEF ChargedBeforeSent
  <2>7. ASSUME NEW v \in Workers
        PROVE  /\ worker'[v].at \in {"budget", "reserve"} =>
                    ledger'[KeyOf(v)'] = NoCharge /\ wire'[KeyOf(v)'] = 0
               /\ worker'[v].at = "credential" =>
                    ledger'[KeyOf(v)'].type = "reserved_usage" /\ wire'[KeyOf(v)'] = 0
    <3>1. CASE v = w
      BY <1>2, <2>5, <3>1
    <3>2. CASE v # w
      BY <1>2, <2>2, <2>3, <2>4, <3>2 DEF ChargedBeforeSent
    <3> QED BY <3>1, <3>2
  <2> QED BY <2>6, <2>7 DEF ChargedBeforeSent
<1>7. CallsAreCharged'
  <2>1. \A k \in Keys : wire'[k] \in 0..1
    OBVIOUS
  <2> QED BY <2>1 DEF CallsAreCharged
<1> QED BY <1>3, <1>4, <1>5, <1>6, <1>7

\* A row that is decided by, or for, its last attempt.
LEMMA RowEnds ==
    ASSUME IInv, NEW w \in Workers, NEW c \in Correlations, NEW o \in Outcomes,
           row[c].status = "started", o \in {Failure, row[c].token},
           row' = [row EXCEPT ![c] = Ended(@, o)], worker' = [worker EXCEPT ![w] = Idle],
           handed' = handed \/ handed' = [handed EXCEPT ![c] = @ \cup {o}],
           UNCHANGED <<ledger, wire>>, crashes' \in 0..MaxCrashes
    PROVE  IInv'
<1> USE DEF IInv
<1> DEFINE r == Ended(row[c], o)
<1>1. /\ row \in [Correlations -> RowType] /\ worker \in [Workers -> WorkerType]
      /\ handed \in [Correlations -> SUBSET Outcomes]
  BY DEF TypeOK
<1>2. /\ r \in RowType /\ r.status \in Terminal /\ r.artifact = o
      /\ r.attempt = row[c].attempt /\ r.token = row[c].token
  BY <1>1, EndedType
<1>3. row' = [row EXCEPT ![c] = r]
  BY <1>1
<1> HIDE DEF r
<1>4. /\ row'[c] = r /\ \A d \in Correlations : d # c => row'[d] = row[d]
      /\ worker'[w] = Idle /\ \A v \in Workers : v # w => worker'[v] = worker[v]
  BY <1>1, <1>3
<1>5. TypeOK'
  BY <1>1, <1>2, <1>3, ConstantTypes DEF TypeOK
<1>6. RowsKeepToken'
  BY <1>2, <1>4 DEF RowsKeepToken, Terminal
<1>7. \A d \in Correlations : row'[d].attempt = row[d].attempt
  BY <1>2, <1>4
<1>8. AttemptsAreApart'
  <2>1. Idle.at \notin Owning /\ Idle.outcome = Failure
    BY DEF Idle, Owning
  <2>2. \A v \in Workers : worker[v].corr \in Correlations
    BY <1>1 DEF WorkerType
  <2> QED BY <1>4, <1>7, <2>1, <2>2 DEF AttemptsAreApart, RowOf, KeyOf
<1>9. ChargedBeforeSent'
  <2>1. Idle.at = "idle"
    BY DEF Idle
  <2> QED BY <1>4, <1>7, <2>1 DEF ChargedBeforeSent, KeyOf
<1>10. CallsAreCharged'
  BY DEF CallsAreCharged
<1>11. HandedIsLast'
  <2>1. \A a \in handed[c] \ {Failure} : FALSE
    BY DEF HandedIsLast, Terminal
  <2>2. \A a \in handed'[c] \ {Failure} : a = r.token
    BY <1>1, <1>2, <2>1
  <2>3. \A d \in Correlations : d # c => handed'[d] = handed[d]
    BY <1>1
  <2> QED BY <1>2, <1>4, <2>2, <2>3 DEF HandedIsLast
<1> QED BY <1>5, <1>6, <1>8, <1>9, <1>10, <1>11

\* A worker that leaves for idle, or for a place of invoke() outside the attempts.
LEMMA Leaves ==
    ASSUME IInv, NEW w \in Workers, NEW at \in Phases \ Owning, worker[w].outcome = Failure,
           worker' = [worker EXCEPT ![w].at = at] \/ Return(w),
           UNCHANGED <<row, ledger, wire>>, crashes' \in 0..MaxCrashes,
           handed' \in [Correlations -> SUBSET Outcomes], HandedIsLast'
    PROVE  IInv'
<1>1. worker \in [Workers -> WorkerType] /\ worker[w] \in WorkerType
  BY DEF IInv, TypeOK
<1>2. CASE worker' = [worker EXCEPT ![w].at = at]
  <2> DEFINE to == [worker[w] EXCEPT !.at = at]
  <2>1. to \in WorkerType /\ to.at = at /\ to.outcome = Failure
    BY <1>1 DEF WorkerType
  <2>2. worker' = [worker EXCEPT ![w] = to]
    BY <1>1, <1>2
  <2> HIDE DEF to
  <2>3. at \notin {"budget", "reserve", "credential", "complete"}
    BY DEF Owning
  <2> QED BY <2>1, <2>2, <2>3, PlaceChanges
<1>3. CASE Return(w)
  <2>1. worker' = [worker EXCEPT ![w] = Idle] /\ Idle.at = "idle" /\ Idle.outcome = Failure
    BY <1>3 DEF Return, Idle
  <2> QED BY <2>1, ConstantTypes, PlaceChanges DEF Owning
<1> QED BY <1>2, <1>3

\* What a worker takes over from the row it has drawn an attempt of.
LEMMA OwnType ==
    ASSUME IInv, NEW w \in Workers, NEW r \in RowType, Own(w, r), worker[w].outcome = Failure
    PROVE  \E to \in WorkerType :
             /\ to.at \in {"complete", "budget"} /\ to.corr = worker[w].corr
             /\ to.attempt = r.attempt /\ to.token = r.token /\ to.outcome = Failure
             /\ worker' = [worker EXCEPT ![w] = to]
<1> DEFINE at == IF worker[w].refused THEN "complete" ELSE "budget"
           to == [worker[w] EXCEPT !.at = at, !.attempt = r.attempt, !.token = r.token]
<1>1. at \in {"complete", "budget"} /\ at \in Phases
  BY DEF Phases
<1>2. worker \in [Workers -> WorkerType] /\ worker[w] \in WorkerType
  BY DEF IInv, TypeOK
<1>3. r.attempt \in 0..MaxAttempts /\ r.token \in 0..MaxAttempts
  BY DEF RowType
<1>4. worker' = [worker EXCEPT ![w] = to]
  BY <1>2 DEF Own
<1> HIDE DEF at
<1>5. /\ to \in WorkerType /\ to.at = at /\ to.corr = worker[w].corr
      /\ to.attempt = r.attempt /\ to.token = r.token /\ to.outcome = Failure
  BY <1>1, <1>2, <1>3 DEF WorkerType
<1> QED BY <1>1, <1>4, <1>5

\* Claiming, taking over and the ways around them keep the invariant.
LEMMA ClaimSteps ==
    ASSUME IInv, NEW w \in Workers, TryBegin(w) \/ TakeOver(w) \/ ReRead(w) \/ FailExhausted(w)
    PROVE  IInv'
<1> USE DEF IInv
<1> DEFINE c == worker[w].corr
<1>1. /\ worker \in [Workers -> WorkerType] /\ c \in Correlations
      /\ row \in [Correlations -> RowType] /\ row[c] \in RowType /\ RowOf(w) = row[c]
      /\ crashes \in 0..MaxCrashes /\ handed \in [Correlations -> SUBSET Outcomes]
  BY DEF TypeOK, WorkerType, RowOf
<1>2. worker[w].at \in {"claim", "takeover", "reread", "exhaust"} /\ worker[w].outcome = Failure
  BY DEF TryBegin, TakeOver, ReRead, FailExhausted, AttemptsAreApart
<1>3. {"idle", "takeover", "reread", "exhaust"} \subseteq Phases \ Owning
  BY DEF Phases, Owning
<1>4. row' = row /\ handed' = handed => HandedIsLast'
  BY DEF HandedIsLast
<1> HIDE DEF c
<1>5. CASE TryBegin(w)
  <2>1. CASE /\ RowOf(w).status = "absent"
             /\ row' = [row EXCEPT ![worker[w].corr] = Claimed(@)]
             /\ Own(w, Claimed(RowOf(w)))
             /\ UNCHANGED handed
    <3>1. row[c] = NoRow /\ row[c].attempt = 0 /\ row[c].status \notin Terminal
      BY <1>1, <2>1 DEF RowsKeepToken, NoRow, Terminal
    <3>2. PICK to \in WorkerType :
             /\ to.at \in {"complete", "budget"} /\ to.corr = worker[w].corr
             /\ to.attempt = Claimed(NoRow).attempt /\ to.token = Claimed(NoRow).token
             /\ to.outcome = Failure
             /\ worker' = [worker EXCEPT ![w] = to]
      BY <1>1, <1>2, <2>1, <3>1, ClaimedType, OwnType
    <3>3. row' = [row EXCEPT ![c] = Claimed(NoRow)]
      BY <1>1, <2>1, <3>1 DEF c
    <3>4. UNCHANGED <<ledger, wire, handed, crashes>>
      BY <1>5, <2>1 DEF TryBegin
    <3>5. PICK r \in RowType :
            /\ r = Claimed(NoRow) /\ r.status = "started" /\ r.attempt = row[c].attempt + 1
            /\ r.token = r.attempt /\ r.artifact = Failure
      BY <3>1, ClaimedType
    <3> QED BY <1>1, <3>1, <3>2, <3>3, <3>4, <3>5, NewAttempt DEF c
  <2>2. CASE RowOf(w).status = "started" /\ Goto(w, "takeover") /\ UNCHANGED <<row, handed>>
    BY <1>1, <1>2, <1>3, <1>4, <1>5, <2>2, Leaves DEF TryBegin, Goto
  <2>3. CASE /\ RowOf(w).status \in Terminal
             /\ Settled(worker[w].corr)
             /\ Return(w)
             /\ UNCHANGED row
    <3>1. handed' \in [Correlations -> SUBSET Outcomes] /\ HandedIsLast'
      BY <1>1, <2>3, SettledHands DEF c
    <3> QED BY <1>1, <1>2, <1>3, <1>5, <2>3, <3>1, Leaves DEF TryBegin
  <2> QED BY <1>5, <2>1, <2>2, <2>3 DEF TryBegin
<1>6. CASE TakeOver(w)
  <2>1. CASE CanTakeOver(RowOf(w))
    <3>1. /\ row[c].status = "started" /\ row[c].status \notin Terminal
          /\ row[c].attempt < MaxAttempts /\ row[c].artifact = Failure
      BY <1>1, <2>1 DEF CanTakeOver, RowsKeepToken, Terminal
    <3>2. /\ row' = [row EXCEPT ![c] = NextAttempt(row[c])] /\ Own(w, NextAttempt(row[c]))
          /\ UNCHANGED <<ledger, wire, handed, crashes>>
      BY <1>1, <1>6, <2>1 DEF TakeOver, c
    <3>3. /\ NextAttempt(row[c]) \in RowType
          /\ NextAttempt(row[c]).attempt = row[c].attempt + 1
          /\ NextAttempt(row[c]).token = row[c].attempt + 1
          /\ NextAttempt(row[c]).status = "started" /\ NextAttempt(row[c]).artifact = Failure
      BY <1>1, <3>1, NextAttemptType
    <3>4. PICK to \in WorkerType :
             /\ to.at \in {"complete", "budget"} /\ to.corr = worker[w].corr
             /\ to.attempt = NextAttempt(row[c]).attempt /\ to.token = NextAttempt(row[c]).token
             /\ to.outcome = Failure
             /\ worker' = [worker EXCEPT ![w] = to]
      BY <1>2, <3>2, <3>3, OwnType
    <3> QED BY <1>1, <3>1, <3>2, <3>3, <3>4, NewAttempt DEF c
  <2>2. CASE ~CanTakeOver(RowOf(w))
    BY <1>1, <1>2, <1>3, <1>4, <1>6, <2>2, Leaves DEF TakeOver, Goto
  <2> QED BY <2>1, <2>2
<1>7. CASE ReRead(w)
  <2>1. CASE Goto(w, "exhaust") /\ UNCHANGED handed
    BY <1>1, <1>2, <1>3, <1>4, <1>7, <2>1, Leaves DEF ReRead, Goto
  <2>2. CASE /\ RowOf(w).status \in Terminal \/ RowOf(w).attempt < MaxAttempts
             /\ Settled(worker[w].corr) /\ Return(w)
    <3>1. handed' \in [Correlations -> SUBSET Outcomes] /\ HandedIsLast'
      BY <1>1, <1>7, <2>2, SettledHands DEF ReRead, c
    <3> QED BY <1>1, <1>2, <1>3, <1>7, <2>2, <3>1, Leaves DEF ReRead
  <2> QED BY <1>7, <2>1, <2>2 DEF ReRead
<1>8. CASE FailExhausted(w)
  <2>1. CASE RowOf(w).status = "started" /\ LeaseIsOut(RowOf(w))
    <3>1. /\ row' = [row EXCEPT ![c] = Ended(@, Failure)]
          /\ handed' = [handed EXCEPT ![c] = @ \cup {Failure}]
          /\ worker' = [worker EXCEPT ![w] = Idle] /\ UNCHANGED <<ledger, wire, crashes>>
      BY <1>8, <2>1 DEF FailExhausted, Hand, Return, c
    <3> QED BY <1>1, <2>1, <3>1, RowEnds DEF Outcomes
  <2>2. CASE ~(RowOf(w).status = "started" /\ LeaseIsOut(RowOf(w)))
    <3>1. handed' \in [Correlations -> SUBSET Outcomes] /\ HandedIsLast'
      BY <1>1, <1>8, <2>2, SettledHands DEF FailExhausted, c
    <3> QED BY <1>1, <1>2, <1>3, <1>8, <2>2, <3>1, Leaves DEF FailExhausted
  <2> QED BY <2>1, <2>2
<1> QED BY <1>5, <1>6, <1>7, <1>8

\* The steps of one attempt that charge or send.
LEMMA ChargeSteps ==
    ASSUME IInv, NEW w \in Workers,
           ReserveCharge(w) \/ ReleaseCharge(w) \/ Send(w) \/ SettleCharge(w)
    PROVE  IInv'
<1> USE DEF IInv
<1> DEFINE k == KeyOf(w)
           Charges == [type : ChargeTypes, cost : Costs]
           To(at, o) == [worker[w] EXCEPT !.at = at, !.outcome = o]
<1>1. /\ worker[w].at \in {"reserve", "credential", "settle"} /\ worker[w].at \in Owning
      /\ worker[w].outcome = Failure
  BY DEF ReserveCharge, ReleaseCharge, Send, SettleCharge, Owning, AttemptsAreApart
<1>2. /\ k \in Keys /\ worker[w].attempt \in Attempts
      /\ worker \in [Workers -> WorkerType] /\ worker[w] \in WorkerType
      /\ ledger \in [Keys -> Charges] /\ wire \in [Keys -> 0..1]
  BY <1>1, KeyOfOwner DEF TypeOK
<1>3. /\ Estimate \in Costs /\ Actuals \subseteq Costs
      /\ "reserved_usage" \in CountedTypes /\ "recorded_usage" \in CountedTypes
      /\ CountedTypes \subseteq ChargeTypes /\ "released_reservation" \in ChargeTypes
  BY DEF Costs, CountedTypes, ChargeTypes
<1> HIDE DEF k, Charges
<1>4. \A at \in {"credential", "waiting", "complete"}, o \in {Failure, worker[w].attempt} :
        /\ To(at, o) \in WorkerType
        /\ To(at, o).at = at /\ To(at, o).outcome = o /\ To(at, o).corr = worker[w].corr
        /\ To(at, o).attempt = worker[w].attempt /\ To(at, o).token = worker[w].token
  BY <1>2 DEF WorkerType, Phases, Outcomes
<1>5. \A at \in {"credential", "waiting", "complete"} :
        Goto(w, at) => worker' = [worker EXCEPT ![w] = To(at, Failure)]
  BY <1>1, <1>2 DEF Goto, WorkerType
<1> HIDE DEF To
<1>6. CASE ReserveCharge(w)
  <2> DEFINE charge == [type |-> "reserved_usage", cost |-> Estimate]
  <2>1. /\ charge \in Charges /\ charge.type = "reserved_usage"
        /\ ledger[k] = NoCharge /\ wire[k] = 0
    BY <1>3, <1>6 DEF Charges, ReserveCharge, ChargedBeforeSent, k
  <2>2. Reserve(ledger, k, Estimate) = [ledger EXCEPT ![k] = charge]
    BY <2>1 DEF Reserve
  <2> HIDE DEF charge
  <2>3. CASE ledger' = Reserve(ledger, k, Estimate) /\ Goto(w, "credential")
    <3>1. /\ ledger' \in [Keys -> Charges] /\ ledger'[k].type = "reserved_usage"
          /\ \A l \in Keys : l # k => ledger'[l] = ledger[l]
      BY <1>2, <2>1, <2>2, <2>3
    <3>2. wire' = wire /\ UNCHANGED <<row, handed, crashes>>
      BY <1>6 DEF ReserveCharge
    <3>3. PICK to \in WorkerType :
            /\ to.at = "credential" /\ to.outcome = Failure /\ to.corr = worker[w].corr
            /\ to.attempt = worker[w].attempt /\ to.token = worker[w].token
            /\ worker' = [worker EXCEPT ![w] = to]
      BY <1>4, <1>5, <2>3
    <3>4. wire' \in [Keys -> 0..1] /\ wire'[k] = 0 /\ ~(wire'[k] > 0)
      BY <1>2, <2>1, <3>2
    <3>5. \A l \in Keys : l # k => ledger'[l] = ledger[l] /\ wire'[l] = wire[l]
      BY <3>1, <3>2
    <3> QED BY <1>1, <3>1, <3>2, <3>3, <3>4, <3>5, KeyChanges DEF k, Charges
  <2>4. CASE ledger' \in {ledger, Reserve(ledger, k, Estimate)} /\ Goto(w, "complete")
    <3>1. /\ ledger' \in [Keys -> Charges]
          /\ \A l \in Keys : l # k => ledger'[l] = ledger[l]
      BY <1>2, <2>1, <2>2, <2>4
    <3>2. wire' = wire /\ UNCHANGED <<row, handed, crashes>>
      BY <1>6 DEF ReserveCharge
    <3>3. PICK to \in WorkerType :
            /\ to.at = "complete" /\ to.outcome = Failure /\ to.corr = worker[w].corr
            /\ to.attempt = worker[w].attempt /\ to.token = worker[w].token
            /\ worker' = [worker EXCEPT ![w] = to]
      BY <1>4, <1>5, <2>4
    <3>4. wire' \in [Keys -> 0..1] /\ wire'[k] = 0 /\ ~(wire'[k] > 0)
      BY <1>2, <2>1, <3>2
    <3>5. \A l \in Keys : l # k => ledger'[l] = ledger[l] /\ wire'[l] = wire[l]
      BY <3>1, <3>2
    <3> QED BY <1>1, <3>1, <3>2, <3>3, <3>4, <3>5, KeyChanges DEF k, Charges
  <2> QED BY <1>6, <2>3, <2>4 DEF ReserveCharge, k
<1>7. CASE ReleaseCharge(w)
  <2>1. wire[k] = 0 /\ wire' = wire /\ UNCHANGED <<row, handed, crashes>>
    BY <1>7 DEF ReleaseCharge, ChargedBeforeSent, k
  <2>2. /\ ledger' \in [Keys -> Charges]
        /\ \A l \in Keys : l # k => ledger'[l] = ledger[l]
    BY <1>2, <1>3, <1>7 DEF ReleaseCharge, Release, Charges, k
  <2>3. PICK to \in WorkerType :
          /\ to.at = "complete" /\ to.outcome = Failure /\ to.corr = worker[w].corr
          /\ to.attempt = worker[w].attempt /\ to.token = worker[w].token
          /\ worker' = [worker EXCEPT ![w] = to]
    BY <1>4, <1>5, <1>7 DEF ReleaseCharge
  <2>4. wire' \in [Keys -> 0..1] /\ wire'[k] = 0 /\ ~(wire'[k] > 0)
    BY <1>2, <2>1
  <2>5. \A l \in Keys : l # k => ledger'[l] = ledger[l] /\ wire'[l] = wire[l]
    BY <2>1, <2>2
  <2> QED BY <1>1, <2>1, <2>2, <2>3, <2>4, <2>5, KeyChanges DEF k, Charges
<1>8. CASE Send(w)
  <2>1. /\ wire[k] = 0 /\ ledger[k].type = "reserved_usage"
        /\ wire' = [wire EXCEPT ![k] = @ + 1] /\ UNCHANGED <<ledger, row, handed, crashes>>
    BY <1>8 DEF Send, ChargedBeforeSent, k
  <2>2. wire' \in [Keys -> 0..1] /\ \A l \in Keys : l # k => wire'[l] = wire[l]
    BY <1>2, <2>1
  <2>3. worker' = [worker EXCEPT ![w] = To("waiting", Failure)]
    BY <1>5, <1>8 DEF Send
  <2> QED BY <1>1, <1>2, <1>3, <1>4, <2>1, <2>2, <2>3, KeyChanges DEF k, Charges
<1>9. CASE SettleCharge(w)
  <2>1. PICK actual \in Actuals : ledger' \in {ledger, Settle(ledger, k, actual)}
    BY <1>9 DEF SettleCharge, k
  <2>2. wire' = wire /\ UNCHANGED <<row, handed, crashes>>
    BY <1>9 DEF SettleCharge
  <2>3. /\ ledger' \in [Keys -> Charges]
        /\ \A l \in Keys : l # k => ledger'[l] = ledger[l]
        /\ ledger[k].type \in CountedTypes => ledger'[k].type \in CountedTypes
    BY <1>2, <1>3, <2>1 DEF Settle, Charges
  <2>4. PICK o \in {Failure, worker[w].attempt} :
          worker' = [worker EXCEPT ![w] = To("complete", o)]
    BY <1>2, <1>9 DEF SettleCharge, To
  <2>5. wire'[k] > 0 => ledger'[k].type \in CountedTypes
    BY <1>2, <2>2, <2>3 DEF CallsAreCharged
  <2> QED BY <1>1, <1>2, <1>4, <2>2, <2>3, <2>4, <2>5, KeyChanges DEF k, Charges
<1> QED BY <1>6, <1>7, <1>8, <1>9

\* The other steps of a worker in an attempt: it waits, is refused, gives up or dies.
LEMMA PlaceSteps ==
    ASSUME IInv, NEW w \in Workers, AllowSpend(w) \/ RefuseSpend(w) \/ Answer(w) \/ Crash(w)
    PROVE  IInv'
<1> USE DEF IInv
<1>1. /\ worker \in [Workers -> WorkerType] /\ worker[w] \in WorkerType
      /\ handed \in [Correlations -> SUBSET Outcomes] /\ crashes \in 0..MaxCrashes
  BY DEF TypeOK
<1>2. UNCHANGED <<row, ledger, wire, handed>> /\ HandedIsLast'
  BY DEF AllowSpend, RefuseSpend, Answer, Crash, HandedIsLast
<1>3. CASE Crash(w)
  <2>1. worker' = [worker EXCEPT ![w] = Idle] /\ Idle.at = "idle" /\ Idle.outcome = Failure
    BY <1>3 DEF Crash, Return, Idle
  <2>2. crashes' \in 0..MaxCrashes
    BY <1>1, <1>3, ReasoningAssumption DEF Crash
  <2> QED BY <1>1, <1>2, <2>1, <2>2, ConstantTypes, PlaceChanges DEF Owning
<1>4. CASE AllowSpend(w) \/ RefuseSpend(w) \/ Answer(w)
  <2>1. /\ worker[w].at \in {"budget", "waiting"} /\ worker[w].at \in Owning
        /\ worker[w].outcome = Failure /\ crashes' = crashes
    BY <1>4 DEF AllowSpend, RefuseSpend, Answer, Owning, AttemptsAreApart
  <2>2. PICK at \in {"reserve", "settle", "retry", "complete"} :
          /\ at = "reserve" => worker[w].at = "budget"
          /\ worker' = [worker EXCEPT ![w].at = at]
    BY <1>4 DEF AllowSpend, RefuseSpend, Answer, Goto
  <2> DEFINE to == [worker[w] EXCEPT !.at = at]
  <2>3. /\ to \in WorkerType /\ to.at = at /\ to.outcome = Failure
        /\ to.corr = worker[w].corr /\ to.attempt = worker[w].attempt
        /\ to.token = worker[w].token
    BY <1>1, <2>1 DEF WorkerType, Phases
  <2>4. worker' = [worker EXCEPT ![w] = to]
    BY <1>1, <2>2
  <2> HIDE DEF to
  <2> QED BY <1>1, <1>2, <2>1, <2>2, <2>3, <2>4, PlaceChanges
<1> QED BY <1>3, <1>4

\* A retry draws the next attempt while it still owns the row, or the call ends.
LEMMA AdvanceStep ==
    ASSUME IInv, NEW w \in Workers, Advance(w)
    PROVE  IInv'
<1> USE DEF IInv
<1> DEFINE c == worker[w].corr
<1>1. /\ worker \in [Workers -> WorkerType] /\ worker[w] \in WorkerType /\ c \in Correlations
      /\ row \in [Correlations -> RowType] /\ row[c] \in RowType /\ RowOf(w) = row[c]
      /\ crashes \in 0..MaxCrashes /\ handed \in [Correlations -> SUBSET Outcomes]
  BY DEF TypeOK, WorkerType, RowOf
<1>2. worker[w].at = "retry" /\ worker[w].at \in Owning /\ worker[w].outcome = Failure
  BY DEF Advance, Owning, AttemptsAreApart
<1> HIDE DEF c
<1>3. CASE worker[w].attempt < MaxAttempts /\ Owns(w) /\ RowOf(w).attempt < MaxAttempts
  <2>1. /\ row[c].status = "started" /\ row[c].status \notin Terminal
        /\ row[c].attempt < MaxAttempts /\ row[c].artifact = Failure
    BY <1>1, <1>3 DEF Owns, RowsKeepToken, Terminal
  <2>2. /\ row' = [row EXCEPT ![c] = NextAttempt(row[c])] /\ Own(w, NextAttempt(row[c]))
        /\ UNCHANGED <<ledger, wire, handed, crashes>>
    BY <1>1, <1>3 DEF Advance, c
  <2>3. /\ NextAttempt(row[c]) \in RowType
        /\ NextAttempt(row[c]).attempt = row[c].attempt + 1
        /\ NextAttempt(row[c]).token = row[c].attempt + 1
        /\ NextAttempt(row[c]).status = "started" /\ NextAttempt(row[c]).artifact = Failure
    BY <1>1, <2>1, NextAttemptType
  <2>4. PICK to \in WorkerType :
           /\ to.at \in {"complete", "budget"} /\ to.corr = worker[w].corr
           /\ to.attempt = NextAttempt(row[c]).attempt /\ to.token = NextAttempt(row[c]).token
           /\ to.outcome = Failure
           /\ worker' = [worker EXCEPT ![w] = to]
    BY <1>2, <2>2, <2>3, OwnType
  <2> QED BY <1>1, <2>1, <2>2, <2>3, <2>4, NewAttempt DEF c
<1>4. CASE ~(worker[w].attempt < MaxAttempts /\ Owns(w) /\ RowOf(w).attempt < MaxAttempts)
  <2> DEFINE to == [worker[w] EXCEPT !.at = "complete"]
  <2>1. /\ to \in WorkerType /\ to.at = "complete" /\ to.outcome = Failure
        /\ to.corr = worker[w].corr /\ to.attempt = worker[w].attempt
        /\ to.token = worker[w].token
    BY <1>1, <1>2 DEF WorkerType, Phases
  <2>2. /\ worker' = [worker EXCEPT ![w] = to]
        /\ UNCHANGED <<row, ledger, wire, handed, crashes>> /\ HandedIsLast'
    BY <1>1, <1>4 DEF Advance, Goto, HandedIsLast
  <2> HIDE DEF to
  <2> QED BY <1>1, <1>2, <2>1, <2>2, PlaceChanges
<1> QED BY <1>3, <1>4

\* The terminal write, whether the worker still owns the row or not.
LEMMA CompleteSteps ==
    ASSUME IInv, NEW w \in Workers, Complete(w) \/ CompleteRaises(w)
    PROVE  IInv'
<1> USE DEF IInv
<1> DEFINE c == worker[w].corr
           o == worker[w].outcome
<1>1. /\ worker \in [Workers -> WorkerType] /\ worker[w] \in WorkerType /\ c \in Correlations
      /\ row \in [Correlations -> RowType] /\ row[c] \in RowType /\ RowOf(w) = row[c]
      /\ crashes \in 0..MaxCrashes /\ handed \in [Correlations -> SUBSET Outcomes]
      /\ o \in Outcomes
  BY DEF TypeOK, WorkerType, RowOf
<1>2. /\ worker[w].at = "complete" /\ worker[w].at \in Owning
      /\ worker[w].token = worker[w].attempt /\ worker[w].attempt \in Attempts
      /\ o \in {Failure, worker[w].token}
  <2>1. worker[w].at = "complete" /\ worker[w].at \in Owning
    BY DEF Complete, CompleteRaises, Owning
  <2> QED BY <2>1, KeyOfOwner DEF AttemptsAreApart
<1>3. worker' = [worker EXCEPT ![w] = Idle] /\ UNCHANGED <<ledger, wire>>
  BY DEF Complete, CompleteRaises, Return
<1>4. crashes' \in 0..MaxCrashes
  BY <1>1, ReasoningAssumption DEF Complete, CompleteRaises
<1> HIDE DEF c, o
<1>5. CASE Owns(w)
  <2>1. row[c].status = "started" /\ o \in {Failure, row[c].token}
    BY <1>1, <1>2, <1>5 DEF Owns
  <2>2. /\ row' = [row EXCEPT ![c] = Ended(@, o)]
        /\ handed' = handed \/ handed' = [handed EXCEPT ![c] = @ \cup {o}]
    BY <1>5 DEF Complete, CompleteRaises, Hand, c, o
  <2> QED BY <1>1, <1>3, <1>4, <2>1, <2>2, RowEnds
<1>6. CASE ~Owns(w)
  <2>1. UNCHANGED row
    BY <1>6 DEF Complete, CompleteRaises
  <2>2. handed' \in [Correlations -> SUBSET Outcomes] /\ HandedIsLast'
    <3>1. CASE row[c].token = worker[w].token
      <4>1. handed' = [handed EXCEPT ![c] = @ \cup {o}]
        BY <1>1, <1>6, <3>1 DEF Complete, CompleteRaises, Hand, c, o
      <4>2. row[c].status \in Terminal
        <5>1. row[c].status # "started"
          BY <1>1, <1>6, <3>1 DEF Owns
        <5>2. row[c].status # "absent"
          <6>1. worker[w].attempt # 0
            BY <1>2, ReasoningAssumption DEF Attempts
          <6> QED BY <1>1, <1>2, <3>1, <6>1 DEF RowsKeepToken, NoRow
        <5> QED BY <1>1, <5>1, <5>2 DEF RowType
      <4> QED BY <1>1, <1>2, <2>1, <3>1, <4>1, <4>2 DEF HandedIsLast
    <3>2. CASE row[c].token # worker[w].token
      <4>1. Settled(c)
        BY <1>1, <1>6, <3>2 DEF Complete, CompleteRaises, c
      <4> QED BY <1>1, <2>1, <4>1, SettledHands
    <3> QED BY <3>1, <3>2
  <2>3. Idle.at = "idle" /\ Idle.outcome = Failure
    BY DEF Idle
  <2> QED BY <1>1, <1>3, <1>4, <2>1, <2>2, <2>3, ConstantTypes, PlaceChanges DEF Owning
<1> QED BY <1>5, <1>6

\* A caller that begins, or is given the decision that is there; and the clock.
LEMMA CallerSteps ==
    ASSUME IInv,
           \/ \E w \in Workers, c \in Correlations : ReplayExisting(w, c) \/ StartInvoke(w, c)
           \/ \E c \in Correlations : LeaseExpires(c)
    PROVE  IInv'
<1> USE DEF IInv
<1>1. /\ worker \in [Workers -> WorkerType] /\ row \in [Correlations -> RowType]
      /\ handed \in [Correlations -> SUBSET Outcomes] /\ crashes \in 0..MaxCrashes
  BY DEF TypeOK
<1>2. ASSUME NEW w \in Workers, NEW c \in Correlations, ReplayExisting(w, c)
      PROVE  IInv'
  <2>1. Settled(c) /\ UNCHANGED <<row, worker, ledger, wire, crashes>>
    BY <1>2 DEF ReplayExisting, Settled, Terminal
  <2>2. handed' \in [Correlations -> SUBSET Outcomes] /\ HandedIsLast'
    BY <2>1, SettledHands
  <2>3. worker' = [worker EXCEPT ![w] = worker[w]] /\ worker[w] \in WorkerType
    BY <1>1, <2>1
  <2>4. /\ worker[w].at \in Owning => worker[w].outcome \in {Failure, worker[w].attempt}
        /\ worker[w].at # "complete" => worker[w].outcome = Failure
    BY DEF AttemptsAreApart
  <2> QED BY <1>1, <2>1, <2>2, <2>3, <2>4, PlaceChanges
<1>3. ASSUME NEW w \in Workers, NEW c \in Correlations, StartInvoke(w, c)
      PROVE  IInv'
  <2>1. PICK refused \in BOOLEAN :
          worker' = [worker EXCEPT ![w] = [Idle EXCEPT !.at = "claim", !.corr = c,
                                                       !.refused = refused]]
    BY <1>3 DEF StartInvoke
  <2> DEFINE to == [Idle EXCEPT !.at = "claim", !.corr = c, !.refused = refused]
  <2>2. to \in WorkerType /\ to.at = "claim" /\ to.outcome = Failure
    <3>1. Idle.outcome = Failure
      BY DEF Idle
    <3> QED BY <3>1, ConstantTypes DEF WorkerType, Phases
  <2>3. /\ worker' = [worker EXCEPT ![w] = to]
        /\ UNCHANGED <<row, ledger, wire, handed, crashes>> /\ HandedIsLast'
    BY <1>3, <2>1 DEF StartInvoke, HandedIsLast
  <2> HIDE DEF to
  <2> QED BY <1>1, <2>2, <2>3, PlaceChanges DEF Owning
<1>4. ASSUME NEW c \in Correlations, LeaseExpires(c)
      PROVE  IInv'
  <2> DEFINE r == [row[c] EXCEPT !.lease = "expired"]
  <2>1. /\ r \in RowType /\ r.status = row[c].status /\ r.attempt = row[c].attempt
        /\ r.token = row[c].token /\ r.artifact = row[c].artifact
    BY <1>1 DEF RowType
  <2>2. row' = [row EXCEPT ![c] = r] /\ UNCHANGED <<worker, ledger, wire, handed, crashes>>
    BY <1>1, <1>4 DEF LeaseExpires
  <2>3. row[c].status = "started"
    BY <1>4 DEF LeaseExpires
  <2> HIDE DEF r
  <2>4. /\ row' \in [Correlations -> RowType] /\ row'[c] = r
        /\ \A d \in Correlations : d # c => row'[d] = row[d]
    BY <1>1, <2>1, <2>2
  <2>5. TypeOK'
    BY <2>2, <2>4 DEF TypeOK
  <2>6. RowsKeepToken' /\ HandedIsLast'
    BY <2>1, <2>2, <2>3, <2>4 DEF RowsKeepToken, HandedIsLast
  <2>7. \A d \in Correlations : row'[d].attempt = row[d].attempt
    BY <2>1, <2>4
  <2>8. \A v \in Workers : worker[v].corr \in Correlations
    BY <1>1 DEF WorkerType
  <2>9. AttemptsAreApart'
    BY <2>2, <2>7, <2>8 DEF AttemptsAreApart, RowOf, KeyOf
  <2>10. ChargedBeforeSent' /\ CallsAreCharged'
    BY <2>2, <2>7 DEF ChargedBeforeSent, CallsAreCharged, KeyOf
  <2> QED BY <2>5, <2>6, <2>9, <2>10
<1> QED BY <1>2, <1>3, <1>4

\* Every step keeps the invariant.
LEMMA NextIInv == IInv /\ [Next]_vars => IInv'
<1> SUFFICES ASSUME IInv, [Next]_vars PROVE IInv'
  OBVIOUS
<1>1. CASE \/ \E w \in Workers, c \in Correlations : ReplayExisting(w, c) \/ StartInvoke(w, c)
           \/ \E c \in Correlations : LeaseExpires(c)
  BY <1>1, CallerSteps
<1>2. ASSUME NEW w \in Workers, Step(w) \/ CompleteRaises(w) \/ Crash(w)
      PROVE  IInv'
  BY <1>2, ClaimSteps, ChargeSteps, PlaceSteps, AdvanceStep, CompleteSteps DEF Step, Attempt
<1>3. CASE UNCHANGED vars
  BY <1>3 DEF vars, IInv, TypeOK, RowsKeepToken, AttemptsAreApart, ChargedBeforeSent,
              CallsAreCharged, HandedIsLast, RowOf, KeyOf
<1> QED BY <1>1, <1>2, <1>3 DEF Next

\* The invariant holds in every reachable state.
LEMMA Invariant == Spec => []IInv
BY InitIInv, NextIInv, PTL DEF Spec
-----------------------------------------------------------------------------
\* Rows, workers, ledger and answers keep their types, for any number of them: no attempt
\* beyond MaxAttempts is ever drawn (try_take_over_invocation, advance_retryable_attempt).
THEOREM InvocationsTyped == Spec => []TypeOK
<1>1. IInv => TypeOK
  BY DEF IInv
<1> QED BY <1>1, Invariant, PTL

\* Whatever crashes, retries, takeovers and failed settlements happen, a call that left is
\* counted in the ledger, and each attempt calls at most once (_reserve before _call).
THEOREM EveryCallCharged == Spec => []CallsAreCharged
<1>1. IInv => CallsAreCharged
  BY DEF IInv
<1> QED BY <1>1, Invariant, PTL

\* No two callers of a correlation id are ever handed different artifacts, for any number of
\* workers: what complete_invocation hands out is the artifact of the row's last attempt.
THEOREM OneArtifact == Spec => []OneArtifactEver
<1>1. IInv => OneArtifactEver
  <2> SUFFICES ASSUME IInv, NEW c \in Correlations
               PROVE  Cardinality(handed[c] \ {Failure}) <= 1
    BY DEF OneArtifactEver
  <2>1. handed[c] \ {Failure} \subseteq {row[c].token}
    BY DEF IInv, HandedIsLast
  <2>2. IsFiniteSet({row[c].token}) /\ Cardinality({row[c].token}) = 1
    BY FS_Singleton
  <2> QED BY <2>1, <2>2, FS_Subset
<1> QED BY <1>1, Invariant, PTL
-----------------------------------------------------------------------------
\* What a step may do to the rows: claim one, decide one, or leave all of them as they are.
RowsMove ==
    \E c \in Correlations :
        /\ \A d \in Correlations : d # c => row'[d] = row[d]
        /\ \/ row'[c].status = row[c].status /\ row'[c].artifact = row[c].artifact
           \/ row[c].status = "absent" /\ row'[c].status = "started"
           \/ row[c].status = "started" /\ row'[c].status \in Terminal

\* Every step is one of the three.
LEMMA StepsMoveRows ==
    ASSUME IInv, [Next]_vars
    PROVE  RowsMove
<1>1. /\ row \in [Correlations -> RowType] /\ worker \in [Workers -> WorkerType]
      /\ \A w \in Workers : worker[w].corr \in Correlations /\ row[worker[w].corr] \in RowType
  BY DEF IInv, TypeOK, WorkerType
<1>2. CASE UNCHANGED row
  <2>1. PICK c \in Correlations : TRUE
    BY ReasoningAssumption
  <2> QED BY <1>2, <2>1 DEF RowsMove
<1>3. ASSUME NEW w \in Workers, TryBegin(w), row' # row
      PROVE  RowsMove
  <2> DEFINE c == worker[w].corr
  <2>1. row[c] = NoRow /\ row' = [row EXCEPT ![c] = Claimed(NoRow)]
    BY <1>1, <1>3 DEF TryBegin, RowOf, IInv, RowsKeepToken
  <2> QED BY <1>1, <2>1, ClaimedType DEF RowsMove, NoRow
<1>4. ASSUME NEW w \in Workers, TakeOver(w) \/ Advance(w), row' # row
      PROVE  RowsMove
  <2> DEFINE c == worker[w].corr
  <2>1. row[c].attempt < MaxAttempts /\ row' = [row EXCEPT ![c] = NextAttempt(row[c])]
    BY <1>1, <1>4 DEF TakeOver, Advance, CanTakeOver, RowOf
  <2> QED BY <1>1, <2>1, NextAttemptType DEF RowsMove
<1>5. ASSUME NEW w \in Workers, FailExhausted(w) \/ Complete(w) \/ CompleteRaises(w), row' # row
      PROVE  RowsMove
  <2> DEFINE c == worker[w].corr
  <2>1. PICK o \in {Failure, worker[w].outcome} : row' = [row EXCEPT ![c] = Ended(row[c], o)]
    BY <1>1, <1>5 DEF FailExhausted, Complete, CompleteRaises
  <2>2. row[c].status = "started"
    BY <1>1, <1>5 DEF FailExhausted, Complete, CompleteRaises, Owns, RowOf
  <2>3. o \in Outcomes
    BY <1>1 DEF WorkerType, Outcomes
  <2> QED BY <1>1, <2>1, <2>2, <2>3, EndedType DEF RowsMove
<1>6. ASSUME NEW c \in Correlations, LeaseExpires(c)
      PROVE  RowsMove
  BY <1>1, <1>6 DEF LeaseExpires, RowsMove, RowType
<1>7. ASSUME NEW w \in Workers, NEW c \in Correlations, ReplayExisting(w, c) \/ StartInvoke(w, c)
      PROVE  UNCHANGED row
  BY <1>7 DEF ReplayExisting, StartInvoke
<1>8. ASSUME NEW w \in Workers, ReRead(w) \/ Attempt(w) \/ Crash(w)
      PROVE  UNCHANGED row
  BY <1>8 DEF ReRead, Attempt, AllowSpend, RefuseSpend, ReserveCharge, ReleaseCharge, Send,
              Answer, SettleCharge, Crash
<1>9. CASE UNCHANGED vars
  BY <1>2, <1>9 DEF vars
<1> QED BY <1>2, <1>3, <1>4, <1>5, <1>6, <1>7, <1>8, <1>9 DEF Next, Step

\* The rows implement CanonicalResult: an invocation is claimed once and decided once, and no
\* zombie, takeover, retry or exhausted caller ever changes a decision.
THEOREM RowsImplementCanonicalResult == Spec => ImplementsCanonicalResult
<1>1. Init => Canonical!Init
  <2> SUFFICES ASSUME Init PROVE Canonical!Init
    OBVIOUS
  <2>1. \A c \in Correlations : row[c].status \notin Terminal
    BY DEF Init, NoRow, LegacyRow, Terminal
  <2> QED BY <2>1 DEF Canonical!Init, claimed, decided
<1>2. IInv /\ IInv' /\ [Next]_vars => [Canonical!Next]_<<claimed, decided>>
  <2> SUFFICES ASSUME IInv, IInv', [Next]_vars
               PROVE  Canonical!Next \/ UNCHANGED <<claimed, decided>>
    OBVIOUS
  <2>1. PICK c \in Correlations :
          /\ \A d \in Correlations : d # c => row'[d] = row[d]
          /\ \/ row'[c].status = row[c].status /\ row'[c].artifact = row[c].artifact
             \/ row[c].status = "absent" /\ row'[c].status = "started"
             \/ row[c].status = "started" /\ row'[c].status \in Terminal
    BY StepsMoveRows DEF RowsMove
  <2>2. row'[c].artifact \in Outcomes
    BY DEF IInv, TypeOK, RowType
  <2>3. CASE row'[c].status = row[c].status /\ row'[c].artifact = row[c].artifact
    <3>1. claimed' = claimed
      BY <2>1, <2>3 DEF claimed
    <3>2. decided' = decided
      BY <2>1, <2>3 DEF decided
    <3> QED BY <3>1, <3>2
  <2>4. CASE row[c].status = "absent" /\ row'[c].status = "started"
    <3>1. c \notin claimed /\ claimed' = claimed \cup {c}
      BY <2>1, <2>4 DEF claimed
    <3>2. decided' = decided
      BY <2>1, <2>4 DEF decided, Terminal
    <3> QED BY <3>1, <3>2 DEF Canonical!Next, Canonical!Claim
  <2>5. CASE row[c].status = "started" /\ row'[c].status \in Terminal
    <3>1. c \in claimed /\ claimed' = claimed
      BY <2>1, <2>5 DEF claimed, Terminal
    <3>2. decided[c] = {}
      BY <2>5 DEF decided, Terminal
    <3>3. decided' = [decided EXCEPT ![c] = {row'[c].artifact}]
      BY <2>1, <2>5 DEF decided
    <3> QED BY <2>2, <3>1, <3>2, <3>3 DEF Canonical!Next, Canonical!Decide
  <2> QED BY <2>1, <2>3, <2>4, <2>5
<1> QED BY <1>1, <1>2, Invariant, PTL DEF Spec, ImplementsCanonicalResult, Canonical!Spec
-----------------------------------------------------------------------------
\* Induction over the natural numbers, for a set of them instead of a predicate: the
\* smallest number that is not in it has a predecessor that is.
Below(R) == \A a, b \in Nat : a < b => <<a, b>> \in R

LEMMA BelowIsWellFounded == \E R : IsWellFoundedOn(R, Nat) /\ Below(R)
<1>1. Below(OpToRel(<, Nat))
  BY DEF OpToRel, Below
<1> WITNESS OpToRel(<, Nat)
<1> QED BY <1>1, NatLessThanWellFounded

LEMMA CountUp ==
    ASSUME NEW B, 0 \in B, \A n \in Nat : n \in B => n + 1 \in B
    PROVE  Nat \subseteq B
<1> SUFFICES ASSUME Nat \ B # {} PROVE FALSE
  OBVIOUS
<1>1. PICK R : IsWellFoundedOn(R, Nat) /\ Below(R)
  BY BelowIsWellFounded
<1>2. PICK x \in Nat \ B : \A y \in Nat \ B : ~(<<y, x>> \in R)
  <2>1. Nat \ B \subseteq Nat
    OBVIOUS
  <2> QED BY <1>1, <2>1, WFMin, Zenon
<1>3. x # 0 /\ x - 1 \in Nat /\ x - 1 < x /\ (x - 1) + 1 = x
  BY <1>2
<1>4. x - 1 \in B
  BY <1>1, <1>2, <1>3 DEF Below
<1> QED BY <1>2, <1>3, <1>4

\* The element a fold takes out of a set next.
Taken(s) == CHOOSE x \in s : TRUE

\* It leaves a set with one element less.
LEMMA TakenLeaves ==
    ASSUME NEW S, IsFiniteSet(S), NEW s \in SUBSET S, s # {}
    PROVE  /\ Taken(s) \in s /\ s \ {Taken(s)} \in SUBSET S
           /\ Cardinality(s) \in Nat \ {0} /\ Cardinality(s \ {Taken(s)}) = Cardinality(s) - 1
<1>1. Taken(s) \in s
  BY DEF Taken
<1>2. IsFiniteSet(s)
  BY FS_Subset
<1> QED BY <1>1, <1>2, FS_CardinalityType, FS_EmptySet, FS_RemoveElement

\* The same over the sets that a fold goes through.
LEMMA FoldInduction ==
    ASSUME NEW S, IsFiniteSet(S), NEW B, {} \in B,
           \A s \in SUBSET S : s # {} /\ s \ {Taken(s)} \in B => s \in B
    PROVE  SUBSET S \subseteq B
<1> DEFINE C == {n \in Nat : \A s \in SUBSET S : Cardinality(s) = n => s \in B}
<1>1. \A s \in SUBSET S : IsFiniteSet(s) /\ Cardinality(s) \in Nat
  BY FS_Subset, FS_CardinalityType
<1>2. 0 \in C
  BY <1>1, FS_EmptySet
<1>3. ASSUME NEW n \in Nat, n \in C PROVE n + 1 \in C
  <2> SUFFICES ASSUME NEW s \in SUBSET S, Cardinality(s) = n + 1 PROVE s \in B
    OBVIOUS
  <2>1. s # {}
    BY FS_EmptySet
  <2>2. s \ {Taken(s)} \in SUBSET S /\ Cardinality(s \ {Taken(s)}) = n
    BY <2>1, TakenLeaves
  <2> QED BY <1>3, <2>1, <2>2
<1> HIDE DEF C
<1>4. Nat \subseteq C
  BY <1>2, <1>3, CountUp
<1> QED BY <1>1, <1>4 DEF C

\* The partial sums that a fold over a ledger computes.
Sums(l, D, g) ==
    g = [s \in D |-> IF s = {} THEN 0 ELSE g[s \ {Taken(s)}] + CountedCost(l[Taken(s)])]

\* get_daily_usage_usd is the last of them.
LEMMA UsageIsAFold ==
    ASSUME NEW l
    PROVE  Usage(l) = (CHOOSE g : Sums(l, SUBSET DOMAIN l, g))[DOMAIN l]
BY DEF Usage, FoldFunction, FoldFunctionOnSet, MapThenFoldSet, Sums, Taken

\* They exist: those of the sets of n + 1 elements come from those of n.
LEMMA SumsExist ==
    ASSUME NEW l, NEW S, IsFiniteSet(S)
    PROVE  \E g : Sums(l, SUBSET S, g)
<1> DEFINE Small(n) == {s \in SUBSET S : Cardinality(s) <= n}
           E == {n \in Nat : \E g : Sums(l, Small(n), g)}
<1>1. \A s \in SUBSET S : /\ IsFiniteSet(s) /\ Cardinality(s) \in Nat
                          /\ Cardinality(s) <= Cardinality(S)
  BY FS_Subset, FS_CardinalityType
<1>2. 0 \in E
  <2>1. Small(0) = {{}}
    BY <1>1, FS_EmptySet
  <2>2. Sums(l, Small(0), [s \in Small(0) |-> 0])
    BY <2>1 DEF Sums
  <2> QED BY <2>2
<1>3. ASSUME NEW n \in Nat, n \in E PROVE n + 1 \in E
  <2>1. PICK g : Sums(l, Small(n), g)
    BY <1>3
  <2> DEFINE Value(f, s) == IF s = {} THEN 0 ELSE f[s \ {Taken(s)}] + CountedCost(l[Taken(s)])
             h == [s \in Small(n + 1) |-> Value(g, s)]
  <2>2. \A s \in Small(n) : s \in Small(n + 1) /\ g[s] = Value(g, s)
    <3>1. \A s \in Small(n) : s \in Small(n + 1)
      BY <1>1
    <3>2. g = [s \in Small(n) |-> Value(g, s)]
      BY <2>1 DEF Sums
    <3> HIDE DEF Small, Value
    <3> QED BY <3>1, <3>2
  <2>3. \A s \in Small(n + 1) : s # {} => s \ {Taken(s)} \in Small(n)
    BY TakenLeaves
  <2> HIDE DEF Small
  <2>4. ASSUME NEW s \in Small(n + 1) PROVE Value(g, s) = Value(h, s)
    <3>1. CASE s = {}
      BY <3>1
    <3>2. CASE s # {}
      <4>1. s \ {Taken(s)} \in Small(n)
        BY <2>3, <3>2
      <4> HIDE DEF Value
      <4>2. h[s \ {Taken(s)}] = g[s \ {Taken(s)}]
        BY <2>2, <4>1
      <4> HIDE DEF h
      <4> QED BY <3>2, <4>2 DEF Value
    <3> QED BY <3>1, <3>2
  <2> HIDE DEF Value
  <2>5. h = [s \in Small(n + 1) |-> Value(h, s)]
    BY <2>4
  <2>6. Sums(l, Small(n + 1), h)
    BY <2>5 DEF Sums, Value
  <2> QED BY <2>6
<1> HIDE DEF E
<1>4. Cardinality(S) \in E
  BY <1>2, <1>3, CountUp, FS_CardinalityType
<1>5. Small(Cardinality(S)) = SUBSET S
  BY <1>1
<1> QED BY <1>4, <1>5 DEF E

\* What a ledger uses up: nothing where nothing counts, and where two ledgers differ in one
\* entry their usage differs by what that entry costs.
LEMMA UsageProperties ==
    ASSUME NEW S, IsFiniteSet(S), NEW l, DOMAIN l = S, \A k \in S : CountedCost(l[k]) \in Int
    PROVE  /\ Usage(l) \in Int
           /\ (\A k \in S : CountedCost(l[k]) = 0) => Usage(l) = 0
           /\ \A m : \A k \in S :
                (/\ DOMAIN m = S /\ CountedCost(m[k]) \in Int
                 /\ \A j \in S : j # k => m[j] = l[j])
                => Usage(m) = Usage(l) + CountedCost(m[k]) - CountedCost(l[k])
<1>1. PICK g : Sums(l, SUBSET S, g) /\ Usage(l) = g[S]
  <2>1. \E g : Sums(l, SUBSET S, g)
    BY SumsExist
  <2> WITNESS CHOOSE g : Sums(l, SUBSET S, g)
  <2> QED BY <2>1, UsageIsAFold
<1>2. \A s \in SUBSET S :
        g[s] = IF s = {} THEN 0 ELSE g[s \ {Taken(s)}] + CountedCost(l[Taken(s)])
  BY <1>1 DEF Sums
<1>3. \A s \in SUBSET S : s # {} => Taken(s) \in s /\ s \ {Taken(s)} \in SUBSET S
  BY TakenLeaves
<1>4. ASSUME NEW s \in SUBSET S PROVE g[s] \in Int
  <2> DEFINE B == {t \in SUBSET S : g[t] \in Int}
  <2>1. {} \in B
    <3>1. {} \in SUBSET S /\ g[{}] = 0
      BY <1>2
    <3> QED BY <3>1
  <2>2. ASSUME NEW t \in SUBSET S, t # {}, t \ {Taken(t)} \in B PROVE t \in B
    <3>1. CountedCost(l[Taken(t)]) \in Int /\ g[t \ {Taken(t)}] \in Int
      BY <1>3, <2>2
    <3> QED BY <1>2, <2>2, <3>1
  <2> HIDE DEF B
  <2>3. SUBSET S \subseteq B
    BY <2>1, <2>2, FoldInduction
  <2> QED BY <2>3 DEF B
<1>5. ASSUME \A k \in S : CountedCost(l[k]) = 0 PROVE g[S] = 0
  <2> DEFINE B == {t \in SUBSET S : g[t] = 0}
  <2>1. {} \in B
    BY <1>2
  <2>2. ASSUME NEW t \in SUBSET S, t # {}, t \ {Taken(t)} \in B PROVE t \in B
    <3>1. CountedCost(l[Taken(t)]) = 0
      BY <1>3, <1>5, <2>2
    <3>2. g[t] = g[t \ {Taken(t)}] + 0
      BY <1>2, <2>2, <3>1
    <3>3. g[t \ {Taken(t)}] = 0
      BY <2>2
    <3> QED BY <3>2, <3>3
  <2> HIDE DEF B
  <2>3. SUBSET S \subseteq B
    BY <2>1, <2>2, FoldInduction
  <2> QED BY <2>3 DEF B
<1>6. ASSUME NEW m, NEW k \in S, DOMAIN m = S, CountedCost(m[k]) \in Int,
             \A j \in S : j # k => m[j] = l[j]
      PROVE  Usage(m) = Usage(l) + CountedCost(m[k]) - CountedCost(l[k])
  <2>1. PICK h : Sums(m, SUBSET S, h) /\ Usage(m) = h[S]
    <3>1. \E h : Sums(m, SUBSET S, h)
      BY SumsExist
    <3> WITNESS CHOOSE h : Sums(m, SUBSET S, h)
    <3> QED BY <1>6, <3>1, UsageIsAFold
  <2>2. \A s \in SUBSET S :
          h[s] = IF s = {} THEN 0 ELSE h[s \ {Taken(s)}] + CountedCost(m[Taken(s)])
    BY <2>1 DEF Sums
  <2> DEFINE more == CountedCost(m[k]) - CountedCost(l[k])
             B == {t \in SUBSET S : h[t] = IF k \in t THEN g[t] + more ELSE g[t]}
  <2>3. more \in Int
    BY <1>6
  <2>4. {} \in B
    BY <1>2, <2>2
  <2>5. ASSUME NEW t \in SUBSET S, t # {}, t \ {Taken(t)} \in B PROVE t \in B
    <3> DEFINE x == Taken(t)
               r == t \ {x}
    <3>1. /\ x \in t /\ x \in S /\ r \in SUBSET S
          /\ g[t] = g[r] + CountedCost(l[x]) /\ h[t] = h[r] + CountedCost(m[x])
          /\ h[r] = IF k \in r THEN g[r] + more ELSE g[r]
          /\ g[r] \in Int /\ CountedCost(l[x]) \in Int
      BY <1>2, <1>3, <1>4, <2>2, <2>5
    <3>2. k \in r <=> k \in t /\ k # x
      OBVIOUS
    <3> HIDE DEF x, r
    <3>3. CASE x = k
      BY <1>6, <2>3, <3>1, <3>2, <3>3
    <3>4. CASE x # k
      <4>1. m[x] = l[x]
        BY <1>6, <3>1, <3>4
      <4> HIDE DEF more
      <4> QED BY <2>3, <3>1, <3>2, <3>4, <4>1
    <3> QED BY <3>3, <3>4
  <2> HIDE DEF B
  <2>6. SUBSET S \subseteq B
    BY <2>4, <2>5, FoldInduction
  <2>7. h[S] = g[S] + more
    BY <2>6 DEF B
  <2> QED BY <1>1, <1>4, <1>6, <2>1, <2>7
<1> QED BY <1>1, <1>4, <1>5, <1>6
-----------------------------------------------------------------------------
\* The workers that passed the cap check and have not reserved their charge yet, and those
\* whose charge is reserved and may still be settled.
Passed == {w \in Workers : worker[w].at = "reserve"}
Charged == {w \in Workers : worker[w].at \in {"credential", "waiting", "settle"}}

\* What a settlement can add to a reservation.
Excess == MaxCharge - Estimate

\* What is used, what has passed the check and what settlements may still add are within the
\* bound: the attempt that passes last finds its estimate left, whatever the others do.
ChargesFit ==
    Usage(ledger) + Estimate + (Cardinality(Passed) * MaxCharge + Cardinality(Charged) * Excess)
        <= Cap + Cardinality(Workers) * MaxCharge

\* A charge that is not settled is the estimate.
ReservedIsEstimate ==
    \A k \in Keys : ledger[k].type = "reserved_usage" => ledger[k].cost = Estimate

\* No charge is more than the dearest one, and a settlement adds at most the excess.
LEMMA CostsAre ==
    /\ Cap \in Nat /\ Estimate \in Nat /\ MaxCharge \in Nat /\ Excess \in Nat
    /\ MaxCharge = Estimate + Excess
    /\ Costs \subseteq Int /\ \A actual \in Actuals : actual <= MaxCharge
<1>1. /\ Cap \in Nat /\ Estimate \in Nat /\ Dearest \in Nat /\ Actuals \subseteq Int
      /\ \A actual \in Actuals : actual <= Dearest
  BY ReasoningAssumption
<1>2. /\ MaxCharge \in Nat /\ Estimate <= MaxCharge /\ Dearest <= MaxCharge
  BY <1>1 DEF MaxCharge
<1>3. \A actual \in Actuals : actual <= MaxCharge
  BY <1>1, <1>2
<1> QED BY <1>1, <1>2, <1>3 DEF Excess, Costs

\* A ledger adds up what it has rows for.
LEMMA LedgerCounts ==
    ASSUME IsFiniteSet(Correlations),
           NEW l \in [Keys -> [type : ChargeTypes, cost : Costs]]
    PROVE  /\ IsFiniteSet(Keys) /\ DOMAIN l = Keys
           /\ \A k \in Keys : CountedCost(l[k]) \in Int
           /\ Usage(l) \in Int
<1>1. IsFiniteSet(Keys)
  <2>1. 1 \in Int /\ MaxAttempts \in Int
    BY ReasoningAssumption
  <2>2. IsFiniteSet(1..MaxAttempts)
    BY <2>1, FS_Interval
  <2> QED BY <2>2, FS_Product DEF Keys, Attempts
<1>2. DOMAIN l = Keys /\ \A k \in Keys : CountedCost(l[k]) \in Int
  <2>1. \A k \in Keys : l[k].cost \in Int
    BY CostsAre
  <2> QED BY <2>1 DEF CountedCost
<1> QED BY <1>1, <1>2, UsageProperties

\* A row that changes alone changes the usage by what it counts.
LEMMA OneRowCounts ==
    ASSUME IsFiniteSet(Correlations), TypeOK, TypeOK', NEW k \in Keys,
           \A j \in Keys : j # k => ledger'[j] = ledger[j]
    PROVE  /\ Usage(ledger) \in Int /\ Usage(ledger') \in Int
           /\ CountedCost(ledger[k]) \in Int /\ CountedCost(ledger'[k]) \in Int
           /\ Usage(ledger') = Usage(ledger) + CountedCost(ledger'[k]) - CountedCost(ledger[k])
<1>1. /\ IsFiniteSet(Keys) /\ DOMAIN ledger = Keys /\ DOMAIN ledger' = Keys
      /\ \A j \in Keys : CountedCost(ledger[j]) \in Int
      /\ CountedCost(ledger'[k]) \in Int
      /\ Usage(ledger) \in Int /\ Usage(ledger') \in Int
  BY LedgerCounts DEF TypeOK
<1>2. Usage(ledger') = Usage(ledger) + CountedCost(ledger'[k]) - CountedCost(ledger[k])
  BY <1>1, UsageProperties
<1> QED BY <1>1, <1>2

\* Workers of two kinds are no more than there are workers.
LEMMA ApartCount ==
    ASSUME IsFiniteSet(Workers), NEW S \in SUBSET Workers, NEW T \in SUBSET Workers,
           S \cap T = {}
    PROVE  /\ IsFiniteSet(S) /\ IsFiniteSet(T)
           /\ Cardinality(S) \in Nat /\ Cardinality(T) \in Nat /\ Cardinality(Workers) \in Nat
           /\ Cardinality(S) + Cardinality(T) <= Cardinality(Workers)
<1>1. IsFiniteSet(S) /\ IsFiniteSet(T)
  BY FS_Subset
<1>2. Cardinality(S) \in Nat /\ Cardinality(T) \in Nat /\ Cardinality(Workers) \in Nat
  BY <1>1, FS_CardinalityType
<1>3. Cardinality(S \cup T) = Cardinality(S) + Cardinality(T)
  <2>1. Cardinality(S \cap T) = 0
    BY FS_EmptySet
  <2>2. Cardinality(S \cup T) = Cardinality(S) + Cardinality(T) - Cardinality(S \cap T)
    BY <1>1, FS_Union
  <2> QED BY <1>2, <2>1, <2>2
<1>4. Cardinality(S \cup T) <= Cardinality(Workers)
  BY FS_Subset
<1> QED BY <1>1, <1>2, <1>3, <1>4

\* Those that passed and those that are charged are such.
LEMMA WorkersCount ==
    ASSUME IsFiniteSet(Workers)
    PROVE  /\ IsFiniteSet(Passed) /\ IsFiniteSet(Charged)
           /\ Cardinality(Passed) \in Nat /\ Cardinality(Charged) \in Nat
           /\ Cardinality(Workers) \in Nat
           /\ Cardinality(Passed) + Cardinality(Charged) <= Cardinality(Workers)
<1>1. Passed \in SUBSET Workers /\ Charged \in SUBSET Workers /\ Passed \cap Charged = {}
  BY DEF Passed, Charged
<1> QED BY <1>1, ApartCount

\* Fewer cost less, and one more costs one more.
LEMMA FewerCostLess ==
    ASSUME NEW m \in Nat, NEW n \in Nat, m <= n, NEW cost \in Nat
    PROVE  /\ m * cost \in Nat /\ n * cost \in Nat /\ m * cost <= n * cost
           /\ (m + 1) * cost = m * cost + cost
<1>1. n - m \in Nat
  OBVIOUS
<1>2. m * cost \in Nat /\ n * cost \in Nat /\ (n - m) * cost \in Nat
  BY <1>1
<1>3. n * cost = m * cost + (n - m) * cost
  BY <1>1
<1>4. (m + 1) * cost = m * cost + cost
  OBVIOUS
<1> QED BY <1>2, <1>3, <1>4

\* A step after which no more workers have passed or are charged keeps the bound, if it uses up
\* nothing, or no more than what a worker that was charged, or had passed, leaves.
LEMMA FewerFit ==
    ASSUME IsFiniteSet(Workers), IsFiniteSet(Correlations), TypeOK, TypeOK', ChargesFit,
           Passed' \subseteq Passed, Charged' \subseteq Charged,
           \/ Usage(ledger') <= Usage(ledger)
           \/ /\ Usage(ledger') <= Usage(ledger) + Excess
              /\ Charged # Charged'
           \/ /\ Usage(ledger') <= Usage(ledger) + MaxCharge
              /\ Passed # Passed'
    PROVE  ChargesFit'
<1> DEFINE p == Cardinality(Passed)
           q == Cardinality(Passed')
           c == Cardinality(Charged)
           d == Cardinality(Charged')
           bound == Cap + Cardinality(Workers) * MaxCharge
<1>1. /\ p \in Nat /\ q \in Nat /\ q <= p /\ (Passed # Passed' => q + 1 <= p)
      /\ c \in Nat /\ d \in Nat /\ d <= c /\ (Charged # Charged' => d + 1 <= c)
      /\ Cardinality(Workers) \in Nat
  <2>1. /\ IsFiniteSet(Passed) /\ IsFiniteSet(Charged) /\ p \in Nat /\ c \in Nat
        /\ Cardinality(Workers) \in Nat
    BY WorkersCount
  <2>2. /\ q \in Nat /\ q <= p /\ (Passed # Passed' => q < p)
    BY <2>1, FS_Subset, FS_CardinalityType
  <2>3. /\ d \in Nat /\ d <= c /\ (Charged # Charged' => d < c)
    BY <2>1, FS_Subset, FS_CardinalityType
  <2> HIDE DEF p, q, c, d
  <2> QED BY <2>1, <2>2, <2>3
<1>2. /\ Usage(ledger) \in Int /\ Usage(ledger') \in Int
      /\ Cap \in Nat /\ Estimate \in Nat /\ MaxCharge \in Nat /\ Excess \in Nat
  BY LedgerCounts, CostsAre DEF TypeOK
<1> HIDE DEF p, q, c, d
<1>3. /\ p * MaxCharge \in Nat /\ q * MaxCharge \in Nat /\ q * MaxCharge <= p * MaxCharge
      /\ (Passed # Passed' => q * MaxCharge + MaxCharge <= p * MaxCharge)
  BY <1>1, <1>2, FewerCostLess
<1>4. /\ c * Excess \in Nat /\ d * Excess \in Nat /\ d * Excess <= c * Excess
      /\ (Charged # Charged' => d * Excess + Excess <= c * Excess)
  BY <1>1, <1>2, FewerCostLess
<1>5. bound \in Int
  BY <1>1, <1>2
<1>6. Usage(ledger) + Estimate + (p * MaxCharge + c * Excess) <= bound
  BY DEF ChargesFit, p, c
<1> DEFINE pm == p * MaxCharge
           qm == q * MaxCharge
           ce == c * Excess
           de == d * Excess
<1> HIDE DEF bound, pm, qm, ce, de
<1>7. /\ pm \in Nat /\ qm \in Nat /\ ce \in Nat /\ de \in Nat /\ qm <= pm /\ de <= ce
      /\ (Passed # Passed' => qm + MaxCharge <= pm) /\ (Charged # Charged' => de + Excess <= ce)
      /\ Usage(ledger) + Estimate + (pm + ce) <= bound
  BY <1>3, <1>4, <1>6 DEF pm, qm, ce, de
<1>8. Usage(ledger') + Estimate + (qm + de) <= bound
  BY <1>2, <1>5, <1>7
<1> QED BY <1>8 DEF bound, qm, de, q, d, ChargesFit

\* Most steps charge nothing, let no attempt pass and leave none to be settled.
LEMMA OtherSteps ==
    ASSUME IInv, [Next]_vars,
           \A w \in Workers : ~(AllowSpend(w) \/ ReserveCharge(w) \/ ReleaseCharge(w)
                                  \/ SettleCharge(w))
    PROVE  ledger' = ledger /\ Passed' \subseteq Passed /\ Charged' \subseteq Charged
<1>1. worker \in [Workers -> WorkerType] /\ \A w \in Workers : worker[w] \in WorkerType
  BY DEF IInv, TypeOK
<1>2. ASSUME NEW w \in Workers, NEW phase \in Phases \ {"reserve"}, Goto(w, phase),
             phase \in {"credential", "waiting", "settle"} => w \in Charged
      PROVE  Passed' \subseteq Passed /\ Charged' \subseteq Charged
  BY <1>1, <1>2 DEF Goto, WorkerType, Passed, Charged
<1>3. ASSUME NEW w \in Workers, Return(w)
      PROVE  Passed' \subseteq Passed /\ Charged' \subseteq Charged
  BY <1>1, <1>3, ConstantTypes DEF Return, Passed, Charged
<1>4. ASSUME NEW w \in Workers, NEW r, Own(w, r)
      PROVE  Passed' \subseteq Passed /\ Charged' \subseteq Charged
  BY <1>1, <1>4 DEF Own, WorkerType, Passed, Charged
<1>5. ASSUME NEW w \in Workers, NEW c \in Correlations, ReplayExisting(w, c) \/ StartInvoke(w, c)
      PROVE  ledger' = ledger /\ Passed' \subseteq Passed /\ Charged' \subseteq Charged
  <2>1. CASE ReplayExisting(w, c)
    BY <2>1 DEF ReplayExisting, Passed, Charged
  <2>2. CASE StartInvoke(w, c)
    <3>1. PICK refused \in BOOLEAN :
            worker' = [worker EXCEPT ![w] = [Idle EXCEPT !.at = "claim", !.corr = c,
                                                         !.refused = refused]]
      BY <2>2 DEF StartInvoke
    <3> DEFINE to == [Idle EXCEPT !.at = "claim", !.corr = c, !.refused = refused]
    <3>2. to.at = "claim" /\ worker' = [worker EXCEPT ![w] = to]
      BY <3>1 DEF Idle
    <3> HIDE DEF to
    <3> QED BY <1>1, <2>2, <3>2 DEF StartInvoke, Passed, Charged
  <2> QED BY <1>5, <2>1, <2>2
<1>6. ASSUME NEW w \in Workers, TryBegin(w) \/ TakeOver(w) \/ ReRead(w) \/ FailExhausted(w)
      PROVE  ledger' = ledger /\ Passed' \subseteq Passed /\ Charged' \subseteq Charged
  <2>1. {"takeover", "reread", "exhaust"} \subseteq Phases \ {"reserve"}
    BY DEF Phases
  <2>2. ledger' = ledger
    BY <1>6 DEF TryBegin, TakeOver, ReRead, FailExhausted
  <2>3. \/ \E r : Own(w, r)
        \/ \E phase \in {"takeover", "reread", "exhaust"} : Goto(w, phase)
        \/ Return(w)
    BY <1>6 DEF TryBegin, TakeOver, ReRead, FailExhausted
  <2> QED BY <1>2, <1>3, <1>4, <2>1, <2>2, <2>3
<1>7. ASSUME NEW w \in Workers, RefuseSpend(w) \/ Send(w) \/ Answer(w) \/ Advance(w)
      PROVE  ledger' = ledger /\ Passed' \subseteq Passed /\ Charged' \subseteq Charged
  <2>1. {"complete", "waiting", "settle", "retry"} \subseteq Phases \ {"reserve"}
    BY DEF Phases
  <2>2. ledger' = ledger
    BY <1>7 DEF RefuseSpend, Send, Answer, Advance
  <2>3. \/ \E r : Own(w, r)
        \/ \E phase \in {"complete", "retry"} : Goto(w, phase)
        \/ /\ worker[w].at \in {"credential", "waiting"}
           /\ \E phase \in {"waiting", "settle"} : Goto(w, phase)
    BY <1>7 DEF RefuseSpend, Send, Answer, Advance
  <2>4. worker[w].at \in {"credential", "waiting"} => w \in Charged
    BY DEF Charged
  <2> QED BY <1>2, <1>4, <2>1, <2>2, <2>3, <2>4
<1>8. ASSUME NEW w \in Workers, Complete(w) \/ CompleteRaises(w) \/ Crash(w)
      PROVE  ledger' = ledger /\ Passed' \subseteq Passed /\ Charged' \subseteq Charged
  BY <1>3, <1>8 DEF Complete, CompleteRaises, Crash
<1>9. ASSUME NEW c \in Correlations, LeaseExpires(c)
      PROVE  ledger' = ledger /\ Passed' \subseteq Passed /\ Charged' \subseteq Charged
  BY <1>9 DEF LeaseExpires, Passed, Charged
<1>10. CASE UNCHANGED vars
  BY <1>10 DEF vars, Passed, Charged
<1> QED BY <1>5, <1>6, <1>7, <1>8, <1>9, <1>10 DEF Next, Step, Attempt


\* _check_caps: the attempt that passes leaves room for its estimate, and nothing else is
\* asked of what was spent before.
LEMMA AllowKeepsFit ==
    ASSUME IsFiniteSet(Workers), IsFiniteSet(Correlations), IInv, NEW w \in Workers,
           AllowSpend(w)
    PROVE  ChargesFit'
<1> DEFINE p == Cardinality(Passed')
           c == Cardinality(Charged')
           n == Cardinality(Workers)
<1>1. /\ ledger' = ledger /\ Usage(ledger) + Estimate <= Cap
  BY DEF AllowSpend, WithinCap
<1>2. /\ Usage(ledger) \in Int /\ Cap \in Nat /\ Estimate \in Nat
      /\ MaxCharge \in Nat /\ Excess \in Nat /\ Excess <= MaxCharge
  BY LedgerCounts, CostsAre DEF IInv, TypeOK
<1>3. p \in Nat /\ c \in Nat /\ n \in Nat /\ p + c <= n
  <2>1. Passed' \in SUBSET Workers /\ Charged' \in SUBSET Workers /\ Passed' \cap Charged' = {}
    BY DEF Passed, Charged
  <2> HIDE DEF Passed, Charged
  <2> QED BY <2>1, ApartCount
<1> HIDE DEF p, c, n
<1>4. /\ p * MaxCharge \in Nat /\ c * Excess \in Nat /\ n * MaxCharge \in Nat
      /\ p * MaxCharge + c * Excess <= n * MaxCharge
  <2>1. /\ (p + c) * MaxCharge \in Nat /\ n * MaxCharge \in Nat
        /\ (p + c) * MaxCharge <= n * MaxCharge
    BY <1>2, <1>3, FewerCostLess
  <2>2. (p + c) * MaxCharge = p * MaxCharge + c * MaxCharge
    BY <1>2, <1>3
  <2>3. c * MaxCharge = c * Excess + c * (MaxCharge - Excess)
    BY <1>2, <1>3
  <2>4. p * MaxCharge \in Nat /\ c * Excess \in Nat /\ c * (MaxCharge - Excess) \in Nat
    BY <1>2, <1>3
  <2> DEFINE pm == p * MaxCharge
             ce == c * Excess
             cm == c * MaxCharge
             cr == c * (MaxCharge - Excess)
             nm == n * MaxCharge
             all == (p + c) * MaxCharge
  <2>5. /\ pm \in Nat /\ ce \in Nat /\ cr \in Nat /\ nm \in Nat /\ all <= nm
        /\ all = pm + cm /\ cm = ce + cr
    BY <2>1, <2>2, <2>3, <2>4
  <2> HIDE DEF pm, ce, cm, cr, nm, all
  <2>6. pm \in Nat /\ ce \in Nat /\ nm \in Nat /\ pm + ce <= nm
    BY <2>5
  <2> QED BY <2>6 DEF pm, ce, nm
<1> DEFINE more == p * MaxCharge + c * Excess
           nm == n * MaxCharge
<1>5. more \in Nat /\ nm \in Nat /\ more <= nm
  BY <1>4
<1> HIDE DEF more, nm
<1>6. Usage(ledger) + Estimate + more <= Cap + nm
  BY <1>1, <1>2, <1>5
<1> QED BY <1>1, <1>6 DEF ChargesFit, more, nm, p, c, n

\* _reserve: the charge takes the place of the attempt that had passed.
LEMMA ReserveKeepsFit ==
    ASSUME IsFiniteSet(Workers), IsFiniteSet(Correlations), IInv, IInv', ChargesFit,
           NEW w \in Workers, ReserveCharge(w)
    PROVE  ChargesFit'
<1> DEFINE k == KeyOf(w)
           charge == [type |-> "reserved_usage", cost |-> Estimate]
<1>1. /\ worker \in [Workers -> WorkerType] /\ worker[w] \in WorkerType
      /\ ledger \in [Keys -> [type : ChargeTypes, cost : Costs]] /\ TypeOK /\ TypeOK'
  BY DEF IInv, TypeOK
<1>2. worker[w].at = "reserve" /\ k \in Keys /\ ledger[k] = NoCharge
  BY KeyOfOwner DEF ReserveCharge, Owning, IInv, ChargedBeforeSent
<1>3. w \in Passed /\ w \notin Charged
  BY <1>2 DEF Passed, Charged
<1>4. /\ \A j \in Keys : j # k => ledger'[j] = ledger[j]
      /\ ledger'[k] \in {NoCharge, charge}
  <2>1. ledger' \in {ledger, [ledger EXCEPT ![k] = charge]}
    BY <1>2 DEF ReserveCharge, Reserve
  <2> QED BY <1>1, <1>2, <2>1
<1>5. /\ Usage(ledger) \in Int /\ Usage(ledger') \in Int
      /\ Usage(ledger') <= Usage(ledger) + Estimate
      /\ Cap \in Nat /\ Estimate \in Nat /\ MaxCharge \in Nat /\ Excess \in Nat
      /\ MaxCharge = Estimate + Excess
  <2>1. CountedCost(NoCharge) = 0 /\ CountedCost(charge) = Estimate
    BY DEF CountedCost, CountedTypes, NoCharge
  <2>2. /\ Usage(ledger) \in Int /\ Usage(ledger') \in Int
        /\ Usage(ledger') = Usage(ledger) + CountedCost(ledger'[k]) - CountedCost(ledger[k])
    BY <1>1, <1>2, <1>4, OneRowCounts
  <2>3. CountedCost(ledger[k]) = 0 /\ CountedCost(ledger'[k]) \in {0, Estimate}
    BY <1>2, <1>4, <2>1
  <2> QED BY <2>2, <2>3, CostsAre
<1> HIDE DEF k, charge
<1>6. CASE Goto(w, "complete")
  <2>1. Passed' \subseteq Passed /\ Passed # Passed' /\ Charged' \subseteq Charged
    BY <1>1, <1>3, <1>6 DEF Goto, WorkerType, Passed, Charged
  <2> QED BY <1>1, <1>5, <2>1, FewerFit
<1>7. CASE Goto(w, "credential")
  <2>1. Passed' = Passed \ {w} /\ Charged' = Charged \cup {w}
    BY <1>1, <1>3, <1>7 DEF Goto, WorkerType, Passed, Charged
  <2> DEFINE p == Cardinality(Passed)
             q == Cardinality(Passed')
             c == Cardinality(Charged)
             d == Cardinality(Charged')
             n == Cardinality(Workers)
  <2>2. q \in Nat /\ c \in Nat /\ n \in Nat /\ p = q + 1 /\ d = c + 1
    <3>1. /\ IsFiniteSet(Passed) /\ IsFiniteSet(Charged) /\ p \in Nat /\ c \in Nat /\ n \in Nat
      BY WorkersCount
    <3>2. IsFiniteSet(Passed') /\ q = p - 1
      BY <1>3, <2>1, <3>1, FS_RemoveElement
    <3>3. d = c + 1
      BY <1>3, <2>1, <3>1, FS_AddElement
    <3>4. q \in Nat
      BY <3>2, FS_CardinalityType
    <3> QED BY <3>1, <3>2, <3>3, <3>4
  <2>3. Usage(ledger) + Estimate + (p * MaxCharge + c * Excess) <= Cap + n * MaxCharge
    BY DEF ChargesFit
  <2> HIDE DEF p, q, c, d, n
  <2>4. /\ q * MaxCharge \in Nat /\ c * Excess \in Nat /\ n * MaxCharge \in Nat
        /\ p * MaxCharge = q * MaxCharge + MaxCharge
        /\ d * Excess = c * Excess + Excess
    BY <1>5, <2>2, FewerCostLess
  <2> DEFINE qm == q * MaxCharge
             ce == c * Excess
             nm == n * MaxCharge
  <2>5. /\ qm \in Nat /\ ce \in Nat /\ nm \in Nat
        /\ Usage(ledger) + Estimate + ((qm + MaxCharge) + ce) <= Cap + nm
    BY <2>3, <2>4
  <2>6. qm = q * MaxCharge /\ nm = n * MaxCharge /\ d * Excess = ce + Excess
    BY <2>4
  <2> HIDE DEF qm, ce, nm
  <2>7. Usage(ledger') + Estimate + (qm + (ce + Excess)) <= Cap + nm
    BY <1>5, <2>5
  <2> QED BY <2>6, <2>7 DEF ChargesFit, q, d, n
<1> QED BY <1>6, <1>7 DEF ReserveCharge

\* _settle and _release: the charge is what the body reports, or nothing; and it is final.
LEMMA SettleKeepsFit ==
    ASSUME IsFiniteSet(Workers), IsFiniteSet(Correlations), IInv, IInv', ChargesFit,
           ReservedIsEstimate, NEW w \in Workers, ReleaseCharge(w) \/ SettleCharge(w)
    PROVE  ChargesFit'
<1> DEFINE k == KeyOf(w)
<1>1. /\ worker \in [Workers -> WorkerType] /\ worker[w] \in WorkerType
      /\ ledger \in [Keys -> [type : ChargeTypes, cost : Costs]] /\ TypeOK /\ TypeOK'
  BY DEF IInv, TypeOK
<1>2. k \in Keys
  BY KeyOfOwner DEF ReleaseCharge, SettleCharge, Owning, IInv
<1>3. Passed' \subseteq Passed /\ Charged' \subseteq Charged /\ Charged # Charged'
  <2>1. worker[w].at \in {"credential", "settle"}
    BY DEF ReleaseCharge, SettleCharge
  <2>2. /\ \A v \in Workers \ {w} : worker'[v] = worker[v]
        /\ worker'[w].at = "complete"
    BY <1>1 DEF ReleaseCharge, SettleCharge, Goto, WorkerType
  <2> QED BY <2>1, <2>2 DEF Passed, Charged
<1>4. ledger' = ledger \/ ledger' = Release(ledger, k)
      \/ \E actual \in Actuals : ledger' = Settle(ledger, k, actual)
  BY DEF ReleaseCharge, SettleCharge
<1> HIDE DEF k
<1>5. /\ \A j \in Keys : j # k => ledger'[j] = ledger[j]
      /\ \/ ledger'[k] = ledger[k]
         \/ /\ ledger[k].type = "reserved_usage"
            /\ \/ ledger'[k].type = "released_reservation"
               \/ ledger'[k].type = "recorded_usage" /\ ledger'[k].cost \in Actuals
  BY <1>1, <1>2, <1>4 DEF Release, Settle
<1>6. /\ Usage(ledger) \in Int /\ Usage(ledger') \in Int
      /\ CountedCost(ledger[k]) \in Int
      /\ Usage(ledger') = Usage(ledger) + CountedCost(ledger'[k]) - CountedCost(ledger[k])
  BY <1>1, <1>2, <1>5, OneRowCounts
<1>7. /\ Estimate \in Nat /\ MaxCharge \in Nat /\ Excess \in Nat /\ MaxCharge = Estimate + Excess
      /\ Actuals \subseteq Int /\ \A actual \in Actuals : actual <= MaxCharge
  BY CostsAre, ReasoningAssumption
<1>8. Usage(ledger') <= Usage(ledger) + Excess
  <2>1. CASE ledger'[k] = ledger[k]
    BY <1>6, <1>7, <2>1
  <2>2. CASE ledger[k].type = "reserved_usage" /\ ledger'[k].type = "released_reservation"
    <3>1. CountedCost(ledger[k]) = Estimate /\ CountedCost(ledger'[k]) = 0
      BY <1>2, <2>2 DEF CountedCost, CountedTypes, ReservedIsEstimate
    <3> QED BY <1>6, <1>7, <3>1
  <2>3. CASE /\ ledger[k].type = "reserved_usage"
             /\ ledger'[k].type = "recorded_usage" /\ ledger'[k].cost \in Actuals
    <3>1. CountedCost(ledger[k]) = Estimate /\ CountedCost(ledger'[k]) = ledger'[k].cost
      BY <1>2, <2>3 DEF CountedCost, CountedTypes, ReservedIsEstimate
    <3>2. ledger'[k].cost \in Int /\ ledger'[k].cost <= Estimate + Excess
      BY <1>7, <2>3
    <3> QED BY <1>6, <1>7, <3>1, <3>2
  <2> QED BY <1>5, <2>1, <2>2, <2>3
<1> QED BY <1>1, <1>3, <1>8, FewerFit

\* A charge is made at the estimate.
LEMMA NextReserved ==
    ASSUME IInv, ReservedIsEstimate, [Next]_vars
    PROVE  ReservedIsEstimate'
<1> DEFINE Charges == [type : ChargeTypes, cost : Costs]
<1>1. ledger \in [Keys -> Charges]
  BY DEF IInv, TypeOK
<1>2. ASSUME NEW w \in Workers, ReserveCharge(w) \/ ReleaseCharge(w) \/ SettleCharge(w)
      PROVE  ReservedIsEstimate'
  <2> DEFINE k == KeyOf(w)
  <2>1. \/ ledger' = ledger \/ ledger' = Reserve(ledger, k, Estimate)
        \/ ledger' = Release(ledger, k)
        \/ \E actual \in Actuals : ledger' = Settle(ledger, k, actual)
    BY <1>2 DEF ReserveCharge, ReleaseCharge, SettleCharge
  <2>2. k \in Keys
    BY <1>2, KeyOfOwner DEF ReserveCharge, ReleaseCharge, SettleCharge, Owning, IInv
  <2> HIDE DEF k
  <2>3. \A j \in Keys :
          \/ ledger'[j] = ledger[j]
          \/ ledger'[j].type = "reserved_usage" /\ ledger'[j].cost = Estimate
          \/ ledger'[j].type # "reserved_usage"
    BY <1>1, <2>1, <2>2 DEF Reserve, Release, Settle
  <2> QED BY <2>3 DEF ReservedIsEstimate
<1>3. CASE ledger' = ledger
  BY <1>3 DEF ReservedIsEstimate
<1>4. ASSUME NEW w \in Workers, AllowSpend(w) PROVE ledger' = ledger
  BY <1>4 DEF AllowSpend
<1> QED BY <1>2, <1>3, <1>4, OtherSteps

\* The cap of llm_budget is checked, reserved and settled in three steps (_budget_preflight,
\* _reserve, _settle), and the last one is not clamped: for any finite number of workers and
\* correlation ids, and whatever the bodies report, all attempts together are charged at most
\* what leaves the estimate of the last one that passed, and one charge for each worker.
THEOREM OvershootAlwaysBounded ==
    IsFiniteSet(Workers) /\ Workers # {} /\ IsFiniteSet(Correlations)
        => (Spec => []OvershootIsBounded)
<1> SUFFICES ASSUME IsFiniteSet(Workers), Workers # {}, IsFiniteSet(Correlations)
             PROVE  Spec => []OvershootIsBounded
  OBVIOUS
<1> DEFINE n == Cardinality(Workers)
<1>1. /\ n \in Nat /\ Cap \in Nat /\ Estimate \in Nat /\ MaxCharge \in Nat
      /\ n * MaxCharge \in Nat /\ Estimate <= n * MaxCharge
  <2>1. n \in Nat /\ 1 <= n
    BY FS_CardinalityType, FS_EmptySet
  <2>2. MaxCharge \in Nat /\ Estimate <= MaxCharge /\ Estimate \in Nat /\ Cap \in Nat
    BY CostsAre
  <2> HIDE DEF n
  <2>3. n * MaxCharge \in Nat /\ 1 * MaxCharge <= n * MaxCharge
    BY <2>1, <2>2, FewerCostLess
  <2> QED BY <2>1, <2>2, <2>3
<1>2. Init => ChargesFit /\ ReservedIsEstimate
  <2> SUFFICES ASSUME Init PROVE ChargesFit /\ ReservedIsEstimate
    OBVIOUS
  <2>1. IInv /\ TypeOK
    BY InitIInv DEF IInv
  <2>2. \A k \in Keys : ledger[k] = NoCharge
    BY DEF Init
  <2>3. Usage(ledger) = 0
    <3>1. \A k \in Keys : CountedCost(ledger[k]) = 0
      BY <2>2 DEF CountedCost, CountedTypes, NoCharge
    <3> QED BY <2>1, <3>1, LedgerCounts, UsageProperties DEF TypeOK
  <2>4. Cardinality(Passed) = 0 /\ Cardinality(Charged) = 0
    <3>1. Passed = {} /\ Charged = {}
      BY ConstantTypes DEF Init, Passed, Charged
    <3> QED BY <3>1, FS_EmptySet
  <2>5. 0 * MaxCharge = 0 /\ 0 * Excess = 0
    BY CostsAre
  <2> DEFINE nm == n * MaxCharge
  <2> HIDE DEF n, nm
  <2>6. 0 + Estimate + (0 + 0) <= Cap + nm
    BY <1>1 DEF nm
  <2>7. ChargesFit
    BY <2>3, <2>4, <2>5, <2>6 DEF ChargesFit, n, nm
  <2>8. ReservedIsEstimate
    BY <2>2 DEF ReservedIsEstimate, NoCharge
  <2> QED BY <2>7, <2>8
<1>3. IInv /\ IInv' /\ ChargesFit /\ ReservedIsEstimate /\ [Next]_vars
        => ChargesFit' /\ ReservedIsEstimate'
  <2> SUFFICES ASSUME IInv, IInv', ChargesFit, ReservedIsEstimate, [Next]_vars
               PROVE  ChargesFit'
    BY NextReserved
  <2>1. CASE \A w \in Workers : ~(AllowSpend(w) \/ ReserveCharge(w) \/ ReleaseCharge(w)
                                    \/ SettleCharge(w))
    <3>1. ledger' = ledger /\ Passed' \subseteq Passed /\ Charged' \subseteq Charged
      BY <2>1, OtherSteps
    <3>2. TypeOK /\ TypeOK' /\ Usage(ledger) \in Int
      BY LedgerCounts DEF IInv, TypeOK
    <3> QED BY <3>1, <3>2, FewerFit
  <2>2. ASSUME NEW w \in Workers, AllowSpend(w) PROVE ChargesFit'
    BY <2>2, AllowKeepsFit
  <2>3. ASSUME NEW w \in Workers, ReserveCharge(w) PROVE ChargesFit'
    BY <2>3, ReserveKeepsFit
  <2>4. ASSUME NEW w \in Workers, ReleaseCharge(w) \/ SettleCharge(w) PROVE ChargesFit'
    BY <2>4, SettleKeepsFit
  <2> QED BY <2>1, <2>2, <2>3, <2>4
<1>4. IInv /\ ChargesFit => OvershootIsBounded
  <2> SUFFICES ASSUME IInv, ChargesFit PROVE OvershootIsBounded
    OBVIOUS
  <2> DEFINE p == Cardinality(Passed) * MaxCharge
             c == Cardinality(Charged) * Excess
             nm == n * MaxCharge
  <2>1. p \in Nat /\ c \in Nat
    <3>1. /\ Cardinality(Passed) \in Nat /\ Cardinality(Charged) \in Nat
          /\ MaxCharge \in Nat /\ Excess \in Nat
      BY WorkersCount, CostsAre
    <3> QED BY <3>1, FewerCostLess
  <2>2. Usage(ledger) \in Int
    BY LedgerCounts DEF IInv, TypeOK
  <2>3. Usage(ledger) + Estimate + (p + c) <= Cap + nm
    BY DEF ChargesFit
  <2>4. nm \in Nat /\ Cap \in Nat /\ Estimate \in Nat
    BY <1>1
  <2> HIDE DEF p, c, nm
  <2>5. Usage(ledger) + Estimate <= Cap + nm
    BY <2>1, <2>2, <2>3, <2>4
  <2> QED BY <2>5 DEF OvershootIsBounded, nm
<1> QED BY <1>2, <1>3, <1>4, Invariant, PTL DEF Spec
=============================================================================
