------------------------ MODULE ReasoningInvocations ------------------------
(***************************************************************************)
(* A reasoning call made durable: the row that claims its correlation id,  *)
(* the lease and token of the attempt that owns it, retry and takeover,    *)
(* the budget reservation made before the wire and the terminal write      *)
(* (shared/sdk/agent_reasoning/service.py, store.py,                       *)
(* anthropic_provider.py; shared/sdk/llm_budget).                          *)
(*                                                                         *)
(* Every store call is one autocommitted statement, so it is one action,   *)
(* and other workers run between any two of them.  A worker whose lease    *)
(* runs out is not stopped: it goes on as a zombie.  A live provider is    *)
(* modelled; the mock and the disabled one do the same without the wire.   *)
(***************************************************************************)
EXTENDS BudgetLedger, FiniteSets

CONSTANTS
    Correlations,   \* correlation ids
    Workers,        \* concurrent callers of ReasoningService.invoke
    MaxAttempts,    \* max_attempts
    Estimate,       \* what is reserved for one call: 4 characters a token, priced by a table
    Actuals,        \* costs a response body may report, as it likes; 0 is one without usage
    Dearest,        \* no report costs more; not bounded by the estimate, or by any cap
    Cap,            \* max_cost_per_day_usd
    MaxCrashes      \* bound: callers that die, or whose store call raises

ASSUME ReasoningAssumption ==
    /\ Correlations # {}
    /\ MaxAttempts \in Nat \ {0}
    /\ Estimate \in Nat \ {0}
    /\ Dearest \in Nat
    /\ Actuals \subseteq Int
    /\ \A actual \in Actuals : actual <= Dearest
    /\ Cap \in Nat
    /\ MaxCrashes \in Nat

VARIABLES
    row,       \* correlation -> its reasoning_invocations row
    worker,    \* worker -> where its invoke() stands and what it holds in memory
    ledger,    \* <<correlation, attempt>> -> its llm_budget_events row
    wire,      \* <<correlation, attempt>> -> requests that left for the provider
    handed,    \* correlation -> final outcomes callers were given (Failure, artifacts)
    crashes    \* callers that died so far

vars == <<row, worker, ledger, wire, handed, crashes>>

Attempts == 1..MaxAttempts
Failure == 0                        \* "no artifact"; attempt n produces artifact n
Outcomes == {Failure} \cup Attempts
Keys == Correlations \X Attempts    \* reservation_key: invocation and attempt

Costs == {0, Estimate} \cup Actuals

\* The most an attempt can end up charged: its reservation, or what its body reports.
MaxCharge == IF Dearest > Estimate THEN Dearest ELSE Estimate

Phases == {"idle", "claim", "takeover", "reread", "exhaust", "budget", "reserve",
           "credential", "waiting", "settle", "retry", "complete"}
Owning == {"budget", "reserve", "credential", "waiting", "settle", "retry", "complete"}
Terminal == {"succeeded", "failed"}

\* A token is a fresh uuid4; the attempt it was drawn for stands for it, 0 for NULL.
RowType == [status : {"absent", "started"} \cup Terminal, attempt : 0..MaxAttempts,
            token : 0..MaxAttempts, lease : {"null", "live", "expired"}, artifact : Outcomes]

WorkerType == [at : Phases, corr : Correlations, refused : BOOLEAN,
               attempt : 0..MaxAttempts, token : 0..MaxAttempts, outcome : Outcomes]

TypeOK ==
    /\ row \in [Correlations -> RowType]
    /\ worker \in [Workers -> WorkerType]
    /\ ledger \in [Keys -> [type : ChargeTypes, cost : Costs]]
    /\ wire \in [Keys -> 0..1]
    /\ handed \in [Correlations -> SUBSET Outcomes]
    /\ crashes \in 0..MaxCrashes

NoRow == [status |-> "absent", attempt |-> 0, token |-> 0, lease |-> "null",
          artifact |-> Failure]

\* A 'started' row from before migration 040: attempt 1 by default, no token, no lease.
LegacyRow == [status |-> "started", attempt |-> 1, token |-> 0, lease |-> "null",
              artifact |-> Failure]

Idle == [at |-> "idle", corr |-> CHOOSE c \in Correlations : TRUE, refused |-> FALSE,
         attempt |-> 0, token |-> 0, outcome |-> Failure]

Init ==
    /\ row \in [Correlations -> {NoRow, LegacyRow}]
    /\ worker = [w \in Workers |-> Idle]
    /\ ledger = [k \in Keys |-> NoCharge]
    /\ wire = [k \in Keys |-> 0]
    /\ handed = [c \in Correlations |-> {}]
    /\ crashes = 0
-----------------------------------------------------------------------------
RowOf(w) == row[worker[w].corr]
KeyOf(w) == <<worker[w].corr, worker[w].attempt>>

Goto(w, phase) == worker' = [worker EXCEPT ![w].at = phase]
Return(w) == worker' = [worker EXCEPT ![w] = Idle]

\* The caller is given a final outcome.
Hand(c, outcome) == handed' = [handed EXCEPT ![c] = @ \cup {outcome}]

\* _settled: a replay of a terminal row, or in_progress with no outcome
Settled(c) == IF row[c].status = "started" THEN UNCHANGED handed ELSE Hand(c, row[c].artifact)

\* The columns a claim, a takeover and a retry stamp: a new attempt, token and lease.
NextAttempt(r) == [r EXCEPT !.attempt = @ + 1, !.token = r.attempt + 1, !.lease = "live"]

Claimed(r) == NextAttempt([r EXCEPT !.status = "started"])

LeaseIsOut(r) == r.lease \in {"null", "expired"}

\* Faulty: a takeover that forgets the attempt budget.
CanTakeOver_Unbounded(r) == r.status = "started" /\ LeaseIsOut(r)

CanTakeOver(r) == r.status = "started" /\ LeaseIsOut(r) /\ r.attempt < MaxAttempts

\* Faulty: the terminal write is guarded on the status alone.
Owns_NoToken(w) == RowOf(w).status = "started"

Owns(w) == RowOf(w).status = "started" /\ RowOf(w).token = worker[w].token

Ended(r, outcome) ==
    [r EXCEPT !.status = IF outcome = Failure THEN "failed" ELSE "succeeded",
              !.artifact = outcome, !.lease = "null"]

\* The worker got attempt r.attempt; a pre-flight refusal goes straight to the terminal write.
Own(w, r) ==
    worker' = [worker EXCEPT ![w].at = IF worker[w].refused THEN "complete" ELSE "budget",
                             ![w].attempt = r.attempt, ![w].token = r.token]
-----------------------------------------------------------------------------
(* invoke(): the claim and the ways around it *)

\* The early return: the row is already terminal.
ReplayExisting(w, c) ==
    /\ worker[w].at = "idle"
    /\ row[c].status \in Terminal
    /\ Hand(c, row[c].artifact)
    /\ UNCHANGED <<row, worker, ledger, wire, crashes>>

\* No terminal row; _preflight refuses or not, and the refusal is carried along.
StartInvoke(w, c) ==
    /\ worker[w].at = "idle"
    /\ row[c].status \notin Terminal
    /\ \E refused \in BOOLEAN :
         worker' = [worker EXCEPT ![w] = [Idle EXCEPT !.at = "claim", !.corr = c,
                                                      !.refused = refused]]
    /\ UNCHANGED <<row, ledger, wire, handed, crashes>>

\* try_begin_invocation: the INSERT wins, or the existing row is read.
TryBegin(w) ==
    /\ worker[w].at = "claim"
    /\ \/ /\ RowOf(w).status = "absent"
          /\ row' = [row EXCEPT ![worker[w].corr] = Claimed(@)]
          /\ Own(w, Claimed(RowOf(w)))
          /\ UNCHANGED handed
       \/ /\ RowOf(w).status = "started"
          /\ Goto(w, "takeover")
          /\ UNCHANGED <<row, handed>>
       \/ /\ RowOf(w).status \in Terminal
          /\ Settled(worker[w].corr)
          /\ Return(w)
          /\ UNCHANGED row
    /\ UNCHANGED <<ledger, wire, crashes>>

\* try_take_over_invocation: compare-and-set on an expired lease.
TakeOver(w) ==
    /\ worker[w].at = "takeover"
    /\ IF CanTakeOver(RowOf(w))
       THEN /\ row' = [row EXCEPT ![worker[w].corr] = NextAttempt(@)]
            /\ Own(w, NextAttempt(RowOf(w)))
       ELSE Goto(w, "reread") /\ UNCHANGED row
    /\ UNCHANGED <<ledger, wire, handed, crashes>>

\* Faulty: a caller that cannot take over reports in_progress, whatever the attempt.
ReRead_NeverExhausts(w) ==
    /\ worker[w].at = "reread"
    /\ Settled(worker[w].corr)
    /\ Return(w)
    /\ UNCHANGED <<row, ledger, wire, crashes>>

\* The takeover did not happen: _recover reads the row again to see why.
ReRead(w) ==
    /\ worker[w].at = "reread"
    /\ \/ /\ RowOf(w).status = "started" /\ RowOf(w).attempt >= MaxAttempts
          /\ Goto(w, "exhaust")
          /\ UNCHANGED handed
       \/ /\ RowOf(w).status \in Terminal \/ RowOf(w).attempt < MaxAttempts
          /\ Settled(worker[w].corr)
          /\ Return(w)
    /\ UNCHANGED <<row, ledger, wire, crashes>>

\* Faulty: the write that has no token guard has no status guard either.
FailExhausted_AnyStatus(w) ==
    /\ worker[w].at = "exhaust"
    /\ row' = [row EXCEPT ![worker[w].corr] = Ended(@, Failure)]
    /\ Hand(worker[w].corr, Failure)
    /\ Return(w)
    /\ UNCHANGED <<ledger, wire, crashes>>

\* fail_exhausted_invocation: ends the row without its token once the lease is out.
FailExhausted(w) ==
    /\ worker[w].at = "exhaust"
    /\ IF RowOf(w).status = "started" /\ LeaseIsOut(RowOf(w))
       THEN /\ row' = [row EXCEPT ![worker[w].corr] = Ended(@, Failure)]
            /\ Hand(worker[w].corr, Failure)
       ELSE Settled(worker[w].corr) /\ UNCHANGED row
    /\ Return(w)
    /\ UNCHANGED <<ledger, wire, crashes>>
-----------------------------------------------------------------------------
(* One attempt: the adapter's _invoke *)

\* _budget_preflight allows the call on the usage it reads now.
AllowSpend(w) ==
    /\ worker[w].at = "budget"
    /\ WithinCap(ledger, Estimate, Cap)
    /\ Goto(w, "reserve")
    /\ UNCHANGED <<row, ledger, wire, handed, crashes>>

\* A cap, a missing or unreadable policy or the second preflight refuses: terminal.
RefuseSpend(w) ==
    /\ worker[w].at = "budget"
    /\ Goto(w, "complete")
    /\ UNCHANGED <<row, ledger, wire, handed, crashes>>

\* _reserve; if it raises the row may have been committed all the same, and no call is made.
ReserveCharge(w) ==
    /\ worker[w].at = "reserve"
    /\ \/ /\ ledger' = Reserve(ledger, KeyOf(w), Estimate)
          /\ Goto(w, "credential")
       \/ /\ ledger' \in {ledger, Reserve(ledger, KeyOf(w), Estimate)}
          /\ Goto(w, "complete")
    /\ UNCHANGED <<row, wire, handed, crashes>>

\* No credential: _release, whose own failure is swallowed.  Nothing has left.
ReleaseCharge(w) ==
    /\ worker[w].at = "credential"
    /\ ledger' \in {ledger, Release(ledger, KeyOf(w))}
    /\ Goto(w, "complete")
    /\ UNCHANGED <<row, wire, handed, crashes>>

\* _call: the request leaves.
Send(w) ==
    /\ worker[w].at = "credential"
    /\ wire' = [wire EXCEPT ![KeyOf(w)] = @ + 1]
    /\ Goto(w, "waiting")
    /\ UNCHANGED <<row, ledger, handed, crashes>>

\* Faulty: a timeout is taken as proof that nothing was charged.
Answer_ReleasesOnTimeout(w) ==
    /\ worker[w].at = "waiting"
    /\ \/ Goto(w, "retry") /\ ledger' = Release(ledger, KeyOf(w))
       \/ (\E phase \in {"settle", "complete"} : Goto(w, phase)) /\ UNCHANGED ledger
    /\ UNCHANGED <<row, wire, handed, crashes>>

\* A body; a timeout, 429 or 5xx (to be retried); another failure (terminal).  The
\* reservation is kept in all three.
Answer(w) ==
    /\ worker[w].at = "waiting"
    /\ \E phase \in {"settle", "retry", "complete"} : Goto(w, phase)
    /\ UNCHANGED <<row, ledger, wire, handed, crashes>>

\* _settle (a failure of it is swallowed) writes what the body reports over what was reserved,
\* be it more or less; then _parse: an artifact, or a rejected body.
SettleCharge(w) ==
    /\ worker[w].at = "settle"
    /\ \E actual \in Actuals : ledger' \in {ledger, Settle(ledger, KeyOf(w), actual)}
    /\ \E outcome \in {Failure, worker[w].attempt} :
         worker' = [worker EXCEPT ![w].at = "complete", ![w].outcome = outcome]
    /\ UNCHANGED <<row, wire, handed, crashes>>
-----------------------------------------------------------------------------
(* The retry loop and the terminal write *)

\* advance_retryable_attempt, unless the worker's own copy says the attempts are spent.
Advance(w) ==
    /\ worker[w].at = "retry"
    /\ IF worker[w].attempt < MaxAttempts /\ Owns(w) /\ RowOf(w).attempt < MaxAttempts
       THEN /\ row' = [row EXCEPT ![worker[w].corr] = NextAttempt(@)]
            /\ Own(w, NextAttempt(RowOf(w)))
       ELSE Goto(w, "complete") /\ UNCHANGED row
    /\ UNCHANGED <<ledger, wire, handed, crashes>>

\* complete_invocation: a compare-and-set on the token.  A loser reads the row that won,
\* and takes itself for the winner if that row still carries its own token.
Complete(w) ==
    /\ worker[w].at = "complete"
    /\ \/ /\ Owns(w)
          /\ row' = [row EXCEPT ![worker[w].corr] = Ended(@, worker[w].outcome)]
          /\ Hand(worker[w].corr, worker[w].outcome)
       \/ /\ ~Owns(w)
          /\ IF RowOf(w).token = worker[w].token
             THEN Hand(worker[w].corr, worker[w].outcome)
             ELSE Settled(worker[w].corr)
          /\ UNCHANGED row
    /\ Return(w)
    /\ UNCHANGED <<ledger, wire, crashes>>

\* ReasoningPersistenceError: the write raised, before or after it was committed.
CompleteRaises(w) ==
    /\ worker[w].at = "complete"
    /\ crashes < MaxCrashes
    /\ crashes' = crashes + 1
    /\ Owns(w)
    /\ row' = [row EXCEPT ![worker[w].corr] = Ended(@, worker[w].outcome)]
    /\ Return(w)
    /\ UNCHANGED <<ledger, wire, handed>>

\* A worker dies, or a store call raises out of invoke() without having been committed.
Crash(w) ==
    /\ worker[w].at # "idle"
    /\ crashes < MaxCrashes
    /\ crashes' = crashes + 1
    /\ Return(w)
    /\ UNCHANGED <<row, ledger, wire, handed>>

\* The clock of the database passes lease_expires_at.
LeaseExpires(c) ==
    /\ row[c].status = "started" /\ row[c].lease = "live"
    /\ row' = [row EXCEPT ![c].lease = "expired"]
    /\ UNCHANGED <<worker, ledger, wire, handed, crashes>>
-----------------------------------------------------------------------------
Attempt(w) ==
    AllowSpend(w) \/ RefuseSpend(w) \/ ReserveCharge(w) \/ ReleaseCharge(w) \/ Send(w)
    \/ Answer(w) \/ SettleCharge(w)

Step(w) ==
    TryBegin(w) \/ TakeOver(w) \/ ReRead(w) \/ FailExhausted(w) \/ Attempt(w) \/ Advance(w)
    \/ Complete(w)

Next ==
    \/ \E w \in Workers, c \in Correlations : ReplayExisting(w, c) \/ StartInvoke(w, c)
    \/ \E w \in Workers : Step(w) \/ CompleteRaises(w) \/ Crash(w)
    \/ \E c \in Correlations : LeaseExpires(c)

\* A call that runs goes on (its provider attempt has a wall-clock timeout) and time passes.
\* Nothing polls: a caller that was told in_progress has to come back, for every correlation.
Fairness ==
    /\ \A w \in Workers : WF_vars(Step(w))
    /\ \A c \in Correlations : WF_vars(LeaseExpires(c))
    /\ \A w \in Workers, c \in Correlations : SF_vars(StartInvoke(w, c))

Spec == Init /\ [][Next]_vars
FairSpec == Spec /\ Fairness
-----------------------------------------------------------------------------
(* Properties *)

\* Whatever zombies, takeovers and retries do, no two callers of one correlation id are
\* ever handed different artifacts.
OneArtifactEver ==
    \A c \in Correlations : Cardinality(handed[c] \ {Failure}) <= 1

\* Each attempt asks the provider at most once, and only with its charge still counted in
\* the ledger: no crash, retry or failed settlement makes a call that left disappear.
CallsAreCharged ==
    \A k \in Keys : wire[k] > 0 => wire[k] = 1 /\ ledger[k].type \in CountedTypes

\* The cap is checked against the estimate, the charge reserved in a second step and settled,
\* unclamped, in a third, so attempts can pass the cap together and each can cost more than it
\* reserved.  Still, the attempt that passed last found its estimate left, and since then no
\* worker has added more than one charge.
OvershootIsBounded ==
    Usage(ledger) + Estimate <= Cap + Cardinality(Workers) * MaxCharge

claimed == {c \in Correlations : row[c].status # "absent"}
decided == [c \in Correlations |->
               IF row[c].status \in Terminal THEN {row[c].artifact} ELSE {}]

Canonical == INSTANCE CanonicalResult WITH Results <- Outcomes

\* Claimed once, decided once, never changed: the row implements CanonicalResult.
ImplementsCanonicalResult == Canonical!Spec

\* A claimed correlation id is decided in the end, if callers keep asking.
EveryInvocationEnds ==
    \A c \in Correlations : row[c].status = "started" ~> row[c].status \in Terminal
=============================================================================
