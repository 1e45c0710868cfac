---------------------------- MODULE BudgetLedger ----------------------------
(***************************************************************************)
(* The usage ledger of live reasoning: one llm_budget_events row per       *)
(* provider attempt, found by its reservation key                          *)
(* (shared/sdk/llm_budget/store.py, policy.py).  Each operator is one SQL  *)
(* statement.  All rows lie in one accounting period: the daily and the    *)
(* monthly cap are the same test over longer and shorter sums.             *)
(***************************************************************************)
EXTENDS Integers, Functions

\* The row before its INSERT; cost stands for COALESCE(actual, estimated).
NoCharge == [type |-> "absent", cost |-> 0]

ChargeTypes == {"absent", "reserved_usage", "recorded_usage", "released_reservation"}

\* COUNTED_EVENT_TYPES
CountedTypes == {"reserved_usage", "recorded_usage"}

\* INSERT ... ON CONFLICT (reservation_key) DO NOTHING
Reserve(ledger, key, estimate) ==
    IF ledger[key] = NoCharge
    THEN [ledger EXCEPT ![key] = [type |-> "reserved_usage", cost |-> estimate]]
    ELSE ledger

\* UPDATE ... WHERE event_type = 'reserved_usage'
Settle(ledger, key, actual) ==
    IF ledger[key].type = "reserved_usage"
    THEN [ledger EXCEPT ![key] = [type |-> "recorded_usage", cost |-> actual]]
    ELSE ledger

\* UPDATE ... SET event_type = 'released_reservation' WHERE it is still reserved
Release(ledger, key) ==
    IF ledger[key].type = "reserved_usage"
    THEN [ledger EXCEPT ![key].type = "released_reservation"]
    ELSE ledger

CountedCost(charge) == IF charge.type \in CountedTypes THEN charge.cost ELSE 0

\* get_daily_usage_usd, get_monthly_usage_usd
Usage(ledger) == FoldFunction(LAMBDA charge, sum : sum + CountedCost(charge), 0, ledger)

\* Faulty: the cap is compared with what was spent before this call.
WithinCap_Before(ledger, estimate, cap) == Usage(ledger) <= cap

\* _check_caps: a cap is breached by what is used plus what is estimated
WithinCap(ledger, estimate, cap) == Usage(ledger) + estimate <= cap
=============================================================================
