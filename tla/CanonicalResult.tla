-------------------------- MODULE CanonicalResult --------------------------
(***************************************************************************)
(* What the reasoning runtime promises its callers, without workers,       *)
(* leases, attempts or money: a correlation id is claimed once and decided *)
(* once, and a decision is never changed.                                  *)
(***************************************************************************)
CONSTANTS
    Correlations,   \* correlation ids
    Results         \* what an invocation may be decided to: an artifact or a failure

VARIABLES
    claimed,        \* correlations with an invocation
    decided         \* correlation -> the results it was decided to: none or one

Init ==
    /\ claimed \in SUBSET Correlations
    /\ decided = [c \in Correlations |-> {}]

Claim(c) ==
    /\ c \notin claimed
    /\ claimed' = claimed \cup {c}
    /\ UNCHANGED decided

Decide(c) ==
    /\ c \in claimed /\ decided[c] = {}
    /\ \E r \in Results : decided' = [decided EXCEPT ![c] = {r}]
    /\ UNCHANGED claimed

Next == \E c \in Correlations : Claim(c) \/ Decide(c)

Spec == Init /\ [][Next]_<<claimed, decided>>
=============================================================================
