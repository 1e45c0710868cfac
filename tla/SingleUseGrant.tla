--------------------------- MODULE SingleUseGrant ---------------------------
(***************************************************************************)
(* What an authorization of resume_replay_authorizations promises, whoever *)
(* asks for it and whatever becomes of the request it belongs to: it is    *)
(* asked for once, for one matter; it pays for one deed; and a matter has  *)
(* one authorization that can still be used, and one deed, for ever.       *)
(***************************************************************************)
CONSTANTS
    Grants,      \* authorizations
    Matters,     \* what an authorization may be about
    None         \* "not asked for yet"

VARIABLES
    phase,       \* grant -> "none", "asked", "granted", "spent" or "void"
    matter,      \* grant -> what it was asked for
    acted        \* the matters in which something has been done

vars == <<phase, matter, acted>>

Init ==
    /\ phase = [g \in Grants |-> "none"]
    /\ matter = [g \in Grants |-> None]
    /\ acted = {}

Live(g) == phase[g] \in {"asked", "granted"}

\* Nobody else is asking, and nothing has been done.
Ask(g, m) ==
    /\ phase[g] = "none"
    /\ m \notin acted
    /\ \A h \in Grants : Live(h) => matter[h] # m
    /\ phase' = [phase EXCEPT ![g] = "asked"]
    /\ matter' = [matter EXCEPT ![g] = m]
    /\ UNCHANGED acted

Approve(g) ==
    /\ phase[g] = "asked"
    /\ phase' = [phase EXCEPT ![g] = "granted"]
    /\ UNCHANGED <<matter, acted>>

\* Rejected, canceled, revoked, or, several at a time, expired.
Void(S) ==
    /\ \A g \in S : Live(g)
    /\ phase' = [g \in Grants |-> IF g \in S THEN "void" ELSE phase[g]]
    /\ UNCHANGED <<matter, acted>>

\* The deed and the end of the authorization that pays for it are one step.
Spend(g) ==
    /\ phase[g] = "granted"
    /\ matter[g] \notin acted
    /\ phase' = [phase EXCEPT ![g] = "spent"]
    /\ acted' = acted \cup {matter[g]}
    /\ UNCHANGED matter

Next ==
    \/ \E g \in Grants : Approve(g) \/ Spend(g) \/ \E m \in Matters : Ask(g, m)
    \/ \E S \in SUBSET Grants : Void(S)

Spec == Init /\ [][Next]_vars
=============================================================================
