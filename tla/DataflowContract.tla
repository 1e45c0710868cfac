-------------------------- MODULE DataflowContract --------------------------
(***************************************************************************)
(* What executing a plan promises: a step is issued at most once, not      *)
(* before everything it depends on is done, and it ends at most once, done *)
(* or failed.  Nothing behind a failed step is ever issued.                *)
(***************************************************************************)
CONSTANTS
    Steps,
    Deps        \* step -> the steps it depends on

VARIABLES issued, done, failed      \* sets of steps

vars == <<issued, done, failed>>

Init ==
    /\ issued = {}
    /\ done = {}
    /\ failed = {}

Issue(s) ==
    /\ s \notin issued
    /\ Deps[s] \subseteq done
    /\ issued' = issued \cup {s}
    /\ UNCHANGED <<done, failed>>

Running(s) == s \in issued /\ s \notin done \cup failed

Complete(s) ==
    /\ Running(s)
    /\ done' = done \cup {s}
    /\ UNCHANGED <<issued, failed>>

Fail(s) ==
    /\ Running(s)
    /\ failed' = failed \cup {s}
    /\ UNCHANGED <<issued, done>>

Next == \E s \in Steps : Issue(s) \/ Complete(s) \/ Fail(s)

Spec == Init /\ [][Next]_vars
=============================================================================
