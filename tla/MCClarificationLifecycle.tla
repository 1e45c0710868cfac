---------------------- MODULE MCClarificationLifecycle ----------------------
(***************************************************************************)
(* TLC instances of ClarificationLifecycle: clarifications are reminded    *)
(* after one model hour and due after two; 24 h and 72 h in the code.      *)
(***************************************************************************)
EXTENDS ClarificationLifecycle, TLC

CONSTANTS t1, t2, c1, c2, h1, h2, p1, p2

\* Two clarifications of one task
OneTask == [c \in Clarifications |-> t1]

\* A task for each clarification
TwoTasks == [c \in Clarifications |-> IF c = c1 THEN t1 ELSE t2]

Symmetry == Permutations(Handlers) \cup Permutations(Pollers)
=============================================================================
