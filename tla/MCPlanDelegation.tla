-------------------------- MODULE MCPlanDelegation --------------------------
(***************************************************************************)
(* TLC instances of PlanDelegation: a plan of three steps, the last of     *)
(* which waits for the two others.                                         *)
(***************************************************************************)
EXTENDS PlanDelegation

CONSTANTS w1, w2

FanIn == [s \in Steps |-> IF s = 3 THEN {1, 2} ELSE {}]
=============================================================================
