-------------------------- MODULE MCResumeRequests --------------------------
(***************************************************************************)
(* TLC instances of ResumeRequests: the second version of c1 has a         *)
(* production effect, so that a reclassified task is among the cases.      *)
(***************************************************************************)
EXTENDS ResumeRequests, TLC

CONSTANTS c1, c2, q1, q2, q3, a1, a2

Reclassified == {<<c1, 1>>}

Symmetry == Permutations(Requests) \cup Permutations(Approvals)
=============================================================================
