-------------------------- MODULE MCReplayRequests --------------------------
(***************************************************************************)
(* TLC instances of ReplayRequests.                                        *)
(***************************************************************************)
EXTENDS ReplayRequests, TLC

CONSTANTS e1, e2, q1, q2, q3, a1, a2

Symmetry == Permutations(Events) \cup Permutations(Requests) \cup Permutations(Actors)
=============================================================================
