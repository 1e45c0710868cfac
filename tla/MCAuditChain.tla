----------------------------- MODULE MCAuditChain -----------------------------
(***************************************************************************)
(* TLC instances of AuditChain: three rows, two connections, writers with  *)
(* and without a signing key.                                              *)
(***************************************************************************)
EXTENDS AuditChain, TLC

CONSTANTS r1, r2, r3, w1, w2

Symmetry == Permutations(Rows) \cup Permutations(Writers)
=============================================================================
