----------------------- MODULE MCReasoningInvocations -----------------------
(***************************************************************************)
(* TLC instances of ReasoningInvocations: two callers of one correlation   *)
(* id whose attempts overlap once a lease has run out.                     *)
(***************************************************************************)
EXTENDS ReasoningInvocations

CONSTANTS c1, w1, w2
=============================================================================
