---------------------------- MODULE MCAuditIngest ----------------------------
(***************************************************************************)
(* TLC instances of AuditIngest: a lifecycle event, and the envelope that  *)
(* the audit-service publishes after a write of its own.                   *)
(***************************************************************************)
EXTENDS AuditIngest

CONSTANTS e1, echo
=============================================================================
