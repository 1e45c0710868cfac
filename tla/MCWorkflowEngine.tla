-------------------------- MODULE MCWorkflowEngine --------------------------
(***************************************************************************)
(* TLC instances of WorkflowEngine: one task, at most one decision on its  *)
(* approval request, one fault.                                            *)
(***************************************************************************)
EXTENDS WorkflowEngine
=============================================================================
