--------------------------- MODULE MCRetryPipeline ---------------------------
(***************************************************************************)
(* TLC instances of RetryPipeline: one job, of which manual replays make   *)
(* up to three copies.                                                     *)
(***************************************************************************)
EXTENDS RetryPipeline

CONSTANTS j1

\* A producer may be up before either of them.
AnyDeployment == BOOLEAN \X BOOLEAN
=============================================================================
