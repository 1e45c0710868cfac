--------------------------- MODULE MCOutboxRelay ---------------------------
(***************************************************************************)
(* TLC instance of OutboxRelay: a schedule of two backoffs, hence three    *)
(* attempts before a row dies.                                             *)
(***************************************************************************)
EXTENDS OutboxRelay

CONSTANTS e1, e2, r1, r2

MCBackoff == <<1, 2>>
MCTotalWait == [n \in 0..2 |-> IF n = 2 THEN 3 ELSE n]
=============================================================================
