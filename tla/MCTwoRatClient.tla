--------------------------- MODULE MCTwoRatClient ---------------------------
(***************************************************************************)
(* The receiver on its own, its sockets delivering anything at any time.   *)
(***************************************************************************)
EXTENDS TwoRatClient

\* totalbytes starts at zero, far below it, almost full, or past full.
MCJunkTotals == {0, -40, 12, 17}
=============================================================================
