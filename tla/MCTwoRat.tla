------------------------------- MODULE MCTwoRat -------------------------------
(***************************************************************************)
(* The two-RAT transmission, totalbytes starting from anything.            *)
(***************************************************************************)
EXTENDS TwoRat

\* totalbytes starts at zero, past full, or so far below zero that the count
\* never fills the first window.
MCJunkTotals == {0, 7, -20}
=============================================================================
