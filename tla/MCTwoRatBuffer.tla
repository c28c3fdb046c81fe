---------------------------- MODULE MCTwoRatBuffer ----------------------------
(***************************************************************************)
(* The two-RAT transmission with the buffer, totalbytes starting from      *)
(* anything.                                                               *)
(***************************************************************************)
EXTENDS TwoRatBuffer

\* totalbytes starts at zero, or so far below it that the count never fills the
\* first window; a start above zero only closes that window earlier.
MCJunkTotals == {0, -40}
=============================================================================
