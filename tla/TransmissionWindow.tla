------------------------- MODULE TransmissionWindow -------------------------
(***************************************************************************)
(* What FBDT promises of a transmission window, at either end: two fronts  *)
(* start at the two edges of the window and move towards each other, and   *)
(* the window is given up for the next one only when little is left        *)
(* between them.  The sender's fronts are what it has handed to its two    *)
(* sockets, the receiver's what it has placed in its buffer.               *)
(***************************************************************************)
EXTENDS Integers

CONSTANTS
  Top,      \* the upper edge, where the backward front starts
  Step,     \* the most one call moves a front
  Slack,    \* fewer bytes than this may be left between the fronts at a turn
  Overlap   \* at most this many bytes are covered by both fronts

VARIABLES
  lo,       \* the forward front: everything below it is done
  hi        \* the backward front: everything from it to Top is done

Init == lo = 0 /\ hi = Top

Forward ==
  \E n \in 1 .. Step :
    /\ lo' = lo + n
    /\ hi - lo' >= -Overlap
    /\ hi' = hi

Backward ==
  \E n \in 1 .. Step :
    /\ hi' = hi - n
    /\ hi' - lo >= -Overlap
    /\ lo' = lo

Turn ==
  /\ hi - lo < Slack
  /\ lo' = 0
  /\ hi' = Top

Next == Forward \/ Backward \/ Turn

Spec == Init /\ [][Next]_<<lo, hi>>
=============================================================================
