---------------------------- MODULE TwoRatClient ----------------------------
(***************************************************************************)
(* The receiver of the two-RAT transmission (client.c): it polls WiFi and  *)
(* WiGig in turn, fills its buffer upwards from the one and downwards from *)
(* the other, and starts afresh when it has counted EXP_RX_SIZE bytes or   *)
(* the two pointers meet.                                                  *)
(*                                                                         *)
(* Nothing but TCP's order and these counts ties a chunk to its place, so  *)
(* the counting below is the protocol.  totalbytes is a double that the    *)
(* program never initialises before the first window: JunkTotals holds     *)
(* the values it may start from.  A NaN, or a number too far below zero    *)
(* for a chunk to change it, never closes a window by the count: it acts   *)
(* like any number below -BUFFER_SIZE.                                     *)
(***************************************************************************)
EXTENDS Bytes

CONSTANTS
  BUFFER_SIZE,
  RX_BUFFER_SIZE,
  EXP_RX_SIZE,
  WORD,
  Grain,        \* recv delivers a multiple of Grain bytes
  JunkTotals

\* The window is counted full at least one chunk before it really is: true
\* of 1024*1024, 1024 and 1047000, the sizes of FBDT-Userspace.
ASSUME ClientAssumption ==
  /\ BUFFER_SIZE \in Nat /\ RX_BUFFER_SIZE \in Nat \ {0} /\ EXP_RX_SIZE \in Nat
  /\ WORD \in Nat \ {0} /\ Grain \in Nat \ {0}
  /\ JunkTotals \subseteq Int
  /\ EXP_RX_SIZE + RX_BUFFER_SIZE + 2 * WORD <= BUFFER_SIZE

VARIABLES
  pc,           \* the next call: "wifi", "wigi", or "close" once the loop breaks
  fwd_ptr,      \* byte offsets into buff, int pointers in the code
  rev_ptr,
  totalbytes,
  fwd_count,
  rev_count,
  window        \* history: "first" until the first window is closed, then "later"

vars == <<pc, fwd_ptr, rev_ptr, totalbytes, fwd_count, rev_count, window>>

Pad == 2 * WORD
Top == BUFFER_SIZE - Pad

\* What recv can return: -1 when nothing has arrived, 0 once the peer has
\* closed, else the bytes it delivered.  The code treats -1 and 0 alike.
RecvReturns == {-1, 0} \cup {r \in 1 .. RX_BUFFER_SIZE : r % Grain = 0}

Init ==
  /\ pc = "wifi"
  /\ fwd_ptr = 0 /\ rev_ptr = Top
  /\ fwd_count = 0 /\ rev_count = 0
  /\ totalbytes \in JunkTotals
  /\ window = "first"

\* Mutant: the window is full when the count passes the whole buffer.
FullTooLate == totalbytes > BUFFER_SIZE

\* Enough of the window has been counted in.
Full == totalbytes > EXP_RX_SIZE

\* recv on WiFi delivers a chunk: it is placed at fwd_ptr and counted, and
\* a full window is closed without polling WiGig.
RecvWifi(valread) ==
  /\ pc = "wifi"
  /\ valread > 0
  /\ fwd_ptr' = fwd_ptr + Words(valread, WORD)
  /\ totalbytes' = totalbytes + valread
  /\ fwd_count' = fwd_count + valread
  /\ UNCHANGED <<rev_ptr, rev_count, window>>
  /\ pc' = IF Full' THEN "close" ELSE "wigi"

\* recv on WiFi delivers nothing.
WifiEmpty(valread) ==
  /\ pc = "wifi"
  /\ valread <= 0
  /\ pc' = "wigi"
  /\ UNCHANGED <<fwd_ptr, rev_ptr, totalbytes, fwd_count, rev_count, window>>

\* Mutant: the pointers are not compared after a chunk from WiGig.
RecvWigiUnmet(valread) ==
  /\ pc = "wigi"
  /\ valread > 0
  /\ rev_ptr' = rev_ptr - Words(valread, WORD)
  /\ totalbytes' = totalbytes + valread
  /\ rev_count' = rev_count + valread
  /\ UNCHANGED <<fwd_ptr, fwd_count, window>>
  /\ pc' = IF Full' THEN "close" ELSE "wifi"

\* recv on WiGig delivers a chunk: rev_ptr moves down first and the chunk is
\* placed back to front above it.
RecvWigi(valread) ==
  /\ pc = "wigi"
  /\ valread > 0
  /\ rev_ptr' = rev_ptr - Words(valread, WORD)
  /\ totalbytes' = totalbytes + valread
  /\ rev_count' = rev_count + valread
  /\ UNCHANGED <<fwd_ptr, fwd_count, window>>
  /\ pc' = IF Full' \/ fwd_ptr >= rev_ptr' THEN "close" ELSE "wifi"

\* recv on WiGig delivers nothing; the pointers are compared all the same.
WigiEmpty(valread) ==
  /\ pc = "wigi"
  /\ valread <= 0
  /\ pc' = IF fwd_ptr >= rev_ptr THEN "close" ELSE "wifi"
  /\ UNCHANGED <<fwd_ptr, rev_ptr, totalbytes, fwd_count, rev_count, window>>

\* Mutant: totalbytes is carried over into the next window.
CloseWindowKeepsTotal ==
  /\ pc = "close"
  /\ totalbytes' = totalbytes
  /\ fwd_ptr' = 0 /\ rev_ptr' = Top
  /\ fwd_count' = 0 /\ rev_count' = 0
  /\ pc' = "wifi"
  /\ window' = "later"

\* The end of the outer loop body and the start of the next turn.
CloseWindow ==
  /\ pc = "close"
  /\ totalbytes' = 0
  /\ fwd_ptr' = 0 /\ rev_ptr' = Top
  /\ fwd_count' = 0 /\ rev_count' = 0
  /\ pc' = "wifi"
  /\ window' = "later"

Next ==
  \/ \E valread \in RecvReturns : RecvWifi(valread) \/ WifiEmpty(valread)
  \/ \E valread \in RecvReturns : RecvWigi(valread) \/ WigiEmpty(valread)
  \/ CloseWindow

Spec == Init /\ [][Next]_vars
-----------------------------------------------------------------------------
\* Types of the receiver's variables.  The pointers stay within one chunk of
\* the buffer whatever totalbytes starts from: where the count does not stop
\* them the comparison of the pointers does.
TypeOK ==
  /\ pc \in {"wifi", "wigi", "close"}
  /\ fwd_ptr \in 0 .. Top + RX_BUFFER_SIZE
  /\ rev_ptr \in -RX_BUFFER_SIZE .. Top
  /\ totalbytes \in Int
  /\ fwd_count \in Nat /\ rev_count \in Nat
  /\ window \in {"first", "later"}

\* From the second window on, the count that closes a window is the bytes
\* placed in it, whatever totalbytes held when the program started.
CountsExact == window = "later" => totalbytes = fwd_count + rev_count

\* Before either recv there is room for a whole chunk between the pointers,
\* so no chunk is written over bytes the other path has delivered, unless
\* totalbytes started below zero.  Even then they have not met before the
\* recv on WiFi: the two chunks that may follow leave less than two chunks
\* of the window written twice.
NoOverwrite ==
  /\ pc \in {"wifi", "wigi"} /\ totalbytes >= fwd_count + rev_count =>
       fwd_ptr + RX_BUFFER_SIZE <= rev_ptr
  /\ pc = "wifi" => fwd_ptr < rev_ptr

\* From its second window on, whatever totalbytes started from, the receiver
\* keeps the promise of a transmission window, counted in bytes received: the
\* two paths together never deliver into more than the window holds, and it
\* is closed only with less than Top - EXP_RX_SIZE bytes of it missing.  The
\* first window maps to one in which nothing has arrived: it may close at
\* any count, or at none.
ForwardFront == IF window = "first" THEN 0 ELSE fwd_count
BackwardFront == IF window = "first" THEN Top ELSE Top - rev_count
ReceivedWindow == INSTANCE TransmissionWindow WITH
  Top <- Top, Step <- RX_BUFFER_SIZE,
  Slack <- Top - EXP_RX_SIZE, Overlap <- 0,
  lo <- ForwardFront, hi <- BackwardFront
ReceivesWindow == ReceivedWindow!Spec
=============================================================================
