--------------------------- MODULE MultiRatClient ---------------------------
(***************************************************************************)
(* The receiver of the multi-RAT transmission (client.c of FBDT-Userspace):*)
(* it polls WiFi, Ethernet and WiGig in turn and places every chunk by the *)
(* sequence number it reads out of the chunk, until it has counted         *)
(* EXP_RX_SIZE bytes; then it checks the buffer and ends.                  *)
(*                                                                         *)
(* A sequence number is an int of the sender's buffer, hence the offset of *)
(* that int.  totalbytes is a double that the program never initialises:   *)
(* JunkTotals holds the values it may start from.  A NaN, or a number too  *)
(* large for a chunk to change it, is left out: from most of those the     *)
(* receiver never ends.                                                    *)
(***************************************************************************)
EXTENDS Bytes, MultiRatSizes

CONSTANT JunkTotals

VARIABLES
  pc,           \* the next recv, then "check", then "done"
  fwd_ptr, sec_rev_ptr, rev_ptr,
  totalbytes

vars == <<pc, fwd_ptr, sec_rev_ptr, rev_ptr, totalbytes>>

RecvReturns == {-1, 0} \cup {r \in 1 .. RX_BUFFER_SIZE : r % Grain = 0}

Init ==
  /\ pc = "wifi"
  /\ fwd_ptr = 0
  /\ sec_rev_ptr = BUFFER_SIZE \div 2 - Pad
  /\ rev_ptr = BUFFER_SIZE - Pad
  /\ totalbytes \in JunkTotals

Full == totalbytes > EXP_RX_SIZE

\* A chunk from WiFi goes where the int at its head says, unchecked.
RecvWifi(valread, seqno) ==
  /\ pc = "wifi"
  /\ valread > 0
  /\ fwd_ptr' = Words(seqno, WORD) + Words(valread, WORD)
  /\ totalbytes' = totalbytes + valread
  /\ pc' = IF Full' THEN "check" ELSE "eth"
  /\ UNCHANGED <<sec_rev_ptr, rev_ptr>>

\* Mutant: the range of the sequence number is not checked.
LowerEndUnchecked(ptr, seqno, valread) ==
  Words(seqno, WORD) - Words(valread, WORD)

\* Where a backward chunk of valread bytes is placed: below the sequence
\* number if that is in range, else below the pointer.
LowerEnd(ptr, seqno, valread) ==
  (IF seqno \in 0 .. BUFFER_SIZE THEN Words(seqno, WORD) ELSE ptr)
    - Words(valread, WORD)

\* A chunk from Ethernet.
RecvEth(valread, seqno) ==
  /\ pc = "eth"
  /\ valread > 0
  /\ sec_rev_ptr' = LowerEnd(sec_rev_ptr, seqno, valread)
  /\ totalbytes' = totalbytes + valread
  /\ pc' = IF Full' THEN "check" ELSE "wigi"
  /\ UNCHANGED <<fwd_ptr, rev_ptr>>

\* A chunk from WiGig.
RecvWigi(valread, seqno) ==
  /\ pc = "wigi"
  /\ valread > 0
  /\ rev_ptr' = LowerEnd(rev_ptr, seqno, valread)
  /\ totalbytes' = totalbytes + valread
  /\ pc' = IF Full' THEN "check" ELSE "wifi"
  /\ UNCHANGED <<fwd_ptr, sec_rev_ptr>>

\* The recv it is at delivers nothing.
After == [wifi |-> "eth", eth |-> "wigi", wigi |-> "wifi"]
RecvNothing ==
  /\ pc \in DOMAIN After
  /\ pc' = After[pc]
  /\ UNCHANGED <<fwd_ptr, sec_rev_ptr, rev_ptr, totalbytes>>

\* The only window is full: the buffer is checked, the sockets are closed.
Finish ==
  /\ pc = "check"
  /\ pc' = "done"
  /\ UNCHANGED <<fwd_ptr, sec_rev_ptr, rev_ptr, totalbytes>>
-----------------------------------------------------------------------------
\* Types of the receiver's variables, and the upper edge of its pointers.
TypeOK ==
  /\ pc \in {"wifi", "eth", "wigi", "check", "done"}
  /\ fwd_ptr \in 0 .. BUFFER_SIZE - Pad
  /\ {sec_rev_ptr, rev_ptr} \subseteq Int
  /\ sec_rev_ptr <= BUFFER_SIZE - Pad /\ rev_ptr <= BUFFER_SIZE - Pad
  /\ totalbytes \in Int

\* The range check does not keep the backward pointers in the buffer: every
\* chunk with an out-of-range sequence number lowers its pointer once more.
\* But over the whole run neither falls below the buffer by more than the
\* bytes that were received, from wherever totalbytes counted them.
StrayBounded ==
  \E start \in JunkTotals :
    /\ start <= totalbytes
    /\ sec_rev_ptr >= start - totalbytes /\ rev_ptr >= start - totalbytes
=============================================================================
