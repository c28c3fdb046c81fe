--------------------------- MODULE MultiRatSizes ---------------------------
(***************************************************************************)
(* The sizes of the two multi-RAT programs.                                *)
(***************************************************************************)
EXTENDS Integers

CONSTANTS
  BUFFER_SIZE,        \* the window, in both programs
  SEND_BUFFER_SIZE,   \* the block one send is given
  RX_BUFFER_SIZE,     \* what one recv may deliver
  EXP_RX_SIZE,        \* the receiver ends when it has counted more
  WORD,               \* sizeof(int)
  Grain               \* the connections move multiples of this many bytes

\* The two ints below the end of the buffer that no block contains.
Pad == 2 * WORD

\* Half the buffer holds three blocks and the spare ints: true of 1024*1024
\* and 1024*50.
ASSUME SizesAssumption ==
  /\ BUFFER_SIZE \in Nat /\ SEND_BUFFER_SIZE \in Nat \ {0}
  /\ RX_BUFFER_SIZE \in Nat \ {0} /\ EXP_RX_SIZE \in Nat
  /\ WORD \in Nat \ {0} /\ Grain \in Nat \ {0}
  /\ BUFFER_SIZE % 2 = 0
  /\ 3 * SEND_BUFFER_SIZE + Pad < BUFFER_SIZE \div 2
=============================================================================
