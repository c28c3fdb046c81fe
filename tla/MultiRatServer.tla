--------------------------- MODULE MultiRatServer ---------------------------
(***************************************************************************)
(* The sender of the multi-RAT transmission (server.c): the buffer is sent *)
(* upwards from its start over WiFi, downwards from its middle over        *)
(* Ethernet and downwards from its end over WiGig.                         *)
(*                                                                         *)
(* The inner loop that the two-RAT sender has is commented out here, so    *)
(* every turn of the one loop starts by setting all pointers back.         *)
(***************************************************************************)
EXTENDS Bytes, MultiRatSizes

VARIABLES
  pc,           \* the send it is at, "rebalance", the end of the turn, or
                \* "dead" once SIGPIPE has killed the program
  fwd_ptr, sec_rev_ptr, rev_ptr,
  ref_sec_rev_ptr

vars == <<pc, fwd_ptr, sec_rev_ptr, rev_ptr, ref_sec_rev_ptr>>

SendReturns(n) == {-1} \cup {r \in 1 .. n : r % Grain = 0}

\* Mutant: the second backward region starts one block up from the bottom of
\* the buffer.
SecStartLow == SEND_BUFFER_SIZE

\* Where the two backward pointers start: a block and two ints below the
\* middle and the end of the buffer.
SecStart == BUFFER_SIZE \div 2 - SEND_BUFFER_SIZE - Pad
RevStart == BUFFER_SIZE - SEND_BUFFER_SIZE - Pad

Init ==
  /\ pc = "wifi"
  /\ fwd_ptr = 0 /\ sec_rev_ptr = SecStart /\ rev_ptr = RevStart
  /\ ref_sec_rev_ptr = SecStart

\* The block at fwd_ptr goes to sockwifi.
SendForward(ret) ==
  /\ pc = "wifi"
  /\ ret \in SendReturns(SEND_BUFFER_SIZE)
  /\ fwd_ptr' = IF ret > 0 THEN fwd_ptr + Words(ret, WORD) ELSE fwd_ptr
  /\ pc' = "eth"
  /\ UNCHANGED <<sec_rev_ptr, rev_ptr, ref_sec_rev_ptr>>

\* The block at sec_rev_ptr goes to socketh back to front.
SendSecondBackward(ret) ==
  /\ pc = "eth"
  /\ ret \in SendReturns(SEND_BUFFER_SIZE)
  /\ sec_rev_ptr' = IF ret > 0 THEN sec_rev_ptr - Words(ret, WORD) ELSE sec_rev_ptr
  /\ pc' = "wigi"
  /\ UNCHANGED <<fwd_ptr, rev_ptr, ref_sec_rev_ptr>>

\* The block at rev_ptr goes to sockwigi back to front.
SendThirdBackward(ret) ==
  /\ pc = "wigi"
  /\ ret \in SendReturns(SEND_BUFFER_SIZE)
  /\ rev_ptr' = IF ret > 0 THEN rev_ptr - Words(ret, WORD) ELSE rev_ptr
  /\ pc' = "rebalance"
  /\ UNCHANGED <<fwd_ptr, sec_rev_ptr, ref_sec_rev_ptr>>

\* A path that has used up its region is to be given half of another one.
UpperUsedUp == ref_sec_rev_ptr >= rev_ptr
LowerUsedUp == fwd_ptr >= sec_rev_ptr

\* The end of a turn and the head of the next: whatever was given away, every
\* pointer starts again.
NextTurn ==
  /\ pc = "rebalance"
  /\ pc' = "wifi"
  /\ fwd_ptr' = 0 /\ sec_rev_ptr' = SecStart /\ rev_ptr' = RevStart
  /\ ref_sec_rev_ptr' = SecStart

\* The next send goes to a connection that the receiver has reset or that TCP
\* has given up: there is no MSG_NOSIGNAL, and the program ends inside it.
Killed ==
  /\ pc \in {"wifi", "eth", "wigi"}
  /\ pc' = "dead"
  /\ UNCHANGED <<fwd_ptr, sec_rev_ptr, rev_ptr, ref_sec_rev_ptr>>

Next ==
  \/ \E ret \in SendReturns(SEND_BUFFER_SIZE) :
       SendForward(ret) \/ SendSecondBackward(ret) \/ SendThirdBackward(ret)
  \/ NextTurn
  \/ Killed

Spec == Init /\ [][Next]_vars
-----------------------------------------------------------------------------
\* Types of the sender's variables; every block sent lies in the buffer.
TypeOK ==
  /\ pc \in {"wifi", "eth", "wigi", "rebalance", "dead"}
  /\ {fwd_ptr, sec_rev_ptr, rev_ptr} \subseteq 0 .. BUFFER_SIZE - SEND_BUFFER_SIZE
  /\ ref_sec_rev_ptr \in 0 .. BUFFER_SIZE

\* The code that moves a path to another region never runs: each turn of the
\* loop sends at most one block of each region, and the pointers it compares
\* are never closer than a block.
RebalanceIdle == pc = "rebalance" => ~UpperUsedUp /\ ~LowerUsedUp
=============================================================================
