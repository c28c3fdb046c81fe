-------------------------- MODULE MCMultiRatBuffer --------------------------
(***************************************************************************)
(* MultiRatBuffer for TLC.  The only junk is out of the buffer's range and *)
(* dropped: what is misplaced is not junk's doing.                         *)
(***************************************************************************)
EXTENDS MultiRatBuffer

MCCap == [rat \in RATs |-> SEND_BUFFER_SIZE]
MCJunkSeqnos == {-1}
=============================================================================
