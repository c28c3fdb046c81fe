----------------------------- MODULE MCMultiRat -----------------------------
(***************************************************************************)
(* MultiRat for TLC: junk below the buffer, in it and above it.            *)
(***************************************************************************)
EXTENDS MultiRat

\* WiFi and WiGig hold a block, Ethernet half of one.
MCCap == [wifi |-> 4, eth |-> 2, wigi |-> 4]
\* totalbytes starts at zero, below it or past full.
MCJunkTotals == {0, -2, 3}
\* Junk in the buffer lies low, two short chunks above its start: the third
\* takes a backward pointer below the buffer.
MCJunkSeqnos == {-9, 5, 40}
=============================================================================
