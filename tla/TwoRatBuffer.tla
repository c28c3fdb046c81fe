---------------------------- MODULE TwoRatBuffer ----------------------------
(***************************************************************************)
(* TwoRat with the contents of the receiver's buffer: every step of TwoRat *)
(* with what it writes to buff.  A byte that has been received is known by *)
(* the offset it was sent from and, as history, the window it was sent in. *)
(***************************************************************************)
EXTENDS TwoRat, FiniteSets

CONSTANT Empty          \* a byte of buff that memset has zeroed

\* Empty is none of the sender's bytes: they are told apart.
ASSUME EmptyAssumption ==
  Empty \notin [window : {"first", "later"}, pos : 0 .. Top - 1]

VARIABLE buff

Cleared == [p \in 0 .. BUFFER_SIZE - 1 |-> Empty]

BufferInit == Init /\ buff = Cleared

\* memcpy to fwd_ptr, which then moves up.
ReceiveWifi(valread) ==
  /\ WifiRecv(valread)
  /\ buff' = memcpy(buff, c_fwd, Arrived(wifi, valread))

\* Mutant: the chunk is placed with memcpy, as the commented-out line did.
ReceiveWigiPlain(valread) ==
  /\ WigiRecv(valread)
  /\ buff' = memcpy(buff, c_rev', Arrived(wigi, valread))

\* rev_ptr moves down, then reverse_memcpy to it.
ReceiveWigi(valread) ==
  /\ WigiRecv(valread)
  /\ buff' = reverse_memcpy(buff, c_rev', Arrived(wigi, valread))

\* The next window starts from a zeroed buffer.
ClearBuffer == ClientTurn /\ buff' = Cleared

BufferNext ==
  \/ \E valread \in RecvReturns : ReceiveWifi(valread) \/ ReceiveWigi(valread)
  \/ ClearBuffer
  \/ (ServerStep \/ ServerKilled \/ NothingArrived) /\ UNCHANGED buff

BufferSpec == BufferInit /\ [][BufferNext]_<<vars, buff>>

\* Past its first window the receiver's place in the stream depends on how
\* far the paths have drifted and nothing below speaks of it: TLC need not
\* go on from there.
FirstWindowOnly == c_window = "first"
-----------------------------------------------------------------------------
Filled == {p \in DOMAIN buff : buff[p] # Empty}
Foreign == {p \in Filled : buff[p].window # "first"}

\* buff holds zeroes and bytes of the sender's buffer.
BufferTypeOK ==
  /\ DOMAIN buff = 0 .. BUFFER_SIZE - 1
  /\ \A p \in Filled : buff[p].pos \in 0 .. Top - 1

\* In the first window, whatever totalbytes held when the program started,
\* the counting protocol puts every byte of that window in its own place,
\* however the two streams were cut into chunks of whole ints and in whatever
\* order the chunks of the two paths came, and the bytes placed are as many
\* as the two paths have delivered: none is lost to the other path.  The
\* pointers can only cross with the window's last chunks, when totalbytes
\* started below zero: then they write over each other.
FirstWindowPlaced ==
  c_window = "first" /\ c_fwd <= c_rev =>
    /\ \A p \in Filled \ Foreign : buff[p].pos = p
    /\ Cardinality(Filled) = c_fwdcount + c_revcount

InFlight(pipe) == Cardinality({i \in 1 .. Len(pipe) : pipe[i].window = "first"})

\* Bytes of the sender's next window enter the receiver's current one only
\* in the place of bytes a path is still holding back: as long as the streams
\* come in whole ints and the pointers have not crossed there are fewer of
\* them than those in flight and one block, whatever totalbytes started from.
MixingBoundedByLag ==
  c_window = "first" /\ c_fwd <= c_rev =>
    Cardinality(Foreign) < SEND_BUFFER_SIZE + InFlight(wifi) + InFlight(wigi)

\* What the receiver's own check says of a window it has closed, for every
\* int below totalbytes: if(ref!=val) printf("Error in FBDT.....").
ReceivedCheck ==
  c_pc = "close" /\ c_window = "first" =>
    \A val \in 0 .. c_total - 1 : buff[val] # Empty /\ buff[val].pos = val
=============================================================================
