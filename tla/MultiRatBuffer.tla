--------------------------- MODULE MultiRatBuffer ---------------------------
(***************************************************************************)
(* MultiRat with the contents of the receiver's buffer.                    *)
(***************************************************************************)
EXTENDS MultiRat

CONSTANT Empty          \* a byte of buff that memset has zeroed

VARIABLE buff

BufferInit == Init /\ buff = [p \in 0 .. BUFFER_SIZE - 1 |-> Empty]

\* memcpy to fwd_ptr, set by the sequence number; it then moves up.
ReceiveWifi(valread) ==
  /\ WifiRecv(valread)
  /\ buff' = memcpy(buff, c_fwd' - Words(valread, WORD), Arrived(pipe["wifi"], valread))

\* reverse_memcpy to sec_rev_ptr or rev_ptr, which has moved down.
ReceiveEth(valread) ==
  /\ EthRecv(valread)
  /\ buff' = reverse_memcpy(buff, c_sec', Arrived(pipe["eth"], valread))
ReceiveWigi(valread) ==
  /\ WigiRecv(valread)
  /\ buff' = reverse_memcpy(buff, c_rev', Arrived(pipe["wigi"], valread))

BufferNext ==
  \/ \E valread \in RecvReturns :
       ReceiveWifi(valread) \/ ReceiveEth(valread) \/ ReceiveWigi(valread)
  \/ (ServerStep \/ ClientTurn) /\ UNCHANGED buff

BufferSpec == BufferInit /\ [][BufferNext]_<<vars, buff>>
-----------------------------------------------------------------------------
\* Every byte the receiver has placed lies where the sender had it: what the
\* check after the window says of the ints it finds,
\* if(ref!=val) printf("Error in FBDT.....").
PlacedInOwnPlace == \A p \in DOMAIN buff : buff[p] \in {Empty, p}
=============================================================================
