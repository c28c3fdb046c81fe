------------------------------ MODULE MultiRat ------------------------------
(***************************************************************************)
(* The multi-RAT transmission end to end: one MultiRatServer and one       *)
(* MultiRatClient joined by three SPTCP connections.  The receiver ends    *)
(* after one window and closes its sockets; the next send on one of them   *)
(* ends the sender.                                                        *)
(*                                                                         *)
(* The sender fills its buffer with the offset of every int, so a byte is  *)
(* known by its offset.                                                    *)
(***************************************************************************)
EXTENDS Bytes, MultiRatSizes, Sptcp

CONSTANTS
  JunkTotals,   \* what the receiver's uninitialised count may start from
  Cap,          \* bytes each connection holds between the two programs
  JunkSeqnos    \* what four bytes of two different ints can read as

RATs == {"wifi", "eth", "wigi"}

\* A chunk is no longer than two blocks: 1024 and 1024*50 bytes.  Sends and
\* receives cut the streams between ints.  Junk that passes for an offset of
\* the buffer is none of its two spare ints: it is the higher bytes of an
\* offset of one of the backward blocks, between 1848 and 4096 for the sizes
\* of the code.
ASSUME MultiRatAssumption ==
  /\ RX_BUFFER_SIZE <= 2 * SEND_BUFFER_SIZE
  /\ Grain % WORD = 0
  /\ Cap \in [RATs -> Nat]
  /\ JunkTotals \subseteq Int
  /\ JunkSeqnos \subseteq Int
  /\ \A seqno \in JunkSeqnos :
       seqno \in 0 .. BUFFER_SIZE => seqno <= BUFFER_SIZE - Pad

VARIABLES
  s_pc, s_fwd, s_sec, s_rev, s_ref,
  c_pc, c_fwd, c_sec, c_rev, c_total,
  pipe,         \* the three connections
  up            \* the RAT whose radio keeps working; the others may come and go

server == <<s_pc, s_fwd, s_sec, s_rev, s_ref>>
client == <<c_pc, c_fwd, c_sec, c_rev, c_total>>
vars == <<server, client, pipe, up>>

Server == INSTANCE MultiRatServer WITH
  pc <- s_pc, fwd_ptr <- s_fwd, sec_rev_ptr <- s_sec, rev_ptr <- s_rev,
  ref_sec_rev_ptr <- s_ref
Client == INSTANCE MultiRatClient WITH
  pc <- c_pc, fwd_ptr <- c_fwd, sec_rev_ptr <- c_sec, rev_ptr <- c_rev,
  totalbytes <- c_total

Content == [p \in 0 .. BUFFER_SIZE - 1 |-> p]

Init ==
  /\ Server!Init /\ Client!Init
  /\ pipe = [rat \in RATs |-> <<>>]
  /\ up \in RATs

\* send on the socket of rat takes ret bytes of the block.
Sends(rat, block, ret) ==
  /\ HasRoom(pipe[rat], ret, Cap[rat])
  /\ pipe' = [pipe EXCEPT ![rat] = Taken(@, block, ret)]
  /\ UNCHANGED <<client, up>>

\* Mutant: send without MSG_DONTWAIT waits until it can take something.
WifiSendWaits(ret) ==
  /\ ret > 0
  /\ Server!SendForward(ret)
  /\ Sends("wifi", Chunk(Content, s_fwd, SEND_BUFFER_SIZE), ret)

\* memcpy and send on sockwifi.
WifiSend(ret) ==
  /\ Server!SendForward(ret)
  /\ Sends("wifi", Chunk(Content, s_fwd, SEND_BUFFER_SIZE), ret)

\* Mutant: a plain memcpy fills send_buff on the second path.
EthSendPlain(ret) ==
  /\ Server!SendSecondBackward(ret)
  /\ Sends("eth", Chunk(Content, s_sec, SEND_BUFFER_SIZE), ret)

\* reverse_memcpy and send on socketh.
EthSend(ret) ==
  /\ Server!SendSecondBackward(ret)
  /\ Sends("eth", ReversedChunk(Content, s_sec, SEND_BUFFER_SIZE), ret)

\* reverse_memcpy and send on sockwigi.
WigiSend(ret) ==
  /\ Server!SendThirdBackward(ret)
  /\ Sends("wigi", ReversedChunk(Content, s_rev, SEND_BUFFER_SIZE), ret)

ServerTurn ==
  /\ Server!NextTurn
  /\ UNCHANGED <<client, pipe, up>>

\* A send kills the sender with SIGPIPE once the reset of a receiver that has
\* closed its end has arrived, or once TCP has given the connection up, which
\* takes a RAT that is not up.
ServerKilled ==
  /\ c_pc = "done" \/ s_pc # up
  /\ Server!Killed
  /\ UNCHANGED <<client, pipe, up>>

Delivers(rat, valread) ==
  /\ valread <= Len(pipe[rat])
  /\ pipe' = [pipe EXCEPT ![rat] = Left(@, valread)]
  /\ UNCHANGED <<server, up>>

\* The int at the head of a forward chunk is the offset of its first byte.
WifiRecv(valread) ==
  /\ valread > 0
  /\ Delivers("wifi", valread)
  /\ Client!RecvWifi(valread, Arrived(pipe["wifi"], valread)[1])

\* The int of a backward chunk is read sizeof(int) times too early, at byte
\* valread/4 of rx_buff: an int of the middle of the chunk if it starts there,
\* junk if two ints or the end of the chunk meet there.
SeqnosOf(chunk) ==
  LET at    == Len(chunk) \div WORD
      whole == /\ at + WORD <= Len(chunk)
               /\ chunk[at + WORD] % WORD = 0
               /\ \A i \in 1 .. WORD : chunk[at + i] = chunk[at + WORD] + WORD - i
  IN  IF whole THEN {chunk[at + WORD]} ELSE JunkSeqnos

EthRecv(valread) ==
  /\ valread > 0
  /\ Delivers("eth", valread)
  /\ \E seqno \in SeqnosOf(Arrived(pipe["eth"], valread)) :
       Client!RecvEth(valread, seqno)

WigiRecv(valread) ==
  /\ valread > 0
  /\ Delivers("wigi", valread)
  /\ \E seqno \in SeqnosOf(Arrived(pipe["wigi"], valread)) :
       Client!RecvWigi(valread, seqno)

ClientTurn ==
  /\ Client!RecvNothing \/ Client!Finish
  /\ UNCHANGED <<server, pipe, up>>

SendReturns == Server!SendReturns(SEND_BUFFER_SIZE)
RecvReturns == Client!RecvReturns

ServerStep ==
  \/ \E ret \in SendReturns : WifiSend(ret) \/ EthSend(ret) \/ WigiSend(ret)
  \/ ServerTurn

ClientStep ==
  \/ \E valread \in RecvReturns :
       WifiRecv(valread) \/ EthRecv(valread) \/ WigiRecv(valread)
  \/ ClientTurn

Next == ServerStep \/ ServerKilled \/ ClientStep

\* What the RAT that is up does.
UpTakes ==
  \E ret \in SendReturns :
    /\ ret > 0
    /\ \/ up = "wifi" /\ WifiSend(ret)
       \/ up = "eth"  /\ EthSend(ret)
       \/ up = "wigi" /\ WigiSend(ret)
UpDelivers ==
  \E valread \in RecvReturns :
    \/ up = "wifi" /\ WifiRecv(valread)
    \/ up = "eth"  /\ EthRecv(valread)
    \/ up = "wigi" /\ WigiRecv(valread)
UpResets == s_pc = up /\ ServerKilled

\* Both programs run on; the RAT that is up takes and delivers bytes, and in
\* the end the reset, again and again.  Nothing is assumed of the
\* others, nor that TCP ever gives one up.
Spec ==
  /\ Init /\ [][Next]_vars
  /\ WF_vars(ServerStep) /\ WF_vars(ClientStep)
  /\ SF_vars(UpTakes) /\ SF_vars(UpDelivers) /\ SF_vars(UpResets)
-----------------------------------------------------------------------------
\* Types of the composed state.
TypeOK ==
  /\ Server!TypeOK /\ Client!TypeOK
  /\ \A rat \in RATs : Len(pipe[rat]) <= Cap[rat]

\* No chunk is placed over the two spare ints at the end of the receiver's
\* buffer or above them, its last byte included, whatever junk is taken for
\* its sequence number.
KeepsSpareInts ==
  LET valread == c_total' - c_total
  IN  valread > 0 =>
        /\ c_pc = "wifi" => c_fwd' <= BUFFER_SIZE - Pad
        /\ c_pc = "eth" => c_sec' + valread <= BUFFER_SIZE - Pad
        /\ c_pc = "wigi" => c_rev' + valread <= BUFFER_SIZE - Pad
SpareIntsKept == [][KeepsSpareInts]_vars

\* How far below the buffer they can stray: see MultiRatClient.
StrayBounded == Client!StrayBounded

\* The branches of the sender that give a path another path's region never
\* run: see MultiRatServer.
RebalanceIdle == Server!RebalanceIdle

Ordered(rat, by, first) ==
  \A i \in 1 .. Len(pipe[rat]) - 1 :
    pipe[rat][i + 1] \in {pipe[rat][i] + by, first}

\* WiFi carries ascending bytes, the other two descending ones, up to where a
\* turn of the sender's loop starts its block again.
StreamsOrdered ==
  /\ Ordered("wifi", 1, 0)
  /\ Ordered("eth", -1, Server!SecStart + SEND_BUFFER_SIZE - 1)
  /\ Ordered("wigi", -1, Server!RevStart + SEND_BUFFER_SIZE - 1)

\* With one RAT working, whichever it is, the receiver counts its window full
\* and ends, and the sender ends after it, unless TCP gives up one of the
\* other connections first and so ends the sender too soon.
ProgramsEnd ==
  [](s_pc = "dead" => c_pc = "done") => <>(c_pc = "done" /\ s_pc = "dead")

\* FBDT sends "moving towards the end of the transmission window"
\* (README.md:8): WiFi does not go back before it has met the next region.
MovesTowardsEnd == [][s_fwd' < s_fwd => s_fwd >= s_sec]_vars
=============================================================================
