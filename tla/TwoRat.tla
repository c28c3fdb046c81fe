------------------------------- MODULE TwoRat -------------------------------
(***************************************************************************)
(* The two-RAT transmission end to end: one TwoRatServer and one           *)
(* TwoRatClient joined by two SPTCP connections.  The two processes share  *)
(* nothing but the streams.  TwoRatBuffer adds what ends up where in the   *)
(* receiver's buffer.                                                      *)
(*                                                                         *)
(* The sender fills its buffer with the offset of every int and sends that *)
(* same buffer again in every window, so a byte is known by its offset;    *)
(* the window it was sent in is kept beside it, as history.                *)
(***************************************************************************)
EXTENDS Bytes, Sptcp

CONSTANTS
  BUFFER_SIZE, SEND_BUFFER_SIZE, RX_BUFFER_SIZE, EXP_RX_SIZE, WORD, Grain,
  JunkTotals,   \* what the receiver's uninitialised count may start from
  CAP           \* bytes one connection holds between the two programs

VARIABLES
  s_pc, s_fwd, s_rev, s_window,
  c_pc, c_fwd, c_rev, c_total, c_fwdcount, c_revcount, c_window,
  wifi, wigi,   \* the two connections
  up            \* the RAT whose radio keeps working; the other may come and go

server == <<s_pc, s_fwd, s_rev, s_window>>
client == <<c_pc, c_fwd, c_rev, c_total, c_fwdcount, c_revcount, c_window>>
vars == <<server, client, wifi, wigi, up>>

Server == INSTANCE TwoRatServer WITH
  pc <- s_pc, fwd_ptr <- s_fwd, rev_ptr <- s_rev, window <- s_window
Client == INSTANCE TwoRatClient WITH
  pc <- c_pc, fwd_ptr <- c_fwd, rev_ptr <- c_rev, totalbytes <- c_total,
  fwd_count <- c_fwdcount, rev_count <- c_revcount, window <- c_window

\* The sizes suit both programs, as those of FBDT-Userspace do.
ASSUME TwoRatAssumption ==
  /\ Server!ServerAssumption /\ Client!ClientAssumption
  /\ CAP \in Nat

Top == Server!Top

\* The sender's buffer: every byte in its own place.
Content == [p \in 0 .. BUFFER_SIZE - 1 |-> [window |-> s_window, pos |-> p]]

Init ==
  /\ Server!Init /\ Client!Init
  /\ wifi = <<>> /\ wigi = <<>>
  /\ up \in {"wifi", "wigi"}

\* Mutant: send without MSG_DONTWAIT waits until it can take something.
WifiSendWaits(ret) ==
  /\ ret > 0
  /\ Server!SendForward(ret)
  /\ HasRoom(wifi, ret, CAP)
  /\ wifi' = Taken(wifi, Chunk(Content, s_fwd, SEND_BUFFER_SIZE), ret)
  /\ UNCHANGED <<client, wigi, up>>

\* memcpy into send_buff and send on sockwifi.
WifiSend(ret) ==
  /\ Server!SendForward(ret)
  /\ HasRoom(wifi, ret, CAP)
  /\ wifi' = Taken(wifi, Chunk(Content, s_fwd, SEND_BUFFER_SIZE), ret)
  /\ UNCHANGED <<client, wigi, up>>

\* Mutant: a plain memcpy fills send_buff on the backward path.
WigiSendPlain(ret) ==
  /\ Server!SendBackward(ret)
  /\ HasRoom(wigi, ret, CAP)
  /\ wigi' = Taken(wigi, Chunk(Content, s_rev, SEND_BUFFER_SIZE), ret)
  /\ UNCHANGED <<client, wifi, up>>

\* reverse_memcpy into send_buff and send on sockwigi.
WigiSend(ret) ==
  /\ Server!SendBackward(ret)
  /\ HasRoom(wigi, ret, CAP)
  /\ wigi' = Taken(wigi, ReversedChunk(Content, s_rev, SEND_BUFFER_SIZE), ret)
  /\ UNCHANGED <<client, wifi, up>>

ServerTurn ==
  /\ Server!NextWindow
  /\ UNCHANGED <<client, wifi, wigi, up>>

\* TCP gives up a connection whose peer has been silent for minutes, which
\* takes a RAT that is not up; the next send there kills the sender.  What
\* was under way stays in the pipe: NothingArrived may be all the receiver
\* sees of it.
ServerKilled ==
  /\ s_pc # up
  /\ Server!Killed
  /\ UNCHANGED <<client, wifi, wigi, up>>

\* recv on wifisocket delivers a chunk.
WifiRecv(valread) ==
  /\ valread <= Len(wifi)
  /\ Client!RecvWifi(valread)
  /\ wifi' = Left(wifi, valread)
  /\ UNCHANGED <<server, wigi, up>>

\* recv on wigisocket delivers a chunk.
WigiRecv(valread) ==
  /\ valread <= Len(wigi)
  /\ Client!RecvWigi(valread)
  /\ wigi' = Left(wigi, valread)
  /\ UNCHANGED <<server, wifi, up>>

\* recv finds nothing: the bytes are under way or the radio is down.
NothingArrived ==
  /\ Client!WifiEmpty(-1) \/ Client!WigiEmpty(-1)
  /\ UNCHANGED <<server, wifi, wigi, up>>

ClientTurn ==
  /\ Client!CloseWindow
  /\ UNCHANGED <<server, wifi, wigi, up>>

SendReturns == Server!SendReturns(SEND_BUFFER_SIZE)
RecvReturns == Client!RecvReturns

ServerStep ==
  \/ \E ret \in SendReturns : WifiSend(ret) \/ WigiSend(ret)
  \/ ServerTurn

ClientStep ==
  \/ \E valread \in RecvReturns : WifiRecv(valread) \/ WigiRecv(valread)
  \/ NothingArrived
  \/ ClientTurn

Next == ServerStep \/ ServerKilled \/ ClientStep

\* Both programs run on.  The connection over the RAT that is up takes bytes
\* again and again when it has room, and delivers them again and again.
\* Nothing is assumed of the other one, nor that TCP ever gives it up.
WifiUp ==
  /\ SF_vars(up = "wifi" /\ \E ret \in SendReturns : ret > 0 /\ WifiSend(ret))
  /\ SF_vars(up = "wifi" /\ \E valread \in RecvReturns : WifiRecv(valread))
WigiUp ==
  /\ SF_vars(up = "wigi" /\ \E ret \in SendReturns : ret > 0 /\ WigiSend(ret))
  /\ SF_vars(up = "wigi" /\ \E valread \in RecvReturns : WigiRecv(valread))

Spec ==
  /\ Init /\ [][Next]_vars
  /\ WF_vars(ServerStep) /\ WF_vars(ClientStep)
  /\ WifiUp /\ WigiUp

\* The sender alone: the connections take what they like of its blocks.
SenderAlone == Server!Next /\ UNCHANGED <<client, wifi, wigi, up>>
SenderSpec == Init /\ [][SenderAlone]_vars
-----------------------------------------------------------------------------
\* Types of the composed state: what is under way comes from the part of the
\* sender's buffer below the two spare ints.
TypeOK ==
  /\ Server!TypeOK /\ Client!TypeOK
  /\ \A pipe \in {wifi, wigi} :
       Len(pipe) <= CAP /\ \A i \in 1 .. Len(pipe) : pipe[i].pos \in 0 .. Top - 1

Ordered(pipe, by, first) ==
  \A i \in 1 .. Len(pipe) - 1 :
    \/ pipe[i + 1].pos = pipe[i].pos + by
    \/ pipe[i + 1].pos = first

\* "One with ascending and another with descending sequence numbers"
\* (README.md:8): over WiFi every byte follows the one before it in the
\* buffer, over WiGig it precedes it, up to the start of the next window.
StreamsOrdered == Ordered(wifi, 1, 0) /\ Ordered(wigi, -1, Top - 1)

\* No head-of-line blocking: with one RAT working, whichever it is, the
\* receiver closes window after window and so does the sender, though the
\* other RAT delivers nothing for as long as TCP does not give it up.
WindowsTurn ==
  [](s_pc # "dead") => []<>(c_pc = "close") /\ []<>(s_pc = "turn")

\* The sender reads no byte it has not written, and implements the
\* transmission window: see TwoRatServer.
ReadsInitialised == Server!ReadsInitialised
SendsWindow == Server!SendsWindow

\* Fed by the real streams, the receiver implements the transmission window
\* from its second window on: see TwoRatClient.
ReceivesWindow == Client!ReceivesWindow
=============================================================================
