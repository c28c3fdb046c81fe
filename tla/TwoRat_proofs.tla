--------------------------- MODULE TwoRat_proofs ---------------------------
(***************************************************************************)
(* The two-RAT transmission, for every size of buffer, block, chunk and    *)
(* int, every capacity of the connections, whatever totalbytes starts from *)
(* and however the streams are cut: the sender by itself, the two programs *)
(* joined, the streams between them and the receiver's buffer.  The        *)
(* receiver by itself is the matter of TwoRatClient_proofs.                *)
(***************************************************************************)
EXTENDS TwoRatBuffer, Bytes_proofs, FiniteSetTheorems

Receiver == INSTANCE TwoRatClient_proofs WITH
  pc <- c_pc, fwd_ptr <- c_fwd, rev_ptr <- c_rev, totalbytes <- c_total,
  fwd_count <- c_fwdcount, rev_count <- c_revcount, window <- c_window

-----------------------------------------------------------------------------
(* The sender by itself *)

\* What the sender assumes of its sizes.
LEMMA SenderSizes ==
  /\ BUFFER_SIZE \in Nat /\ SEND_BUFFER_SIZE \in Nat \ {0}
  /\ WORD \in Nat \ {0} /\ Grain \in Nat \ {0}
  /\ SEND_BUFFER_SIZE + 2 * WORD <= BUFFER_SIZE
BY TwoRatAssumption DEF Server!ServerAssumption

\* What holds between the calls.  The loop test runs once per pair of sends,
\* so before the forward one a whole block is still unsent between the
\* fronts, and before the backward one the fronts have not crossed.
SenderInv ==
  /\ s_pc \in {"wifi", "wigi", "turn", "dead"}
  /\ s_fwd \in Nat /\ s_rev \in Int
  /\ s_window \in {"first", "later"}
  /\ s_rev <= Server!RevStart
  /\ s_pc = "wifi" => s_fwd <= s_rev
  /\ s_pc = "wigi" => s_rev >= 0 /\ s_fwd <= s_rev + SEND_BUFFER_SIZE
  /\ s_pc = "turn" => /\ s_fwd > s_rev
                      /\ s_fwd <= s_rev + 2 * SEND_BUFFER_SIZE
                      /\ s_fwd <= Server!RevStart + SEND_BUFFER_SIZE
                      /\ s_rev >= -SEND_BUFFER_SIZE
  /\ s_pc = "dead" => \/ s_fwd <= s_rev
                      \/ s_rev >= 0 /\ s_fwd <= s_rev + SEND_BUFFER_SIZE

\* A send moves its pointer by whole ints, at most by what it took.
LEMMA SendMoves ==
  ASSUME NEW ret \in SendReturns
  PROVE  /\ ret \in {-1} \cup 1 .. SEND_BUFFER_SIZE
         /\ ret > 0 => /\ Server!Words(ret, WORD) \in Nat
                       /\ Server!Words(ret, WORD) <= ret
<1>1. ret \in {-1} \cup 1 .. SEND_BUFFER_SIZE
  BY SenderSizes DEF SendReturns, Server!SendReturns
<1>2. ASSUME ret > 0
      PROVE  Server!Words(ret, WORD) \in Nat /\ Server!Words(ret, WORD) <= ret
  <2>1. ret \in Nat
    BY <1>1, <1>2, SenderSizes
  <2>2. Server!Words(ret, WORD) = Words(ret, WORD)
    BY DEF Server!Words, Words
  <2> QED
    BY <2>1, <2>2, WordsBound, SenderSizes
<1> QED
  BY <1>1, <1>2

\* SenderInv holds as the program enters its first window.
LEMMA SenderInit == Server!Init => SenderInv
  BY SenderSizes DEF Server!Init, SenderInv, Server!RevStart, Server!Pad

\* Every send, and the turn to the next window, preserves SenderInv.
LEMMA SenderNext == SenderInv /\ [Server!Next]_(Server!vars) => SenderInv'
<1> SUFFICES ASSUME SenderInv, [Server!Next]_(Server!vars) PROVE SenderInv'
  OBVIOUS
<1> USE SenderSizes
<1>1. ASSUME NEW ret \in SendReturns, Server!SendForward(ret)
      PROVE  SenderInv'
  <2>1. CASE ret > 0
    BY <1>1, <2>1, SendMoves DEF SenderInv, Server!SendForward, Server!RevStart, Server!Pad
  <2>2. CASE ~(ret > 0)
    BY <1>1, <2>2 DEF SenderInv, Server!SendForward, Server!RevStart, Server!Pad
  <2> QED
    BY <2>1, <2>2
<1>2. ASSUME NEW ret \in SendReturns, Server!SendBackward(ret)
      PROVE  SenderInv'
  <2>1. CASE ret > 0
    BY <1>2, <2>1, SendMoves
    DEF SenderInv, Server!SendBackward, Server!LoopTest, Server!RevStart, Server!Pad
  <2>2. CASE ~(ret > 0)
    BY <1>2, <2>2
    DEF SenderInv, Server!SendBackward, Server!LoopTest, Server!RevStart, Server!Pad
  <2> QED
    BY <2>1, <2>2
<1>3. CASE Server!NextWindow
  BY <1>3 DEF SenderInv, Server!NextWindow, Server!RevStart, Server!Pad
<1>4. CASE Server!Killed
  BY <1>4 DEF SenderInv, Server!Killed, Server!RevStart
<1>5. CASE UNCHANGED Server!vars
  BY <1>5 DEF SenderInv, Server!vars, Server!RevStart
<1> QED
  BY <1>1, <1>2, <1>3, <1>4, <1>5 DEF Server!Next, SendReturns

\* SenderInv is an invariant of the sender.
LEMMA SenderInvariance == Server!Spec => []SenderInv
  BY SenderInit, SenderNext, PTL DEF Server!Spec

\* SenderInv keeps the types and ranges of the pointers.
LEMMA SenderTyped == SenderInv => Server!TypeOK
  BY SenderSizes DEF SenderInv, Server!TypeOK, Server!RevStart, Server!Pad

\* The variables of the sender keep their types and ranges.
THEOREM SenderTypeCorrect == Server!Spec => []Server!TypeOK
  BY SenderTyped, SenderInvariance, PTL

\* The sender only ever sends bytes its initialisation has written: no block
\* reaches below buff, above it, or into its last, unwritten int.
THEOREM ReadsOnlyInitialised == Server!Spec => []ReadsInitialised
<1>1. SenderInv => ReadsInitialised
  BY SenderSizes
  DEF SenderInv, ReadsInitialised, Server!ReadsInitialised, Server!Initialised, Server!RevStart, Server!Pad
<1> QED
  BY <1>1, SenderInvariance, PTL

\* The sender implements the transmission window: every send moves one front
\* by at most a block towards the other, the paths send at most one block of
\* a window twice, and the window turns with less than a block unsent.
THEOREM SenderImplementsWindow == Server!Spec => SendsWindow
<1> USE SenderSizes
<1>1. Server!Init => Server!SentWindow!Init
  BY DEF Server!Init, Server!SentWindow!Init, Server!BackwardFront, Server!RevStart,
         Server!Top, Server!Pad
<1>2. SenderInv /\ [Server!Next]_(Server!vars) =>
        [Server!SentWindow!Next]_<<s_fwd, Server!BackwardFront>>
  <2> SUFFICES ASSUME SenderInv, [Server!Next]_(Server!vars)
               PROVE  [Server!SentWindow!Next]_<<s_fwd, Server!BackwardFront>>
    OBVIOUS
  <2>1. ASSUME NEW ret \in SendReturns, Server!SendForward(ret)
        PROVE  Server!SentWindow!Forward \/ UNCHANGED <<s_fwd, s_rev>>
    <3> DEFINE n == Server!Words(ret, WORD)
    <3>1. CASE ret > 0 /\ n > 0
      <4>1. n \in 1 .. SEND_BUFFER_SIZE
        BY <3>1, SendMoves
      <4>2. /\ s_fwd' = s_fwd + n
            /\ Server!BackwardFront' = Server!BackwardFront
            /\ Server!BackwardFront - s_fwd' >= -SEND_BUFFER_SIZE
        BY <2>1, <3>1, <4>1 DEF SenderInv, Server!SendForward, Server!BackwardFront
      <4> QED
        BY <4>1, <4>2 DEF Server!SentWindow!Forward
    <3>2. CASE ~(ret > 0 /\ n > 0)
      BY <2>1, <3>2, SendMoves DEF SenderInv, Server!SendForward
    <3> QED
      BY <3>1, <3>2
  <2>2. ASSUME NEW ret \in SendReturns, Server!SendBackward(ret)
        PROVE  Server!SentWindow!Backward \/ UNCHANGED <<s_fwd, s_rev>>
    <3> DEFINE n == Server!Words(ret, WORD)
    <3>1. CASE ret > 0 /\ n > 0
      <4>1. n \in 1 .. SEND_BUFFER_SIZE
        BY <3>1, SendMoves
      <4>2. /\ Server!BackwardFront' = Server!BackwardFront - n
            /\ s_fwd' = s_fwd
            /\ Server!BackwardFront' - s_fwd >= -SEND_BUFFER_SIZE
        BY <2>2, <3>1, <4>1 DEF SenderInv, Server!SendBackward, Server!BackwardFront
      <4> QED
        BY <4>1, <4>2 DEF Server!SentWindow!Backward
    <3>2. CASE ~(ret > 0 /\ n > 0)
      BY <2>2, <3>2, SendMoves DEF SenderInv, Server!SendBackward
    <3> QED
      BY <3>1, <3>2
  <2>3. ASSUME Server!NextWindow PROVE Server!SentWindow!Turn
    BY <2>3 DEF SenderInv, Server!NextWindow, Server!SentWindow!Turn,
                Server!BackwardFront, Server!RevStart, Server!Top, Server!Pad
  <2>4. ASSUME Server!Killed PROVE UNCHANGED <<s_fwd, s_rev>>
    BY <2>4 DEF Server!Killed
  <2>5. CASE UNCHANGED Server!vars
    BY <2>5 DEF Server!vars, Server!BackwardFront
  <2> QED
    BY <2>1, <2>2, <2>3, <2>4, <2>5
    DEF Server!Next, SendReturns, Server!SentWindow!Next, Server!BackwardFront
<1> QED
  BY <1>1, <1>2, SenderInvariance, PTL
  DEF Server!Spec, SendsWindow, Server!SendsWindow, Server!SentWindow!Spec

-----------------------------------------------------------------------------
(* The two programs joined *)

\* What the receiver assumes of its sizes.
LEMMA ReceiverSizes ==
  /\ Receiver!ClientAssumption
  /\ RX_BUFFER_SIZE \in Nat \ {0} /\ EXP_RX_SIZE \in Nat
  /\ EXP_RX_SIZE + RX_BUFFER_SIZE + 2 * WORD <= BUFFER_SIZE
BY TwoRatAssumption DEF Client!ClientAssumption, Receiver!ClientAssumption

\* The safety part of the joined programs.
Joined == Init /\ [][Next]_vars

\* They start as each of them does, and the streams are empty.
LEMMA JoinedInit == Init => Server!Init /\ Receiver!Init
BY DEF Init, Client!Init, Receiver!Init, Client!Top, Receiver!Top, Client!Pad, Receiver!Pad

\* A step of the receiver as TwoRat sees it is a step of the one the proofs
\* of TwoRatClient_proofs are about.
LEMMA ReceiverSteps ==
  /\ \A valread : /\ Client!RecvWifi(valread) => Receiver!RecvWifi(valread)
                  /\ Client!RecvWigi(valread) => Receiver!RecvWigi(valread)
                  /\ Client!WifiEmpty(valread) => Receiver!WifiEmpty(valread)
                  /\ Client!WigiEmpty(valread) => Receiver!WigiEmpty(valread)
  /\ Client!CloseWindow => Receiver!CloseWindow
  /\ RecvReturns = Receiver!RecvReturns
BY DEF Client!RecvWifi, Receiver!RecvWifi, Client!RecvWigi, Receiver!RecvWigi,
       Client!WifiEmpty, Receiver!WifiEmpty, Client!WigiEmpty, Receiver!WigiEmpty,
       Client!CloseWindow, Receiver!CloseWindow, RecvReturns, Client!RecvReturns,
       Receiver!RecvReturns, Client!Words, Receiver!Words, Client!Full, Receiver!Full,
       Client!Top, Receiver!Top, Client!Pad, Receiver!Pad

\* Every step of the whole is a step of one program and leaves the other.
LEMMA JoinedStep ==
  [Next]_vars => [Server!Next]_(Server!vars) /\ [Receiver!Next]_(Receiver!vars)
<1> SUFFICES ASSUME [Next]_vars
             PROVE  [Server!Next]_(Server!vars) /\ [Receiver!Next]_(Receiver!vars)
  OBVIOUS
<1>1. CASE ServerStep \/ ServerKilled
  <2>1. Server!Next
    BY <1>1
    DEF ServerStep, WifiSend, WigiSend, ServerTurn, ServerKilled, Server!Next, SendReturns
  <2>2. UNCHANGED Receiver!vars
    BY <1>1
    DEF ServerStep, WifiSend, WigiSend, ServerTurn, ServerKilled, client, Receiver!vars
  <2> QED
    BY <2>1, <2>2
<1>2. CASE ClientStep
  <2>1. UNCHANGED Server!vars
    BY <1>2 DEF ClientStep, WifiRecv, WigiRecv, NothingArrived, ClientTurn, server, Server!vars
  <2>2. ASSUME NEW valread \in RecvReturns, WifiRecv(valread) \/ WigiRecv(valread)
        PROVE  Receiver!Next
    BY <2>2, ReceiverSteps DEF WifiRecv, WigiRecv, Receiver!Next
  <2>3. ASSUME NothingArrived PROVE Receiver!Next
    <3>1. -1 \in RecvReturns
      BY DEF RecvReturns, Client!RecvReturns
    <3> QED
      BY <2>3, <3>1, ReceiverSteps DEF NothingArrived, Receiver!Next
  <2>4. ASSUME ClientTurn PROVE Receiver!Next
    BY <2>4, ReceiverSteps DEF ClientTurn, Receiver!Next
  <2> QED
    BY <1>2, <2>1, <2>2, <2>3, <2>4 DEF ClientStep
<1>3. CASE UNCHANGED vars
  BY <1>3 DEF vars, server, client, Server!vars, Receiver!vars
<1> QED
  BY <1>1, <1>2, <1>3 DEF Next

\* What each program keeps true by itself it keeps true joined to the other.
LEMMA JoinedInvariance == Joined => [](SenderInv /\ Receiver!Inv)
<1>1. Init => SenderInv /\ Receiver!Inv
  BY JoinedInit, SenderInit, ReceiverSizes, Receiver!InitInv
<1>2. Receiver!Inv /\ [Receiver!Next]_(Receiver!vars) => Receiver!Inv'
  BY ReceiverSizes, Receiver!NextInv
<1> QED
  BY <1>1, <1>2, SenderNext, JoinedStep, PTL DEF Joined

\* Fed by the real streams, the receiver implements the transmission window
\* from its second window on, whatever totalbytes starts from.
THEOREM ReceiverImplementsWindow == Spec => ReceivesWindow
<1> DEFINE Abstract == Client!ReceivedWindow!Next
           Fronts == <<Client!ForwardFront, Client!BackwardFront>>
<1>1. Init => Client!ReceivedWindow!Init
  BY DEF Init, Client!Init, Client!ReceivedWindow!Init, Client!ForwardFront,
         Client!BackwardFront
<1>2. Receiver!Inv /\ [Next]_vars => [Abstract]_Fronts
  <2>1. /\ Client!ForwardFront = Receiver!ForwardFront
        /\ Client!BackwardFront = Receiver!BackwardFront
        /\ Client!ReceivedWindow!Next = Receiver!ReceivedWindow!Next
    BY DEF Client!ForwardFront, Receiver!ForwardFront,
           Client!BackwardFront, Receiver!BackwardFront, Client!Top, Receiver!Top,
           Client!Pad, Receiver!Pad,
           Client!ReceivedWindow!Next, Receiver!ReceivedWindow!Next,
           Client!ReceivedWindow!Forward, Receiver!ReceivedWindow!Forward,
           Client!ReceivedWindow!Backward, Receiver!ReceivedWindow!Backward,
           Client!ReceivedWindow!Turn, Receiver!ReceivedWindow!Turn
  <2>2. /\ Client!ForwardFront' = Receiver!ForwardFront'
        /\ Client!BackwardFront' = Receiver!BackwardFront'
    BY DEF Client!ForwardFront, Receiver!ForwardFront,
           Client!BackwardFront, Receiver!BackwardFront, Client!Top, Receiver!Top,
           Client!Pad, Receiver!Pad
  <2>3. Receiver!Inv /\ [Receiver!Next]_(Receiver!vars) =>
          [Receiver!ReceivedWindow!Next]_<<Receiver!ForwardFront, Receiver!BackwardFront>>
    BY ReceiverSizes, Receiver!WindowStep
  <2> QED
    BY <2>1, <2>2, <2>3, JoinedStep
<1> QED
  BY <1>1, <1>2, JoinedInvariance, PTL
  DEF Spec, Joined, ReceivesWindow, Client!ReceivesWindow, Client!ReceivedWindow!Spec

-----------------------------------------------------------------------------
(* The streams between them *)

\* The edges of the window.
LEMMA Edges ==
  /\ Top \in Nat /\ Top = BUFFER_SIZE - 2 * WORD
  /\ Server!RevStart \in Nat /\ Server!RevStart + SEND_BUFFER_SIZE = Top
BY SenderSizes DEF Top, Server!Top, Server!RevStart, Server!Pad

\* A byte of the sender's window.
Sent == [window : {"first", "later"}, pos : 0 .. Top - 1]

\* The types of the two connections.
Streams ==
  /\ wifi \in Seq(Sent) /\ Len(wifi) <= CAP
  /\ wigi \in Seq(Sent) /\ Len(wigi) <= CAP

\* The block a send is given lies in the window: its bytes ascend over WiFi,
LEMMA ForwardBlock ==
  ASSUME SenderInv, s_pc = "wifi"
  PROVE  LET block == Chunk(Content, s_fwd, SEND_BUFFER_SIZE)
         IN  /\ block \in Seq(Sent) /\ Len(block) = SEND_BUFFER_SIZE
             /\ \A i \in 1 .. SEND_BUFFER_SIZE :
                  block[i] = [window |-> s_window, pos |-> s_fwd + i - 1]
<1> DEFINE block == Chunk(Content, s_fwd, SEND_BUFFER_SIZE)
<1> USE SenderSizes, Edges DEF SenderInv
<1>1. \A i \in 1 .. SEND_BUFFER_SIZE :
        /\ s_fwd + i - 1 \in 0 .. Top - 1
        /\ s_fwd + i - 1 \in 0 .. BUFFER_SIZE - 1
  OBVIOUS
<1>2. \A i \in 1 .. SEND_BUFFER_SIZE :
        Content[s_fwd + i - 1] = [window |-> s_window, pos |-> s_fwd + i - 1]
  BY <1>1 DEF Content
<1>3. block = [i \in 1 .. SEND_BUFFER_SIZE |-> Content[s_fwd + i - 1]]
  BY DEF Chunk
<1> HIDE DEF block
<1>4. \A i \in 1 .. SEND_BUFFER_SIZE :
        block[i] = [window |-> s_window, pos |-> s_fwd + i - 1]
  BY <1>2, <1>3
<1>5. \A i \in 1 .. SEND_BUFFER_SIZE : block[i] \in Sent
  <2>1. s_window \in {"first", "later"}
    OBVIOUS
  <2> HIDE SenderSizes, Edges DEF SenderInv
  <2>2. ASSUME NEW i \in 1 .. SEND_BUFFER_SIZE
        PROVE  block[i] \in Sent
    <3> DEFINE at == s_fwd + i - 1
    <3>1. at \in 0 .. Top - 1 /\ block[i] = [window |-> s_window, pos |-> at]
      BY <1>1, <1>4
    <3> HIDE DEF at
    <3> QED
      BY <2>1, <3>1 DEF Sent
  <2> QED
    BY <2>2
<1>6. block \in Seq(Sent) /\ Len(block) = SEND_BUFFER_SIZE
  <2>1. SEND_BUFFER_SIZE \in Nat
    OBVIOUS
  <2> HIDE SenderSizes, Edges DEF SenderInv
  <2>2. block \in [1 .. SEND_BUFFER_SIZE -> Sent]
    BY <1>3, <1>5
  <2> QED
    BY <2>1, <2>2
<1> QED
  BY <1>4, <1>6 DEF block

\* and descend over WiGig.
LEMMA BackwardBlock ==
  ASSUME SenderInv, s_pc = "wigi"
  PROVE  LET block == ReversedChunk(Content, s_rev, SEND_BUFFER_SIZE)
         IN  /\ block \in Seq(Sent) /\ Len(block) = SEND_BUFFER_SIZE
             /\ \A i \in 1 .. SEND_BUFFER_SIZE :
                  block[i] = [window |-> s_window, pos |-> s_rev + SEND_BUFFER_SIZE - i]
<1> DEFINE block == ReversedChunk(Content, s_rev, SEND_BUFFER_SIZE)
<1> USE SenderSizes, Edges DEF SenderInv
<1>1. \A i \in 1 .. SEND_BUFFER_SIZE :
        /\ s_rev + SEND_BUFFER_SIZE - i \in 0 .. Top - 1
        /\ s_rev + SEND_BUFFER_SIZE - i \in 0 .. BUFFER_SIZE - 1
  OBVIOUS
<1>2. \A i \in 1 .. SEND_BUFFER_SIZE :
        Content[s_rev + SEND_BUFFER_SIZE - i]
          = [window |-> s_window, pos |-> s_rev + SEND_BUFFER_SIZE - i]
  BY <1>1 DEF Content
<1>3. block = [i \in 1 .. SEND_BUFFER_SIZE |-> Content[s_rev + SEND_BUFFER_SIZE - i]]
  BY DEF ReversedChunk
<1> HIDE DEF block
<1>4. \A i \in 1 .. SEND_BUFFER_SIZE :
        block[i] = [window |-> s_window, pos |-> s_rev + SEND_BUFFER_SIZE - i]
  BY <1>2, <1>3
<1>5. \A i \in 1 .. SEND_BUFFER_SIZE : block[i] \in Sent
  <2>1. s_window \in {"first", "later"}
    OBVIOUS
  <2> HIDE SenderSizes, Edges DEF SenderInv
  <2>2. ASSUME NEW i \in 1 .. SEND_BUFFER_SIZE
        PROVE  block[i] \in Sent
    <3> DEFINE at == s_rev + SEND_BUFFER_SIZE - i
    <3>1. at \in 0 .. Top - 1 /\ block[i] = [window |-> s_window, pos |-> at]
      BY <1>1, <1>4
    <3> HIDE DEF at
    <3> QED
      BY <2>1, <3>1 DEF Sent
  <2> QED
    BY <2>2
<1>6. block \in Seq(Sent) /\ Len(block) = SEND_BUFFER_SIZE
  <2>1. SEND_BUFFER_SIZE \in Nat
    OBVIOUS
  <2> HIDE SenderSizes, Edges DEF SenderInv
  <2>2. block \in [1 .. SEND_BUFFER_SIZE -> Sent]
    BY <1>3, <1>5
  <2> QED
    BY <2>1, <2>2
<1> QED
  BY <1>4, <1>6 DEF block

\* Every send takes, and every recv delivers, whole ints.
WholeInts == Grain % WORD = 0

\* What a send took moves the pointer, to the byte if it took whole ints.
LEMMA WholeSends ==
  ASSUME WholeInts, NEW ret \in SendReturns, ret > 0
  PROVE  Server!Words(ret, WORD) = ret
<1>1. ret \in Nat /\ ret % Grain = 0
  BY SenderSizes DEF SendReturns, Server!SendReturns
<1> QED
  BY <1>1, SenderSizes, GrainsAreWords DEF WholeInts, Server!Words, Words

\* What a send over WiFi does to the connection.
LEMMA WifiSendDoes ==
  ASSUME SenderInv, Streams, NEW ret \in SendReturns, WifiSend(ret)
  PROVE  /\ Took(ret) \in 0 .. SEND_BUFFER_SIZE
         /\ wifi' \in Seq(Sent)
         /\ Len(wifi') = Len(wifi) + Took(ret) /\ Len(wifi') <= CAP
         /\ \A i \in 1 .. Len(wifi) : wifi'[i] = wifi[i]
         /\ \A i \in 1 .. Took(ret) :
              wifi'[Len(wifi) + i] = [window |-> s_window, pos |-> s_fwd + i - 1]
         /\ WholeInts => s_fwd' = s_fwd + Took(ret)
         /\ UNCHANGED <<s_rev, s_window, client, wigi, up>>
<1> DEFINE block == Chunk(Content, s_fwd, SEND_BUFFER_SIZE)
<1>1. ret \in {-1} \cup 1 .. SEND_BUFFER_SIZE
  BY SendMoves
<1>2. /\ s_pc = "wifi" /\ wifi' = Taken(wifi, block, ret) /\ HasRoom(wifi, ret, CAP)
      /\ s_fwd' = IF ret > 0 THEN s_fwd + Server!Words(ret, WORD) ELSE s_fwd
      /\ UNCHANGED <<s_rev, s_window, client, wigi, up>>
  BY DEF WifiSend, Server!SendForward
<1>3. /\ block \in Seq(Sent) /\ Len(block) = SEND_BUFFER_SIZE
      /\ \A i \in 1 .. SEND_BUFFER_SIZE :
           block[i] = [window |-> s_window, pos |-> s_fwd + i - 1]
  BY <1>2, ForwardBlock
<1> HIDE DEF block
<1>4. Took(ret) \in 0 .. SEND_BUFFER_SIZE
  BY <1>1, SenderSizes DEF Took
<1>5. /\ wifi' \in Seq(Sent) /\ Len(wifi') = Len(wifi) + Took(ret)
      /\ \A i \in 1 .. Len(wifi) : wifi'[i] = wifi[i]
      /\ \A i \in 1 .. Took(ret) : wifi'[Len(wifi) + i] = block[i]
  <2>1. /\ wifi \in Seq(Sent) /\ block \in Seq(Sent)
        /\ ret \in {-1} \cup 1 .. Len(block)
    BY <1>1, <1>3 DEF Streams
  <2>2. /\ Taken(wifi, block, ret) \in Seq(Sent)
        /\ Appended(Taken(wifi, block, ret), wifi, block, Took(ret))
    BY <2>1, TakenAppends, Zenon
  <2> QED
    BY <1>2, <2>2 DEF Appended
<1>6. Len(wifi') <= CAP
  BY <1>2, <1>5 DEF HasRoom, Took, Streams
<1>7. WholeInts => s_fwd' = s_fwd + Took(ret)
  BY <1>1, <1>2, WholeSends DEF Took, SenderInv
<1> QED
  BY <1>2, <1>3, <1>4, <1>5, <1>6, <1>7

\* What a send over WiGig does to the connection.
LEMMA WigiSendDoes ==
  ASSUME SenderInv, Streams, NEW ret \in SendReturns, WigiSend(ret)
  PROVE  /\ Took(ret) \in 0 .. SEND_BUFFER_SIZE
         /\ wigi' \in Seq(Sent)
         /\ Len(wigi') = Len(wigi) + Took(ret) /\ Len(wigi') <= CAP
         /\ \A i \in 1 .. Len(wigi) : wigi'[i] = wigi[i]
         /\ \A i \in 1 .. Took(ret) :
              wigi'[Len(wigi) + i]
                = [window |-> s_window, pos |-> s_rev + SEND_BUFFER_SIZE - i]
         /\ WholeInts => s_rev' = s_rev - Took(ret)
         /\ UNCHANGED <<s_fwd, s_window, client, wifi, up>>
<1> DEFINE block == ReversedChunk(Content, s_rev, SEND_BUFFER_SIZE)
<1>1. ret \in {-1} \cup 1 .. SEND_BUFFER_SIZE
  BY SendMoves
<1>2. /\ s_pc = "wigi" /\ wigi' = Taken(wigi, block, ret) /\ HasRoom(wigi, ret, CAP)
      /\ s_rev' = IF ret > 0 THEN s_rev - Server!Words(ret, WORD) ELSE s_rev
      /\ UNCHANGED <<s_fwd, s_window, client, wifi, up>>
  BY DEF WigiSend, Server!SendBackward
<1>3. /\ block \in Seq(Sent) /\ Len(block) = SEND_BUFFER_SIZE
      /\ \A i \in 1 .. SEND_BUFFER_SIZE :
           block[i] = [window |-> s_window, pos |-> s_rev + SEND_BUFFER_SIZE - i]
  BY <1>2, BackwardBlock
<1> HIDE DEF block
<1>4. Took(ret) \in 0 .. SEND_BUFFER_SIZE
  BY <1>1, SenderSizes DEF Took
<1>5. /\ wigi' \in Seq(Sent) /\ Len(wigi') = Len(wigi) + Took(ret)
      /\ \A i \in 1 .. Len(wigi) : wigi'[i] = wigi[i]
      /\ \A i \in 1 .. Took(ret) : wigi'[Len(wigi) + i] = block[i]
  <2>1. /\ wigi \in Seq(Sent) /\ block \in Seq(Sent)
        /\ ret \in {-1} \cup 1 .. Len(block)
    BY <1>1, <1>3 DEF Streams
  <2>2. /\ Taken(wigi, block, ret) \in Seq(Sent)
        /\ Appended(Taken(wigi, block, ret), wigi, block, Took(ret))
    BY <2>1, TakenAppends, Zenon
  <2> QED
    BY <1>2, <2>2 DEF Appended
<1>6. Len(wigi') <= CAP
  BY <1>2, <1>5 DEF HasRoom, Took, Streams
<1>7. WholeInts => s_rev' = s_rev - Took(ret)
  BY <1>1, <1>2, WholeSends DEF Took, SenderInv
<1> QED
  BY <1>2, <1>3, <1>4, <1>5, <1>6, <1>7


\* Nor does a recv move the pointer by less than what it delivered.
LEMMA WholeRecvs ==
  ASSUME WholeInts, NEW valread \in RecvReturns, valread > 0
  PROVE  Client!Words(valread, WORD) = valread
<1>1. valread \in Nat /\ valread % Grain = 0
  BY ReceiverSizes DEF RecvReturns, Client!RecvReturns
<1> QED
  BY <1>1, SenderSizes, GrainsAreWords DEF WholeInts, Client!Words, Words

\* What a recv over WiFi does to the connection and to the receiver.
LEMMA WifiRecvDoes ==
  ASSUME Streams, Receiver!Inv, NEW valread \in RecvReturns, WifiRecv(valread)
  PROVE  /\ valread \in 1 .. RX_BUFFER_SIZE /\ valread <= Len(wifi)
         /\ Arrived(wifi, valread) \in Seq(Sent) /\ wifi' \in Seq(Sent)
         /\ Split(Arrived(wifi, valread), wifi', wifi, valread)
         /\ c_pc = "wifi" /\ c_total' = c_total + valread
         /\ c_fwdcount' = c_fwdcount + valread
         /\ WholeInts => c_fwd' = c_fwd + valread
         /\ UNCHANGED <<server, c_rev, c_revcount, c_window, wigi, up>>
<1>1. valread \in 1 .. RX_BUFFER_SIZE /\ valread % Grain = 0
  BY ReceiverSizes DEF WifiRecv, Client!RecvWifi, RecvReturns, Client!RecvReturns
<1>2. valread <= Len(wifi) /\ wifi' = Left(wifi, valread)
  BY DEF WifiRecv
<1>3. wifi \in Seq(Sent) /\ valread \in 1 .. Len(wifi)
  BY <1>1, <1>2 DEF Streams
<1>4. /\ Arrived(wifi, valread) \in Seq(Sent) /\ Left(wifi, valread) \in Seq(Sent)
      /\ Split(Arrived(wifi, valread), Left(wifi, valread), wifi, valread)
  BY <1>3, RecvSplits, Zenon
<1>5. /\ c_pc = "wifi" /\ c_total' = c_total + valread
      /\ c_fwdcount' = c_fwdcount + valread
      /\ c_fwd' = c_fwd + Client!Words(valread, WORD)
      /\ UNCHANGED <<server, c_rev, c_revcount, c_window, wigi, up>>
  BY DEF WifiRecv, Client!RecvWifi
<1>6. WholeInts => Client!Words(valread, WORD) = valread
  BY <1>1, WholeRecvs
<1> QED
  BY <1>1, <1>2, <1>4, <1>5, <1>6

\* What a recv over WiGig does to the connection and to the receiver.
LEMMA WigiRecvDoes ==
  ASSUME Streams, Receiver!Inv, NEW valread \in RecvReturns, WigiRecv(valread)
  PROVE  /\ valread \in 1 .. RX_BUFFER_SIZE /\ valread <= Len(wigi)
         /\ Arrived(wigi, valread) \in Seq(Sent) /\ wigi' \in Seq(Sent)
         /\ Split(Arrived(wigi, valread), wigi', wigi, valread)
         /\ c_pc = "wigi" /\ c_total' = c_total + valread
         /\ c_revcount' = c_revcount + valread
         /\ WholeInts => c_rev' = c_rev - valread
         /\ UNCHANGED <<server, c_fwd, c_fwdcount, c_window, wifi, up>>
<1>1. valread \in 1 .. RX_BUFFER_SIZE /\ valread % Grain = 0
  BY ReceiverSizes DEF WigiRecv, Client!RecvWigi, RecvReturns, Client!RecvReturns
<1>2. valread <= Len(wigi) /\ wigi' = Left(wigi, valread)
  BY DEF WigiRecv
<1>3. wigi \in Seq(Sent) /\ valread \in 1 .. Len(wigi)
  BY <1>1, <1>2 DEF Streams
<1>4. /\ Arrived(wigi, valread) \in Seq(Sent) /\ Left(wigi, valread) \in Seq(Sent)
      /\ Split(Arrived(wigi, valread), Left(wigi, valread), wigi, valread)
  BY <1>3, RecvSplits, Zenon
<1>5. /\ c_pc = "wigi" /\ c_total' = c_total + valread
      /\ c_revcount' = c_revcount + valread
      /\ c_rev' = c_rev - Client!Words(valread, WORD)
      /\ UNCHANGED <<server, c_fwd, c_fwdcount, c_window, wifi, up>>
  BY DEF WigiRecv, Client!RecvWigi
<1>6. WholeInts => Client!Words(valread, WORD) = valread
  BY <1>1, WholeRecvs
<1> QED
  BY <1>1, <1>2, <1>4, <1>5, <1>6

\* The steps that leave both streams alone.
Quiet == ServerTurn \/ ServerKilled \/ NothingArrived \/ ClientTurn \/ UNCHANGED vars

\* They do.
LEMMA QuietKeeps == Quiet => UNCHANGED <<wifi, wigi>>
BY DEF Quiet, ServerTurn, ServerKilled, NothingArrived, ClientTurn, vars

\* Every step is a send, a recv or quiet.
LEMMA Steps ==
  ASSUME [Next]_vars
  PROVE  \/ \E ret \in SendReturns : WifiSend(ret)
         \/ \E ret \in SendReturns : WigiSend(ret)
         \/ \E valread \in RecvReturns : WifiRecv(valread)
         \/ \E valread \in RecvReturns : WigiRecv(valread)
         \/ Quiet
BY DEF Next, ServerStep, ClientStep, Quiet

\* What is under way stays bytes of the sender's window, within the capacity.
LEMMA StreamsNext ==
  SenderInv /\ Receiver!Inv /\ Streams /\ [Next]_vars => Streams'
<1> SUFFICES ASSUME SenderInv, Receiver!Inv, Streams, [Next]_vars PROVE Streams'
  OBVIOUS
<1> USE DEF Streams
<1>1. ASSUME NEW ret \in SendReturns, WifiSend(ret) PROVE Streams'
  BY <1>1, WifiSendDoes
<1>2. ASSUME NEW ret \in SendReturns, WigiSend(ret) PROVE Streams'
  BY <1>2, WigiSendDoes
<1>3. ASSUME NEW valread \in RecvReturns, WifiRecv(valread) PROVE Streams'
  BY <1>3, WifiRecvDoes, TwoRatAssumption DEF Split
<1>4. ASSUME NEW valread \in RecvReturns, WigiRecv(valread) PROVE Streams'
  BY <1>4, WigiRecvDoes, TwoRatAssumption DEF Split
<1>5. CASE Quiet
  BY <1>5, QuietKeeps
<1> QED
  BY <1>1, <1>2, <1>3, <1>4, <1>5, Steps

\* The two programs and the streams between them, together.
TwoRatInv == SenderInv /\ Receiver!Inv /\ Streams

\* TwoRatInv is an invariant of the joined programs.
LEMMA TwoRatInvariance == Joined => []TwoRatInv
<1>1. Init => Streams
  BY TwoRatAssumption DEF Init, Streams
<1> QED
  BY <1>1, StreamsNext, JoinedInvariance, PTL DEF Joined, TwoRatInv

\* The variables of both programs keep their types and ranges, and the
\* streams hold only bytes from below the two spare ints of the buffer.
THEOREM TypeCorrect == Spec => []TypeOK
<1>1. SenderInv => Server!TypeOK
  BY SenderTyped
<1>2. Receiver!Inv => Client!TypeOK
  BY TwoRatAssumption
  DEF Receiver!Inv, Receiver!Placed, Receiver!Unmet, Client!TypeOK,
      Client!ClientAssumption, Client!Top, Receiver!Top, Client!Pad, Receiver!Pad
<1>3. Streams => \A pipe \in {wifi, wigi} :
        Len(pipe) <= CAP /\ \A i \in 1 .. Len(pipe) : pipe[i].pos \in 0 .. Top - 1
  <2> SUFFICES ASSUME Streams, NEW pipe \in {wifi, wigi}, NEW i \in 1 .. Len(pipe)
               PROVE  Len(pipe) <= CAP /\ pipe[i].pos \in 0 .. Top - 1
    BY DEF Streams
  <2>1. pipe \in Seq(Sent) /\ Len(pipe) <= CAP
    BY DEF Streams
  <2>2. pipe[i] \in Sent
    BY <2>1
  <2> QED
    BY <2>1, <2>2 DEF Sent
<1>4. TwoRatInv => TypeOK
  BY <1>1, <1>2, <1>3 DEF TwoRatInv, TypeOK
<1> QED
  BY <1>4, TwoRatInvariance, PTL DEF Spec, Joined

-----------------------------------------------------------------------------
(* The order of the streams *)

\* A send keeps a stream ordered if its block is, and follows on.
LEMMA OrderedAppends ==
  ASSUME NEW pipe \in Seq(Sent), NEW new \in Seq(Sent), NEW block, NEW n \in Nat,
         NEW by \in Int, NEW first \in Int,
         Ordered(pipe, by, first), Appended(new, pipe, block, n),
         \A i \in 1 .. n - 1 : block[i + 1].pos = block[i].pos + by,
         pipe # << >> /\ n > 0 =>
           block[1].pos = pipe[Len(pipe)].pos + by \/ block[1].pos = first
  PROVE  Ordered(new, by, first)
<1> SUFFICES ASSUME NEW i \in 1 .. Len(new) - 1
             PROVE  new[i + 1].pos = new[i].pos + by \/ new[i + 1].pos = first
  BY DEF Ordered
<1>1. CASE i < Len(pipe)
  <2>1. i \in 1 .. Len(pipe) - 1 /\ i + 1 \in 1 .. Len(pipe) /\ i \in 1 .. Len(pipe)
    BY <1>1
  <2>2. new[i] = pipe[i] /\ new[i + 1] = pipe[i + 1]
    BY <2>1 DEF Appended
  <2> QED
    BY <2>1, <2>2 DEF Ordered
<1>2. CASE i = Len(pipe)
  <2>1. 1 \in 1 .. n /\ Len(pipe) \in 1 .. Len(pipe)
    BY <1>2 DEF Appended
  <2>2. new[i] = pipe[Len(pipe)] /\ new[i + 1] = block[1]
    BY <1>2, <2>1 DEF Appended
  <2>3. pipe # << >> /\ n > 0
    BY <1>2, <2>1
  <2> QED
    BY <2>2, <2>3
<1>3. CASE i > Len(pipe)
  <2> DEFINE j == i - Len(pipe)
  <2>1. /\ j \in 1 .. n /\ j + 1 \in 1 .. n /\ j \in 1 .. n - 1
        /\ i = Len(pipe) + j /\ i + 1 = Len(pipe) + (j + 1)
    BY <1>3 DEF Appended
  <2> HIDE DEF j
  <2>2. new[i] = block[j] /\ new[i + 1] = block[j + 1]
    BY <2>1 DEF Appended
  <2> QED
    BY <2>1, <2>2
<1> QED
  BY <1>1, <1>2, <1>3

\* A recv leaves the rest of an ordered stream ordered.
LEMMA OrderedSplits ==
  ASSUME NEW pipe \in Seq(Sent), NEW head, NEW rest \in Seq(Sent),
         NEW n \in 1 .. Len(pipe), NEW by \in Int, NEW first \in Int,
         Ordered(pipe, by, first), Split(head, rest, pipe, n)
  PROVE  Ordered(rest, by, first)
<1> SUFFICES ASSUME NEW i \in 1 .. Len(rest) - 1
             PROVE  rest[i + 1].pos = rest[i].pos + by \/ rest[i + 1].pos = first
  BY DEF Ordered
<1>1. /\ n + i \in 1 .. Len(pipe) - 1 /\ n + i + 1 = n + (i + 1)
      /\ i \in 1 .. Len(pipe) - n /\ i + 1 \in 1 .. Len(pipe) - n
  BY DEF Split
<1>2. rest[i] = pipe[n + i] /\ rest[i + 1] = pipe[n + i + 1]
  BY <1>1 DEF Split
<1> QED
  BY <1>1, <1>2 DEF Ordered

\* Each pointer of the sender is where its stream stops, or back at the start.
Tails ==
  /\ wifi # << >> => s_fwd \in {0, wifi[Len(wifi)].pos + 1}
  /\ wigi # << >> =>
       s_rev \in {Server!RevStart, wigi[Len(wigi)].pos - SEND_BUFFER_SIZE}

\* The streams start ordered: they are empty.
LEMMA OrderInit == Init => StreamsOrdered /\ Tails
BY DEF Init, StreamsOrdered, Ordered, Tails

\* A send over WiFi continues its stream.
LEMMA WifiSendOrdered ==
  ASSUME WholeInts, TwoRatInv, StreamsOrdered, Tails,
         NEW ret \in SendReturns, WifiSend(ret)
  PROVE  StreamsOrdered' /\ Tails'
<1> DEFINE n == Took(ret)
           block == [i \in 1 .. SEND_BUFFER_SIZE |->
                       [window |-> s_window, pos |-> s_fwd + i - 1]]
<1>1. /\ n \in 0 .. SEND_BUFFER_SIZE
      /\ wifi \in Seq(Sent) /\ wifi' \in Seq(Sent)
      /\ Len(wifi') = Len(wifi) + n
      /\ \A i \in 1 .. Len(wifi) : wifi'[i] = wifi[i]
      /\ \A i \in 1 .. n :
           wifi'[Len(wifi) + i] = [window |-> s_window, pos |-> s_fwd + i - 1]
      /\ s_fwd' = s_fwd + n /\ s_fwd \in Nat
      /\ UNCHANGED <<s_rev, wigi>>
  BY WifiSendDoes DEF TwoRatInv, Streams, SenderInv
<1>2. SEND_BUFFER_SIZE \in Nat
  BY SenderSizes
<1> HIDE DEF n
<1>3. n \in Nat /\ \A i \in 1 .. n : i \in 1 .. SEND_BUFFER_SIZE
  BY <1>1, <1>2
<1>4. Appended(wifi', wifi, block, n)
  BY <1>1, <1>3 DEF Appended
<1>5. \A i \in 1 .. n - 1 : block[i + 1].pos = block[i].pos + 1
  BY <1>1, <1>2, <1>3
<1>6. wifi # << >> /\ n > 0 =>
        block[1].pos = wifi[Len(wifi)].pos + 1 \/ block[1].pos = 0
  BY <1>1, <1>2, <1>3 DEF Tails
<1> HIDE DEF block
<1>7. Ordered(wifi', 1, 0)
  BY <1>1, <1>3, <1>4, <1>5, <1>6, OrderedAppends DEF StreamsOrdered
<1>8. StreamsOrdered'
  BY <1>1, <1>7 DEF StreamsOrdered, Ordered
<1>9. wifi' # << >> => s_fwd' \in {0, wifi'[Len(wifi')].pos + 1}
  <2>1. CASE n = 0
    <3>1. Len(wifi') = Len(wifi)
      BY <1>1, <2>1
    <3>2. wifi' # << >> => /\ wifi # << >>
                           /\ wifi'[Len(wifi')] = wifi[Len(wifi)]
      BY <1>1, <3>1
    <3> QED
      BY <1>1, <2>1, <3>2 DEF Tails
  <2>2. CASE n > 0
    <3>1. n \in 1 .. n /\ Len(wifi') = Len(wifi) + n
      BY <1>1, <1>3, <2>2
    <3>2. wifi'[Len(wifi')] = [window |-> s_window, pos |-> s_fwd + n - 1]
      BY <1>1, <3>1
    <3> QED
      BY <1>1, <1>3, <3>2
  <2> QED
    BY <1>3, <2>1, <2>2
<1> QED
  BY <1>1, <1>8, <1>9 DEF Tails, Server!RevStart, Server!Pad

\* A send over WiGig continues its stream.
LEMMA WigiSendOrdered ==
  ASSUME WholeInts, TwoRatInv, StreamsOrdered, Tails,
         NEW ret \in SendReturns, WigiSend(ret)
  PROVE  StreamsOrdered' /\ Tails'
<1> DEFINE n == Took(ret)
           block == [i \in 1 .. SEND_BUFFER_SIZE |->
                       [window |-> s_window, pos |-> s_rev + SEND_BUFFER_SIZE - i]]
<1>1. /\ n \in 0 .. SEND_BUFFER_SIZE
      /\ wigi \in Seq(Sent) /\ wigi' \in Seq(Sent)
      /\ Len(wigi') = Len(wigi) + n
      /\ \A i \in 1 .. Len(wigi) : wigi'[i] = wigi[i]
      /\ \A i \in 1 .. n :
           wigi'[Len(wigi) + i]
             = [window |-> s_window, pos |-> s_rev + SEND_BUFFER_SIZE - i]
      /\ s_rev' = s_rev - n /\ s_rev \in Int
      /\ UNCHANGED <<s_fwd, wifi>>
  BY WigiSendDoes DEF TwoRatInv, Streams, SenderInv
<1>2. SEND_BUFFER_SIZE \in Nat
  BY SenderSizes
<1> HIDE DEF n
<1>3. n \in Nat /\ \A i \in 1 .. n : i \in 1 .. SEND_BUFFER_SIZE
  BY <1>1, <1>2
<1>4. Appended(wigi', wigi, block, n)
  BY <1>1, <1>3 DEF Appended
<1>5. \A i \in 1 .. n - 1 : block[i + 1].pos = block[i].pos + -1
  BY <1>1, <1>2, <1>3
<1>6. wigi # << >> => wigi[Len(wigi)].pos \in Int
  <2> SUFFICES ASSUME wigi # << >> PROVE wigi[Len(wigi)] \in Sent
    BY Edges DEF Sent
  <2> QED
    BY <1>1
<1>7. wigi # << >> /\ n > 0 =>
        block[1].pos = wigi[Len(wigi)].pos + -1 \/ block[1].pos = Top - 1
  <2> SUFFICES ASSUME wigi # << >>, n > 0
               PROVE  block[1].pos = wigi[Len(wigi)].pos + -1 \/ block[1].pos = Top - 1
    OBVIOUS
  <2>1. block[1].pos = s_rev + SEND_BUFFER_SIZE - 1
    BY <1>1, <1>2, <1>3
  <2>2. s_rev = Server!RevStart \/ s_rev = wigi[Len(wigi)].pos - SEND_BUFFER_SIZE
    BY DEF Tails
  <2>3. PICK last \in Int : last = wigi[Len(wigi)].pos
    BY <1>6
  <2>4. CASE s_rev = Server!RevStart
    BY <1>2, <2>1, <2>4, Edges
  <2>5. CASE s_rev = last - SEND_BUFFER_SIZE
    <3>1. s_rev + SEND_BUFFER_SIZE - 1 = last + -1
      BY <1>2, <2>5
    <3> QED
      BY <2>1, <2>3, <3>1
  <2> QED
    BY <2>2, <2>3, <2>4, <2>5
<1> HIDE DEF block
<1>8. Ordered(wigi', -1, Top - 1)
  BY <1>1, <1>3, <1>4, <1>5, <1>7, Edges, OrderedAppends DEF StreamsOrdered
<1>9. StreamsOrdered'
  BY <1>1, <1>8 DEF StreamsOrdered, Ordered, Top, Server!Top, Server!Pad
<1>10. wigi' # << >> =>
        s_rev' \in {Server!RevStart, wigi'[Len(wigi')].pos - SEND_BUFFER_SIZE}
  <2>1. CASE n = 0
    <3>1. Len(wigi') = Len(wigi)
      BY <1>1, <2>1
    <3>2. wigi' # << >> => /\ wigi # << >>
                           /\ wigi'[Len(wigi')] = wigi[Len(wigi)]
      BY <1>1, <3>1
    <3> QED
      BY <1>1, <2>1, <3>2 DEF Tails
  <2>2. CASE n > 0
    <3>1. wigi'[Len(wigi')]
            = [window |-> s_window, pos |-> s_rev + SEND_BUFFER_SIZE - n]
      BY <1>1, <1>3, <2>2
    <3> QED
      BY <1>1, <1>2, <1>3, <3>1
  <2> QED
    BY <1>3, <2>1, <2>2
<1> QED
  BY <1>1, <1>9, <1>10 DEF Tails, Server!RevStart, Server!Pad

\* A recv takes the head of a stream and leaves its tail.
LEMMA RecvOrdered ==
  ASSUME TwoRatInv, StreamsOrdered, Tails, NEW valread \in RecvReturns,
         WifiRecv(valread) \/ WigiRecv(valread)
  PROVE  StreamsOrdered' /\ Tails'
<1> USE DEF TwoRatInv
<1>1. CASE WifiRecv(valread)
  <2>1. /\ wifi \in Seq(Sent) /\ wifi' \in Seq(Sent)
        /\ Split(Arrived(wifi, valread), wifi', wifi, valread)
        /\ valread \in 1 .. Len(wifi)
        /\ UNCHANGED <<s_fwd, s_rev, wigi>>
    BY <1>1, WifiRecvDoes DEF Streams, server
  <2>2. Ordered(wifi', 1, 0)
    BY <2>1, OrderedSplits DEF StreamsOrdered
  <2>3. wifi' # << >> => wifi # << >> /\ wifi'[Len(wifi')] = wifi[Len(wifi)]
    BY <2>1 DEF Split
  <2> QED
    BY <2>1, <2>2, <2>3
    DEF StreamsOrdered, Tails, Ordered, Server!RevStart, Server!Pad, Top, Server!Top
<1>2. CASE WigiRecv(valread)
  <2>1. /\ wigi \in Seq(Sent) /\ wigi' \in Seq(Sent)
        /\ Split(Arrived(wigi, valread), wigi', wigi, valread)
        /\ valread \in 1 .. Len(wigi)
        /\ UNCHANGED <<s_fwd, s_rev, wifi>>
    BY <1>2, WigiRecvDoes DEF Streams, server
  <2>2. Ordered(wigi', -1, Top - 1)
    BY <2>1, Edges, OrderedSplits DEF StreamsOrdered
  <2>3. wigi' # << >> => wigi # << >> /\ wigi'[Len(wigi')] = wigi[Len(wigi)]
    BY <2>1 DEF Split
  <2> QED
    BY <2>1, <2>2, <2>3
    DEF StreamsOrdered, Tails, Ordered, Server!RevStart, Server!Pad, Top, Server!Top,
        Server!Pad
<1> QED
  BY <1>1, <1>2

\* The turns leave the streams alone and set the pointers back.
LEMMA QuietOrdered ==
  ASSUME StreamsOrdered, Tails, Quiet
  PROVE  StreamsOrdered' /\ Tails'
<1>1. UNCHANGED <<wifi, wigi>>
  BY QuietKeeps
<1>2. UNCHANGED <<s_fwd, s_rev>> \/ (s_fwd' = 0 /\ s_rev' = Server!RevStart)
  BY DEF Quiet, ServerTurn, Server!NextWindow, ServerKilled, Server!Killed,
         NothingArrived, ClientTurn, vars, server
<1> QED
  BY <1>1, <1>2
  DEF StreamsOrdered, Tails, Ordered, Server!RevStart, Server!Pad, Top, Server!Top

\* With calls that move whole ints, both streams stay in order: "one with
\* ascending and another with descending sequence numbers" (README.md:8).
THEOREM StreamsStayOrdered ==
  ASSUME WholeInts
  PROVE  Spec => []StreamsOrdered
<1>1. TwoRatInv /\ StreamsOrdered /\ Tails /\ [Next]_vars => StreamsOrdered' /\ Tails'
  BY Steps, WifiSendOrdered, WigiSendOrdered, RecvOrdered, QuietOrdered
<1> QED
  BY <1>1, OrderInit, TwoRatInvariance, PTL DEF Spec, Joined

-----------------------------------------------------------------------------
(* The receiver's buffer *)

\* The buffer holds zeroes and bytes of the sender's window.
Buffered == buff \in [0 .. BUFFER_SIZE - 1 -> Sent \cup {Empty}]

\* With whole ints the pointers are where the counts say.
Pointed == c_fwd = c_fwdcount /\ c_rev = Top - c_revcount

\* The pointers have not crossed, which they do only with the last chunks of a
\* window that totalbytes has not closed.
Apart == c_fwd <= c_rev

\* Of the sender's first window F bytes have gone over WiFi and B over WiGig;
\* all but a block, once the sender is in a later window.
Sharing(F, B) ==
  /\ s_window = "first" =>
       /\ F = s_fwd /\ B = Server!RevStart - s_rev
       /\ F = c_fwd + Len(wifi) /\ B = Top - c_rev + Len(wigi)
  /\ s_window = "later" =>
       /\ F + B > Top - SEND_BUFFER_SIZE
       /\ F <= c_fwd + Len(wifi) /\ B <= Top - c_rev + Len(wigi)

\* The byte of the first window that belongs to place p, and one of a later
\* window.
FirstByte(byte, p) == byte = [window |-> "first", pos |-> p]
LaterByte(byte) == byte \in Sent /\ byte.window = "later"

\* Each stream carries the rest of those bytes, in their order, before all
\* bytes of later windows,
WifiCarries(F) ==
  \A i \in 1 .. Len(wifi) : /\ c_fwd + i <= F => FirstByte(wifi[i], c_fwd + i - 1)
                            /\ c_fwd + i > F  => LaterByte(wifi[i])
WigiCarries(B) ==
  \A i \in 1 .. Len(wigi) : /\ Top - c_rev + i <= B => FirstByte(wigi[i], c_rev - i)
                            /\ Top - c_rev + i > B  => LaterByte(wigi[i])

\* and the buffer holds those that have arrived, in their own places, and
\* bytes of later windows only where a path has delivered more than its share.
Stored(F, B) ==
  \A p \in 0 .. BUFFER_SIZE - 1 :
    /\ p < c_fwd /\ p < F => FirstByte(buff[p], p)
    /\ p < c_fwd /\ p >= F => LaterByte(buff[p])
    /\ c_rev <= p /\ p < Top /\ Top - p <= B => FirstByte(buff[p], p)
    /\ c_rev <= p /\ p < Top /\ Top - p > B => LaterByte(buff[p])
    /\ c_fwd <= p /\ p < c_rev => buff[p] = Empty
    /\ Top <= p => buff[p] = Empty

MadeUp(F, B) ==
  Sharing(F, B) /\ WifiCarries(F) /\ WigiCarries(B) /\ Stored(F, B)

\* How the receiver's first window is made up until then.
FirstWindow == c_window = "first" /\ Apart => \E F, B \in Nat : MadeUp(F, B)

\* The buffer is zeroed as the first window starts.
LEMMA BufferStarts == BufferInit => Buffered /\ Pointed /\ FirstWindow
<1> SUFFICES ASSUME BufferInit PROVE Buffered /\ Pointed /\ FirstWindow
  OBVIOUS
<1> USE Edges, SenderSizes
<1>1. /\ s_fwd = 0 /\ s_rev = Server!RevStart /\ s_window = "first"
      /\ c_fwd = 0 /\ c_rev = Top /\ c_fwdcount = 0 /\ c_revcount = 0
      /\ wifi = << >> /\ wigi = << >> /\ buff = Cleared
  BY DEF BufferInit, Init, Server!Init, Client!Init, Client!Top, Client!Pad
<1>2. Buffered /\ \A p \in 0 .. BUFFER_SIZE - 1 : buff[p] = Empty
  BY <1>1 DEF Cleared, Buffered
<1>3. Pointed
  BY <1>1 DEF Pointed
<1>4. MadeUp(0, 0)
  BY <1>1, <1>2 DEF MadeUp, Sharing, WifiCarries, WigiCarries, Stored
<1> QED
  BY <1>2, <1>3, <1>4 DEF FirstWindow

\* What a chunk from WiFi does to the buffer.
LEMMA WifiPlaced ==
  ASSUME TwoRatInv, Buffered, NEW valread \in RecvReturns, ReceiveWifi(valread)
  PROVE  /\ Buffered'
         /\ \A p \in 0 .. BUFFER_SIZE - 1 :
              buff'[p] = IF c_fwd <= p /\ p < c_fwd + valread
                           THEN wifi[p - c_fwd + 1] ELSE buff[p]
<1> DEFINE chunk == Arrived(wifi, valread)
<1>1. /\ valread \in Nat /\ c_fwd \in Nat
      /\ chunk \in Seq(Sent) /\ Len(chunk) = valread
      /\ \A i \in 1 .. valread : chunk[i] = wifi[i]
  BY WifiRecvDoes, ReceiverSizes
  DEF ReceiveWifi, Split, TwoRatInv, Receiver!Inv, Receiver!Placed
<1>2. /\ DOMAIN buff = 0 .. BUFFER_SIZE - 1
      /\ buff' = memcpy(buff, c_fwd, chunk)
  BY DEF ReceiveWifi, Buffered
<1> HIDE DEF chunk
<1>3. buff' = [p \in 0 .. BUFFER_SIZE - 1 |->
                 IF p \in c_fwd .. c_fwd + valread - 1 THEN chunk[p - c_fwd + 1]
                 ELSE buff[p]]
  BY <1>1, <1>2 DEF memcpy
<1>4. \A p \in 0 .. BUFFER_SIZE - 1 :
        p \in c_fwd .. c_fwd + valread - 1 <=> c_fwd <= p /\ p < c_fwd + valread
  BY <1>1, SenderSizes
<1>5. ASSUME NEW p \in 0 .. BUFFER_SIZE - 1, c_fwd <= p, p < c_fwd + valread
      PROVE  chunk[p - c_fwd + 1] = wifi[p - c_fwd + 1] /\ chunk[p - c_fwd + 1] \in Sent
  <2>1. p - c_fwd + 1 \in 1 .. valread
    BY <1>1, <1>5, SenderSizes
  <2> QED
    BY <1>1, <2>1
<1>6. \A p \in 0 .. BUFFER_SIZE - 1 :
        buff'[p] = IF c_fwd <= p /\ p < c_fwd + valread
                     THEN wifi[p - c_fwd + 1] ELSE buff[p]
  BY <1>3, <1>4, <1>5
<1>7. \A p \in 0 .. BUFFER_SIZE - 1 : buff'[p] \in Sent \cup {Empty}
  BY <1>5, <1>6 DEF Buffered
<1> QED
  BY <1>3, <1>6, <1>7 DEF Buffered, Sent, Top, Server!Top, Server!Pad

\* What a chunk from WiGig does to the buffer.
LEMMA WigiPlaced ==
  ASSUME TwoRatInv, Buffered, NEW valread \in RecvReturns, ReceiveWigi(valread)
  PROVE  /\ Buffered'
         /\ \A p \in 0 .. BUFFER_SIZE - 1 :
              buff'[p] = IF c_rev' <= p /\ p < c_rev' + valread
                           THEN wigi[c_rev' + valread - p] ELSE buff[p]
<1> DEFINE chunk == Arrived(wigi, valread)
           at == c_rev'
<1>1. /\ valread \in Nat
      /\ chunk \in Seq(Sent) /\ Len(chunk) = valread
      /\ \A i \in 1 .. valread : chunk[i] = wigi[i]
  BY WigiRecvDoes, ReceiverSizes DEF ReceiveWigi, Split, TwoRatInv
<1>2. at \in Int
  <2>1. Receiver!Inv'
    BY JoinedStep, ReceiverSizes, Receiver!NextInv
    DEF TwoRatInv, ReceiveWigi, Next, ClientStep
  <2> QED
    BY <2>1 DEF Receiver!Inv, Receiver!Placed
<1>3. /\ DOMAIN buff = 0 .. BUFFER_SIZE - 1
      /\ buff' = reverse_memcpy(buff, at, chunk)
  BY DEF ReceiveWigi, Buffered
<1> HIDE DEF chunk, at
<1>4. buff' = [p \in 0 .. BUFFER_SIZE - 1 |->
                 IF p \in at .. at + valread - 1 THEN chunk[at + valread - p]
                 ELSE buff[p]]
  BY <1>1, <1>2, <1>3 DEF reverse_memcpy
<1>5. \A p \in 0 .. BUFFER_SIZE - 1 :
        p \in at .. at + valread - 1 <=> at <= p /\ p < at + valread
  BY <1>1, <1>2, SenderSizes
<1>6. ASSUME NEW p \in 0 .. BUFFER_SIZE - 1, at <= p, p < at + valread
      PROVE  chunk[at + valread - p] = wigi[at + valread - p] /\ chunk[at + valread - p] \in Sent
  <2>1. at + valread - p \in 1 .. valread
    BY <1>1, <1>2, <1>6, SenderSizes
  <2> QED
    BY <1>1, <2>1
<1>7. \A p \in 0 .. BUFFER_SIZE - 1 :
        buff'[p] = IF at <= p /\ p < at + valread
                     THEN wigi[at + valread - p] ELSE buff[p]
  BY <1>4, <1>5, <1>6
<1>8. \A p \in 0 .. BUFFER_SIZE - 1 : buff'[p] \in Sent \cup {Empty}
  BY <1>6, <1>7 DEF Buffered
<1> QED
  BY <1>4, <1>7, <1>8 DEF at, Buffered, Sent, Top, Server!Top, Server!Pad

\* The receiver's variables in the steps that are no recv.
LEMMA ClientKeeps ==
  /\ \A ret \in SendReturns : WifiSend(ret) \/ WigiSend(ret) => UNCHANGED client
  /\ Quiet => \/ UNCHANGED <<c_fwd, c_rev, c_fwdcount, c_revcount, c_window>>
              \/ /\ c_fwd' = 0 /\ c_rev' = Top /\ c_fwdcount' = 0 /\ c_revcount' = 0
                 /\ c_window' = "later"
BY DEF WifiSend, WigiSend, Quiet, ServerTurn, ServerKilled, NothingArrived, ClientTurn, vars, client,
       Client!WifiEmpty, Client!WigiEmpty, Client!CloseWindow, Client!Top, Client!Pad,
       Top, Server!Top, Server!Pad

\* With whole ints the pointers stay where the counts say, and pointers that
\* have crossed stay so until the window is closed.
LEMMA PointedNext ==
  ASSUME WholeInts, TwoRatInv, Pointed, [Next]_vars
  PROVE  Pointed' /\ (c_window' = "first" /\ Apart' => Apart)
<1> USE Edges, ReceiverSizes, SenderSizes
<1>1. c_fwd \in Nat /\ c_rev \in Int /\ c_fwdcount \in Nat /\ c_revcount \in Nat
  BY DEF TwoRatInv, Receiver!Inv, Receiver!Placed
<1> USE DEF Pointed, Apart, Top, Server!Top, Server!Pad
<1>2. ASSUME NEW valread \in RecvReturns, WifiRecv(valread)
      PROVE  Pointed' /\ (Apart' => Apart)
  <2>1. /\ valread \in 1 .. RX_BUFFER_SIZE
        /\ c_fwd' = c_fwd + valread /\ c_fwdcount' = c_fwdcount + valread
        /\ UNCHANGED <<c_rev, c_revcount>>
    BY <1>2, WifiRecvDoes DEF TwoRatInv
  <2> QED
    BY <1>1, <2>1
<1>3. ASSUME NEW valread \in RecvReturns, WigiRecv(valread)
      PROVE  Pointed' /\ (Apart' => Apart)
  <2>1. /\ valread \in 1 .. RX_BUFFER_SIZE
        /\ c_rev' = c_rev - valread /\ c_revcount' = c_revcount + valread
        /\ UNCHANGED <<c_fwd, c_fwdcount>>
    BY <1>3, WigiRecvDoes DEF TwoRatInv
  <2> QED
    BY <1>1, <2>1
<1>4. ASSUME NEW ret \in SendReturns, WifiSend(ret) \/ WigiSend(ret)
      PROVE  Pointed' /\ (Apart' => Apart)
  BY <1>4, ClientKeeps DEF client
<1>5. CASE Quiet
  BY <1>5, ClientKeeps
<1> QED
  BY <1>2, <1>3, <1>4, <1>5, Steps

\* A send over WiFi adds to the share of WiFi, or to what follows it.
LEMMA WifiSendShares ==
  ASSUME WholeInts, TwoRatInv, NEW F \in Nat, NEW B \in Nat, MadeUp(F, B),
         NEW ret \in SendReturns, WifiSend(ret), UNCHANGED buff
  PROVE  \E G \in Nat : MadeUp(G, B)'
<1> DEFINE n == Took(ret)
<1>1. /\ n \in Nat /\ s_fwd' = s_fwd + n
      /\ wifi \in Seq(Sent) /\ Len(wifi') = Len(wifi) + n
      /\ \A i \in 1 .. Len(wifi) : wifi'[i] = wifi[i]
      /\ \A i \in 1 .. n :
           wifi'[Len(wifi) + i] = [window |-> s_window, pos |-> s_fwd + i - 1]
      /\ UNCHANGED <<s_rev, s_window, c_fwd, c_rev, wigi, buff>>
  BY WifiSendDoes, SenderSizes DEF TwoRatInv, Streams, client
<1>2. \A i \in 1 .. Len(wifi') : wifi'[i] \in Sent
  BY WifiSendDoes DEF TwoRatInv
<1>3. /\ s_fwd \in Nat /\ s_window \in {"first", "later"} /\ c_fwd \in Nat
      /\ Top \in Nat /\ BUFFER_SIZE \in Nat
  BY Edges, SenderSizes DEF TwoRatInv, SenderInv, Receiver!Inv, Receiver!Placed
<1> HIDE DEF n
<1>4. PICK G \in Nat : G = IF s_window = "first" THEN F + n ELSE F
  BY <1>1, <1>3
<1>5. Sharing(G, B)'
  BY <1>1, <1>3, <1>4 DEF MadeUp, Sharing, Top, Server!Top, Server!RevStart, Server!Pad
<1>6. WifiCarries(G)'
  <2> SUFFICES ASSUME NEW i \in 1 .. Len(wifi')
               PROVE  /\ c_fwd + i <= G => FirstByte(wifi'[i], c_fwd + i - 1)
                      /\ c_fwd + i > G  => LaterByte(wifi'[i])
    BY <1>1 DEF WifiCarries, LaterByte, FirstByte, Sent, Top, Server!Top, Server!Pad
  <2>1. CASE i <= Len(wifi)
    <3>1. i \in 1 .. Len(wifi) /\ wifi'[i] = wifi[i]
      BY <1>1, <2>1
    <3>2. s_window = "first" => F = c_fwd + Len(wifi)
      BY DEF MadeUp, Sharing
    <3>3. /\ c_fwd + i <= F => FirstByte(wifi[i], c_fwd + i - 1)
          /\ c_fwd + i > F => LaterByte(wifi[i])
      BY <3>1 DEF MadeUp, WifiCarries
    <3> QED
      BY <1>1, <1>3, <1>4, <3>1, <3>2, <3>3
  <2>2. CASE i > Len(wifi)
    <3> DEFINE j == i - Len(wifi)
    <3>1. j \in 1 .. n /\ i = Len(wifi) + j
      BY <1>1, <2>2
    <3>2. wifi'[i] = [window |-> s_window, pos |-> s_fwd + j - 1]
      BY <1>1, <3>1
    <3>3. /\ s_window = "first" => F = c_fwd + Len(wifi) /\ F = s_fwd
          /\ s_window = "later" => F <= c_fwd + Len(wifi)
      BY DEF MadeUp, Sharing
    <3> HIDE DEF j
    <3>4. CASE s_window = "first"
      <4>1. c_fwd + i <= G /\ s_fwd + j - 1 = c_fwd + i - 1
        BY <1>1, <1>3, <1>4, <3>1, <3>3, <3>4
      <4> QED
        BY <1>1, <1>3, <3>2, <3>4, <4>1, <3>1 DEF FirstByte
    <3>5. CASE s_window = "later"
      <4>1. c_fwd + i > G
        <5>1. /\ Len(wifi) \in Nat /\ c_fwd \in Nat /\ j \in Nat \ {0}
              /\ i = Len(wifi) + j /\ F <= c_fwd + Len(wifi)
          BY <1>1, <1>3, <3>1, <3>3, <3>5
        <5>2. G = F
          BY <1>4, <3>5
        <5> QED
          BY <5>1, <5>2
      <4>2. wifi'[i] \in Sent /\ wifi'[i].window = "later"
        BY <1>2, <3>2, <3>5
      <4> QED
        BY <1>3, <1>4, <4>1, <4>2 DEF LaterByte
    <3> QED
      BY <1>3, <3>4, <3>5
  <2> QED
    BY <1>1, <2>1, <2>2
<1>7. WigiCarries(B)'
  BY <1>1 DEF MadeUp, WigiCarries, LaterByte, FirstByte, Sent, Top, Server!Top, Server!Pad
<1>8. Stored(G, B)'
  <2> SUFFICES ASSUME NEW p \in 0 .. BUFFER_SIZE - 1
               PROVE  /\ p < c_fwd /\ p < G => FirstByte(buff[p], p)
                      /\ p < c_fwd /\ p >= G => LaterByte(buff[p])
                      /\ c_rev <= p /\ p < Top /\ Top - p <= B => FirstByte(buff[p], p)
                      /\ c_rev <= p /\ p < Top /\ Top - p > B => LaterByte(buff[p])
                      /\ c_fwd <= p /\ p < c_rev => buff[p] = Empty
                      /\ Top <= p => buff[p] = Empty
    BY <1>1 DEF Stored, LaterByte, FirstByte, Sent, Top, Server!Top, Server!Pad
  <2>1. s_window = "first" => c_fwd <= F
    BY <1>1, <1>3 DEF MadeUp, Sharing
  <2>2. /\ p < c_fwd /\ p < F => FirstByte(buff[p], p)
        /\ p < c_fwd /\ p >= F => LaterByte(buff[p])
        /\ c_rev <= p /\ p < Top /\ Top - p <= B => FirstByte(buff[p], p)
        /\ c_rev <= p /\ p < Top /\ Top - p > B => LaterByte(buff[p])
        /\ c_fwd <= p /\ p < c_rev => buff[p] = Empty
        /\ Top <= p => buff[p] = Empty
    BY DEF MadeUp, Stored
  <2>3. p < c_fwd => (p < G <=> p < F)
    BY <1>1, <1>3, <1>4, <2>1
  <2> QED
    BY <2>2, <2>3, <1>3
<1> QED
  BY <1>5, <1>6, <1>7, <1>8 DEF MadeUp

\* A send over WiGig adds to the share of WiGig, or to what follows it.
LEMMA WigiSendShares ==
  ASSUME WholeInts, TwoRatInv, NEW F \in Nat, NEW B \in Nat, MadeUp(F, B),
         NEW ret \in SendReturns, WigiSend(ret), UNCHANGED buff
  PROVE  \E G \in Nat : MadeUp(F, G)'
<1> DEFINE n == Took(ret)
<1>1. /\ n \in Nat /\ s_rev' = s_rev - n
      /\ Len(wigi) \in Nat /\ Len(wigi') = Len(wigi) + n
      /\ UNCHANGED <<s_fwd, s_window, c_fwd, c_rev, wifi, buff>>
  BY WigiSendDoes, SenderSizes DEF TwoRatInv, Streams, client
<1>2. /\ \A i \in 1 .. Len(wigi') : wigi'[i] \in Sent
      /\ \A i \in 1 .. Len(wigi) : wigi'[i] = wigi[i]
      /\ \A i \in 1 .. n :
           wigi'[Len(wigi) + i]
             = [window |-> s_window, pos |-> s_rev + SEND_BUFFER_SIZE - i]
  BY WigiSendDoes DEF TwoRatInv
<1>3. /\ s_rev \in Int /\ s_window \in {"first", "later"}
      /\ c_fwd \in Nat /\ c_rev \in Int
      /\ Top \in Nat /\ BUFFER_SIZE \in Nat /\ SEND_BUFFER_SIZE \in Nat
      /\ Server!RevStart = Top - SEND_BUFFER_SIZE
  BY Edges, SenderSizes DEF TwoRatInv, SenderInv, Receiver!Inv, Receiver!Placed
<1> HIDE DEF n
<1>4. PICK G \in Nat : G = IF s_window = "first" THEN B + n ELSE B
  BY <1>1, <1>3
<1>5. Sharing(F, G)'
  <2>1. CASE s_window = "first"
    <3>1. /\ F = s_fwd /\ B = Server!RevStart - s_rev
          /\ F = c_fwd + Len(wifi) /\ B = Top - c_rev + Len(wigi)
      BY <2>1 DEF MadeUp, Sharing
    <3>2. G = B + n
      BY <1>4, <2>1
    <3>3. G = Server!RevStart - (s_rev - n) /\ G = Top - c_rev + (Len(wigi) + n)
      BY <1>1, <1>3, <3>1, <3>2
    <3> QED
      BY <1>1, <2>1, <3>1, <3>3
      DEF Sharing, Top, Server!Top, Server!RevStart, Server!Pad
  <2>2. CASE s_window = "later"
    <3>1. /\ F + B > Top - SEND_BUFFER_SIZE
          /\ F <= c_fwd + Len(wifi) /\ B <= Top - c_rev + Len(wigi)
      BY <2>2 DEF MadeUp, Sharing
    <3>2. G = B /\ B <= Top - c_rev + (Len(wigi) + n)
      BY <1>1, <1>3, <1>4, <2>2, <3>1
    <3> QED
      BY <1>1, <2>2, <3>1, <3>2
      DEF Sharing, Top, Server!Top, Server!RevStart, Server!Pad
  <2> QED
    BY <1>3, <2>1, <2>2
<1>6. WigiCarries(G)'
  <2> SUFFICES ASSUME NEW i \in 1 .. Len(wigi')
               PROVE  /\ Top - c_rev + i <= G => FirstByte(wigi'[i], c_rev - i)
                      /\ Top - c_rev + i > G  => LaterByte(wigi'[i])
    BY <1>1 DEF WigiCarries, LaterByte, FirstByte, Sent, Top, Server!Top, Server!Pad
  <2>1. CASE i <= Len(wigi)
    <3>1. i \in 1 .. Len(wigi) /\ wigi'[i] = wigi[i]
      BY <1>1, <1>2, <2>1
    <3>2. s_window = "first" => B = Top - c_rev + Len(wigi)
      BY DEF MadeUp, Sharing
    <3>3. /\ Top - c_rev + i <= B => FirstByte(wigi[i], c_rev - i)
          /\ Top - c_rev + i > B => LaterByte(wigi[i])
      BY <3>1 DEF MadeUp, WigiCarries
    <3> QED
      BY <1>1, <1>3, <1>4, <3>1, <3>2, <3>3
  <2>2. CASE i > Len(wigi)
    <3> DEFINE j == i - Len(wigi)
    <3>1. j \in 1 .. n /\ i = Len(wigi) + j
      BY <1>1, <2>2
    <3>2. wigi'[i] = [window |-> s_window, pos |-> s_rev + SEND_BUFFER_SIZE - j]
      BY <1>2, <3>1
    <3>3. /\ s_window = "first" => /\ B = Top - c_rev + Len(wigi)
                                   /\ B = Server!RevStart - s_rev
          /\ s_window = "later" => B <= Top - c_rev + Len(wigi)
      BY DEF MadeUp, Sharing
    <3> HIDE DEF j
    <3>4. CASE s_window = "first"
      <4>1. Top - c_rev + i <= G /\ s_rev + SEND_BUFFER_SIZE - j = c_rev - i
        BY <1>1, <1>3, <1>4, <3>1, <3>3, <3>4
      <4>2. FirstByte(wigi'[i], c_rev - i)
        BY <3>2, <3>4, <4>1 DEF FirstByte
      <4> QED
        BY <1>3, <1>4, <4>1, <4>2
    <3>5. CASE s_window = "later"
      <4>1. Top - c_rev + i > G
        BY <1>1, <1>3, <1>4, <3>1, <3>3, <3>5
      <4>2. wigi'[i] \in Sent /\ wigi'[i].window = "later"
        BY <1>2, <3>2, <3>5
      <4> QED
        BY <1>3, <1>4, <4>1, <4>2 DEF LaterByte
    <3> QED
      BY <1>3, <3>4, <3>5
  <2> QED
    BY <1>1, <2>1, <2>2
<1>7. WifiCarries(F)'
  BY <1>1 DEF MadeUp, WifiCarries, LaterByte, FirstByte, Sent, Top, Server!Top, Server!Pad
<1>8. Stored(F, G)'
  <2> SUFFICES ASSUME NEW p \in 0 .. BUFFER_SIZE - 1
               PROVE  /\ p < c_fwd /\ p < F => FirstByte(buff[p], p)
                      /\ p < c_fwd /\ p >= F => LaterByte(buff[p])
                      /\ c_rev <= p /\ p < Top /\ Top - p <= G => FirstByte(buff[p], p)
                      /\ c_rev <= p /\ p < Top /\ Top - p > G => LaterByte(buff[p])
                      /\ c_fwd <= p /\ p < c_rev => buff[p] = Empty
                      /\ Top <= p => buff[p] = Empty
    BY <1>1 DEF Stored, LaterByte, FirstByte, Sent, Top, Server!Top, Server!Pad
  <2>1. s_window = "first" => Top - c_rev <= B
    BY <1>1, <1>3 DEF MadeUp, Sharing
  <2>2. /\ p < c_fwd /\ p < F => FirstByte(buff[p], p)
        /\ p < c_fwd /\ p >= F => LaterByte(buff[p])
        /\ c_rev <= p /\ p < Top /\ Top - p <= B => FirstByte(buff[p], p)
        /\ c_rev <= p /\ p < Top /\ Top - p > B => LaterByte(buff[p])
        /\ c_fwd <= p /\ p < c_rev => buff[p] = Empty
        /\ Top <= p => buff[p] = Empty
    BY DEF MadeUp, Stored
  <2>3. p >= c_rev => (Top - p <= G <=> Top - p <= B)
    BY <1>1, <1>3, <1>4, <2>1
  <2> QED
    BY <2>2, <2>3, <1>3
<1> QED
  BY <1>5, <1>6, <1>7, <1>8 DEF MadeUp

\* A chunk from WiFi goes from the head of the stream to the end of what WiFi
\* has filled.
LEMMA WifiRecvShares ==
  ASSUME WholeInts, TwoRatInv, Buffered, Apart',
         NEW F \in Nat, NEW B \in Nat, MadeUp(F, B),
         NEW valread \in RecvReturns, ReceiveWifi(valread)
  PROVE  MadeUp(F, B)'
<1>1. /\ valread \in 1 .. Len(wifi) /\ c_fwd' = c_fwd + valread
      /\ Len(wifi) \in Nat /\ Len(wifi') = Len(wifi) - valread
      /\ UNCHANGED <<s_fwd, s_rev, s_window, c_rev, wigi>>
  BY WifiRecvDoes DEF ReceiveWifi, Split, TwoRatInv, Streams, server
<1>2. \A i \in 1 .. Len(wifi) - valread : wifi'[i] = wifi[valread + i]
  BY WifiRecvDoes DEF ReceiveWifi, Split, TwoRatInv
<1>3. \A p \in 0 .. BUFFER_SIZE - 1 :
        buff'[p] = IF c_fwd <= p /\ p < c_fwd + valread
                     THEN wifi[p - c_fwd + 1] ELSE buff[p]
  BY WifiPlaced
<1>4. /\ c_fwd \in Nat /\ c_rev \in Int /\ c_rev <= Top /\ c_fwd + valread <= c_rev
      /\ Top \in Nat /\ BUFFER_SIZE \in Nat /\ Top <= BUFFER_SIZE
  BY <1>1, Edges, SenderSizes
  DEF TwoRatInv, Receiver!Inv, Receiver!Placed, Apart, Receiver!Top, Receiver!Pad,
      Top, Server!Top, Server!Pad
<1>5. Sharing(F, B)'
  <2>1. c_fwd' + Len(wifi') = c_fwd + Len(wifi)
    BY <1>1, <1>4
  <2> QED
    BY <1>1, <2>1 DEF MadeUp, Sharing, Top, Server!Top, Server!RevStart, Server!Pad
<1>6. WifiCarries(F)'
  <2> SUFFICES ASSUME NEW i \in 1 .. Len(wifi')
               PROVE  /\ c_fwd + valread + i <= F =>
                           FirstByte(wifi'[i], c_fwd + valread + i - 1)
                      /\ c_fwd + valread + i > F  => LaterByte(wifi'[i])
    BY <1>1 DEF WifiCarries, LaterByte, FirstByte, Sent, Top, Server!Top, Server!Pad
  <2> DEFINE j == valread + i
  <2>1. /\ j \in 1 .. Len(wifi) /\ i \in 1 .. Len(wifi) - valread
        /\ c_fwd + valread + i = c_fwd + j
        /\ c_fwd + valread + i - 1 = c_fwd + j - 1
    BY <1>1, <1>4
  <2>2. wifi'[i] = wifi[j]
    BY <1>2, <2>1
  <2> HIDE DEF j
  <2>3. /\ c_fwd + j <= F => FirstByte(wifi[j], c_fwd + j - 1)
        /\ c_fwd + j > F  => LaterByte(wifi[j])
    BY <2>1 DEF MadeUp, WifiCarries
  <2> QED
    BY <2>1, <2>2, <2>3
<1>7. WigiCarries(B)'
  BY <1>1 DEF MadeUp, WigiCarries, LaterByte, FirstByte, Sent, Top, Server!Top, Server!Pad
<1>8. Stored(F, B)'
  <2> SUFFICES ASSUME NEW p \in 0 .. BUFFER_SIZE - 1
               PROVE  /\ p < c_fwd + valread /\ p < F => FirstByte(buff'[p], p)
                      /\ p < c_fwd + valread /\ p >= F => LaterByte(buff'[p])
                      /\ c_rev <= p /\ p < Top /\ Top - p <= B => FirstByte(buff'[p], p)
                      /\ c_rev <= p /\ p < Top /\ Top - p > B => LaterByte(buff'[p])
                      /\ c_fwd + valread <= p /\ p < c_rev => buff'[p] = Empty
                      /\ Top <= p => buff'[p] = Empty
    BY <1>1 DEF Stored, LaterByte, FirstByte, Sent, Top, Server!Top, Server!Pad
  <2>1. CASE c_fwd <= p /\ p < c_fwd + valread
    <3> DEFINE i == p - c_fwd + 1
    <3>1. i \in 1 .. Len(wifi) /\ c_fwd + i = p + 1 /\ c_fwd + i - 1 = p
      BY <1>1, <1>4, <2>1
    <3>2. buff'[p] = wifi[i]
      BY <1>3, <2>1
    <3> HIDE DEF i
    <3>3. /\ p + 1 <= F => FirstByte(wifi[i], p)
          /\ p + 1 > F => LaterByte(wifi[i])
      BY <3>1 DEF MadeUp, WifiCarries
    <3> QED
      BY <1>1, <1>4, <2>1, <3>2, <3>3
  <2>2. CASE ~(c_fwd <= p /\ p < c_fwd + valread)
    <3>1. buff'[p] = buff[p]
      BY <1>3, <2>2
    <3>2. /\ p < c_fwd /\ p < F => FirstByte(buff[p], p)
          /\ p < c_fwd /\ p >= F => LaterByte(buff[p])
          /\ c_rev <= p /\ p < Top /\ Top - p <= B => FirstByte(buff[p], p)
          /\ c_rev <= p /\ p < Top /\ Top - p > B => LaterByte(buff[p])
          /\ c_fwd <= p /\ p < c_rev => buff[p] = Empty
          /\ Top <= p => buff[p] = Empty
      BY DEF MadeUp, Stored
    <3> QED
      BY <1>1, <1>4, <2>2, <3>1, <3>2
  <2> QED
    BY <2>1, <2>2
<1> QED
  BY <1>5, <1>6, <1>7, <1>8 DEF MadeUp

\* A chunk from WiGig goes to the end, downwards, of what WiGig has filled.
LEMMA WigiRecvShares ==
  ASSUME WholeInts, TwoRatInv, Buffered, Apart',
         NEW F \in Nat, NEW B \in Nat, MadeUp(F, B),
         NEW valread \in RecvReturns, ReceiveWigi(valread)
  PROVE  MadeUp(F, B)'
<1>1. /\ valread \in 1 .. Len(wigi) /\ c_rev' = c_rev - valread
      /\ Len(wigi) \in Nat /\ Len(wigi') = Len(wigi) - valread
      /\ UNCHANGED <<s_fwd, s_rev, s_window, c_fwd, wifi>>
  BY WigiRecvDoes DEF ReceiveWigi, Split, TwoRatInv, Streams, server
<1>2. \A i \in 1 .. Len(wigi) - valread : wigi'[i] = wigi[valread + i]
  BY WigiRecvDoes DEF ReceiveWigi, Split, TwoRatInv
<1>3. /\ c_fwd \in Nat /\ c_rev \in Int /\ c_rev <= Top /\ c_fwd <= c_rev - valread
      /\ Top \in Nat /\ BUFFER_SIZE \in Nat /\ Top <= BUFFER_SIZE
  BY <1>1, Edges, SenderSizes
  DEF TwoRatInv, Receiver!Inv, Receiver!Placed, Apart, Receiver!Top, Receiver!Pad,
      Top, Server!Top, Server!Pad
<1>4. \A p \in 0 .. BUFFER_SIZE - 1 :
        buff'[p] = IF c_rev - valread <= p /\ p < c_rev
                     THEN wigi[c_rev - p] ELSE buff[p]
  <2>1. c_rev' + valread = c_rev
    BY <1>1, <1>3
  <2>2. \A p \in 0 .. BUFFER_SIZE - 1 :
          buff'[p] = IF c_rev' <= p /\ p < c_rev' + valread
                       THEN wigi[c_rev' + valread - p] ELSE buff[p]
    BY WigiPlaced
  <2>3. c_rev' = c_rev - valread /\ valread \in Nat /\ c_rev \in Int
    BY <1>1, <1>3
  <2>4. ASSUME NEW p \in 0 .. BUFFER_SIZE - 1
        PROVE  buff'[p] = IF c_rev - valread <= p /\ p < c_rev
                            THEN wigi[c_rev - p] ELSE buff[p]
    <3>1. c_rev' + valread - p = c_rev - p
      BY <1>3, <2>3
    <3> QED
      BY <2>1, <2>2, <2>3, <3>1
  <2> QED
    BY <2>4
<1>5. Sharing(F, B)'
  <2>1. Top - c_rev' + Len(wigi') = Top - c_rev + Len(wigi)
    BY <1>1, <1>3
  <2> QED
    BY <1>1, <2>1 DEF MadeUp, Sharing, Top, Server!Top, Server!RevStart, Server!Pad
<1>6. WigiCarries(B)'
  <2> SUFFICES ASSUME NEW i \in 1 .. Len(wigi')
               PROVE  /\ Top - (c_rev - valread) + i <= B =>
                           FirstByte(wigi'[i], c_rev - valread - i)
                      /\ Top - (c_rev - valread) + i > B  => LaterByte(wigi'[i])
    BY <1>1 DEF WigiCarries, LaterByte, FirstByte, Sent, Top, Server!Top, Server!Pad
  <2> DEFINE j == valread + i
  <2>1. /\ j \in 1 .. Len(wigi) /\ i \in 1 .. Len(wigi) - valread
        /\ Top - (c_rev - valread) + i = Top - c_rev + j
        /\ c_rev - valread - i = c_rev - j
    BY <1>1, <1>3
  <2>2. wigi'[i] = wigi[j]
    BY <1>2, <2>1
  <2> HIDE DEF j
  <2>3. /\ Top - c_rev + j <= B => FirstByte(wigi[j], c_rev - j)
        /\ Top - c_rev + j > B  => LaterByte(wigi[j])
    BY <2>1 DEF MadeUp, WigiCarries
  <2> QED
    BY <2>1, <2>2, <2>3
<1>7. WifiCarries(F)'
  BY <1>1 DEF MadeUp, WifiCarries, LaterByte, FirstByte, Sent, Top, Server!Top, Server!Pad
<1>8. Stored(F, B)'
  <2> SUFFICES ASSUME NEW p \in 0 .. BUFFER_SIZE - 1
               PROVE  /\ p < c_fwd /\ p < F => FirstByte(buff'[p], p)
                      /\ p < c_fwd /\ p >= F => LaterByte(buff'[p])
                      /\ c_rev - valread <= p /\ p < Top /\ Top - p <= B =>
                           FirstByte(buff'[p], p)
                      /\ c_rev - valread <= p /\ p < Top /\ Top - p > B =>
                           LaterByte(buff'[p])
                      /\ c_fwd <= p /\ p < c_rev - valread => buff'[p] = Empty
                      /\ Top <= p => buff'[p] = Empty
    BY <1>1 DEF Stored, LaterByte, FirstByte, Sent, Top, Server!Top, Server!Pad
  <2>1. CASE c_rev - valread <= p /\ p < c_rev
    <3> DEFINE i == c_rev - p
    <3>1. i \in 1 .. Len(wigi) /\ Top - c_rev + i = Top - p /\ c_rev - i = p
      BY <1>1, <1>3, <2>1
    <3>2. buff'[p] = wigi[i]
      BY <1>4, <2>1
    <3> HIDE DEF i
    <3>3. /\ Top - p <= B => FirstByte(wigi[i], p)
          /\ Top - p > B => LaterByte(wigi[i])
      BY <3>1 DEF MadeUp, WigiCarries
    <3> QED
      BY <1>1, <1>3, <2>1, <3>2, <3>3
  <2>2. CASE ~(c_rev - valread <= p /\ p < c_rev)
    <3>1. buff'[p] = buff[p]
      BY <1>4, <2>2
    <3>2. /\ p < c_fwd /\ p < F => FirstByte(buff[p], p)
          /\ p < c_fwd /\ p >= F => LaterByte(buff[p])
          /\ c_rev <= p /\ p < Top /\ Top - p <= B => FirstByte(buff[p], p)
          /\ c_rev <= p /\ p < Top /\ Top - p > B => LaterByte(buff[p])
          /\ c_fwd <= p /\ p < c_rev => buff[p] = Empty
          /\ Top <= p => buff[p] = Empty
      BY DEF MadeUp, Stored
    <3> QED
      BY <1>1, <1>3, <2>2, <3>1, <3>2
  <2> QED
    BY <2>1, <2>2
<1> QED
  BY <1>5, <1>6, <1>7, <1>8 DEF MadeUp

\* When the sender turns to the next window it has shared out all but a block
\* of the one before.
LEMMA TurnShares ==
  ASSUME TwoRatInv, NEW F \in Nat, NEW B \in Nat, MadeUp(F, B),
         Quiet, UNCHANGED buff, c_window' = "first"
  PROVE  MadeUp(F, B)'
<1>1. UNCHANGED <<c_fwd, c_rev, wifi, wigi, buff>>
  BY ClientKeeps, QuietKeeps
<1>2. \/ UNCHANGED <<s_fwd, s_rev, s_window>>
      \/ s_pc = "turn" /\ s_window' = "later"
  BY DEF Quiet, ServerTurn, Server!NextWindow, ServerKilled, Server!Killed,
         NothingArrived, ClientTurn, vars, server
<1>3. Sharing(F, B)'
  <2>1. CASE UNCHANGED <<s_fwd, s_rev, s_window>>
    BY <1>1, <2>1 DEF MadeUp, Sharing, Top, Server!Top, Server!RevStart, Server!Pad
  <2>2. CASE s_pc = "turn" /\ s_window' = "later"
    <3>1. /\ F + B > Top - SEND_BUFFER_SIZE
          /\ F <= c_fwd + Len(wifi) /\ B <= Top - c_rev + Len(wigi)
      <4>1. /\ s_fwd \in Nat /\ s_rev \in Int /\ s_fwd > s_rev
            /\ s_window \in {"first", "later"}
            /\ Server!RevStart = Top - SEND_BUFFER_SIZE
            /\ Top \in Nat /\ SEND_BUFFER_SIZE \in Nat
        BY <2>2, Edges, SenderSizes DEF TwoRatInv, SenderInv
      <4>2. CASE s_window = "first"
        <5>1. /\ F = s_fwd /\ B = Server!RevStart - s_rev
              /\ F = c_fwd + Len(wifi) /\ B = Top - c_rev + Len(wigi)
          BY <4>2 DEF MadeUp, Sharing
        <5>2. F + B > Top - SEND_BUFFER_SIZE
          BY <4>1, <5>1
        <5> QED
          BY <5>1, <5>2
      <4>3. CASE s_window = "later"
        BY <4>3 DEF MadeUp, Sharing
      <4> QED
        BY <4>1, <4>2, <4>3
    <3> QED
      BY <1>1, <2>2, <3>1 DEF Sharing, Top, Server!Top, Server!Pad
  <2> QED
    BY <1>2, <2>1, <2>2
<1>4. WifiCarries(F)' /\ WigiCarries(B)' /\ Stored(F, B)'
  BY <1>1
  DEF MadeUp, WifiCarries, WigiCarries, Stored, LaterByte, FirstByte, Sent, Top,
      Server!Top, Server!Pad
<1> QED
  BY <1>3, <1>4 DEF MadeUp

\* Every step with what it writes to the buffer is a step of the joined
\* programs.
LEMMA BufferSteps ==
  ASSUME [BufferNext]_<<vars, buff>>
  PROVE  /\ [Next]_vars
         /\ \/ \E valread \in RecvReturns : ReceiveWifi(valread)
            \/ \E valread \in RecvReturns : ReceiveWigi(valread)
            \/ \E ret \in SendReturns : WifiSend(ret) /\ UNCHANGED buff
            \/ \E ret \in SendReturns : WigiSend(ret) /\ UNCHANGED buff
            \/ Quiet /\ UNCHANGED buff
            \/ ClientTurn /\ buff' = Cleared
<1>1. CASE BufferNext
  BY <1>1
  DEF BufferNext, ReceiveWifi, ReceiveWigi, ClearBuffer, Next, ServerStep, ClientStep,
      Quiet
<1>2. CASE UNCHANGED <<vars, buff>>
  BY <1>2 DEF Quiet
<1> QED
  BY <1>1, <1>2

\* What is in the buffer stays bytes of the sender's window.
LEMMA BufferedNext ==
  ASSUME TwoRatInv, Buffered, [BufferNext]_<<vars, buff>>
  PROVE  Buffered'
<1>1. ASSUME NEW valread \in RecvReturns, ReceiveWifi(valread) PROVE Buffered'
  BY <1>1, WifiPlaced
<1>2. ASSUME NEW valread \in RecvReturns, ReceiveWigi(valread) PROVE Buffered'
  BY <1>2, WigiPlaced
<1>3. CASE UNCHANGED buff
  BY <1>3 DEF Buffered, Sent, Top, Server!Top, Server!Pad
<1>4. CASE buff' = Cleared
  BY <1>4 DEF Cleared, Buffered, Sent, Top, Server!Top, Server!Pad
<1> QED
  BY <1>1, <1>2, <1>3, <1>4, BufferSteps

\* No step spoils the make-up of the first window.
LEMMA FirstWindowNext ==
  ASSUME WholeInts, TwoRatInv, Buffered, Pointed, FirstWindow,
         [BufferNext]_<<vars, buff>>
  PROVE  FirstWindow'
<1> SUFFICES ASSUME c_window' = "first", Apart'
             PROVE  (\E F, B \in Nat : MadeUp(F, B))'
  BY DEF FirstWindow
<1>1. Apart
  BY BufferSteps, PointedNext
<1>2. c_window = "first" /\ ~ClientTurn
  <2>1. c_window' = c_window \/ c_window' = "later"
    BY BufferSteps, WifiRecvDoes, WigiRecvDoes, ClientKeeps
    DEF TwoRatInv, ReceiveWifi, ReceiveWigi, client, ClientTurn, Client!CloseWindow
  <2> QED
    BY <2>1 DEF ClientTurn, Client!CloseWindow
<1>3. PICK F \in Nat, B \in Nat : MadeUp(F, B)
  BY <1>1, <1>2 DEF FirstWindow
<1>4. ASSUME NEW valread \in RecvReturns, ReceiveWifi(valread)
      PROVE  MadeUp(F, B)'
  BY <1>3, <1>4, WifiRecvShares
<1>5. ASSUME NEW valread \in RecvReturns, ReceiveWigi(valread)
      PROVE  MadeUp(F, B)'
  BY <1>3, <1>5, WigiRecvShares
<1>6. ASSUME NEW ret \in SendReturns, WifiSend(ret), UNCHANGED buff
      PROVE  \E G \in Nat : MadeUp(G, B)'
  BY <1>3, <1>6, WifiSendShares
<1>7. ASSUME NEW ret \in SendReturns, WigiSend(ret), UNCHANGED buff
      PROVE  \E G \in Nat : MadeUp(F, G)'
  BY <1>3, <1>7, WigiSendShares
<1>8. ASSUME Quiet, UNCHANGED buff
      PROVE  MadeUp(F, B)'
  BY <1>3, <1>8, TurnShares
<1> QED
  BY <1>2, <1>3, <1>4, <1>5, <1>6, <1>7, <1>8, BufferSteps

\* With the buffer the two programs behave as without.
LEMMA BufferJoined == BufferSpec => Joined
<1>1. BufferInit => Init
  BY DEF BufferInit
<1>2. [BufferNext]_<<vars, buff>> => [Next]_vars
  BY BufferSteps
<1> QED
  BY <1>1, <1>2, PTL DEF BufferSpec, Joined

\* The buffer only ever holds zeroes and bytes from below the two spare ints
\* of the sender's buffer, however the calls cut them.
THEOREM BufferTypeCorrect == BufferSpec => []BufferTypeOK
<1>1. Buffered => BufferTypeOK
  BY DEF Buffered, BufferTypeOK, Filled, Sent
<1>2. BufferInit => Buffered
  BY BufferStarts
<1>3. TwoRatInv /\ Buffered /\ [BufferNext]_<<vars, buff>> => Buffered'
  BY BufferedNext
<1> QED
  BY <1>1, <1>2, <1>3, BufferJoined, TwoRatInvariance, PTL DEF BufferSpec

\* What the counting protocol does with the first window, put together.
BufferInv == TwoRatInv /\ Buffered /\ Pointed /\ FirstWindow

\* It is an invariant if the calls move whole ints.
LEMMA BufferInvariance ==
  ASSUME WholeInts
  PROVE  BufferSpec => []BufferInv
<1>1. BufferInit => Buffered /\ Pointed /\ FirstWindow
  BY BufferStarts
<1>2. TwoRatInv /\ Buffered /\ Pointed /\ FirstWindow /\ [BufferNext]_<<vars, buff>>
        => Buffered' /\ Pointed' /\ FirstWindow'
  BY BufferedNext, PointedNext, FirstWindowNext, BufferSteps
<1> QED
  BY <1>1, <1>2, BufferJoined, TwoRatInvariance, PTL DEF BufferSpec, BufferInv

\* How many numbers there are from a up to b.
Size(a, b) == IF a < b THEN b - a ELSE 0

\* An interval has as many members,
LEMMA IntervalSize ==
  ASSUME NEW a \in Int, NEW b \in Int
  PROVE  IsFiniteSet(a .. b - 1) /\ Cardinality(a .. b - 1) = Size(a, b)
BY FS_Interval DEF Size

\* and so have two that lie apart, together.
LEMMA IntervalsSize ==
  ASSUME NEW a \in Int, NEW b \in Int, NEW c \in Int, NEW d \in Int, b <= c
  PROVE  Cardinality((a .. b - 1) \cup (c .. d - 1)) = Size(a, b) + Size(c, d)
<1> DEFINE S == a .. b - 1
           T == c .. d - 1
<1>1. /\ IsFiniteSet(S) /\ Cardinality(S) = Size(a, b)
      /\ IsFiniteSet(T) /\ Cardinality(T) = Size(c, d)
  BY IntervalSize
<1>2. S \cap T = {}
  OBVIOUS
<1>3. Size(a, b) \in Nat /\ Size(c, d) \in Nat
  BY DEF Size
<1> HIDE DEF S, T
<1>4. Cardinality(S \cup T) = Cardinality(S) + Cardinality(T) - Cardinality({})
  BY <1>1, <1>2, FS_Union
<1> QED
  BY <1>1, <1>3, <1>4, FS_EmptySet DEF S, T

\* What BufferInv says of the numbers while the pointers are apart.
LEMMA FirstWindowNumbers ==
  ASSUME BufferInv, Apart
  PROVE  /\ c_fwd \in Nat /\ c_rev \in Int /\ Top \in Nat /\ BUFFER_SIZE \in Nat
         /\ c_fwd <= c_rev /\ c_rev <= Top /\ Top <= BUFFER_SIZE
         /\ c_fwdcount + c_revcount = c_fwd + (Top - c_rev)
         /\ SEND_BUFFER_SIZE \in Nat \ {0}
         /\ Len(wifi) \in Nat /\ Len(wigi) \in Nat
         /\ s_window \in {"first", "later"}
         /\ DOMAIN buff = 0 .. BUFFER_SIZE - 1
<1>1. Receiver!Top = Top
  BY DEF Receiver!Top, Receiver!Pad, Top, Server!Top, Server!Pad
<1>2. /\ c_fwd \in Nat /\ c_rev \in Int /\ c_rev <= Top /\ c_fwd <= c_rev
      /\ c_fwdcount \in Nat /\ c_revcount \in Nat
      /\ c_fwd = c_fwdcount /\ c_rev = Top - c_revcount
  BY <1>1
  DEF BufferInv, TwoRatInv, Receiver!Inv, Receiver!Placed, Pointed, Apart
<1>3. c_fwdcount + c_revcount = c_fwd + (Top - c_rev)
  BY <1>2, Edges
<1>4. /\ Len(wifi) \in Nat /\ Len(wigi) \in Nat
      /\ s_window \in {"first", "later"}
      /\ DOMAIN buff = 0 .. BUFFER_SIZE - 1
  BY DEF BufferInv, TwoRatInv, Streams, SenderInv, Buffered
<1> QED
  BY <1>2, <1>3, <1>4, Edges, SenderSizes

\* Which bytes of the buffer are filled, and which of them are foreign.
LEMMA FirstWindowSets ==
  ASSUME BufferInv, Apart, NEW F \in Nat, NEW B \in Nat, MadeUp(F, B)
  PROVE  /\ Filled = (0 .. c_fwd - 1) \cup (c_rev .. Top - 1)
         /\ Foreign = (F .. c_fwd - 1) \cup (c_rev .. Top - B - 1)
         /\ \A p \in Filled \ Foreign : buff[p].pos = p
<1>1. ASSUME NEW byte, NEW p \in 0 .. Top - 1, FirstByte(byte, p)
      PROVE  byte # Empty /\ byte.window = "first" /\ byte.pos = p
  <2>1. byte \in [window : {"first", "later"}, pos : 0 .. Top - 1]
    BY <1>1 DEF FirstByte
  <2> QED
    BY <1>1, <2>1, EmptyAssumption DEF FirstByte
<1>2. ASSUME NEW byte, LaterByte(byte)
      PROVE  byte # Empty /\ byte.window # "first"
  BY <1>2, EmptyAssumption DEF LaterByte, Sent
<1>3. ASSUME NEW p \in 0 .. BUFFER_SIZE - 1
      PROVE  /\ buff[p] # Empty <=> p < c_fwd \/ (c_rev <= p /\ p < Top)
             /\ buff[p] # Empty /\ buff[p].window # "first" <=>
                  (F <= p /\ p < c_fwd) \/ (c_rev <= p /\ p < Top - B)
             /\ buff[p] # Empty /\ buff[p].window = "first" => buff[p].pos = p
  <2>1. /\ p < c_fwd /\ p < F => FirstByte(buff[p], p)
        /\ p < c_fwd /\ p >= F => LaterByte(buff[p])
        /\ c_rev <= p /\ p < Top /\ Top - p <= B => FirstByte(buff[p], p)
        /\ c_rev <= p /\ p < Top /\ Top - p > B => LaterByte(buff[p])
        /\ c_fwd <= p /\ p < c_rev => buff[p] = Empty
        /\ Top <= p => buff[p] = Empty
    BY DEF MadeUp, Stored
  <2>2. p < Top => p \in 0 .. Top - 1
    BY FirstWindowNumbers
  <2>3. FirstByte(buff[p], p) /\ p < Top =>
          buff[p] # Empty /\ buff[p].window = "first" /\ buff[p].pos = p
    BY <1>1, <2>2
  <2>4. LaterByte(buff[p]) => buff[p] # Empty /\ buff[p].window # "first"
    BY <1>2
  <2>5. CASE p < c_fwd
    BY <2>1, <2>3, <2>4, <2>5, FirstWindowNumbers
  <2>6. CASE c_fwd <= p /\ p < c_rev
    BY <2>1, <2>6, FirstWindowNumbers
  <2>7. CASE c_rev <= p /\ p < Top
    BY <2>1, <2>3, <2>4, <2>7, FirstWindowNumbers
  <2>8. CASE Top <= p
    BY <2>1, <2>8, FirstWindowNumbers
  <2> QED
    BY <2>5, <2>6, <2>7, <2>8, FirstWindowNumbers
<1>4. Filled = {p \in 0 .. BUFFER_SIZE - 1 : buff[p] # Empty}
  BY FirstWindowNumbers DEF Filled
<1>5. Filled = (0 .. c_fwd - 1) \cup (c_rev .. Top - 1)
  <2>1. \A p : p \in (0 .. c_fwd - 1) \cup (c_rev .. Top - 1) <=>
          p \in 0 .. BUFFER_SIZE - 1 /\ (p < c_fwd \/ (c_rev <= p /\ p < Top))
    BY FirstWindowNumbers
  <2> QED
    BY <1>3, <1>4, <2>1
<1>6. Foreign = (F .. c_fwd - 1) \cup (c_rev .. Top - B - 1)
  <2>1. \A p : p \in (F .. c_fwd - 1) \cup (c_rev .. Top - B - 1) <=>
          /\ p \in 0 .. BUFFER_SIZE - 1
          /\ (F <= p /\ p < c_fwd) \/ (c_rev <= p /\ p < Top - B)
    BY FirstWindowNumbers
  <2>2. Foreign = {p \in 0 .. BUFFER_SIZE - 1 :
                     buff[p] # Empty /\ buff[p].window # "first"}
    BY <1>4 DEF Foreign
  <2> QED
    BY <1>3, <2>1, <2>2
<1>7. \A p \in Filled \ Foreign : buff[p].pos = p
  BY <1>3, <1>4 DEF Foreign
<1> QED
  BY <1>5, <1>6, <1>7

\* The bytes of the first window that are under way are the head of each
\* stream.
LEMMA FirstWindowInFlight ==
  ASSUME BufferInv, Apart, NEW F \in Nat, NEW B \in Nat, MadeUp(F, B)
  PROVE  /\ InFlight(wifi) = Size(c_fwd, F)
         /\ InFlight(wigi) = Size(Top - c_rev, B)
<1>1. /\ c_fwd \in Nat /\ c_rev \in Int /\ Top \in Nat /\ c_rev <= Top
      /\ Len(wifi) \in Nat /\ Len(wigi) \in Nat
  BY FirstWindowNumbers
<1>2. F <= c_fwd + Len(wifi) /\ B <= Top - c_rev + Len(wigi)
  <2>1. s_window \in {"first", "later"}
    BY FirstWindowNumbers
  <2>2. CASE s_window = "first"
    <3>1. F = c_fwd + Len(wifi) /\ B = Top - c_rev + Len(wigi)
      BY <2>2 DEF MadeUp, Sharing
    <3> QED
      BY <1>1, <3>1
  <2>3. CASE s_window = "later"
    BY <2>3 DEF MadeUp, Sharing
  <2> QED
    BY <2>1, <2>2, <2>3
<1>3. ASSUME NEW i \in 1 .. Len(wifi)
      PROVE  wifi[i].window = "first" <=> c_fwd + i <= F
  <2>1. /\ c_fwd + i <= F => FirstByte(wifi[i], c_fwd + i - 1)
        /\ c_fwd + i > F  => LaterByte(wifi[i])
    BY <1>3 DEF MadeUp, WifiCarries
  <2>2. /\ FirstByte(wifi[i], c_fwd + i - 1) => wifi[i].window = "first"
        /\ LaterByte(wifi[i]) => wifi[i].window # "first"
    BY DEF FirstByte, LaterByte
  <2> QED
    BY <1>1, <2>1, <2>2
<1>4. ASSUME NEW i \in 1 .. Len(wigi)
      PROVE  wigi[i].window = "first" <=> Top - c_rev + i <= B
  <2>1. /\ Top - c_rev + i <= B => FirstByte(wigi[i], c_rev - i)
        /\ Top - c_rev + i > B  => LaterByte(wigi[i])
    BY <1>4 DEF MadeUp, WigiCarries
  <2>2. /\ FirstByte(wigi[i], c_rev - i) => wigi[i].window = "first"
        /\ LaterByte(wigi[i]) => wigi[i].window # "first"
    BY DEF FirstByte, LaterByte
  <2> QED
    BY <1>1, <2>1, <2>2
<1>5. InFlight(wifi) = Size(c_fwd, F)
  <2>1. \A i : i \in 1 .. Len(wifi) /\ c_fwd + i <= F <=> i \in 1 .. (F - c_fwd + 1) - 1
    BY <1>1, <1>2
  <2>2. {i \in 1 .. Len(wifi) : wifi[i].window = "first"} = 1 .. (F - c_fwd + 1) - 1
    BY <1>3, <2>1
  <2>3. Cardinality(1 .. (F - c_fwd + 1) - 1) = Size(1, F - c_fwd + 1)
    BY <1>1, IntervalSize
  <2>4. InFlight(wifi) = Cardinality(1 .. (F - c_fwd + 1) - 1)
    BY <2>2 DEF InFlight
  <2>5. Size(1, F - c_fwd + 1) = Size(c_fwd, F)
    BY <1>1 DEF Size
  <2> QED
    BY <2>3, <2>4, <2>5
<1>6. InFlight(wigi) = Size(Top - c_rev, B)
  <2> DEFINE n == Top - c_rev
  <2>1. n \in Nat
    BY <1>1
  <2>2. B <= n + Len(wigi) /\ \A i \in 1 .. Len(wigi) : wigi[i].window = "first" <=> n + i <= B
    BY <1>2, <1>4
  <2> HIDE DEF n
  <2>3. \A i : i \in 1 .. Len(wigi) /\ n + i <= B <=> i \in 1 .. (B - n + 1) - 1
    BY <1>1, <2>1, <2>2
  <2>4. {i \in 1 .. Len(wigi) : wigi[i].window = "first"} = 1 .. (B - n + 1) - 1
    BY <2>2, <2>3
  <2>5. Cardinality(1 .. (B - n + 1) - 1) = Size(1, B - n + 1)
    BY <2>1, IntervalSize
  <2>6. InFlight(wigi) = Cardinality(1 .. (B - n + 1) - 1)
    BY <2>4 DEF InFlight
  <2>7. Size(1, B - n + 1) = Size(n, B)
    BY <2>1 DEF Size
  <2> QED
    BY <2>5, <2>6, <2>7 DEF n
<1> QED
  BY <1>5, <1>6

\* With calls that move whole ints, whatever totalbytes starts from, every byte
\* of the first window that the receiver has placed is in its own place, and
\* as many bytes are placed as were delivered, whatever the order and the
\* sizes of the chunks, until the pointers cross.
THEOREM FirstWindowStaysPlaced ==
  ASSUME WholeInts
  PROVE  BufferSpec => []FirstWindowPlaced
<1>1. ASSUME BufferInv PROVE FirstWindowPlaced
  <2> SUFFICES ASSUME c_window = "first", Apart
               PROVE  /\ \A p \in Filled \ Foreign : buff[p].pos = p
                      /\ Cardinality(Filled) = c_fwdcount + c_revcount
    BY DEF FirstWindowPlaced, Apart
  <2>1. PICK F \in Nat, B \in Nat : MadeUp(F, B)
    BY <1>1 DEF BufferInv, FirstWindow
  <2>2. /\ Filled = (0 .. c_fwd - 1) \cup (c_rev .. Top - 1)
        /\ \A p \in Filled \ Foreign : buff[p].pos = p
    BY <1>1, <2>1, FirstWindowSets
  <2>3. Cardinality(Filled) = Size(0, c_fwd) + Size(c_rev, Top)
    BY <1>1, <2>2, FirstWindowNumbers, IntervalsSize
  <2> QED
    BY <1>1, <2>2, <2>3, FirstWindowNumbers DEF Size
<1> QED
  BY <1>1, BufferInvariance, PTL

\* With calls that move whole ints, whatever totalbytes starts from, the first
\* window and the next mix in the buffer by less than a block and the bytes
\* the paths hold back, until the pointers cross.
THEOREM MixingStaysBounded ==
  ASSUME WholeInts
  PROVE  BufferSpec => []MixingBoundedByLag
<1>1. ASSUME BufferInv PROVE MixingBoundedByLag
  <2> SUFFICES ASSUME c_window = "first", Apart
               PROVE  Cardinality(Foreign) <
                        SEND_BUFFER_SIZE + InFlight(wifi) + InFlight(wigi)
    BY DEF MixingBoundedByLag, Apart
  <2>1. PICK F \in Nat, B \in Nat : MadeUp(F, B)
    BY <1>1 DEF BufferInv, FirstWindow
  <2>2. Foreign = (F .. c_fwd - 1) \cup (c_rev .. Top - B - 1)
    BY <1>1, <2>1, FirstWindowSets
  <2>3. /\ c_fwd \in Nat /\ c_rev \in Int /\ Top \in Nat /\ SEND_BUFFER_SIZE \in Nat \ {0}
        /\ c_fwd <= c_rev /\ c_rev <= Top /\ s_window \in {"first", "later"}
        /\ Len(wifi) \in Nat /\ Len(wigi) \in Nat
    BY <1>1, FirstWindowNumbers
  <2>4. Cardinality(Foreign) = Size(F, c_fwd) + Size(c_rev, Top - B)
    <3>1. Top - B \in Int
      BY <2>3
    <3> QED
      BY <2>2, <2>3, <3>1, IntervalsSize
  <2>5. InFlight(wifi) = Size(c_fwd, F) /\ InFlight(wigi) = Size(Top - c_rev, B)
    BY <1>1, <2>1, FirstWindowInFlight
  <2>6. (c_fwd - F) + (Top - c_rev - B) < SEND_BUFFER_SIZE
    <3>1. CASE s_window = "first"
      <4>1. F = c_fwd + Len(wifi) /\ B = Top - c_rev + Len(wigi)
        BY <2>1, <3>1 DEF MadeUp, Sharing
      <4> QED
        BY <2>3, <4>1
    <3>2. CASE s_window = "later"
      <4>1. F + B > Top - SEND_BUFFER_SIZE
        BY <2>1, <3>2 DEF MadeUp, Sharing
      <4> QED
        BY <2>3, <4>1
    <3> QED
      BY <2>3, <3>1, <3>2
  <2>7. Size(F, c_fwd) + Size(c_rev, Top - B) <
          SEND_BUFFER_SIZE + Size(c_fwd, F) + Size(Top - c_rev, B)
    BY <2>3, <2>6 DEF Size
  <2> QED
    BY <2>4, <2>5, <2>7
<1> QED
  BY <1>1, BufferInvariance, PTL
=============================================================================
