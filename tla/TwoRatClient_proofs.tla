------------------------ MODULE TwoRatClient_proofs ------------------------
(***************************************************************************)
(* The two-RAT receiver, for every size of buffer, chunk and int, every    *)
(* value totalbytes may start from and however the streams are cut.        *)
(***************************************************************************)
EXTENDS TwoRatClient, Bytes_proofs

\* The types, and what ties the pointers to the bytes received: a pointer has
\* moved by at most the bytes its path has delivered.
Placed ==
  /\ pc \in {"wifi", "wigi", "close"}
  /\ window \in {"first", "later"}
  /\ totalbytes \in Int /\ fwd_count \in Nat /\ rev_count \in Nat
  /\ fwd_ptr \in Nat /\ fwd_ptr <= fwd_count
  /\ rev_ptr \in Int /\ rev_ptr <= Top /\ Top - rev_count <= rev_ptr

\* The loop goes on only while the pointers have not met.
Unmet ==
  /\ pc = "wifi" => fwd_ptr < rev_ptr
  /\ pc = "wigi" => rev_ptr > 0 /\ fwd_ptr < rev_ptr + RX_BUFFER_SIZE
  /\ pc = "close" => /\ fwd_ptr < Top + RX_BUFFER_SIZE
                     /\ rev_ptr >= -RX_BUFFER_SIZE

\* Nor does it go on with a full window: a totalbytes that starts past full
\* is noticed with the first chunk.  And it stops for no other reason.
Unfull ==
  /\ pc # "close" => totalbytes <= EXP_RX_SIZE \/ (fwd_count = 0 /\ rev_count = 0)
  /\ pc = "close" => totalbytes > EXP_RX_SIZE \/ fwd_ptr >= rev_ptr

Inv == Placed /\ Unmet /\ Unfull /\ CountsExact

\* Inv holds as the program enters its first window.
LEMMA InitInv == Init => Inv
  BY ClientAssumption
  DEF Init, Inv, Placed, Unmet, Unfull, CountsExact, Top, Pad

\* Every recv, and closing a window, preserves Inv.
LEMMA NextInv == Inv /\ [Next]_vars => Inv'
<1> SUFFICES ASSUME Inv, [Next]_vars PROVE Inv'
  OBVIOUS
<1> USE ClientAssumption
<1>1. ASSUME NEW valread \in RecvReturns, RecvWifi(valread)
      PROVE  Inv'
  <2>1. valread \in Nat /\ valread <= RX_BUFFER_SIZE
    BY <1>1 DEF RecvWifi, RecvReturns
  <2>2. Words(valread, WORD) \in Nat /\ Words(valread, WORD) <= valread
    BY <2>1, WordsBound
  <2>3. Placed'
    BY <1>1, <2>1, <2>2 DEF Inv, Placed, RecvWifi, Top, Pad
  <2>4. Unmet'
    BY <1>1, <2>1, <2>2 DEF Inv, Placed, Unmet, RecvWifi, Top, Pad
  <2>5. Unfull'
    BY <1>1, <2>1 DEF Inv, Placed, Unfull, RecvWifi, Full
  <2>6. CountsExact'
    BY <1>1, <2>1 DEF Inv, Placed, CountsExact, RecvWifi
  <2> QED
    BY <2>3, <2>4, <2>5, <2>6 DEF Inv
<1>2. ASSUME NEW valread \in RecvReturns, RecvWigi(valread)
      PROVE  Inv'
  <2>1. valread \in Nat /\ valread <= RX_BUFFER_SIZE
    BY <1>2 DEF RecvWigi, RecvReturns
  <2>2. Words(valread, WORD) \in Nat /\ Words(valread, WORD) <= valread
    BY <2>1, WordsBound
  <2>3. Placed'
    BY <1>2, <2>1, <2>2 DEF Inv, Placed, RecvWigi, Top, Pad
  <2>4. Unmet'
    BY <1>2, <2>1, <2>2 DEF Inv, Placed, Unmet, RecvWigi, Top, Pad
  <2>5. Unfull'
    BY <1>2, <2>1 DEF Inv, Placed, Unfull, RecvWigi, Full
  <2>6. CountsExact'
    BY <1>2, <2>1 DEF Inv, Placed, CountsExact, RecvWigi
  <2> QED
    BY <2>3, <2>4, <2>5, <2>6 DEF Inv
<1>3. ASSUME NEW valread \in RecvReturns, WifiEmpty(valread)
      PROVE  Inv'
  BY <1>3 DEF Inv, Placed, Unmet, Unfull, CountsExact, WifiEmpty, Top, Pad
<1>4. ASSUME NEW valread \in RecvReturns, WigiEmpty(valread)
      PROVE  Inv'
  BY <1>4 DEF Inv, Placed, Unmet, Unfull, CountsExact, WigiEmpty, Top, Pad
<1>5. CASE CloseWindow
  BY <1>5 DEF Inv, Placed, Unmet, Unfull, CountsExact, CloseWindow, Top, Pad
<1>6. CASE UNCHANGED vars
  BY <1>6 DEF Inv, Placed, Unmet, Unfull, CountsExact, vars, Top, Pad
<1> QED
  BY <1>1, <1>2, <1>3, <1>4, <1>5, <1>6 DEF Next

\* Inv is an invariant of the receiver.
LEMMA Invariance == Spec => []Inv
  BY InitInv, NextInv, PTL DEF Spec

\* The variables keep their types, and the pointers stay within one chunk of
\* the buffer, whatever totalbytes starts from.
THEOREM TypeCorrect == Spec => []TypeOK
<1>1. Inv => TypeOK
  BY ClientAssumption DEF Inv, Placed, Unmet, TypeOK, Top, Pad
<1> QED
  BY <1>1, Invariance, PTL

\* From the second window on, totalbytes counts the bytes of the window.
THEOREM CountsStayExact == Spec => []CountsExact
<1>1. Inv => CountsExact
  BY DEF Inv
<1> QED
  BY <1>1, Invariance, PTL

\* A chunk is never written over what the other path has delivered: EXP_RX_SIZE
\* leaves room for one chunk, and every pointer has moved by at most its count.
\* Whatever totalbytes starts from, the pointers have not met before a recv on
\* WiFi.
THEOREM NeverOverwrites == Spec => []NoOverwrite
<1>1. Inv => NoOverwrite
  BY ClientAssumption DEF Inv, Placed, Unmet, Unfull, NoOverwrite, Top, Pad
<1> QED
  BY <1>1, Invariance, PTL

\* The abstract window starts as the receiver does.
LEMMA WindowInit == Init => ReceivedWindow!Init
  BY DEF Init, ReceivedWindow!Init, ForwardFront, BackwardFront

\* From the second window on, where the count is exact, every call is a step of
\* the abstract window or leaves it alone; in the first one, and as it closes,
\* the abstract window stands still.
LEMMA WindowStep ==
  Inv /\ [Next]_vars => [ReceivedWindow!Next]_<<ForwardFront, BackwardFront>>
<1> SUFFICES ASSUME Inv, [Next]_vars
             PROVE  [ReceivedWindow!Next]_<<ForwardFront, BackwardFront>>
  OBVIOUS
<1> USE ClientAssumption
<1>1. CASE window = "first"
  <2>1. UNCHANGED <<ForwardFront, BackwardFront>>
    <3>1. ASSUME CloseWindow PROVE UNCHANGED <<ForwardFront, BackwardFront>>
      BY <1>1, <3>1 DEF CloseWindow, ForwardFront, BackwardFront, Top, Pad
    <3>2. ASSUME window' = window PROVE UNCHANGED <<ForwardFront, BackwardFront>>
      BY <1>1, <3>2 DEF ForwardFront, BackwardFront, Top, Pad
    <3> QED
      BY <3>1, <3>2 DEF Next, RecvWifi, WifiEmpty, RecvWigi, WigiEmpty, vars
  <2> QED
    BY <2>1
<1>2. CASE window = "later"
  <2>0. /\ totalbytes = fwd_count + rev_count
        /\ ForwardFront = fwd_count /\ BackwardFront = Top - rev_count
    BY <1>2 DEF Inv, CountsExact, ForwardFront, BackwardFront
  <2>1. ASSUME NEW valread \in RecvReturns, RecvWifi(valread)
        PROVE  ReceivedWindow!Forward
    <3>1. valread \in 1 .. RX_BUFFER_SIZE
      BY <2>1 DEF RecvWifi, RecvReturns
    <3>2. ForwardFront' = fwd_count' /\ BackwardFront' = Top - rev_count
      BY <1>2, <2>1 DEF RecvWifi, ForwardFront, BackwardFront, Top, Pad
    <3>3. /\ fwd_count' = fwd_count + valread
          /\ Top - rev_count - fwd_count' >= -0
      BY <2>0, <2>1, <3>1 DEF Inv, Placed, Unfull, RecvWifi, Top, Pad
    <3> USE DEF ReceivedWindow!Forward
    <3> WITNESS valread \in 1 .. RX_BUFFER_SIZE
    <3> QED
      BY <2>0, <3>2, <3>3
  <2>2. ASSUME NEW valread \in RecvReturns, RecvWigi(valread)
        PROVE  ReceivedWindow!Backward
    <3>1. valread \in 1 .. RX_BUFFER_SIZE
      BY <2>2 DEF RecvWigi, RecvReturns
    <3>2. ForwardFront' = fwd_count /\ BackwardFront' = Top - rev_count'
      BY <1>2, <2>2 DEF RecvWigi, ForwardFront, BackwardFront, Top, Pad
    <3>3. /\ Top - rev_count' = Top - rev_count - valread
          /\ Top - rev_count' - fwd_count >= -0
      BY <2>0, <2>2, <3>1 DEF Inv, Placed, Unfull, RecvWigi, Top, Pad
    <3> USE DEF ReceivedWindow!Backward
    <3> WITNESS valread \in 1 .. RX_BUFFER_SIZE
    <3> QED
      BY <2>0, <3>2, <3>3
  <2>3. ASSUME NEW valread \in RecvReturns,
               WifiEmpty(valread) \/ WigiEmpty(valread)
        PROVE  UNCHANGED <<ForwardFront, BackwardFront>>
    BY <2>3 DEF WifiEmpty, WigiEmpty, ForwardFront, BackwardFront, Top, Pad
  <2>4. ASSUME CloseWindow PROVE ReceivedWindow!Turn
    <3>1. ForwardFront' = 0 /\ BackwardFront' = Top
      BY <1>2, <2>4 DEF CloseWindow, ForwardFront, BackwardFront, Top, Pad
    <3>2. Top - rev_count - fwd_count < Top - EXP_RX_SIZE
      BY <2>0, <2>4 DEF Inv, Placed, Unfull, CloseWindow, Top, Pad
    <3> QED
      BY <2>0, <3>1, <3>2 DEF ReceivedWindow!Turn
  <2>5. CASE UNCHANGED vars
    BY <2>5 DEF vars, ForwardFront, BackwardFront, Top, Pad
  <2> QED
    BY <2>1, <2>2, <2>3, <2>4, <2>5 DEF Next, ReceivedWindow!Next
<1> QED
  BY <1>1, <1>2 DEF Inv, Placed

\* The receiver implements the transmission window from its second window on,
\* whatever totalbytes starts from: each path delivers into it by at most a
\* chunk at a time, together they never deliver more than it holds, and it
\* closes with less than Top - EXP_RX_SIZE bytes missing.
THEOREM ImplementsWindow == Spec => ReceivesWindow
  BY Invariance, WindowInit, WindowStep, PTL
  DEF Spec, ReceivesWindow, ReceivedWindow!Spec
=============================================================================
