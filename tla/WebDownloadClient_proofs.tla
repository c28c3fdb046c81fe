---------------------- MODULE WebDownloadClient_proofs ----------------------
(***************************************************************************)
(* The web download receiver, for every size of buffer and container, every*)
(* sequence number a container may carry and every value of the variables  *)
(* that are never initialised.                                             *)
(***************************************************************************)
EXTENDS WebDownloadClient, FiniteSetTheorems, TLAPS

InWindow == pc \in {"wifi", "wigi", "ack"}

\* The types of the variables but for the ranges of the pointers.
Typed ==
  /\ pc \in {"clear", "command", "chunk", "wifi", "wigi", "ack", "done", "killed"}
  /\ trialNo \in Nat
  /\ filesize \in Int /\ lfilesize \in Int
  /\ wifi_seqno \in Int /\ wigig_seqno \in Int /\ fwd_ack \in Int /\ rev_ack \in Int
  /\ fwd_ptr \in Nat /\ rev_ptr \in Int /\ top \in Int
  /\ windows \in Nat /\ counted \in Nat
  /\ wifi_taken \subseteq Seqnos /\ wigi_taken \subseteq Seqnos
Flag == gone \in BOOLEAN

\* The pointers have not met while the window is open, unless they met as it
\* was opened.
Pointers ==
  /\ fwd_ptr <= BUFFER_SIZE + HEADER
  /\ rev_ptr >= -(Container + TAIL) /\ rev_ptr <= BUFFER_SIZE - RX_BUFFER_SIZE
  /\ top >= -TAIL /\ top <= BUFFER_SIZE - RX_BUFFER_SIZE
  /\ InWindow => fwd_ptr < rev_ptr \/ (fwd_ptr = 0 /\ rev_ptr = top /\ top <= 0)

\* No number that was counted is so near the end of int that the next wraps.
WifiInRange == \A seqno \in wifi_taken : seqno <= INT_MAX - RX_BUFFER_SIZE
WigiInRange == \A seqno \in wigi_taken : seqno >= INT_MIN + RX_BUFFER_SIZE

\* Then a sequence number that was counted has been passed,
Passed ==
  /\ WifiInRange => \A s \in wifi_taken : s < wifi_seqno
  /\ WigiInRange => \A s \in wigi_taken : wigig_seqno < s

\* and the pointers have gone the way of the containers in the sets.
Tallied ==
  /\ IsFiniteSet(wifi_taken) /\ IsFiniteSet(wigi_taken)
  /\ WifiInRange => fwd_ptr = Container * Cardinality(wifi_taken)
  /\ WigiInRange => top - rev_ptr = Container * Cardinality(wigi_taken)

\* What the windows opened so far stand for, against the containers counted.
Covered ==
  /\ pc = "chunk" =>
       lfilesize - filesize <= counted * Container + windows * (RX_BUFFER_SIZE + TAIL)
  /\ InWindow =>
       lfilesize - filesize + fwd_ptr - rev_ptr
         <= counted * Container + windows * (RX_BUFFER_SIZE + TAIL)
  /\ FileMissesLittle

\* In a window of the whole buffer the number expected over WiGig starts a
\* container above 0, and is below 0 after two of them.
Idle ==
  (InWindow \/ (pc = "chunk" /\ windows > 0)) /\ filesize > 0 /\ WigiInRange =>
    \/ Cardinality(wigi_taken \cap Nat) = 0 /\ wigig_seqno <= RX_BUFFER_SIZE
    \/ Cardinality(wigi_taken \cap Nat) <= 1 /\ wigig_seqno <= 0
    \/ Cardinality(wigi_taken \cap Nat) <= 2 /\ wigig_seqno < 0

Inv == Typed /\ Flag /\ Pointers /\ Passed /\ Tallied /\ Covered /\ Idle

\* The definitions the conjuncts of Inv are written with.
USE DEF InWindow, Container, FileMissesLittle, WifiInRange, WigiInRange

\* Inv holds as the program begins.
LEMMA InitInv == Init => Inv
<1> SUFFICES ASSUME Init PROVE Inv
  OBVIOUS
<1>1. Typed
  BY WebAssumption DEF Init, Typed
<1>2. Flag
  BY Zenon DEF Init, Flag
<1>3. Pointers /\ Passed /\ Covered /\ Idle
  BY WebAssumption DEF Init, Pointers, Passed, Covered, Idle
<1>4. Tallied
  BY WebAssumption, FS_EmptySet DEF Init, Tallied
<1> QED
  BY <1>1, <1>2, <1>3, <1>4 DEF Inv

\* No step but a read and an acknowledgement sets a flag, and a flag is only
\* set to a truth value.
LEMMA FlagNext == Flag /\ [Next]_vars => Flag'
BY Zenon
DEF Flag, Next, vars, PeerCloses, SendKills, ClearSockets, RecvCommand, CommandClosed, TakeCommand,
    OpenWholeWindow, OpenSmallWindow, OpenLastWindow, OpenWindow, CloseFile, RecvWifi,
    WifiNothing, RecvWigi, WigiNothing, SendAck, file, seqnos, acks, pointers, taken

-----------------------------------------------------------------------------
(* Between files *)

\* The sender's leaving, clear_sockets and the signal that ends the program
\* touch nothing that is counted.
LEMMA IdleInv ==
  ASSUME Inv, PeerCloses \/ SendKills \/ \E found \in BOOLEAN : ClearSockets(found)
  PROVE  (Typed /\ Pointers /\ Passed /\ Tallied /\ Covered /\ Idle)'
<1>1. /\ \/ pc' = pc \/ pc' = "killed"
         \/ pc = "clear" /\ pc' \in {"clear", "command"}
      /\ UNCHANGED <<file, seqnos, acks, pointers, taken>>
  BY DEF PeerCloses, SendKills, ClearSockets
<1> USE <1>1 DEF Inv, file, seqnos, acks, pointers, taken
<1>2. (Typed /\ Pointers /\ Passed /\ Tallied)'
  BY DEF Typed, Pointers, Passed, Tallied
<1>3. (Covered /\ Idle)'
  BY DEF Covered, Idle
<1> QED
  BY <1>2, <1>3

\* Any command opens a file with no window, or ends the trial.
LEMMA CommandInv ==
  ASSUME Inv, RecvCommand \/ CommandClosed
  PROVE  (Typed /\ Pointers /\ Passed /\ Tallied /\ Covered /\ Idle)'
<1>1. PICK command \in Int : pc = "command" /\ TakeCommand(command)
  BY WebAssumption DEF RecvCommand, CommandClosed, Inv, Typed, EndOfTrial
<1>2. /\ pc = "command" /\ pc' \in {"clear", "chunk", "done"}
      /\ filesize' = command /\ lfilesize' = command
      /\ trialNo' \in {trialNo, trialNo + 1}
      /\ windows' = 0 /\ counted' = 0
      /\ UNCHANGED <<seqnos, acks, fwd_ptr, rev_ptr, top, wifi_taken, wigi_taken>>
  BY <1>1 DEF TakeCommand
<1> USE <1>2 DEF Inv, seqnos, acks
<1>3. (Typed /\ Pointers /\ Passed /\ Tallied)'
  BY DEF Typed, Pointers, Passed, Tallied
<1>4. Idle'
  BY DEF Idle
<1>5. Covered'
  <2>1. (counted * Container + windows * (RX_BUFFER_SIZE + TAIL))' = 0
    BY WebAssumption
  <2>2. lfilesize' - filesize' <= 0
    OBVIOUS
  <2> QED
    BY <2>1, <2>2 DEF Covered
<1> QED
  BY <1>3, <1>4, <1>5

-----------------------------------------------------------------------------
(* The windows of a file *)

\* A window is opened with its sets empty and its pointers at its edges, and
\* stands for at most a chunk and the tail more than lies between them.
LEMMA OpenInv ==
  ASSUME Inv, OpenWholeWindow \/ OpenSmallWindow \/ OpenLastWindow
  PROVE  (Typed /\ Pointers /\ Passed /\ Tallied /\ Covered /\ Idle)'
<1>1. PICK above \in Int, expected \in Int, rest \in Int :
        /\ pc = "chunk"
        /\ OpenWindow(above, expected, rest)
        /\ above >= -TAIL /\ above <= BUFFER_SIZE - RX_BUFFER_SIZE
        /\ filesize - rest <= above + RX_BUFFER_SIZE + TAIL
        /\ rest > 0 => expected = RX_BUFFER_SIZE
  <2>1. CASE OpenWholeWindow
    BY <2>1, WebAssumption DEF OpenWholeWindow, Inv, Typed
  <2>2. CASE OpenSmallWindow
    BY <2>2, WebAssumption DEF OpenSmallWindow, Inv, Typed
  <2>3. CASE OpenLastWindow
    BY <2>3, WebAssumption DEF OpenLastWindow, Inv, Typed
  <2> QED
    BY <2>1, <2>2, <2>3
<1>2. /\ pc = "chunk" /\ pc' = "wifi"
      /\ rev_ptr' = above /\ top' = above /\ fwd_ptr' = 0
      /\ wigig_seqno' = expected /\ filesize' = rest /\ windows' = windows + 1
      /\ wifi_taken' = {} /\ wigi_taken' = {}
      /\ UNCHANGED <<trialNo, lfilesize, wifi_seqno, acks, counted>>
  BY <1>1 DEF OpenWindow
<1>3. Typed'
  BY <1>2 DEF Inv, Typed, acks
<1>4. Pointers' /\ Passed'
  BY <1>1, <1>2, WebAssumption DEF Pointers, Passed
<1>5. Tallied'
  BY <1>2, FS_EmptySet, WebAssumption DEF Tallied
<1>6. Covered'
  <2>1. windows' * (RX_BUFFER_SIZE + TAIL)
          = windows * (RX_BUFFER_SIZE + TAIL) + RX_BUFFER_SIZE + TAIL
    BY <1>2, WebAssumption DEF Inv, Typed
  <2>2. windows * (RX_BUFFER_SIZE + TAIL) \in Int /\ counted * Container \in Int
    BY WebAssumption DEF Inv, Typed
  <2>3. lfilesize - filesize <= counted * Container + windows * (RX_BUFFER_SIZE + TAIL)
    BY <1>2 DEF Inv, Covered
  <2>4. (lfilesize - filesize + fwd_ptr - rev_ptr)'
          <= counted * Container + windows' * (RX_BUFFER_SIZE + TAIL)
    BY <1>1, <1>2, <2>1, <2>2, <2>3, WebAssumption DEF Inv, Typed
  <2> QED
    BY <1>2, <2>4 DEF Covered
<1>7. Idle'
  <2>1. wigi_taken' \cap Nat = {}
    BY <1>2
  <2>2. Cardinality(wigi_taken' \cap Nat) = 0
    BY <2>1, FS_EmptySet
  <2>3. filesize' > 0 => wigig_seqno' <= RX_BUFFER_SIZE
    BY <1>1, <1>2, WebAssumption
  <2> QED
    BY <2>2, <2>3 DEF Idle
<1> QED
  BY <1>3, <1>4, <1>5, <1>6, <1>7

\* Closing a file only looks back on it.
LEMMA CloseInv ==
  ASSUME Inv, CloseFile
  PROVE  (Typed /\ Pointers /\ Passed /\ Tallied /\ Covered /\ Idle)'
<1>1. /\ pc = "chunk" /\ pc' = "clear" /\ filesize <= 0
      /\ UNCHANGED <<file, seqnos, acks, pointers, taken>>
  BY DEF CloseFile
<1> USE <1>1 DEF Inv, file, seqnos, acks, pointers, taken
<1>2. (Typed /\ Pointers /\ Passed /\ Tallied)'
  BY DEF Typed, Pointers, Passed, Tallied
<1>3. Covered'
  <2>1. counted * Container + windows * (RX_BUFFER_SIZE + TAIL) \in Int
    BY WebAssumption DEF Typed
  <2>2. lfilesize <= counted * Container + windows * (RX_BUFFER_SIZE + TAIL)
    BY <2>1 DEF Covered, Typed
  <2> QED
    BY <2>2 DEF Covered
<1>4. Idle'
  BY DEF Idle
<1> QED
  BY <1>2, <1>3, <1>4

\* A container that is counted: its number is new to its set.
LEMMA CountInv ==
  ASSUME NEW S, NEW seqno, NEW front \in Int,
         IsFiniteSet(S), front = Container * Cardinality(S), seqno \notin S
  PROVE  /\ IsFiniteSet(S \cup {seqno})
         /\ front + Container = Container * Cardinality(S \cup {seqno})
<1>1. Cardinality(S) \in Nat /\ Container \in Nat
  BY FS_CardinalityType, WebAssumption
<1>2. Container * (Cardinality(S) + 1) = Container * Cardinality(S) + Container
  BY <1>1
<1> QED
  BY <1>2, FS_AddElement

\* One element more makes a finite set one larger at most.
LEMMA OneMore ==
  ASSUME NEW S, NEW x, IsFiniteSet(S)
  PROVE  /\ Cardinality(S \cup {x}) \in Nat
         /\ Cardinality(S \cup {x}) <= Cardinality(S) + 1
<1>1. Cardinality(S) \in Nat
  BY FS_CardinalityType
<1>2. Cardinality(S \cup {x}) = IF x \in S THEN Cardinality(S) ELSE Cardinality(S) + 1
  BY FS_AddElement
<1> QED
  BY <1>1, <1>2

\* As long as no counted number is near the end of int, the next is not wrapped.
LEMMA UpInRange ==
  ASSUME NEW seqno \in Seqnos, wifi_taken' = wifi_taken \cup {seqno}, WifiInRange'
  PROVE  WifiInRange /\ AsInt(seqno + RX_BUFFER_SIZE) = seqno + RX_BUFFER_SIZE
<1>1. seqno \in Int /\ seqno >= INT_MIN /\ INT_MIN \in Int
  BY WebAssumption DEF INT_MIN
<1>2. WifiInRange /\ seqno <= INT_MAX - RX_BUFFER_SIZE
  OBVIOUS
<1> QED
  BY <1>1, <1>2, WebAssumption DEF AsInt

LEMMA DownInRange ==
  ASSUME NEW seqno \in Seqnos, wigi_taken' = wigi_taken \cup {seqno}, WigiInRange'
  PROVE  WigiInRange /\ AsInt(seqno - RX_BUFFER_SIZE) = seqno - RX_BUFFER_SIZE
<1>1. seqno \in Int /\ seqno <= INT_MAX /\ INT_MIN \in Int
  BY WebAssumption DEF INT_MIN
<1>2. WigiInRange /\ seqno >= INT_MIN + RX_BUFFER_SIZE
  OBVIOUS
<1> QED
  BY <1>1, <1>2, WebAssumption DEF AsInt

\* Containers, counted or refused, and reads that find none.
LEMMA ReadInv ==
  ASSUME Inv,
         \/ \E seqno \in Seqnos : RecvWifi(seqno) \/ RecvWigi(seqno)
         \/ WifiNothing \/ WigiNothing
  PROVE  (Typed /\ Pointers /\ Passed /\ Tallied /\ Covered /\ Idle)'
<1> DEFINE Goal == Typed /\ Pointers /\ Passed /\ Tallied /\ Covered /\ Idle
<1>0. /\ windows * (RX_BUFFER_SIZE + TAIL) \in Int /\ counted * Container \in Int
      /\ (counted + 1) * Container = counted * Container + Container
      /\ Container \in Nat \ {0}
  BY WebAssumption DEF Inv, Typed
<1>1. ASSUME NEW seqno \in Seqnos, RecvWifi(seqno), FreshWifi(seqno)
      PROVE  Goal'
  <2>1. /\ pc = "wifi" /\ pc' \in {"chunk", "wigi"}
        /\ wifi_seqno' = AsInt(seqno + RX_BUFFER_SIZE) /\ seqno >= wifi_seqno
        /\ fwd_ptr' = fwd_ptr + Container /\ counted' = counted + 1
        /\ wifi_taken' = wifi_taken \cup {seqno}
        /\ pc' = "chunk" <=> fwd_ptr' >= rev_ptr
        /\ UNCHANGED <<file, wigig_seqno, acks, rev_ptr, top, windows, wigi_taken>>
    BY <1>1 DEF RecvWifi, FreshWifi, WifiNext
  <2> USE <2>1 DEF Inv, file, acks
  <2>2. seqno \in Int
    BY WebAssumption DEF INT_MIN
  <2>3. WifiInRange' => WifiInRange /\ wifi_seqno' = seqno + RX_BUFFER_SIZE
    BY <2>2, UpInRange
  <2>4. Typed' /\ Pointers'
    <3>1. wifi_seqno' \in Int
      BY <2>2, WebAssumption DEF AsInt, INT_MIN
    <3>2. Typed'
      BY <2>2, <3>1, WebAssumption DEF Typed
    <3>3. Pointers'
      BY WebAssumption DEF Pointers, Typed
    <3> QED
      BY <3>2, <3>3
  <2>5. Passed'
    BY <2>2, <2>3, WebAssumption DEF Passed, Typed
  <2>6. WifiInRange => seqno \notin wifi_taken
    BY <2>2 DEF Passed, Typed
  <2>7. Tallied'
    <3>1. IsFiniteSet(wifi_taken')
      BY FS_AddElement DEF Tallied
    <3>2. ASSUME WifiInRange'
          PROVE  fwd_ptr + Container = Container * Cardinality(wifi_taken')
      BY <2>3, <2>6, <3>2, CountInv DEF Tallied, Typed
    <3> QED
      BY <2>3, <3>1, <3>2 DEF Tallied
  <2>8. Covered'
    BY <1>0 DEF Covered, Typed
  <2>9. Idle'
    BY DEF Idle
  <2> QED
    BY <2>4, <2>5, <2>7, <2>8, <2>9
<1>2. ASSUME NEW seqno \in Seqnos, RecvWigi(seqno), FreshWigi(seqno)
      PROVE  Goal'
  <2>1. /\ pc = "wigi" /\ pc' \in {"chunk", "ack"}
        /\ wigig_seqno' = AsInt(seqno - RX_BUFFER_SIZE) /\ seqno <= wigig_seqno
        /\ rev_ptr' = rev_ptr - Container /\ counted' = counted + 1
        /\ wigi_taken' = wigi_taken \cup {seqno}
        /\ pc' = "chunk" <=> fwd_ptr >= rev_ptr'
        /\ UNCHANGED <<file, wifi_seqno, acks, fwd_ptr, top, windows, wifi_taken>>
    BY <1>2 DEF RecvWigi, FreshWigi
  <2> USE <2>1 DEF Inv, file, acks
  <2>2. seqno \in Int
    BY WebAssumption DEF INT_MIN
  <2>3. WigiInRange' => WigiInRange /\ wigig_seqno' = seqno - RX_BUFFER_SIZE
    BY <2>2, DownInRange
  <2>4. Typed' /\ Pointers'
    <3>1. wigig_seqno' \in Int
      BY <2>2, WebAssumption DEF AsInt, INT_MIN
    <3>2. Typed'
      BY <2>2, <3>1, WebAssumption DEF Typed
    <3>3. Pointers'
      BY WebAssumption DEF Pointers, Typed
    <3> QED
      BY <3>2, <3>3
  <2>5. Passed'
    BY <2>2, <2>3, WebAssumption DEF Passed, Typed
  <2>6. WigiInRange => seqno \notin wigi_taken
    BY <2>2 DEF Passed, Typed
  <2>7. Tallied'
    <3>1. IsFiniteSet(wigi_taken')
      BY FS_AddElement DEF Tallied
    <3>2. ASSUME WigiInRange'
          PROVE  top - rev_ptr + Container = Container * Cardinality(wigi_taken')
      BY <2>3, <2>6, <3>2, CountInv DEF Tallied, Typed
    <3> QED
      BY <1>0, <2>3, <3>1, <3>2 DEF Tallied, Typed
  <2>8. Covered'
    BY <1>0 DEF Covered, Typed
  <2>9. Idle'
    <3> DEFINE N == wigi_taken \cap Nat
               N2 == wigi_taken' \cap Nat
    <3> SUFFICES ASSUME filesize > 0, WigiInRange'
                 PROVE  \/ Cardinality(N2) = 0 /\ wigig_seqno' <= RX_BUFFER_SIZE
                        \/ Cardinality(N2) <= 1 /\ wigig_seqno' <= 0
                        \/ Cardinality(N2) <= 2 /\ wigig_seqno' < 0
      BY DEF Idle
    <3>1. IsFiniteSet(N) /\ Cardinality(N) \in Nat
      BY FS_Intersection, FS_CardinalityType DEF Tallied
    <3>2. \/ Cardinality(N) = 0 /\ wigig_seqno <= RX_BUFFER_SIZE
          \/ Cardinality(N) <= 1 /\ wigig_seqno <= 0
          \/ Cardinality(N) <= 2 /\ wigig_seqno < 0
      BY <2>3 DEF Idle
    <3>3. wigig_seqno' = seqno - RX_BUFFER_SIZE /\ wigig_seqno \in Int
      BY <2>3 DEF Typed
    <3>4. CASE seqno \in Nat
      <4>1. N2 = N \cup {seqno}
        BY <3>4
      <4> HIDE DEF N, N2
      <4>2. /\ Cardinality(N \cup {seqno}) \in Nat
            /\ Cardinality(N \cup {seqno}) <= Cardinality(N) + 1
        BY <3>1, OneMore
      <4> QED
        BY <3>1, <3>2, <3>3, <3>4, <4>1, <4>2, WebAssumption
    <3>5. CASE seqno \notin Nat
      <4>1. N2 = N
        BY <3>5
      <4> HIDE DEF N, N2
      <4> QED
        BY <2>2, <3>1, <3>2, <3>3, <3>5, <4>1, WebAssumption
    <3> QED
      BY <3>4, <3>5
  <2> QED
    BY <2>4, <2>5, <2>7, <2>8, <2>9
<1>3. ASSUME \/ WifiNothing \/ WigiNothing
             \/ \E seqno \in Seqnos : RecvWifi(seqno) /\ ~FreshWifi(seqno)
             \/ \E seqno \in Seqnos : RecvWigi(seqno) /\ ~FreshWigi(seqno)
      PROVE  Goal'
  <2>1. /\ pc \in {"wifi", "wigi"} /\ pc' \in {"wigi", "ack", "chunk"}
        /\ pc' = "chunk" => fwd_ptr >= rev_ptr
        /\ UNCHANGED <<file, seqnos, acks, pointers, taken>>
    BY <1>3 DEF WifiNothing, WigiNothing, RecvWifi, RecvWigi, WifiNext,
                file, seqnos, acks, pointers, taken
  <2> USE <2>1 DEF Inv, file, seqnos, acks, pointers, taken
  <2>2. (Typed /\ Pointers /\ Passed /\ Tallied)'
    BY DEF Typed, Pointers, Passed, Tallied
  <2>3. Covered'
    BY <1>0 DEF Covered, Typed
  <2>4. Idle'
    BY DEF Idle, Pointers, Typed
  <2> QED
    BY <2>2, <2>3, <2>4
<1> QED
  BY <1>1, <1>2, <1>3

\* An acknowledgement is never the end of a window with room in it.
LEMMA AckInv ==
  ASSUME Inv, NEW ret1 \in {-1, 1}, SendAck(ret1)
  PROVE  (Typed /\ Pointers /\ Passed /\ Tallied /\ Covered /\ Idle)'
<1>1. /\ pc = "ack" /\ pc' \in {"chunk", "wifi"}
      /\ pc' = "chunk" => fwd_ptr >= rev_ptr
      /\ fwd_ack' \in {fwd_ack, wifi_seqno} /\ rev_ack' \in {rev_ack, wigig_seqno}
      /\ UNCHANGED <<file, seqnos, pointers, counted, wifi_taken, wigi_taken>>
  BY DEF SendAck, acks
<1> USE <1>1 DEF Inv, file, seqnos, pointers
<1>2. (Typed /\ Pointers /\ Passed /\ Tallied)'
  BY DEF Typed, Pointers, Passed, Tallied
<1>3. Covered'
  <2>1. windows * (RX_BUFFER_SIZE + TAIL) \in Int /\ counted * Container \in Int
    BY WebAssumption DEF Typed
  <2> QED
    BY <2>1 DEF Covered, Typed
<1>4. Idle'
  BY DEF Idle, Pointers, Typed
<1> QED
  BY <1>2, <1>3, <1>4

-----------------------------------------------------------------------------
\* Inv is an invariant of the program.
LEMMA Invariance == Spec => []Inv
<1>1. ASSUME Inv, [Next]_vars PROVE Inv'
  <2>1. Flag'
    BY <1>1, FlagNext DEF Inv
  <2>2. CASE UNCHANGED vars
    BY <1>1, <2>1, <2>2
    DEF Inv, vars, file, seqnos, acks, pointers, taken,
        Typed, Pointers, Passed, Tallied, Covered, Idle
  <2> QED
    BY <1>1, <2>1, <2>2, IdleInv, CommandInv, OpenInv, CloseInv, ReadInv, AckInv
    DEF Next, Inv
<1> QED
  BY <1>1, InitInv, PTL DEF Spec

\* The variables keep their types; fwd_ptr passes the top of the buffer by a
\* header at most, and rev_ptr its bottom by a container and the tail.
THEOREM TypeCorrect == Spec => []TypeOK
<1>1. Inv => TypeOK
  BY WebAssumption DEF Inv, Typed, Flag, Pointers, TypeOK
<1> QED
  BY <1>1, Invariance, PTL

\* No container is counted twice on its path within a window, whatever is sent
\* again and whatever the headers say, as long as none that was counted is so
\* near the end of int that the number expected next wraps.
THEOREM EachCountedOnce == Spec => []CountedOnce
<1>1. Inv => CountedOnce
  BY DEF Inv, Tallied, CountedOnce
<1> QED
  BY <1>1, Invariance, PTL

\* A file whose time is taken lacks no more than its headers, a chunk and the
\* tail of every window.
THEOREM FilesMissLittle == Spec => []FileMissesLittle
<1>1. Inv => FileMissesLittle
  BY DEF Inv, Covered
<1> QED
  BY <1>1, Invariance, PTL

\* Of the containers of a file of more than a buffer WiGig is let to bring two
\* at most to a window that leaves a rest of it.
THEOREM WigigStaysIdle == Spec => []WigigIdleInLargeFiles
<1>1. Inv => WigigIdleInLargeFiles
  <2> SUFFICES ASSUME Inv, InWindow \/ (pc = "chunk" /\ windows > 0),
                      filesize > 0, WigiInRange
               PROVE  Cardinality(wigi_taken \cap Nat) <= 2
    BY DEF WigigIdleInLargeFiles
  <2>1. Cardinality(wigi_taken \cap Nat) \in Nat
    BY FS_CardinalityType, FS_Intersection DEF Inv, Tallied
  <2> QED
    BY <2>1 DEF Inv, Idle
<1> QED
  BY <1>1, Invariance, PTL
=============================================================================
