-------------------------- MODULE Download_proofs --------------------------
(***************************************************************************)
(* What the download receivers count to a file, for every size of buffer,  *)
(* chunk, int and file, every tolerance, and however the bytes arrive.     *)
(***************************************************************************)
EXTENDS Download, Bytes_proofs

InWindow == pc \in {"wifi", "wigi", "check"}
InFile == InWindow \/ pc = "chunk"

\* A whole window is closed with this much of it counted at least.
Whole == BUFFER_SIZE - RX_BUFFER_SIZE - TAIL

\* Where rev_ptr started in the window that is open.
WindowTop ==
  IF filesize > 0 THEN Whole ELSE lfilesize - (windows - 1) * BUFFER_SIZE - TAIL

\* The tolerance would call the file complete.
NearlyDone == Tolerant /\ got >= lfilesize - error

\* The types of the receiver's variables but for its pointers.
Typed ==
  /\ prog \in Programs
  /\ pc \in {"command", "clear", "chunk", "wifi", "wigi", "check"}
  /\ filesize \in Int /\ lfilesize \in Int /\ gfilesize \in Int
  /\ bytes \in Nat /\ got \in Nat /\ windows \in Nat
  /\ fwd_ptr \in Nat /\ rev_ptr \in Int

\* The types of the sender's variables and of the connections.
SenderTyped ==
  /\ cmd \in Seq(Sizes \cup {EndOfTrial})
  /\ wifi \in 0 .. CAP /\ wigi \in 0 .. CAP
  /\ tosend \in Nat /\ left \in 0 .. COMMANDS
  /\ closed \in BOOLEAN

\* A recv is made only with the pointers apart, or at the start of a window.
Pointers ==
  /\ fwd_ptr < BUFFER_SIZE - TAIL + RX_BUFFER_SIZE
  /\ rev_ptr \in -(TAIL + RX_BUFFER_SIZE) .. BUFFER_SIZE - TAIL
  /\ pc \in {"wifi", "wigi"} => rev_ptr >= -TAIL /\ (fwd_ptr = 0 \/ fwd_ptr < rev_ptr)

\* Which part of the file the windows stand for.
Covered ==
  /\ pc \in {"command", "clear"} => filesize <= 0
  /\ pc = "clear" => windows = 0
  /\ InFile => bytes <= got
  /\ pc = "chunk" /\ windows = 0 => got = 0
  /\ pc = "chunk" /\ filesize > 0 => lfilesize - filesize = windows * BUFFER_SIZE
  /\ InWindow => /\ windows > 0 /\ filesize >= 0
                 /\ filesize > 0 => lfilesize - filesize = windows * BUFFER_SIZE

\* The count keeps up with the windows.
KeepsUp ==
  /\ pc = "chunk" /\ filesize > 0 => NearlyDone \/ got >= windows * Whole
  /\ pc \in {"chunk", "command"} /\ filesize <= 0 /\ windows > 0 =>
       NearlyDone \/ lfilesize - got <= WindowsLeave
  /\ InWindow =>
       NearlyDone \/ got >= (windows - 1) * Whole + fwd_ptr + WindowTop - rev_ptr

\* And the tolerance keeps it from running on.
Limit == Larger(lfilesize - error, 0)
RunsOn ==
  prog = "filedownload" =>
    /\ InFile => bytes = got
    /\ pc # "wigi"
    /\ pc = "wifi" => got <= Limit + (windows - 1) * RX_BUFFER_SIZE
    /\ pc \in {"chunk", "check"} => got <= Limit + windows * RX_BUFFER_SIZE
    /\ FileClosed => got <= Limit + windows * RX_BUFFER_SIZE

\* What the receiver keeps true of its own variables, and the whole.
ClientInv == Typed /\ Pointers /\ Covered /\ KeepsUp /\ RunsOn
Inv == ClientInv /\ SenderTyped

\* Inv holds as the session begins.
LEMMA InitInv == Init => Inv
<1> SUFFICES ASSUME Init PROVE Inv
  OBVIOUS
<1> USE DownloadAssumption, SenderAssumption DEF Init, ClientInit
<1>1. Typed /\ Pointers /\ Covered
  BY DEF Typed, Pointers, Covered, InFile, InWindow
<1>2. SenderTyped
  <2>1. <<>> \in Seq(Sizes \cup {EndOfTrial})
    OBVIOUS
  <2>2. closed \in BOOLEAN
    BY Zenon
  <2>3. wifi \in 0 .. CAP /\ wigi \in 0 .. CAP /\ tosend \in Nat /\ left \in 0 .. COMMANDS
    OBVIOUS
  <2> QED
    BY <2>1, <2>2, <2>3 DEF SenderTyped
<1>3. KeepsUp /\ RunsOn
  BY DEF KeepsUp, RunsOn, InFile, InWindow, FileClosed
<1> QED
  BY <1>1, <1>2, <1>3 DEF Inv, ClientInv

\* What Larger returns beside zero.
LEMMA LargerThanZero == ASSUME NEW n \in Int PROVE Larger(n, 0) \in Nat
BY DEF Larger

-----------------------------------------------------------------------------
(* The sender *)

\* None of the conjuncts about the receiver reads a variable of the sender.
LEMMA ClientUnchanged ==
  ASSUME ClientInv, UNCHANGED client
  PROVE  ClientInv'
BY DEF ClientInv, client, Typed, Pointers, Covered, KeepsUp, RunsOn, InFile, InWindow,
       FileClosed, WindowTop, NearlyDone, Tolerant, WindowsLeave, Limit

\* The sender's calls keep its types and the bounds of the connections.
LEMMA SenderInv == ASSUME Inv, SenderStep PROVE Inv'
<1> USE SenderAssumption
<1>1. UNCHANGED client
  BY DEF SenderStep, SendCommand, SendWifi, SendWigi, Close
<1>2. SenderTyped'
  <2>1. ASSUME NEW c \in Sizes \cup {EndOfTrial}, SendCommand(c)
        PROVE  SenderTyped'
    BY <2>1 DEF Inv, SenderTyped, SendCommand, EndOfTrial
  <2>2. CASE SendWifi
    BY <2>2 DEF Inv, SenderTyped, SendWifi, Block
  <2>3. CASE SendWigi
    BY <2>3 DEF Inv, SenderTyped, SendWigi, Block
  <2>4. CASE Close
    BY <2>4 DEF Inv, SenderTyped, Close
  <2> QED
    BY <2>1, <2>2, <2>3, <2>4 DEF SenderStep
<1> QED
  BY <1>1, <1>2, ClientUnchanged DEF Inv
-----------------------------------------------------------------------------
(* The receiver between files *)

\* The definitions the conjuncts of ClientInv are written with.
USE DEF InFile, InWindow, FileClosed

\* A file that has just been opened has no window and no byte.
LEMMA OpenFileInv ==
  ASSUME ClientInv, pc = "command", OpenFile,
         filesize' \in Int, lfilesize' \in Int, gfilesize' \in Int,
         filesize' > 0 => lfilesize' = filesize'
  PROVE  ClientInv'
<1> USE DEF OpenFile
<1>1. Typed'
  BY DEF ClientInv, Typed
<1>2. Pointers'
  BY DEF ClientInv, Pointers
<1>3. windows' = 0 /\ got' = 0 /\ bytes' = 0 /\ pc' = "chunk"
  OBVIOUS
<1>4. 0 * BUFFER_SIZE = 0 /\ 0 * RX_BUFFER_SIZE = 0 /\ 0 * Whole = 0
  BY DownloadAssumption DEF Whole
<1>5. Covered'
  BY <1>3, <1>4 DEF Covered
<1>6. KeepsUp'
  BY <1>3, <1>4 DEF KeepsUp
<1>7. RunsOn'
  <2>1. (Limit)' \in Nat
    <3>1. lfilesize' - error \in Int
      BY DownloadAssumption
    <3> QED
      BY <3>1, LargerThanZero DEF Limit
  <2>2. (windows * RX_BUFFER_SIZE)' = 0
    BY <1>3, <1>4
  <2>3. (got <= Limit + windows * RX_BUFFER_SIZE)'
    BY <1>3, <2>1, <2>2
  <2> QED
    BY <1>3, <2>3 DEF RunsOn
<1> QED
  BY <1>1, <1>2, <1>5, <1>6, <1>7 DEF ClientInv

\* Every answer of the command connection, and clearing the sockets, leaves
\* the receiver between files or with a file just opened.
LEMMA CommandInv ==
  ASSUME ClientInv,
         \/ \E size \in Sizes : RecvSize(size)
         \/ ReuseSize \/ CommandClosed \/ RecvEndOfTrial
         \/ \E valread \in Nat : ClearSockets(valread)
  PROVE  ClientInv'
<1> USE DownloadAssumption, SenderAssumption
<1>1. ASSUME NEW size \in Sizes, RecvSize(size)
      PROVE  ClientInv'
  BY <1>1, OpenFileInv DEF RecvSize
<1>2. CASE ReuseSize
  BY <1>2, OpenFileInv DEF ReuseSize, ClientInv, Typed
<1>3. CASE CommandClosed
  BY <1>3, OpenFileInv DEF CommandClosed, ClientInv, Typed, Covered
<1>4. CASE RecvEndOfTrial
  <2> USE <1>4 DEF ClientInv, RecvEndOfTrial, EndOfTrial
  <2>1. Typed'
    BY DEF Typed
  <2>2. Pointers' /\ Covered' /\ KeepsUp' /\ RunsOn'
    BY <2>1 DEF Typed, Pointers, Covered, KeepsUp, RunsOn
  <2> QED
    BY <2>1, <2>2
<1>5. ASSUME NEW valread \in Nat, ClearSockets(valread)
      PROVE  ClientInv'
  <2> USE <1>5 DEF ClientInv, ClearSockets
  <2>1. Typed'
    BY DEF Typed
  <2>2. Pointers' /\ Covered' /\ KeepsUp' /\ RunsOn'
    BY <2>1 DEF Typed, Pointers, Covered, KeepsUp, RunsOn
  <2> QED
    BY <2>1, <2>2
<1> QED
  BY <1>1, <1>2, <1>3, <1>4, <1>5

-----------------------------------------------------------------------------
(* The receiver in a file *)

\* Opening a window: the file's size is what the windows stand for and what
\* is left.
LEMMA OpenWindowInv ==
  ASSUME ClientInv, OpenWholeWindow \/ OpenLastWindow
  PROVE  ClientInv'
<1> USE DownloadAssumption DEF ClientInv
<1>1. CASE OpenWholeWindow
  <2> USE <1>1 DEF OpenWholeWindow
  <2>1. Typed'
    BY DEF Typed
  <2>2. Pointers'
    BY <2>1 DEF Typed, Pointers
  <2>3. Covered'
    BY <2>1 DEF Typed, Covered
  <2>4. KeepsUp'
    BY <2>1 DEF Typed, Covered, KeepsUp, NearlyDone, Tolerant, WindowTop, Whole
  <2>5. RunsOn'
    BY <2>1 DEF Typed, RunsOn, Limit
  <2> QED
    BY <2>1, <2>2, <2>3, <2>4, <2>5
<1>2. CASE OpenLastWindow
  <2> USE <1>2 DEF OpenLastWindow
  <2>1. Typed'
    BY DEF Typed
  <2>2. Pointers'
    BY <2>1 DEF Typed, Pointers
  <2>3. Covered'
    BY <2>1 DEF Typed, Covered
  <2>4. KeepsUp'
    BY <2>1 DEF Typed, Covered, KeepsUp, NearlyDone, Tolerant, WindowTop, Whole
  <2>5. RunsOn'
    BY <2>1 DEF Typed, RunsOn, Limit
  <2> QED
    BY <2>1, <2>2, <2>3, <2>4, <2>5
<1> QED
  BY <1>1, <1>2

\* A chunk, from either path: a pointer moves by no more than its bytes, and
\* while the pointers are apart by no more than a chunk past the other.
LEMMA ChunkInv ==
  ASSUME ClientInv, NEW valread \in 1 .. RX_BUFFER_SIZE,
         RecvWifi(valread) \/ RecvWigi(valread)
  PROVE  ClientInv'
<1> DEFINE moved == Words(valread, WORD)
<1>1. moved \in Nat /\ moved <= valread /\ valread \in Nat
      /\ valread <= RX_BUFFER_SIZE
  BY DownloadAssumption, WordsBound
<1> HIDE DEF moved
<1> USE DownloadAssumption
<1>2. CASE RecvWifi(valread)
  <2>0. /\ pc = "wifi" /\ pc' \in {"chunk", "wigi", "check"}
        /\ fwd_ptr' = fwd_ptr + moved /\ got' = got + valread
        /\ bytes' = (IF Tolerant THEN bytes + valread ELSE 0)
        /\ pc' = "chunk" => fwd_ptr' >= rev_ptr
        /\ pc' # "chunk" => fwd_ptr' < rev_ptr
        /\ pc' = "wigi" => prog = "livevideo"
        /\ UNCHANGED <<prog, filesize, lfilesize, gfilesize, rev_ptr, windows>>
    BY <1>1, <1>2 DEF RecvWifi, moved, TwoPaths, ClientInv, Typed
  <2>1. Typed'
    BY <1>1, <2>0 DEF ClientInv, Typed
  <2>2. Pointers'
    BY <1>1, <2>0 DEF ClientInv, Typed, Pointers
  <2>3. Covered'
    BY <1>1, <2>0 DEF ClientInv, Typed, Covered
  <2>4. KeepsUp'
    BY <1>1, <2>0 DEF ClientInv, Typed, Covered, KeepsUp, NearlyDone, Tolerant,
                      WindowTop, WindowsLeave, Whole
  <2>5. RunsOn'
    BY <1>1, <2>0, LargerThanZero DEF ClientInv, Typed, RunsOn, Limit, Tolerant
  <2> QED
    BY <2>1, <2>2, <2>3, <2>4, <2>5 DEF ClientInv
<1>3. CASE RecvWigi(valread)
  <2>0. /\ pc = "wigi" /\ pc' \in {"chunk", "check"}
        /\ rev_ptr' = rev_ptr - moved /\ got' = got + valread
        /\ bytes' = (IF Tolerant THEN bytes + valread ELSE 0)
        /\ pc' = "chunk" => fwd_ptr >= rev_ptr'
        /\ UNCHANGED <<prog, filesize, lfilesize, gfilesize, fwd_ptr, windows>>
    BY <1>1, <1>3 DEF RecvWigi, moved, ClientInv, Typed
  <2>1. Typed'
    BY <1>1, <2>0 DEF ClientInv, Typed
  <2>2. Pointers'
    BY <1>1, <2>0 DEF ClientInv, Typed, Pointers
  <2>3. Covered'
    BY <1>1, <2>0 DEF ClientInv, Typed, Covered
  <2>4. KeepsUp'
    BY <1>1, <2>0 DEF ClientInv, Typed, Covered, KeepsUp, NearlyDone, Tolerant,
                      WindowTop, WindowsLeave, Whole
  <2>5. RunsOn'
    BY <2>0 DEF ClientInv, RunsOn
  <2> QED
    BY <2>1, <2>2, <2>3, <2>4, <2>5 DEF ClientInv
<1> QED
  BY <1>2, <1>3

\* A turn that takes nothing: it goes on only while the file lacks bytes, and
\* ends a window only when the pointers have met or the file is nearly done.
LEMMA TurnInv ==
  ASSUME ClientInv,
         \/ WifiEmpty \/ WigiEmpty \/ CloseFile \/ CheckEnds
         \/ \E second \in BOOLEAN : CheckGoesOn(second)
  PROVE  ClientInv'
<1> USE DownloadAssumption
<1>1. CASE WifiEmpty \/ WigiEmpty
  <2>0. /\ pc \in {"wifi", "wigi"} /\ pc' \in {"wigi", "check"}
        /\ pc' = "wigi" => prog = "livevideo" /\ pc = "wifi"
        /\ UNCHANGED <<prog, filesize, lfilesize, gfilesize, bytes, fwd_ptr,
                       rev_ptr, got, windows>>
    BY <1>1 DEF WifiEmpty, WigiEmpty, TwoPaths
  <2>1. Typed' /\ Pointers' /\ Covered'
    BY <2>0 DEF ClientInv, Typed, Pointers, Covered
  <2>2. KeepsUp'
    BY <2>0 DEF ClientInv, KeepsUp, NearlyDone, Tolerant, WindowTop
  <2>3. RunsOn'
    <3>1. (windows - 1) * RX_BUFFER_SIZE <= windows * RX_BUFFER_SIZE
      BY DEF ClientInv, Typed
    <3>2. Limit \in Nat /\ Limit' = Limit
      BY <2>0, LargerThanZero DEF ClientInv, Typed, Limit
    <3>3. pc = "wifi" /\ prog = "filedownload" =>
            got <= Limit + windows * RX_BUFFER_SIZE
      BY <3>1, <3>2 DEF ClientInv, Typed, RunsOn
    <3> QED
      BY <2>0, <3>2, <3>3 DEF ClientInv, RunsOn
  <2> QED
    BY <2>1, <2>2, <2>3 DEF ClientInv
<1>2. CASE CloseFile
  <2> USE <1>2 DEF CloseFile, ClientInv
  <2>1. Typed' /\ Pointers' /\ Covered'
    BY DEF Typed, Pointers, Covered
  <2>2. KeepsUp' /\ RunsOn'
    BY DEF KeepsUp, NearlyDone, Tolerant, WindowsLeave, RunsOn, Limit
  <2> QED
    BY <2>1, <2>2
<1>3. CASE CheckEnds
  <2>0. /\ pc = "check" /\ pc' = "chunk"
        /\ fwd_ptr >= rev_ptr \/ (Tolerant /\ bytes >= lfilesize - error)
        /\ UNCHANGED <<prog, filesize, lfilesize, gfilesize, bytes, fwd_ptr,
                       rev_ptr, got, windows>>
    BY <1>3 DEF CheckEnds, Enough
  <2>1. Typed' /\ Pointers' /\ Covered'
    BY <2>0 DEF ClientInv, Typed, Pointers, Covered
  <2>2. KeepsUp'
    BY <2>0 DEF ClientInv, Typed, Covered, KeepsUp, NearlyDone, Tolerant,
                WindowTop, WindowsLeave, Whole
  <2>3. RunsOn'
    BY <2>0 DEF ClientInv, RunsOn, Limit
  <2> QED
    BY <2>1, <2>2, <2>3 DEF ClientInv
<1>4. ASSUME NEW second \in BOOLEAN, CheckGoesOn(second)
      PROVE  ClientInv'
  <2>0. /\ pc = "check" /\ pc' = "wifi"
        /\ fwd_ptr < rev_ptr /\ ~(Tolerant /\ bytes >= lfilesize - error)
        /\ bytes' \in {0, bytes} /\ (prog = "filedownload" => bytes' = bytes)
        /\ UNCHANGED <<prog, filesize, lfilesize, gfilesize, fwd_ptr, rev_ptr,
                       got, windows>>
    BY <1>4 DEF CheckGoesOn, Enough, Meters
  <2>1. Typed' /\ Pointers' /\ Covered'
    BY <2>0 DEF ClientInv, Typed, Pointers, Covered
  <2>2. KeepsUp'
    BY <2>0 DEF ClientInv, KeepsUp, NearlyDone, Tolerant, WindowTop
  <2>3. RunsOn'
    <3>1. SUFFICES ASSUME prog = "filedownload"
                   PROVE  got <= Limit + (windows - 1) * RX_BUFFER_SIZE
      BY <2>0 DEF ClientInv, RunsOn, Limit
    <3>2. got < lfilesize - error
      BY <2>0, <3>1 DEF ClientInv, Typed, RunsOn, Tolerant
    <3>3. windows - 1 \in Nat
      BY <2>0 DEF ClientInv, Typed, Covered
    <3>4. (windows - 1) * RX_BUFFER_SIZE \in Nat
      BY <3>3
    <3>5. Limit = lfilesize - error
      BY <3>2 DEF ClientInv, Typed, Limit, Larger
    <3> QED
      BY <3>2, <3>4, <3>5 DEF ClientInv, Typed
  <2> QED
    BY <2>1, <2>2, <2>3 DEF ClientInv
<1> QED
  BY <1>1, <1>2, <1>3, <1>4

-----------------------------------------------------------------------------
(* The session *)

\* The receiver's steps keep the types of the connections.
LEMMA ReceiverInv == ASSUME Inv, ReceiverStep PROVE Inv'
<1> USE SenderAssumption DEF Inv
<1>1. CASE TakeCommand
  <2>1. cmd \in Seq(Sizes \cup {EndOfTrial}) /\ cmd # <<>>
    BY <1>1 DEF TakeCommand, SenderTyped
  <2>2. Head(cmd) \in Sizes \cup {EndOfTrial} /\ Tail(cmd) \in Seq(Sizes \cup {EndOfTrial})
    BY <2>1
  <2>3. RecvEndOfTrial \/ \E size \in Sizes : RecvSize(size)
    BY <1>1, <2>2 DEF TakeCommand, RecvSize
  <2>4. SenderTyped'
    BY <1>1, <2>2 DEF TakeCommand, SenderTyped, sender
  <2> QED
    BY <2>3, <2>4, CommandInv
<1>2. CASE NoCommand
  BY <1>2, CommandInv DEF NoCommand, SenderTyped, sender
<1>3. ASSUME NEW valread \in 0 .. RX_BUFFER_SIZE, Clear(valread)
      PROVE  Inv'
  BY <1>3, DownloadAssumption, CommandInv DEF Clear, SenderTyped, sender
<1>4. ASSUME NEW valread \in 1 .. RX_BUFFER_SIZE, TakeWifi(valread) \/ TakeWigi(valread)
      PROVE  Inv'
  BY <1>4, DownloadAssumption, ChunkInv DEF TakeWifi, TakeWigi, SenderTyped, sender
<1>5. CASE Turn
  BY <1>5, OpenWindowInv, TurnInv DEF Turn, SenderTyped, sender
<1> QED
  BY <1>1, <1>2, <1>3, <1>4, <1>5 DEF ReceiverStep

\* Inv is an invariant of the session.
LEMMA Invariance == Spec => []Inv
<1>1. ASSUME Inv, [Next]_vars PROVE Inv'
  <2>1. CASE UNCHANGED vars
    BY <1>1, <2>1, ClientUnchanged DEF Inv, vars, SenderTyped, sender
  <2> QED
    BY <1>1, <2>1, SenderInv, ReceiverInv DEF Next
<1> QED
  BY <1>1, InitInv, PTL DEF Spec

\* The variables of the session keep their types, and the pointers pass the
\* edges of a window by less than a chunk.
THEOREM TypeCorrect == Spec => []TypeOK
<1>1. Inv => TypeOK
  BY DownloadAssumption
  DEF Inv, ClientInv, Typed, Pointers, SenderTyped, TypeOK, ClientTypeOK
<1> QED
  BY <1>1, Invariance, PTL

\* No download is called complete with more than the tolerance, or than what
\* its windows leave, lacking.
THEOREM FilesComplete == Spec => []CompleteEnough
<1>1. Inv => CompleteEnough
  BY DownloadAssumption
  DEF Inv, ClientInv, Typed, Covered, KeepsUp, NearlyDone, CompleteEnough, Larger,
      WindowsLeave
<1> QED
  BY <1>1, Invariance, PTL

\* No file download is counted further beyond its size than by a chunk for
\* every window, less the tolerance, whoever's bytes are in the sockets.
THEOREM OvershootStaysBounded == Spec => []OvershootBounded
<1>1. Inv => OvershootBounded
  BY DEF Inv, ClientInv, RunsOn, OvershootBounded, Limit
<1> QED
  BY <1>1, Invariance, PTL
-----------------------------------------------------------------------------
(* What the files of a session leave in the connections *)

\* The bytes the sender is still to have counted, the commands it has sent
\* that the receiver has taken, and what a command asks for.
Unread == wifi + wigi + tosend
CommandsTaken == COMMANDS - left - Len(cmd)
Weight(c) == IF c = EndOfTrial THEN 0 ELSE c

\* asked[i] is what the first i commands under way ask for.
Asks(asked) ==
  /\ asked \in [0 .. Len(cmd) -> Int] /\ asked[0] = 0
  /\ \A i \in 1 .. Len(cmd) : asked[i] = asked[i - 1] + Weight(cmd[i])

\* Between files every command taken has left M bytes at most.
Settled(M, asked) == Unread <= CommandsTaken * M + asked[Len(cmd)]

\* In a file that was asked for, the bytes that are not counted yet come on
\* top, and its windows are those of a file of that size.
Open(m, M, asked) ==
  /\ InFile
  /\ lfilesize \in Sizes /\ lfilesize <= m
  /\ windows = 0 => filesize > 0
  /\ windows > 0 => (windows - 1) * BUFFER_SIZE < lfilesize
  /\ CommandsTaken >= 1
  /\ Unread + got <= (CommandsTaken - 1) * M + asked[Len(cmd)] + lfilesize

\* m is the largest file named so far.
Backlog(m, M, asked) ==
  /\ CommandsTaken \in Nat
  /\ Asks(asked)
  /\ \A i \in 1 .. Len(cmd) : cmd[i] <= m
  /\ Settled(M, asked) \/ Open(m, M, asked)
BacklogInv ==
  \E m \in Sizes : \E M \in Nat : \E asked : M = MayLeave(m) /\ Backlog(m, M, asked)

\* The division that counts the whole windows of a file.
LEMMA WholeWindows ==
  ASSUME NEW n \in Nat, NEW k \in Nat, NEW B \in Nat \ {0}, k * B <= n
  PROVE  k <= n \div B
<1> DEFINE q == n \div B
<1>1. q \in Nat /\ n = B * q + (n % B) /\ n % B \in 0 .. B - 1
  BY SMT
<1> HIDE DEF q
<1>2. ASSUME k > q PROVE FALSE
  <2>1. k - q - 1 \in Nat
    BY <1>1, <1>2
  <2>2. B * (k - q - 1) \in Nat
    BY <2>1
  <2>3. B * (k - q - 1) = k * B - B * q - B
    BY <1>1, SMT
  <2> QED
    BY <1>1, <2>2, <2>3
<1> QED
  BY <1>1, <1>2 DEF q

\* Multiplication by a natural number is monotone.
LEMMA TimesGrows ==
  ASSUME NEW n \in Nat, NEW a \in Int, NEW b \in Int, a <= b
  PROVE  n * a <= n * b
<1>1. b - a \in Nat
  OBVIOUS
<1>2. n * (b - a) \in Nat
  BY <1>1
<1>3. n * (b - a) = n * b - n * a
  BY SMT
<1> QED
  BY <1>2, <1>3

\* What the windows of a file of this size leave.
Leave(size) == ((size - 1) \div BUFFER_SIZE) * (RX_BUFFER_SIZE + TAIL) + TAIL

\* It is the most a file may leave, but for the tolerance.
LEMMA MayLeaveIs ==
  ASSUME NEW size \in Sizes
  PROVE  /\ size \in Nat \ {0} /\ Leave(size) \in Nat
         /\ MayLeave(size) = IF Tolerant THEN Larger(error, Leave(size)) ELSE Leave(size)
         /\ MayLeave(size) \in Nat /\ Leave(size) <= MayLeave(size)
         /\ Tolerant => error <= MayLeave(size)
<1> USE DownloadAssumption, SenderAssumption
<1>1. size \in Nat \ {0} /\ size - 1 \in Nat
  OBVIOUS
<1>2. (size - 1) \div BUFFER_SIZE \in Nat
  BY <1>1
<1> DEFINE q == (size - 1) \div BUFFER_SIZE
<1> HIDE DEF q
<1>3. q * (RX_BUFFER_SIZE + TAIL) \in Nat
  BY <1>2 DEF q
<1>4. Leave(size) \in Nat
  BY <1>3 DEF Leave, q
<1>5. MayLeave(size) = IF Tolerant THEN Larger(error, Leave(size)) ELSE Leave(size)
  BY DEF MayLeave, Leave
<1> QED
  BY <1>1, <1>4, <1>5 DEF Larger

\* A file of k whole windows and something leaves what they leave.
LEMMA LeaveBounds ==
  ASSUME NEW size \in Sizes, NEW k \in Nat, NEW n \in Sizes, k * BUFFER_SIZE < n, n <= size
  PROVE  k * (RX_BUFFER_SIZE + TAIL) + TAIL <= Leave(size)
<1> USE DownloadAssumption, SenderAssumption
<1>1. size - 1 \in Nat /\ k * BUFFER_SIZE <= size - 1 /\ BUFFER_SIZE \in Nat \ {0}
  OBVIOUS
<1>2. k <= (size - 1) \div BUFFER_SIZE
  BY <1>1, WholeWindows
<1> DEFINE q == (size - 1) \div BUFFER_SIZE
<1>3. q \in Nat /\ k <= q
  BY <1>1, <1>2
<1> HIDE DEF q
<1>4. k * (RX_BUFFER_SIZE + TAIL) <= q * (RX_BUFFER_SIZE + TAIL)
  <2>1. (RX_BUFFER_SIZE + TAIL) * k <= (RX_BUFFER_SIZE + TAIL) * q
    BY <1>3, TimesGrows
  <2> QED
    BY <1>3, <2>1
<1>5. k * (RX_BUFFER_SIZE + TAIL) \in Int /\ q * (RX_BUFFER_SIZE + TAIL) \in Int
  BY <1>3
<1> QED
  BY <1>4, <1>5 DEF Leave, q

\* A larger file may leave more.
LEMMA MayLeaveGrows ==
  ASSUME NEW m \in Sizes, NEW n \in Sizes, m <= n
  PROVE  MayLeave(m) <= MayLeave(n)
<1> USE DownloadAssumption, SenderAssumption
<1>1. m - 1 \in Nat /\ n - 1 \in Nat /\ BUFFER_SIZE \in Nat \ {0}
  OBVIOUS
<1> DEFINE k == (m - 1) \div BUFFER_SIZE
<1>2. k \in Nat /\ k * BUFFER_SIZE <= m - 1
  BY <1>1, SMT
<1>3. k * BUFFER_SIZE < m
  BY <1>1, <1>2
<1> HIDE DEF k
<1>4. k * (RX_BUFFER_SIZE + TAIL) + TAIL <= Leave(n)
  BY <1>2, <1>3, LeaveBounds
<1>5. Leave(m) <= Leave(n)
  BY <1>4 DEF Leave, k
<1>6. Leave(m) \in Nat /\ Leave(n) \in Nat
  BY MayLeaveIs
<1> QED
  BY <1>5, <1>6, MayLeaveIs DEF Larger

\* The backlog starts empty.
LEMMA BacklogInit == Init => BacklogInv
<1> SUFFICES ASSUME Init PROVE BacklogInv
  OBVIOUS
<1>1. PICK m \in Sizes : TRUE
  BY SenderAssumption
<1>2. PICK M \in Nat : M = MayLeave(m)
  BY MayLeaveIs
<1> DEFINE asked == [i \in 0 .. 0 |-> 0]
<1>3. cmd = << >> /\ Len(cmd) = 0 /\ CommandsTaken = 0 /\ Unread = 0
  <2>1. cmd = << >> /\ left = COMMANDS /\ wifi = 0 /\ wigi = 0 /\ tosend = 0
    BY Zenon DEF Init
  <2>2. Len(cmd) = 0 /\ COMMANDS \in Int
    BY <2>1, SenderAssumption
  <2>3. COMMANDS - left - 0 = 0 /\ wifi + wigi + tosend = 0
    BY <2>1, <2>2
  <2> QED
    BY <2>1, <2>2, <2>3 DEF CommandsTaken, Unread
<1>4. Asks(asked)
  BY <1>3 DEF Asks
<1>5. 0 * M = 0
  OBVIOUS
<1>6. Settled(M, asked)
  BY <1>3, <1>5 DEF Settled
<1>7. Backlog(m, M, asked)
  BY <1>3, <1>4, <1>6 DEF Backlog
<1> QED
  BY <1>2, <1>7 DEF BacklogInv

\* The numbers in Backlog.
LEMMA BacklogNumbers ==
  ASSUME Inv, NEW m \in Sizes, NEW M \in Nat, NEW asked, Backlog(m, M, asked)
  PROVE  /\ Len(cmd) \in Nat /\ left \in Int /\ COMMANDS \in Int
         /\ Unread \in Nat /\ CommandsTaken \in Nat /\ CommandsTaken = COMMANDS - left - Len(cmd)
         /\ asked[Len(cmd)] \in Int
         /\ m \in Nat \ {0}
         /\ CommandsTaken * M \in Int /\ (CommandsTaken - 1) * M \in Int
         /\ (CommandsTaken + 1) * M = CommandsTaken * M + M
<1>1. Len(cmd) \in Nat /\ left \in Int /\ COMMANDS \in Int /\ Unread \in Nat
  BY SenderAssumption DEF Inv, SenderTyped, Unread
<1>2. /\ CommandsTaken \in Nat /\ CommandsTaken = COMMANDS - left - Len(cmd)
      /\ asked \in [0 .. Len(cmd) -> Int]
  BY DEF Backlog, Asks, CommandsTaken
<1>3. asked[Len(cmd)] \in Int
  BY <1>1, <1>2
<1>4. m \in Nat \ {0}
  BY SenderAssumption
<1> DEFINE n == CommandsTaken
<1>5. n \in Nat
  BY <1>2
<1> HIDE DEF n
<1>6. n * M \in Int /\ (n - 1) * M \in Int /\ (n + 1) * M = n * M + M
  BY <1>5, SMT
<1> QED
  BY <1>1, <1>2, <1>3, <1>4, <1>6 DEF n

\* Steps that leave the command connection alone, take no more bytes out of
\* the data connections than they count, and leave the file as it is.
LEMMA QuietBacklog ==
  ASSUME Inv, NEW m \in Sizes, NEW M \in Nat, NEW asked, Backlog(m, M, asked),
         UNCHANGED <<cmd, left>>, Unread' \in Int,
         \/ Unread' <= Unread /\ Settled(M, asked)
         \/ Open(m, M, asked)'
  PROVE  Backlog(m, M, asked)'
<1>1. /\ Len(cmd) \in Nat /\ Unread \in Nat /\ asked[Len(cmd)] \in Int
      /\ CommandsTaken * M \in Int
  BY BacklogNumbers
<1>2. CommandsTaken' = CommandsTaken
  BY DEF CommandsTaken
<1>3. Asks(asked)' /\ CommandsTaken' \in Nat /\ \A i \in 1 .. Len(cmd') : cmd'[i] <= m
  BY <1>2 DEF Backlog, Asks
<1>4. ASSUME Unread' <= Unread, Settled(M, asked) PROVE Settled(M, asked)'
  BY <1>1, <1>2, <1>4 DEF Settled
<1> QED
  BY <1>3, <1>4 DEF Backlog

\* A chunk that is counted to the open file, or thrown away between files.
LEMMA TakeBacklog ==
  ASSUME Inv, NEW m \in Sizes, NEW M \in Nat, NEW asked, Backlog(m, M, asked),
         \/ \E valread \in 1 .. RX_BUFFER_SIZE : TakeWifi(valread) \/ TakeWigi(valread)
         \/ \E valread \in 0 .. RX_BUFFER_SIZE : Clear(valread)
  PROVE  Backlog(m, M, asked)'
<1>1. PICK n \in Nat :
        /\ Unread' = Unread - n /\ Unread' \in Int
        /\ UNCHANGED <<cmd, left>>
        /\ InFile => /\ got' = got + n
                     /\ pc' \in {"chunk", "wifi", "wigi", "check"}
                     /\ UNCHANGED <<lfilesize, filesize, windows>>
  <2>1. ASSUME NEW valread \in 1 .. RX_BUFFER_SIZE, TakeWifi(valread) \/ TakeWigi(valread)
        PROVE  /\ Unread' = Unread - valread /\ Unread' \in Int
               /\ UNCHANGED <<cmd, left>>
               /\ got' = got + valread
               /\ pc' \in {"chunk", "wifi", "wigi", "check"}
               /\ UNCHANGED <<lfilesize, filesize, windows>>
    BY <2>1, DownloadAssumption
    DEF TakeWifi, TakeWigi, RecvWifi, RecvWigi, Unread, sender, Inv, SenderTyped
  <2>2. ASSUME NEW valread \in 0 .. RX_BUFFER_SIZE, Clear(valread)
        PROVE  /\ Unread' = Unread - valread /\ Unread' \in Int
               /\ UNCHANGED <<cmd, left>> /\ ~InFile
    BY <2>2, DownloadAssumption
    DEF Clear, ClearSockets, Unread, sender, Inv, SenderTyped
  <2> QED
    BY <2>1, <2>2, DownloadAssumption
<1>2. CASE Settled(M, asked)
  <2>1. Unread' <= Unread
    BY <1>1, BacklogNumbers
  <2> QED
    BY <1>1, <1>2, <2>1, QuietBacklog
<1>3. CASE Open(m, M, asked)
  <2>1. got \in Nat
    BY DEF Inv, ClientInv, Typed
  <2>2. Unread' + got' = Unread + got /\ CommandsTaken' = CommandsTaken
    BY <1>1, <1>3, <2>1, BacklogNumbers DEF Open, CommandsTaken
  <2>3. Open(m, M, asked)'
    BY <1>1, <1>3, <2>2 DEF Open
  <2> QED
    BY <1>1, <2>3, QuietBacklog
<1> QED
  BY <1>2, <1>3 DEF Backlog

\* A file that is closed leaves what its windows leave, or the tolerance.
LEMMA CloseBacklog ==
  ASSUME Inv, NEW m \in Sizes, NEW M \in Nat, NEW asked, Backlog(m, M, asked),
         M = MayLeave(m), CloseFile, UNCHANGED <<cmd, wifi, wigi, sender>>
  PROVE  Backlog(m, M, asked)'
<1>1. UNCHANGED <<cmd, left>> /\ Unread' = Unread
  BY DEF sender, Unread
<1>2. Unread \in Nat
  BY BacklogNumbers
<1>3. CASE Settled(M, asked)
  BY <1>1, <1>2, <1>3, QuietBacklog
<1>4. CASE Open(m, M, asked)
  <2>1. /\ pc = "chunk" /\ filesize <= 0 /\ windows > 0 /\ windows \in Nat
        /\ filesize \in Int /\ got \in Nat /\ lfilesize \in Int
    BY <1>4 DEF CloseFile, Open, Inv, ClientInv, Typed
  <2>2. /\ lfilesize \in Sizes /\ lfilesize <= m
        /\ (windows - 1) * BUFFER_SIZE < lfilesize /\ windows - 1 \in Nat
    BY <1>4, <2>1 DEF Open
  <2>3. (windows - 1) * (RX_BUFFER_SIZE + TAIL) + TAIL <= Leave(m)
    BY <2>2, LeaveBounds
  <2>4. NearlyDone \/ lfilesize - got <= WindowsLeave
    BY <2>1 DEF Inv, ClientInv, KeepsUp
  <2>5. lfilesize - got <= M
    <3>1. WindowsLeave \in Int
      BY <2>2, DownloadAssumption DEF WindowsLeave
    <3>2. Leave(m) \in Nat /\ Leave(m) <= M /\ (Tolerant => error <= M)
      BY MayLeaveIs
    <3>3. WindowsLeave <= M
      BY <2>3, <3>1, <3>2 DEF WindowsLeave
    <3> QED
      BY <2>1, <2>4, <3>1, <3>2, <3>3, DownloadAssumption DEF NearlyDone
  <2>6. /\ Unread + got <= (CommandsTaken - 1) * M + asked[Len(cmd)] + lfilesize
        /\ CommandsTaken >= 1
    BY <1>4 DEF Open
  <2>7. CommandsTaken * M = (CommandsTaken - 1) * M + M /\ (CommandsTaken - 1) * M \in Int
    <3> DEFINE n == CommandsTaken
    <3>1. n \in Nat
      BY BacklogNumbers
    <3> HIDE DEF n
    <3>2. n * M = (n - 1) * M + M /\ (n - 1) * M \in Int
      BY <3>1, SMT
    <3> QED
      BY <3>2 DEF n
  <2>8. Settled(M, asked)
    <3>1. asked[Len(cmd)] \in Int
      BY BacklogNumbers
    <3> QED
      BY <1>2, <2>1, <2>5, <2>6, <2>7, <3>1 DEF Settled
  <2> QED
    BY <1>1, <1>2, <2>8, QuietBacklog
<1> QED
  BY <1>3, <1>4 DEF Backlog

\* The other turns leave the count and the connections alone; a window is
\* opened only while some of the file is not covered yet.
LEMMA TurnBacklog ==
  ASSUME Inv, NEW m \in Sizes, NEW M \in Nat, NEW asked, Backlog(m, M, asked),
         \/ OpenWholeWindow \/ OpenLastWindow \/ WifiEmpty \/ WigiEmpty \/ CheckEnds
         \/ \E second \in BOOLEAN : CheckGoesOn(second),
         UNCHANGED <<cmd, wifi, wigi, sender>>
  PROVE  Backlog(m, M, asked)'
<1>1. UNCHANGED <<cmd, left>> /\ Unread' = Unread /\ CommandsTaken' = CommandsTaken
  BY DEF sender, Unread, CommandsTaken
<1>2. Unread \in Nat
  BY BacklogNumbers
<1>3. CASE Settled(M, asked)
  BY <1>1, <1>2, <1>3, QuietBacklog
<1>4. CASE Open(m, M, asked)
  <2>1. CASE OpenWholeWindow \/ OpenLastWindow
    <3>1. /\ pc = "chunk" /\ filesize > 0 /\ windows' = windows + 1 /\ pc' = "wifi"
          /\ UNCHANGED <<lfilesize, got>>
          /\ windows \in Nat /\ filesize \in Int /\ lfilesize \in Int
          /\ lfilesize - filesize = windows * BUFFER_SIZE
      BY <2>1, DownloadAssumption
      DEF OpenWholeWindow, OpenLastWindow, Inv, ClientInv, Typed, Covered
    <3>2. windows' - 1 = windows /\ windows' > 0 /\ windows' # 0
      BY <3>1
    <3>3. (windows' - 1) * BUFFER_SIZE < lfilesize'
      BY <3>1, <3>2
    <3> QED
      BY <1>1, <1>2, <1>4, <3>1, <3>2, <3>3, QuietBacklog DEF Open
  <2>2. CASE \/ WifiEmpty \/ WigiEmpty \/ CheckEnds
             \/ \E second \in BOOLEAN : CheckGoesOn(second)
    <3>1. /\ pc' \in {"chunk", "wifi", "wigi", "check"}
          /\ UNCHANGED <<lfilesize, filesize, windows, got>>
      BY <2>2 DEF WifiEmpty, WigiEmpty, CheckEnds, CheckGoesOn
    <3> QED
      BY <1>1, <1>2, <1>4, <3>1, QuietBacklog DEF Open
  <2> QED
    BY <2>1, <2>2
<1> QED
  BY <1>3, <1>4 DEF Backlog

\* A command is a number, and so is what it asks for.
LEMMA CommandsAreInts ==
  ASSUME NEW c \in Sizes \cup {EndOfTrial}
  PROVE  c \in Int /\ Weight(c) \in Int
<1>1. c = -1 \/ (c \in Sizes /\ c \in Nat)
  BY SenderAssumption DEF EndOfTrial
<1>2. c \in Int
  BY <1>1
<1> QED
  BY <1>2 DEF Weight

\* A command the sender sends: what it asks for is queued with it, and its
\* file may be the largest so far.
LEMMA CommandSent ==
  ASSUME Inv, BacklogInv, NEW c \in Sizes \cup {EndOfTrial}, SendCommand(c)
  PROVE  BacklogInv'
<1>1. PICK m \in Sizes : \E M \in Nat : \E asked : M = MayLeave(m) /\ Backlog(m, M, asked)
  BY DEF BacklogInv
<1>2. PICK M \in Nat : \E asked : M = MayLeave(m) /\ Backlog(m, M, asked)
  BY <1>1
<1>3. PICK asked : M = MayLeave(m) /\ Backlog(m, M, asked)
  BY <1>2
<1>4. PICK n \in Sizes : n = IF c = EndOfTrial \/ c <= m THEN m ELSE c
  OBVIOUS
<1>5. PICK N \in Nat : N = MayLeave(n)
  BY MayLeaveIs
<1>6. m \in Nat /\ n \in Nat /\ c \in Int /\ m <= n /\ c <= n /\ M <= N
  <2>1. m \in Nat \ {0} /\ n \in Nat \ {0} /\ c \in Int /\ (c = EndOfTrial => c = -1)
    BY SenderAssumption, CommandsAreInts DEF EndOfTrial
  <2>2. m <= n /\ c <= n
    BY <1>4, <2>1
  <2> QED
    BY <1>3, <1>5, <2>1, <2>2, MayLeaveGrows
<1>7. /\ cmd \in Seq(Sizes \cup {EndOfTrial}) /\ Len(cmd) \in Nat
      /\ left \in Int /\ tosend = 0 /\ wifi \in Int /\ wigi \in Int
      /\ cmd' = Append(cmd, c) /\ left' = left - 1
      /\ UNCHANGED <<client, wifi, wigi>>
      /\ tosend' = Weight(c) /\ Weight(c) \in Int
  BY <1>6 DEF SendCommand, Inv, SenderTyped, Weight
<1>8. /\ Len(cmd') = Len(cmd) + 1 /\ cmd'[Len(cmd) + 1] = c
      /\ \A i \in 1 .. Len(cmd) : cmd'[i] = cmd[i]
  BY <1>7
<1>9. /\ Unread \in Nat /\ CommandsTaken \in Nat /\ asked[Len(cmd)] \in Int
      /\ CommandsTaken * M \in Int /\ (CommandsTaken - 1) * M \in Int
      /\ COMMANDS \in Int
  BY <1>3, BacklogNumbers
<1>10. Unread' = Unread + Weight(c) /\ CommandsTaken' = CommandsTaken
  BY <1>7, <1>8, <1>9 DEF Unread, CommandsTaken
<1> DEFINE longer == [i \in 0 .. Len(cmd) + 1 |->
                        IF i <= Len(cmd) THEN asked[i] ELSE asked[Len(cmd)] + Weight(c)]
<1>11. /\ asked \in [0 .. Len(cmd) -> Int] /\ asked[0] = 0
       /\ \A i \in 1 .. Len(cmd) : asked[i] = asked[i - 1] + Weight(cmd[i])
       /\ \A i \in 1 .. Len(cmd) : cmd[i] <= m
  BY <1>3 DEF Backlog, Asks
<1>12. PICK more :
         /\ more \in [0 .. Len(cmd) + 1 -> Int] /\ more[0] = 0
         /\ \A i \in 0 .. Len(cmd) : more[i] = asked[i]
         /\ more[Len(cmd) + 1] = asked[Len(cmd)] + Weight(c)
  <2>1. /\ longer \in [0 .. Len(cmd) + 1 -> Int] /\ longer[0] = 0
        /\ \A i \in 0 .. Len(cmd) : longer[i] = asked[i]
        /\ longer[Len(cmd) + 1] = asked[Len(cmd)] + Weight(c)
    BY <1>7, <1>9, <1>11
  <2> QED
    BY <2>1
<1>13. Asks(more)'
  <2>1. ASSUME NEW i \in 1 .. Len(cmd) + 1
        PROVE  more[i] = more[i - 1] + Weight(cmd'[i])
    <3>1. CASE i = Len(cmd) + 1
      BY <1>7, <1>8, <1>12, <3>1
    <3>2. CASE i \in 1 .. Len(cmd)
      <4>1. i \in 0 .. Len(cmd) /\ i - 1 \in 0 .. Len(cmd)
        BY <1>7, <3>2
      <4> QED
        BY <1>8, <1>11, <1>12, <3>2, <4>1
    <3> QED
      BY <1>7, <3>1, <3>2
  <2> QED
    BY <1>8, <1>12, <2>1 DEF Asks, Weight
<1>14. \A i \in 1 .. Len(cmd') : cmd'[i] <= n
  <2>1. ASSUME NEW i \in 1 .. Len(cmd) + 1 PROVE cmd'[i] <= n
    <3>1. CASE i = Len(cmd) + 1
      BY <1>6, <1>8, <3>1
    <3>2. CASE i \in 1 .. Len(cmd)
      <4>1. cmd[i] \in Int
        <5>1. cmd[i] \in Sizes \cup {EndOfTrial}
          BY <1>7, <3>2
        <5> QED
          BY <5>1, CommandsAreInts
      <4> QED
        BY <1>6, <1>8, <1>11, <3>2, <4>1
    <3> QED
      BY <1>7, <3>1, <3>2
  <2> QED
    BY <1>8, <2>1
<1>15. CommandsTaken * M <= CommandsTaken * N /\ CommandsTaken * N \in Int
  BY <1>6, <1>9, TimesGrows
<1>16. ASSUME Settled(M, asked) PROVE Settled(N, more)'
  <2>1. Unread' <= CommandsTaken * N + more[Len(cmd) + 1]
    <3>1. Unread <= CommandsTaken * M + asked[Len(cmd)]
      BY <1>16 DEF Settled
    <3>2. more[Len(cmd) + 1] = asked[Len(cmd)] + Weight(c) /\ Weight(c) \in Int
      BY <1>7, <1>12
    <3>3. Unread <= CommandsTaken * N + asked[Len(cmd)]
      BY <1>9, <1>15, <3>1
    <3> QED
      BY <1>9, <1>10, <1>15, <3>2, <3>3
  <2> QED
    BY <1>8, <1>10, <2>1 DEF Settled
<1>17. ASSUME Open(m, M, asked) PROVE Open(n, N, more)'
  <2>1. CommandsTaken >= 1 /\ CommandsTaken - 1 \in Nat
    BY <1>9, <1>17 DEF Open
  <2>2. (CommandsTaken - 1) * M <= (CommandsTaken - 1) * N /\ (CommandsTaken - 1) * N \in Int
    BY <1>6, <2>1, TimesGrows
  <2>3. got \in Int /\ lfilesize \in Int
    BY DEF Inv, ClientInv, Typed
  <2>4. Unread' + got <= (CommandsTaken - 1) * N + more[Len(cmd) + 1] + lfilesize
    <3>1. Unread + got <= (CommandsTaken - 1) * M + asked[Len(cmd)] + lfilesize
      BY <1>17 DEF Open
    <3>2. more[Len(cmd) + 1] = asked[Len(cmd)] + Weight(c) /\ Weight(c) \in Int
      BY <1>7, <1>12
    <3>3. Unread + got <= (CommandsTaken - 1) * N + asked[Len(cmd)] + lfilesize
      BY <1>9, <2>2, <2>3, <3>1
    <3> QED
      BY <1>9, <1>10, <2>2, <2>3, <3>2, <3>3
  <2>5. lfilesize <= n
    BY <1>6, <1>17, <2>3 DEF Open
  <2>6. UNCHANGED <<pc, got, lfilesize, filesize, windows>>
    BY <1>7 DEF client
  <2> QED
    BY <1>8, <1>10, <1>17, <2>1, <2>4, <2>5, <2>6 DEF Open
<1>18. Settled(N, more)' \/ Open(n, N, more)'
  BY <1>3, <1>16, <1>17 DEF Backlog
<1>19. Backlog(n, N, more)'
  BY <1>9, <1>10, <1>13, <1>14, <1>18 DEF Backlog
<1>20. N = MayLeave(n)'
  BY <1>5, <1>7 DEF MayLeave, client, Tolerant
<1> QED
  BY <1>19, <1>20 DEF BacklogInv

\* A command the receiver takes: what it asked for becomes the file's own.
LEMMA CommandRead ==
  ASSUME Inv, NEW m \in Sizes, NEW M \in Nat, NEW asked, Backlog(m, M, asked), TakeCommand
  PROVE  \E rest : Backlog(m, M, rest)'
<1>1. /\ cmd \in Seq(Sizes \cup {EndOfTrial}) /\ cmd # << >> /\ Len(cmd) \in Nat
      /\ cmd' = Tail(cmd) /\ UNCHANGED <<wifi, wigi, tosend, left>>
      /\ pc = "command"
      /\ \/ RecvEndOfTrial /\ Head(cmd) = EndOfTrial
         \/ RecvSize(Head(cmd)) /\ Head(cmd) # EndOfTrial
  BY DEF TakeCommand, Inv, SenderTyped, sender, RecvEndOfTrial, RecvSize
<1>2. /\ Len(cmd) >= 1 /\ Len(cmd') = Len(cmd) - 1 /\ Head(cmd) = cmd[1]
      /\ \A i \in 1 .. Len(cmd) - 1 : cmd'[i] = cmd[i + 1]
      /\ Head(cmd) \in Sizes \cup {EndOfTrial}
  BY <1>1
<1>3. /\ Unread \in Nat /\ CommandsTaken \in Nat /\ asked[Len(cmd)] \in Int
      /\ CommandsTaken * M \in Int
      /\ (CommandsTaken + 1) * M = CommandsTaken * M + M
      /\ COMMANDS \in Int /\ left \in Int
  BY BacklogNumbers
<1>4. Unread' = Unread /\ CommandsTaken' = CommandsTaken + 1
  BY <1>1, <1>2, <1>3 DEF Unread, CommandsTaken
<1>5. /\ asked \in [0 .. Len(cmd) -> Int] /\ asked[0] = 0
      /\ \A i \in 1 .. Len(cmd) : asked[i] = asked[i - 1] + Weight(cmd[i])
      /\ \A i \in 1 .. Len(cmd) : cmd[i] <= m
  BY DEF Backlog, Asks
<1>6. PICK first : first = Weight(Head(cmd))
  OBVIOUS
<1> DEFINE others == [i \in 0 .. Len(cmd) - 1 |-> asked[i + 1] - first]
<1>7. first \in Int /\ asked[1] = first
  <2>1. first \in Int
    BY <1>2, <1>6, CommandsAreInts
  <2>2. 1 \in 1 .. Len(cmd) /\ asked[1] = asked[0] + Weight(cmd[1])
    BY <1>1, <1>2, <1>5
  <2> QED
    BY <1>2, <1>5, <1>6, <2>1, <2>2
<1>8. PICK rest :
        /\ rest \in [0 .. Len(cmd) - 1 -> Int] /\ rest[0] = 0
        /\ \A i \in 0 .. Len(cmd) - 1 : rest[i] = asked[i + 1] - first
  <2>1. /\ others \in [0 .. Len(cmd) - 1 -> Int] /\ others[0] = 0
        /\ \A i \in 0 .. Len(cmd) - 1 : others[i] = asked[i + 1] - first
    BY <1>1, <1>2, <1>5, <1>7
  <2> QED
    BY <2>1
<1>9. Asks(rest)'
  <2>1. ASSUME NEW i \in 1 .. Len(cmd) - 1
        PROVE  rest[i] = rest[i - 1] + Weight(cmd'[i])
    <3>1. /\ i \in 0 .. Len(cmd) - 1 /\ i - 1 \in 0 .. Len(cmd) - 1
          /\ i + 1 \in 1 .. Len(cmd) /\ (i + 1) - 1 = i /\ (i - 1) + 1 = i
          /\ i + 1 \in 0 .. Len(cmd) /\ i \in 0 .. Len(cmd)
      BY <1>1, <1>2
    <3>2. /\ rest[i] = asked[i + 1] - first /\ rest[i - 1] = asked[i] - first
          /\ asked[i + 1] = asked[i] + Weight(cmd[i + 1])
      BY <1>5, <1>8, <3>1
    <3>3. asked[i] \in Int /\ asked[i + 1] \in Int /\ cmd'[i] = cmd[i + 1]
      BY <1>2, <1>5, <3>1
    <3>4. Weight(cmd[i + 1]) \in Int
      <4>1. cmd[i + 1] \in Sizes \cup {EndOfTrial}
        BY <1>1, <3>1
      <4> QED
        BY <4>1, CommandsAreInts
    <3> QED
      BY <1>7, <3>2, <3>3, <3>4
  <2> QED
    BY <1>2, <1>8, <2>1 DEF Asks, Weight
<1>10. \A i \in 1 .. Len(cmd') : cmd'[i] <= m
  BY <1>1, <1>2, <1>5
<1>11. rest[Len(cmd')] = asked[Len(cmd)] - first
  BY <1>1, <1>2, <1>8
<1>12. Unread <= CommandsTaken * M + asked[Len(cmd)]
  BY <1>1 DEF Backlog, Open, Settled
<1>13. CASE Head(cmd) = EndOfTrial
  <2>1. first = 0
    BY <1>13, <1>6 DEF Weight
  <2>2. Unread' <= (CommandsTaken + 1) * M + rest[Len(cmd')]
    BY <1>3, <1>4, <1>11, <1>12, <2>1
  <2>3. Settled(M, rest)'
    BY <1>4, <2>2 DEF Settled
  <2> QED
    BY <1>3, <1>4, <1>9, <1>10, <2>3 DEF Backlog
<1>14. CASE Head(cmd) # EndOfTrial
  <2>1. /\ first = Head(cmd) /\ Head(cmd) \in Sizes /\ Head(cmd) <= m
        /\ RecvSize(Head(cmd))
    <3>1. 1 \in 1 .. Len(cmd)
      BY <1>1, <1>2
    <3> QED
      BY <1>1, <1>2, <1>5, <1>14, <1>6, <3>1 DEF Weight
  <2>2. /\ lfilesize' = first /\ filesize' = first /\ got' = 0 /\ windows' = 0
        /\ pc' = "chunk" /\ first > 0
    BY <1>7, <2>1, SenderAssumption DEF RecvSize, OpenFile
  <2>3. Unread' + 0 <= CommandsTaken * M + rest[Len(cmd')] + first
    BY <1>3, <1>4, <1>7, <1>11, <1>12
  <2>4. CommandsTaken' - 1 = CommandsTaken /\ CommandsTaken' >= 1
    BY <1>3, <1>4
  <2>5. Open(m, M, rest)'
    BY <2>1, <2>2, <2>3, <2>4 DEF Open
  <2> QED
    BY <1>3, <1>4, <1>9, <1>10, <2>5 DEF Backlog
<1> QED
  BY <1>13, <1>14

\* The receiver's loop goes on without a command: nothing is asked for.
LEMMA NoCommandBacklog ==
  ASSUME Inv, NEW m \in Sizes, NEW M \in Nat, NEW asked, Backlog(m, M, asked), NoCommand
  PROVE  Backlog(m, M, asked)'
<1>1. pc = "command" /\ UNCHANGED <<cmd, left>> /\ Unread' = Unread
  BY DEF NoCommand, ReuseSize, CommandClosed, sender, Unread
<1>2. Settled(M, asked)
  BY <1>1 DEF Backlog, Open
<1>3. Unread \in Nat
  BY BacklogNumbers
<1> QED
  BY <1>1, <1>2, <1>3, QuietBacklog

\* The sender's blocks go from one place of the count to another.
LEMMA BlockBacklog ==
  ASSUME Inv, NEW m \in Sizes, NEW M \in Nat, NEW asked, Backlog(m, M, asked),
         SendWifi \/ SendWigi \/ Close \/ UNCHANGED vars
  PROVE  Backlog(m, M, asked)'
<1>1. UNCHANGED <<client, cmd, left>> /\ Unread' = Unread
  <2>1. wifi \in Int /\ wigi \in Int /\ tosend \in Int /\ Block \in Int
    BY SenderAssumption DEF Inv, SenderTyped, Block
  <2> QED
    BY <2>1 DEF SendWifi, SendWigi, Close, vars, sender, Unread
<1>2. Unread \in Nat
  BY BacklogNumbers
<1>3. ASSUME Open(m, M, asked) PROVE Open(m, M, asked)'
  BY <1>1, <1>3 DEF Open, client, CommandsTaken
<1> QED
  BY <1>1, <1>2, <1>3, QuietBacklog DEF Backlog

\* Every step keeps the backlog within what the commands taken may leave.
LEMMA BacklogNext == Inv /\ BacklogInv /\ [Next]_vars => BacklogInv'
<1> SUFFICES ASSUME Inv, BacklogInv, [Next]_vars PROVE BacklogInv'
  OBVIOUS
<1>1. CASE \E c \in Sizes \cup {EndOfTrial} : SendCommand(c)
  BY <1>1, CommandSent
<1>2. CASE ~ \E c \in Sizes \cup {EndOfTrial} : SendCommand(c)
  <2>1. PICK m \in Sizes : \E M \in Nat : \E asked :
          M = MayLeave(m) /\ Backlog(m, M, asked)
    BY DEF BacklogInv
  <2>2. PICK M \in Nat : \E asked : M = MayLeave(m) /\ Backlog(m, M, asked)
    BY <2>1
  <2>3. PICK asked : M = MayLeave(m) /\ Backlog(m, M, asked)
    BY <2>2
  <2>4. prog' = prog
    BY DEF Next, SenderStep, SendCommand, SendWifi, SendWigi, Close, client,
           ReceiverStep, TakeCommand, NoCommand, Clear, TakeWifi, TakeWigi, Turn,
           RecvEndOfTrial, RecvSize, OpenFile, ReuseSize, CommandClosed, ClearSockets,
           RecvWifi, RecvWigi, OpenWholeWindow, OpenLastWindow, CloseFile, WifiEmpty,
           WigiEmpty, CheckEnds, CheckGoesOn, vars
  <2>5. M = MayLeave(m)'
    BY <2>3, <2>4 DEF MayLeave, Tolerant
  <2>6. ASSUME NEW rest, Backlog(m, M, rest)' PROVE BacklogInv'
    BY <2>5, <2>6 DEF BacklogInv
  <2>7. CASE SendWifi \/ SendWigi \/ Close \/ UNCHANGED vars
    BY <2>3, <2>6, <2>7, BlockBacklog
  <2>8. CASE TakeCommand
    BY <2>3, <2>6, <2>8, CommandRead
  <2>9. CASE NoCommand
    BY <2>3, <2>6, <2>9, NoCommandBacklog
  <2>10. CASE \/ \E valread \in 1 .. RX_BUFFER_SIZE : TakeWifi(valread) \/ TakeWigi(valread)
              \/ \E valread \in 0 .. RX_BUFFER_SIZE : Clear(valread)
    BY <2>3, <2>6, <2>10, TakeBacklog
  <2>11. CASE Turn
    BY <2>3, <2>6, <2>11, TurnBacklog, CloseBacklog DEF Turn
  <2> QED
    BY <1>2, <2>7, <2>8, <2>9, <2>10, <2>11 DEF Next, SenderStep, ReceiverStep
<1> QED
  BY <1>1, <1>2

\* When the receiver has done all it was asked to, no more is in the
\* connections than every command may leave.
THEOREM BacklogStaysBounded == Spec => []BacklogBounded
<1>1. Inv /\ BacklogInv => BacklogBounded
  <2> SUFFICES ASSUME Inv, BacklogInv, pc = "command", cmd = << >>
               PROVE  \E size \in Sizes :
                        wifi + wigi + tosend <= (COMMANDS - left) * MayLeave(size)
    BY DEF BacklogBounded
  <2>1. PICK m \in Sizes : \E M \in Nat : \E asked :
          M = MayLeave(m) /\ Backlog(m, M, asked)
    BY DEF BacklogInv
  <2>2. PICK M \in Nat : \E asked : M = MayLeave(m) /\ Backlog(m, M, asked)
    BY <2>1
  <2>3. PICK asked : M = MayLeave(m) /\ Backlog(m, M, asked)
    BY <2>2
  <2>4. Len(cmd) = 0 /\ CommandsTaken = COMMANDS - left
    BY SenderAssumption DEF CommandsTaken, Inv, SenderTyped
  <2>5. Unread <= CommandsTaken * M + 0
    BY <2>3, <2>4 DEF Backlog, Asks, Open, Settled
  <2>6. CommandsTaken * M \in Int
    BY <2>3, BacklogNumbers
  <2> QED
    BY <2>3, <2>4, <2>5, <2>6 DEF Unread
<1> QED
  BY <1>1, BacklogInit, BacklogNext, InitInv, Invariance, PTL DEF Spec
=============================================================================
