------------------------- MODULE WebDownloadClient -------------------------
(***************************************************************************)
(* The receiver that measures web downloads (FBDT-webdownload/client.c).   *)
(* The files of a page come in containers, a header with two sequence      *)
(* numbers and RX_BUFFER_SIZE bytes: upwards over WiFi, counted by         *)
(* wifi_seqno, and downwards over WiGig, counted by wigig_seqno.  A third  *)
(* connection carries the acknowledgements.                                *)
(*                                                                         *)
(* The sender is not part of the repository, and a container cut in two by *)
(* recv leaves headers made of payload behind it, so the connections are   *)
(* left free to deliver a container with any sequence number at any time.  *)
(***************************************************************************)
EXTENDS Integers, FiniteSets

CONSTANTS
  INT_MAX,
  BUFFER_SIZE,
  RX_BUFFER_SIZE,
  HEADER,       \* the two ints of a container
  TAIL,         \* the 8 bytes the code leaves free above a window
  MAX_NO_OF_TRIALS,
  Sizes,        \* sizes of files
  Seqnos,       \* sequence numbers a container may arrive with
  Junk          \* what the variables that are never initialised may hold

INT_MIN == -INT_MAX - 1

ASSUME WebAssumption ==
  /\ INT_MAX \in Nat /\ BUFFER_SIZE <= INT_MAX
  /\ BUFFER_SIZE \in Nat /\ RX_BUFFER_SIZE \in Nat \ {0}
  /\ HEADER \in Nat /\ TAIL \in Nat
  /\ TAIL < RX_BUFFER_SIZE /\ 2 * RX_BUFFER_SIZE <= BUFFER_SIZE
  /\ MAX_NO_OF_TRIALS \in Nat
  /\ Sizes \subseteq 1 .. INT_MAX
  /\ Seqnos \subseteq INT_MIN .. INT_MAX /\ Junk \subseteq INT_MIN .. INT_MAX

VARIABLES
  pc,           \* the next call or test
  trialNo,
  filesize,     \* what is left of the file once the open window is filled
  lfilesize,    \* the last command
  wifi_seqno,   \* the containers expected next
  wigig_seqno,
  fwd_ack,      \* what was last acknowledged
  rev_ack,
  fwd_ptr,      \* byte offsets into buff, int pointers in the code
  rev_ptr,
  top,          \* history: where rev_ptr started in this window
  windows,      \* history: windows opened for the file
  counted,      \* history: containers counted to the file
  wifi_taken,   \* history: sequence numbers counted in this window
  wigi_taken,
  gone          \* the end of the sender's three connections was reached

file == <<trialNo, filesize, lfilesize>>
seqnos == <<wifi_seqno, wigig_seqno>>
acks == <<fwd_ack, rev_ack>>
pointers == <<fwd_ptr, rev_ptr, top, windows>>
taken == <<counted, wifi_taken, wigi_taken>>
vars == <<pc, file, seqnos, acks, pointers, taken, gone>>

EndOfTrial == -1
Container == HEADER + RX_BUFFER_SIZE

\* What an int holds after an addition that leaves its range by less than a
\* turn: the machine's addition wraps.
AsInt(n) ==
  IF n > INT_MAX THEN n + 2 * INT_MIN ELSE IF n < INT_MIN THEN n - 2 * INT_MIN ELSE n

Init ==
  /\ pc = "clear"
  /\ trialNo = 0
  /\ filesize \in Junk /\ lfilesize = 0
  /\ wifi_seqno \in Junk /\ wigig_seqno \in Junk
  /\ fwd_ack \in Junk /\ rev_ack \in Junk
  /\ fwd_ptr = 0 /\ rev_ptr = 0 /\ top = 0
  /\ windows = 0 /\ counted = 0
  /\ wifi_taken = {} /\ wigi_taken = {}
  /\ gone = FALSE

-----------------------------------------------------------------------------
(* Between files *)

\* The sender closes its connections, at any time, and what was under way is
\* lost or was taken.
PeerCloses ==
  /\ ~gone
  /\ gone' = TRUE
  /\ UNCHANGED <<pc, file, seqnos, acks, pointers, taken>>

\* One turn of clear_sockets: it goes on while either connection has bytes.
ClearSockets(found) ==
  /\ pc = "clear"
  /\ found => ~gone
  /\ pc' = IF found THEN "clear" ELSE "command"
  /\ UNCHANGED <<file, seqnos, acks, pointers, taken, gone>>

\* What the loop does with a command: -1 ends the trial, and the program after
\* MAX_NO_OF_TRIALS of them; with a size, a file is opened.  The pointers it
\* sets are set again by every window.
TakeCommand(command) ==
  /\ filesize' = command /\ lfilesize' = command
  /\ IF command = EndOfTrial
     THEN /\ trialNo' = trialNo + 1
          /\ pc' = IF trialNo' < MAX_NO_OF_TRIALS THEN "clear" ELSE "done"
     ELSE /\ trialNo' = trialNo
          /\ pc' = "chunk"
  /\ windows' = 0 /\ counted' = 0
  /\ UNCHANGED <<seqnos, acks, fwd_ptr, rev_ptr, top, wifi_taken, wigi_taken, gone>>

\* recv waits for a command.
RecvCommand ==
  /\ pc = "command"
  /\ ~gone
  /\ \E command \in Sizes \cup {EndOfTrial} : TakeCommand(command)

\* Mutant: no command, no end of a trial.
CommandClosedIgnored ==
  /\ pc = "command"
  /\ gone
  /\ pc' = "clear"
  /\ UNCHANGED <<file, seqnos, acks, pointers, taken, gone>>

\* It returns 0 once the sender is gone, and what is in filesize is taken for
\* a command.
CommandClosed ==
  /\ pc = "command"
  /\ gone
  /\ TakeCommand(filesize)

-----------------------------------------------------------------------------
(* The windows of a file *)

OpenWindow(above, expected, rest) ==
  /\ rev_ptr' = above /\ top' = above /\ fwd_ptr' = 0
  /\ wigig_seqno' = expected
  /\ filesize' = rest
  /\ windows' = windows + 1
  /\ wifi_taken' = {} /\ wigi_taken' = {}
  /\ pc' = "wifi"
  /\ UNCHANGED <<trialNo, lfilesize, wifi_seqno, acks, counted, gone>>

\* More than a buffer is to come: WiGig is expected to deliver the lowest
\* containers of the file only.
OpenWholeWindow ==
  /\ pc = "chunk"
  /\ filesize > BUFFER_SIZE
  /\ OpenWindow(BUFFER_SIZE - RX_BUFFER_SIZE - TAIL, RX_BUFFER_SIZE,
                filesize - BUFFER_SIZE)

\* The rest fits in one container.
OpenSmallWindow ==
  /\ pc = "chunk"
  /\ filesize \in 1 .. RX_BUFFER_SIZE
  /\ OpenWindow(RX_BUFFER_SIZE - TAIL, RX_BUFFER_SIZE, 0)

\* Mutant: room for two containers is left above the window.
OpenLastWindowLow ==
  /\ pc = "chunk"
  /\ filesize > RX_BUFFER_SIZE /\ filesize <= BUFFER_SIZE
  /\ OpenWindow(filesize - 3 * RX_BUFFER_SIZE - TAIL, filesize, 0)

OpenLastWindow ==
  /\ pc = "chunk"
  /\ filesize > RX_BUFFER_SIZE /\ filesize <= BUFFER_SIZE
  /\ OpenWindow(filesize - RX_BUFFER_SIZE - TAIL, filesize, 0)

\* No window is left: the file's time is taken.
CloseFile ==
  /\ pc = "chunk"
  /\ filesize <= 0
  /\ pc' = "clear"
  /\ UNCHANGED <<file, seqnos, acks, pointers, taken, gone>>

\* Mutant: a container that was passed is not refused.
FreshWifiAny(seqno) == seqno >= wifi_seqno - RX_BUFFER_SIZE
FreshWifi(seqno) == seqno >= wifi_seqno

\* A full window is left at once, without the acknowledgement.
WifiNext == IF fwd_ptr' >= rev_ptr THEN "chunk" ELSE "wigi"

\* recv on WiFi delivers a container, and it is counted unless its sequence
\* number has been passed.  Header and payload move the pointer.
RecvWifi(seqno) ==
  /\ pc = "wifi" /\ ~gone
  /\ IF FreshWifi(seqno)
     THEN /\ wifi_seqno' = AsInt(seqno + RX_BUFFER_SIZE)
          /\ fwd_ptr' = fwd_ptr + Container
          /\ counted' = counted + 1
          /\ wifi_taken' = wifi_taken \cup {seqno}
     ELSE UNCHANGED <<wifi_seqno, fwd_ptr, counted, wifi_taken>>
  /\ pc' = WifiNext
  /\ UNCHANGED <<file, wigig_seqno, acks, rev_ptr, top, windows, wigi_taken, gone>>

\* recv on WiFi delivers nothing, or a part of a container, which is dropped.
WifiNothing ==
  /\ pc = "wifi"
  /\ pc' = "wigi"
  /\ UNCHANGED <<file, seqnos, acks, pointers, taken, gone>>

\* Mutant: a container above the expected one is not refused.
FreshWigiAny(seqno) == seqno <= wigig_seqno + RX_BUFFER_SIZE
FreshWigi(seqno) == seqno <= wigig_seqno

\* recv on WiGig delivers a container: the other way round.
RecvWigi(seqno) ==
  /\ pc = "wigi" /\ ~gone
  /\ IF FreshWigi(seqno)
     THEN /\ wigig_seqno' = AsInt(seqno - RX_BUFFER_SIZE)
          /\ rev_ptr' = rev_ptr - Container
          /\ counted' = counted + 1
          /\ wigi_taken' = wigi_taken \cup {seqno}
     ELSE UNCHANGED <<wigig_seqno, rev_ptr, counted, wigi_taken>>
  /\ pc' = IF fwd_ptr >= rev_ptr' THEN "chunk" ELSE "ack"
  /\ UNCHANGED <<file, wifi_seqno, acks, fwd_ptr, top, windows, wifi_taken, gone>>

WigiNothing ==
  /\ pc = "wigi"
  /\ pc' = "ack"
  /\ UNCHANGED <<file, seqnos, acks, pointers, taken, gone>>

\* The end of the loop: what has changed is acknowledged, if send takes it,
\* and the pointers are compared once more.
SendAck(ret1) ==
  /\ pc = "ack"
  /\ IF seqnos # acks /\ ret1 > 0
     THEN fwd_ack' = wifi_seqno /\ rev_ack' = wigig_seqno
     ELSE UNCHANGED acks
  /\ pc' = IF fwd_ptr >= rev_ptr THEN "chunk" ELSE "wifi"
  /\ UNCHANGED <<file, seqnos, pointers, counted, wifi_taken, wigi_taken, gone>>

\* Once the sender is gone a send may raise SIGPIPE, which nothing handles.
SendKills ==
  /\ pc = "ack" /\ gone
  /\ seqnos # acks
  /\ pc' = "killed"
  /\ UNCHANGED <<file, seqnos, acks, pointers, taken, gone>>

Next ==
  \/ PeerCloses \/ SendKills
  \/ \E found \in BOOLEAN : ClearSockets(found)
  \/ RecvCommand \/ CommandClosed
  \/ OpenWholeWindow \/ OpenSmallWindow \/ OpenLastWindow \/ CloseFile
  \/ \E seqno \in Seqnos : RecvWifi(seqno) \/ RecvWigi(seqno)
  \/ WifiNothing \/ WigiNothing
  \/ \E ret1 \in {-1, 1} : SendAck(ret1)

\* The program runs on between files, and clear_sockets comes to its end once
\* no more bytes come in.  Nothing else is assumed of the connections.
Fairness ==
  /\ WF_vars(ClearSockets(FALSE)) /\ WF_vars(CommandClosed)

Spec == Init /\ [][Next]_vars /\ Fairness

-----------------------------------------------------------------------------
\* Types, and how far the pointers may leave the buffer: fwd_ptr by a header,
\* rev_ptr by a container and the tail.  Of a window smaller than the buffer
\* fwd_ptr may leave the top by a container.
TypeOK ==
  /\ pc \in {"clear", "command", "chunk", "wifi", "wigi", "ack", "done", "killed"}
  /\ trialNo \in Nat
  /\ filesize \in Int /\ lfilesize \in Int
  /\ wifi_seqno \in Int /\ wigig_seqno \in Int /\ fwd_ack \in Int /\ rev_ack \in Int
  /\ fwd_ptr \in 0 .. BUFFER_SIZE + HEADER
  /\ rev_ptr \in -(Container + TAIL) .. BUFFER_SIZE
  /\ top \in -TAIL .. BUFFER_SIZE
  /\ windows \in Nat /\ counted \in Nat
  /\ wifi_taken \subseteq Seqnos /\ wigi_taken \subseteq Seqnos
  /\ gone \in BOOLEAN

\* A container is counted once on its path within a window, however often it
\* is sent again and whatever headers a broken stream makes up: the pointers
\* have moved by the containers with different sequence numbers.  This ends
\* with a header so near the end of int that the number expected next wraps:
\* from then on everything is counted again.
CountedOnce ==
  pc \in {"wifi", "wigi", "ack", "chunk"} /\ windows > 0 =>
    /\ (\A seqno \in wifi_taken : seqno <= INT_MAX - RX_BUFFER_SIZE) =>
         fwd_ptr = Container * Cardinality(wifi_taken)
    /\ (\A seqno \in wigi_taken : seqno >= INT_MIN + RX_BUFFER_SIZE) =>
         top - rev_ptr = Container * Cardinality(wigi_taken)

\* WiGig has next to no part in a file of more than a buffer: of the containers
\* numbered from 0 on, a window that leaves a rest of the file takes two at
\* most from it, and refuses the others however many come in.
WigigIdleInLargeFiles ==
  pc \in {"wifi", "wigi", "ack", "chunk"} /\ windows > 0 /\ filesize > 0
    /\ (\A seqno \in wigi_taken : seqno >= INT_MIN + RX_BUFFER_SIZE) =>
    Cardinality(wigi_taken \cap Nat) <= 2

\* When a file's time is taken, the containers counted to it have its bytes,
\* but for their headers, which are counted too, and for a chunk and the tail
\* of every window.
FileMissesLittle ==
  pc \in {"clear", "command"} /\ windows > 0 =>
    lfilesize <= counted * Container + windows * (RX_BUFFER_SIZE + TAIL)

\* A receiver that has been told the trial is over ends with the session: the
\* -1 stays in filesize, and once the sender is gone it is taken for the end
\* of every trial that is left.  (After a file the receiver would go on with
\* empty ones for ever.)
EndsWithSession == gone /\ filesize = EndOfTrial ~> pc = "done"
=============================================================================
