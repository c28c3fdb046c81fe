--------------------------- MODULE DownloadClient ---------------------------
(***************************************************************************)
(* The receivers that measure downloads: FBDT-Filedownload/client.c and    *)
(* progressive_live_video/{client,mptcp_client}.c, one loop in three       *)
(* builds.  A command connection names the size of the next file, or -1 to *)
(* end the trial; the file's bytes come over WiFi, and over WiGig too      *)
(* where WIGIG is defined.  No byte names its file: what is in the socket  *)
(* is counted to the file that is open.                                    *)
(*                                                                         *)
(* The bytes are not kept anywhere, so only their number is modelled.      *)
(***************************************************************************)
EXTENDS Bytes

CONSTANTS
  BUFFER_SIZE,
  RX_BUFFER_SIZE,
  WORD,
  TAIL,         \* the 8 bytes the code leaves free above a window
  error,        \* how far short of its size a file may be called complete
  Junk          \* what gfilesize may hold before the first command

ASSUME DownloadAssumption ==
  /\ BUFFER_SIZE \in Nat /\ RX_BUFFER_SIZE \in Nat \ {0}
  /\ WORD \in Nat \ {0} /\ TAIL \in Nat /\ error \in Nat
  /\ BUFFER_SIZE > RX_BUFFER_SIZE + TAIL
  /\ Junk \subseteq Int

VARIABLES
  prog,         \* which of the programs runs; it never changes
  pc,           \* the next call or test
  filesize,     \* what is left of the file once the open window is filled
  lfilesize,    \* the size of the file that is open
  gfilesize,    \* the size of the last command
  bytes,        \* kept where it is compared with lfilesize, only logged elsewhere
  fwd_ptr,      \* byte offsets into buff, int pointers in the code
  rev_ptr,
  got,          \* history: bytes counted to the file that is open
  windows       \* history: windows opened for it

client == <<prog, pc, filesize, lfilesize, gfilesize, bytes, fwd_ptr, rev_ptr,
            got, windows>>

\* FBDT-Filedownload/mptcp_client.c has the loop of "filedownload".
Programs == {"filedownload", "livevideo", "livevideo_mptcp"}

\* WIGIG is defined, and the command is polled for with MSG_DONTWAIT, in
\* progressive_live_video/client.c only.  The two others are tolerant, set
\* bytes back with every file and clear the sockets after a trial.
TwoPaths == prog = "livevideo"
Tolerant == prog # "livevideo"

\* The live video programs set bytes back every second.
Meters == prog # "filedownload"

EndOfTrial == -1

\* filesize and lfilesize are not initialised either, but no program reads
\* them before its first command, except that of a peer that closes the
\* connection without sending one.
ClientInit ==
  /\ prog \in Programs
  /\ pc = "command"
  /\ filesize = 0 /\ lfilesize = 0
  /\ gfilesize \in Junk
  /\ bytes = 0
  /\ fwd_ptr = 0 /\ rev_ptr = 0
  /\ got = 0 /\ windows = 0

-----------------------------------------------------------------------------
(* The command connection *)

\* Mutant: bytes is carried over from the file before.
OpenFileKeepsBytes ==
  /\ bytes' = bytes
  /\ got' = 0 /\ windows' = 0
  /\ pc' = "chunk"
  /\ UNCHANGED <<prog, fwd_ptr, rev_ptr>>

\* The counts the loop sets back before a file.  The pointers it sets too are
\* set again by every window.
OpenFile ==
  /\ bytes' = 0
  /\ got' = 0 /\ windows' = 0
  /\ pc' = "chunk"
  /\ UNCHANGED <<prog, fwd_ptr, rev_ptr>>

\* recv on the command connection delivers a size.
RecvSize(size) ==
  /\ pc = "command"
  /\ size # EndOfTrial
  /\ filesize' = size /\ lfilesize' = size /\ gfilesize' = size
  /\ OpenFile

\* It finds nothing: with MSG_DONTWAIT the size of the last command is
\* taken again.
ReuseSize ==
  /\ pc = "command"
  /\ ~Tolerant
  /\ filesize' = gfilesize /\ lfilesize' = gfilesize
  /\ UNCHANGED gfilesize
  /\ OpenFile

\* The peer has closed the command connection: a recv that waits returns 0
\* and the loop goes on with the filesize it has.
CommandClosed ==
  /\ pc = "command"
  /\ Tolerant
  /\ UNCHANGED <<filesize, lfilesize, gfilesize>>
  /\ OpenFile

\* recv delivers -1: the trial is over.
RecvEndOfTrial ==
  /\ pc = "command"
  /\ filesize' = EndOfTrial /\ gfilesize' = EndOfTrial
  /\ lfilesize' = IF Tolerant THEN lfilesize ELSE gfilesize
  /\ pc' = IF Tolerant THEN "clear" ELSE "command"
  /\ got' = 0 /\ windows' = 0
  /\ UNCHANGED <<prog, bytes, fwd_ptr, rev_ptr>>

\* Mutant: the recv of clear_sockets waits for a byte.
ClearSocketsWaits(valread) ==
  /\ pc = "clear"
  /\ valread > 0
  /\ UNCHANGED client

\* One turn of clear_sockets: it stops when no byte is there to be taken,
\* whatever may be under way.  The programs that call it have no WiGig: the
\* descriptor they pass for it was never assigned and is taken to be none.
ClearSockets(valread) ==
  /\ pc = "clear"
  /\ pc' = IF valread > 0 THEN "clear" ELSE "command"
  /\ UNCHANGED <<prog, filesize, lfilesize, gfilesize, bytes, fwd_ptr, rev_ptr,
                 got, windows>>

-----------------------------------------------------------------------------
(* The windows of a file *)

\* A file with more than a buffer to come gets a window of a whole buffer.
OpenWholeWindow ==
  /\ pc = "chunk"
  /\ filesize > BUFFER_SIZE
  /\ rev_ptr' = BUFFER_SIZE - RX_BUFFER_SIZE - TAIL
  /\ filesize' = filesize - BUFFER_SIZE
  /\ fwd_ptr' = 0 /\ windows' = windows + 1
  /\ pc' = "wifi"
  /\ UNCHANGED <<prog, lfilesize, gfilesize, bytes, got>>

\* Mutant: the window is as large as an empty one of a larger file.
OpenLastWindowShort ==
  /\ pc = "chunk"
  /\ filesize \in 1 .. BUFFER_SIZE
  /\ rev_ptr' = filesize - RX_BUFFER_SIZE - TAIL - RX_BUFFER_SIZE
  /\ filesize' = 0
  /\ fwd_ptr' = 0 /\ windows' = windows + 1
  /\ pc' = "wifi"
  /\ UNCHANGED <<prog, lfilesize, gfilesize, bytes, got>>

\* The rest of the file gets the last window.
OpenLastWindow ==
  /\ pc = "chunk"
  /\ filesize \in 1 .. BUFFER_SIZE
  /\ rev_ptr' = filesize - TAIL
  /\ filesize' = 0
  /\ fwd_ptr' = 0 /\ windows' = windows + 1
  /\ pc' = "wifi"
  /\ UNCHANGED <<prog, lfilesize, gfilesize, bytes, got>>

\* No window is left: the file is complete and its time is taken.
CloseFile ==
  /\ pc = "chunk"
  /\ filesize <= 0
  /\ pc' = "command"
  /\ UNCHANGED <<prog, filesize, lfilesize, gfilesize, bytes, fwd_ptr, rev_ptr,
                 got, windows>>

\* recv on WiFi delivers a chunk; the window may close before WiGig is polled.
RecvWifi(valread) ==
  /\ pc = "wifi"
  /\ fwd_ptr' = fwd_ptr + Words(valread, WORD)
  /\ bytes' = IF Tolerant THEN bytes + valread ELSE 0
  /\ got' = got + valread
  /\ pc' = IF fwd_ptr' >= rev_ptr THEN "chunk"
           ELSE IF TwoPaths THEN "wigi" ELSE "check"
  /\ UNCHANGED <<prog, filesize, lfilesize, gfilesize, rev_ptr, windows>>

\* recv on WiFi delivers nothing.
WifiEmpty ==
  /\ pc = "wifi"
  /\ pc' = IF TwoPaths THEN "wigi" ELSE "check"
  /\ UNCHANGED <<prog, filesize, lfilesize, gfilesize, bytes, fwd_ptr, rev_ptr,
                 got, windows>>

\* recv on WiGig delivers a chunk.
RecvWigi(valread) ==
  /\ pc = "wigi"
  /\ rev_ptr' = rev_ptr - Words(valread, WORD)
  /\ bytes' = IF Tolerant THEN bytes + valread ELSE 0
  /\ got' = got + valread
  /\ pc' = IF fwd_ptr >= rev_ptr' THEN "chunk" ELSE "check"
  /\ UNCHANGED <<prog, filesize, lfilesize, gfilesize, fwd_ptr, windows>>

\* recv on WiGig delivers nothing.
WigiEmpty ==
  /\ pc = "wigi"
  /\ pc' = "check"
  /\ UNCHANGED <<prog, filesize, lfilesize, gfilesize, bytes, fwd_ptr, rev_ptr,
                 got, windows>>

\* Mutant: the count is compared with twice the tolerance taken off.
EnoughTooEarly == Tolerant /\ bytes >= lfilesize - 2 * error

\* Mutant: only the pointers close a window.
EnoughNever == FALSE

\* The file has all its bytes but error of them.
Enough == Tolerant /\ bytes >= lfilesize - error

\* The tests at the end of the loop: the pointers have met, or the file is as
\* good as complete.  The other windows of a complete file are gone through
\* the same way, with one turn each.
CheckEnds ==
  /\ pc = "check"
  /\ fwd_ptr >= rev_ptr \/ Enough
  /\ pc' = "chunk"
  /\ UNCHANGED <<prog, filesize, lfilesize, gfilesize, bytes, fwd_ptr, rev_ptr,
                 got, windows>>

\* The loop goes on, and bytes is written to the log and set back if a second
\* has passed.
CheckGoesOn(second) ==
  /\ pc = "check"
  /\ fwd_ptr < rev_ptr /\ ~Enough
  /\ pc' = "wifi"
  /\ bytes' = IF second /\ Meters THEN 0 ELSE bytes
  /\ UNCHANGED <<prog, filesize, lfilesize, gfilesize, fwd_ptr, rev_ptr, got,
                 windows>>

-----------------------------------------------------------------------------
Larger(m, n) == IF m > n THEN m ELSE n

\* What a file's windows may leave of it in the sockets: a chunk and the tail
\* of every whole window, the tail of the last one.
WindowsLeave == (windows - 1) * (RX_BUFFER_SIZE + TAIL) + TAIL

\* Types.  bytes and got only grow within a file, and the pointers pass the
\* edges of a window by less than a chunk.
ClientTypeOK ==
  /\ prog \in Programs
  /\ pc \in {"command", "clear", "chunk", "wifi", "wigi", "check"}
  /\ filesize \in Int /\ lfilesize \in Int /\ gfilesize \in Int
  /\ bytes \in Nat /\ got \in Nat /\ windows \in Nat
  /\ fwd_ptr \in 0 .. BUFFER_SIZE - TAIL + RX_BUFFER_SIZE
  /\ rev_ptr \in -(TAIL + RX_BUFFER_SIZE) .. BUFFER_SIZE - TAIL

FileClosed == pc = "command" /\ windows > 0

\* When the time of a download is taken, the bytes counted to the file are
\* its size but for the tolerance, or but for what its windows leave.
CompleteEnough ==
  FileClosed =>
    lfilesize - got <=
      IF Tolerant THEN Larger(error, WindowsLeave) ELSE WindowsLeave

\* No byte names its file, and the sockets may be full of other files' bytes,
\* so what a download is measured on is bounded by its own size alone: it is
\* counted no further than its size less the tolerance and a chunk for every
\* window it opens.  (How many of those bytes are its own is not said.)  The
\* tolerance is what stops it, also when chunks that are not whole ints leave
\* the pointers behind.
OvershootBounded ==
  FileClosed /\ prog = "filedownload" =>
    got <= Larger(lfilesize - error, 0) + windows * RX_BUFFER_SIZE
=============================================================================
