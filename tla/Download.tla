------------------------------ MODULE Download ------------------------------
(***************************************************************************)
(* A download session: the receiver of DownloadClient and the sender it    *)
(* measures.  The sender is not part of the repository; of the receivers'  *)
(* code it can be told that it names the size of a file on the command     *)
(* connection, sends the file, and ends a trial with -1.  It is taken to   *)
(* name a file only when the one before has left it, to let the receiver   *)
(* clear its sockets before it starts another trial (nothing in the code   *)
(* tells it when: it has to pause), and to close its connections when it   *)
(* is done.                                                                *)
(***************************************************************************)
EXTENDS DownloadClient

CONSTANTS
  Sizes,        \* sizes of files
  COMMANDS,     \* commands in a session
  BLOCK,        \* bytes the sender sends in one call
  CAP           \* bytes one connection holds between the two programs

ASSUME SenderAssumption ==
  /\ Sizes \subseteq Nat \ {0} /\ Sizes # {}
  /\ COMMANDS \in Nat /\ CAP \in Nat /\ BLOCK \in Nat \ {0}

VARIABLES
  cmd,          \* commands under way
  wifi,         \* number of bytes in the two data connections
  wigi,
  tosend,       \* bytes of the file the sender has still to send
  left,         \* commands the sender has still to send
  closed        \* the sender has closed its connections

sender == <<tosend, left, closed>>
vars == <<client, cmd, wifi, wigi, sender>>

Init ==
  /\ ClientInit
  /\ cmd = <<>>
  /\ wifi = 0 /\ wigi = 0
  /\ tosend = 0 /\ left = COMMANDS /\ closed = FALSE

-----------------------------------------------------------------------------
(* The sender *)

\* The pause after a trial: the receiver has read the -1 and cleared.
Paused == EndOfTrial \notin {cmd[i] : i \in DOMAIN cmd} /\ pc # "clear"

SendCommand(c) ==
  /\ left > 0 /\ tosend = 0
  /\ Paused
  /\ cmd' = Append(cmd, c)
  /\ tosend' = IF c = EndOfTrial THEN 0 ELSE c
  /\ left' = left - 1
  /\ UNCHANGED <<client, wifi, wigi, closed>>

\* The last block of a file is what is left of it.
Block == IF tosend < BLOCK THEN tosend ELSE BLOCK

SendWifi ==
  /\ tosend > 0 /\ wifi + Block <= CAP
  /\ wifi' = wifi + Block
  /\ tosend' = tosend - Block
  /\ UNCHANGED <<client, cmd, wigi, left, closed>>

SendWigi ==
  /\ TwoPaths
  /\ tosend > 0 /\ wigi + Block <= CAP
  /\ wigi' = wigi + Block
  /\ tosend' = tosend - Block
  /\ UNCHANGED <<client, cmd, wifi, left, closed>>

Close ==
  /\ left = 0 /\ tosend = 0
  /\ closed' = TRUE
  /\ UNCHANGED <<client, cmd, wifi, wigi, tosend, left>>

SenderStep ==
  \/ \E c \in Sizes \cup {EndOfTrial} : SendCommand(c)
  \/ SendWifi \/ SendWigi
  \/ Close

-----------------------------------------------------------------------------
(* The receiver *)

\* A command is read as soon as the receiver asks for one, or later when it
\* does not wait for it.
TakeCommand ==
  /\ cmd # <<>>
  /\ IF Head(cmd) = EndOfTrial THEN RecvEndOfTrial ELSE RecvSize(Head(cmd))
  /\ cmd' = Tail(cmd)
  /\ UNCHANGED <<wifi, wigi, sender>>

NoCommand ==
  /\ ReuseSize \/ (closed /\ cmd = <<>> /\ CommandClosed)
  /\ UNCHANGED <<cmd, wifi, wigi, sender>>

\* clear_sockets takes a chunk, or finds nothing though some may be under way.
Clear(valread) ==
  /\ valread <= wifi
  /\ ClearSockets(valread)
  /\ wifi' = wifi - valread
  /\ UNCHANGED <<cmd, wigi, sender>>

TakeWifi(valread) ==
  /\ valread <= wifi
  /\ RecvWifi(valread)
  /\ wifi' = wifi - valread
  /\ UNCHANGED <<cmd, wigi, sender>>

TakeWigi(valread) ==
  /\ valread <= wigi
  /\ RecvWigi(valread)
  /\ wigi' = wigi - valread
  /\ UNCHANGED <<cmd, wifi, sender>>

\* What the receiver does without taking anything from a connection.
Turn ==
  /\ \/ OpenWholeWindow \/ OpenLastWindow \/ CloseFile
     \/ WifiEmpty \/ WigiEmpty
     \/ CheckEnds \/ \E second \in BOOLEAN : CheckGoesOn(second)
  /\ UNCHANGED <<cmd, wifi, wigi, sender>>

ReceiverStep ==
  \/ TakeCommand \/ NoCommand
  \/ \E valread \in 0 .. RX_BUFFER_SIZE : Clear(valread)
  \/ \E valread \in 1 .. RX_BUFFER_SIZE : TakeWifi(valread) \/ TakeWigi(valread)
  \/ Turn

Next == SenderStep \/ ReceiverStep

\* Both programs run on, and TCP delivers: a recv that is made again and
\* again with bytes in the connection finds some again and again.
Spec ==
  /\ Init /\ [][Next]_vars
  /\ WF_vars(SenderStep) /\ WF_vars(ReceiverStep)
  /\ SF_vars(\E valread \in 1 .. RX_BUFFER_SIZE : TakeWifi(valread))

-----------------------------------------------------------------------------
\* Types of the whole session.
TypeOK ==
  /\ ClientTypeOK
  /\ cmd \in Seq(Sizes \cup {EndOfTrial})
  /\ wifi \in 0 .. CAP /\ wigi \in 0 .. CAP
  /\ tosend \in Nat /\ left \in 0 .. COMMANDS
  /\ closed \in BOOLEAN

\* The most a file may leave of itself, by its size.
MayLeave(size) ==
  LET leave == ((size - 1) \div BUFFER_SIZE) * (RX_BUFFER_SIZE + TAIL) + TAIL
  IN  IF Tolerant THEN Larger(error, leave) ELSE leave

\* What the files of a session leave behind piles up in the connections: it
\* is counted to later files, and it takes up room that the sender needs.
\* When the receiver has done all it was asked to, no more is there than
\* every command may leave.
BacklogBounded ==
  pc = "command" /\ cmd = <<>> =>
    \E size \in Sizes :
      wifi + wigi + tosend <= (COMMANDS - left) * MayLeave(size)

\* With room for that backlog a session ends: the sender gets rid of every
\* file and the receiver completes every one, though each may lack bytes and
\* none is marked as the end.
SessionEnds ==
  prog = "filedownload" =>
    <>[](left = 0 /\ tosend = 0 /\ cmd = <<>> /\ windows = 0)
=============================================================================
