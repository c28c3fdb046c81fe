----------------------------- MODULE Rendezvous -----------------------------
(***************************************************************************)
(* How a sender and a receiver come by their connections.  The receiver    *)
(* (client.c) listens on a socket of its own for every RAT and then accepts*)
(* one connection on each; the sender (server.c) connects to them in the   *)
(* same order and gives up when one connect fails.  RATs are numbered in   *)
(* that order: WiFi, WiGig and, with three, Ethernet.                      *)
(*                                                                         *)
(* The kernel takes connections for a socket that listens before the       *)
(* program accepts them, and keeps those of a sender that is gone.  A      *)
(* sender that ended may be run again by hand, RUNS times in all.          *)
(***************************************************************************)
EXTENDS Integers, Sequences

CONSTANTS
  RATS,
  BACKLOG,      \* the second argument of listen
  RUNS          \* bound: how often the sender is run

ASSUME RendezvousAssumption ==
  RATS \in Nat \ {0} /\ BACKLOG \in Nat /\ RUNS \in Nat

VARIABLES
  rpc,          \* receiver: the call it is at
  at,           \* receiver: the RAT that call is for
  listening,    \* the RATs whose socket listens
  queue,        \* by RAT, the runs of the sender that wait to be accepted
  sock,         \* by RAT, the run whose connection was accepted, or NoRun
  spc,          \* sender: connecting, transmitting, or over
  run,          \* the run of the sender there is, or was last
  connected     \* history: by run, the connections it made
receiver == <<rpc, at, listening, sock>>
sender == <<spc, run, connected>>
vars == <<receiver, queue, sender>>

Rats == 1 .. RATS
NoRun == 0

Init ==
  /\ rpc = "setup" /\ at = 1
  /\ listening = {}
  /\ queue = [r \in Rats |-> << >>]
  /\ sock = [r \in Rats |-> NoRun]
  /\ spc = "over" /\ run = NoRun
  /\ connected = [n \in 1 .. RUNS |-> 0]

-----------------------------------------------------------------------------
(* The receiver *)

\* Every socket is created, bound to the port and tied to its interface.
SetUp ==
  /\ rpc = "setup"
  /\ rpc' = "listen"
  /\ UNCHANGED <<at, listening, sock, queue, sender>>

LastRat == at = RATS

\* listen, on one socket after the other.
Listen ==
  /\ rpc = "listen"
  /\ listening' = listening \cup {at}
  /\ IF LastRat
     THEN rpc' = "accept" /\ at' = 1
     ELSE rpc' = rpc /\ at' = at + 1
  /\ UNCHANGED <<sock, queue, sender>>

\* Mutants: every connection is accepted from the first socket, and the RAT is
\* counted on past the last one.
AcceptFirstSocket ==
  /\ rpc = "accept"
  /\ queue[1] # << >>
  /\ sock' = [sock EXCEPT ![at] = Head(queue[1])]
  /\ queue' = [queue EXCEPT ![1] = Tail(@)]
  /\ IF LastRat
     THEN rpc' = "receive" /\ at' = at
     ELSE rpc' = rpc /\ at' = at + 1
  /\ UNCHANGED <<listening, sender>>
AcceptPastEnd ==
  /\ rpc = "accept"
  /\ queue[at] # << >>
  /\ sock' = [sock EXCEPT ![at] = Head(queue[at])]
  /\ queue' = [queue EXCEPT ![at] = Tail(@)]
  /\ rpc' = IF LastRat THEN "receive" ELSE rpc
  /\ at' = at + 1
  /\ UNCHANGED <<listening, sender>>

\* accept waits for a connection and takes the oldest, its sender alive or not.
Accept ==
  /\ rpc = "accept"
  /\ queue[at] # << >>
  /\ sock' = [sock EXCEPT ![at] = Head(queue[at])]
  /\ queue' = [queue EXCEPT ![at] = Tail(@)]
  /\ IF LastRat
     THEN rpc' = "receive" /\ at' = at
     ELSE rpc' = rpc /\ at' = at + 1
  /\ UNCHANGED <<listening, sender>>

\* A call fails, the multi-RAT receiver has its window, or the program is
\* stopped: the kernel closes all of its sockets.
ReceiverEnds ==
  /\ rpc # "end"
  /\ rpc' = "end"
  /\ listening' = {}
  /\ queue' = [r \in Rats |-> << >>]
  /\ UNCHANGED <<at, sock, sender>>

-----------------------------------------------------------------------------
(* The sender *)

Run ==
  /\ spc = "over"
  /\ run < RUNS
  /\ run' = run + 1
  /\ spc' = "connect"
  /\ UNCHANGED <<connected, receiver, queue>>

\* connect succeeds as soon as the socket listens and has room.
Connect ==
  LET rat == connected[run] + 1 IN
  /\ spc = "connect"
  /\ rat \in listening
  /\ Len(queue[rat]) <= BACKLOG
  /\ queue' = [queue EXCEPT ![rat] = Append(@, run)]
  /\ connected' = [connected EXCEPT ![run] = rat]
  /\ spc' = IF rat = RATS THEN "transmit" ELSE "connect"
  /\ UNCHANGED <<run, receiver>>

\* No socket listens, the radio is gone, or the socket has no room for too
\* long: the sender returns.
ConnectFails ==
  /\ spc = "connect"
  /\ spc' = "over"
  /\ UNCHANGED <<run, connected, receiver, queue>>

\* Nothing but a signal ends a sender that transmits: one from the keyboard, or
\* the SIGPIPE of a connection that TCP has given up because its radio is gone...
Interrupt ==
  /\ spc = "transmit"
  /\ spc' = "over"
  /\ UNCHANGED <<run, connected, receiver, queue>>

\* Mutant: send is told not to raise the signal.
SendBrokenIgnored == FALSE /\ UNCHANGED vars

\* ... or the SIGPIPE that send raises when the other end is gone.
SendBroken ==
  /\ spc = "transmit" /\ rpc = "end"
  /\ spc' = "over"
  /\ UNCHANGED <<run, connected, receiver, queue>>

Next ==
  \/ SetUp \/ Listen \/ Accept \/ ReceiverEnds
  \/ Run \/ Connect \/ ConnectFails \/ Interrupt \/ SendBroken

\* The receiver goes on with its calls, and a sender that transmits sends in
\* every turn of its loop.  Nobody need run a sender, and no connect need
\* succeed.
Fairness ==
  WF_vars(SetUp) /\ WF_vars(Listen) /\ WF_vars(Accept) /\ WF_vars(SendBroken)

Spec == Init /\ [][Next]_vars /\ Fairness

-----------------------------------------------------------------------------
Whole(n) == n \in 1 .. RUNS /\ connected[n] = RATS

\* Types.
TypeOK ==
  /\ rpc \in {"setup", "listen", "accept", "receive", "end"}
  /\ at \in Rats
  /\ listening \subseteq Rats
  /\ queue \in [Rats -> Seq(1 .. RUNS)]
  /\ sock \in [Rats -> 0 .. RUNS]
  /\ spc \in {"connect", "transmit", "over"}
  /\ run \in 0 .. RUNS
  /\ connected \in [1 .. RUNS -> 0 .. RATS]

\* A connection the sender was told it has is the one the receiver accepted
\* on that RAT, or waits there to be accepted, until the receiver ends.
NoneLost ==
  rpc # "end" =>
    \A r \in Rats, n \in 1 .. RUNS :
      connected[n] >= r =>
        sock[r] = n \/ \E k \in 1 .. Len(queue[r]) : queue[r][k] = n

\* When the receiver has accepted connections of different runs, a run that
\* gave up between the two RATs left the first of them: what is read from the
\* earlier RAT is dead, and never the other way round.  The last RAT's
\* connection is of a run that got all of its connections.
StaleOnlyFirst ==
  /\ \A r, s \in Rats :
       r < s /\ sock[s] # NoRun /\ sock[r] # sock[s] =>
         /\ sock[r] # NoRun /\ sock[r] < sock[s]
         /\ connected[sock[r]] \in r .. s - 1
  /\ sock[RATS] # NoRun => Whole(sock[RATS])

\* No sender transmits for ever to a receiver that still waits for one or is
\* gone: the receiver comes to read its RATs, or the sender is over.
Meets == spc = "transmit" ~> rpc = "receive" \/ spc # "transmit"
=============================================================================
