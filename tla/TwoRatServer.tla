---------------------------- MODULE TwoRatServer ----------------------------
(***************************************************************************)
(* The sender of the two-RAT transmission (server.c): an endless sequence  *)
(* of transmission windows, each the same BUFFER_SIZE buffer, pushed       *)
(* upwards over WiFi and downwards over WiGig with non-blocking sends.     *)
(*                                                                         *)
(* fwd_ptr and rev_ptr are int pointers; here they are byte offsets into   *)
(* buff.  WORD is sizeof(int), 4 in the code.  The literal 8 of the code   *)
(* (the two ints at the top of the buffer that are never sent) is Pad.     *)
(***************************************************************************)
EXTENDS Bytes

CONSTANTS
  BUFFER_SIZE,
  SEND_BUFFER_SIZE,
  WORD,
  Grain         \* send takes a multiple of Grain bytes: 1 is what the call
                \* allows, WORD what whole-word socket buffers give

\* One block and the two spare ints fit into the buffer: true of 1024*1024
\* and 1024*50.  TwoRat assumes it.
ServerAssumption ==
  /\ BUFFER_SIZE \in Nat /\ SEND_BUFFER_SIZE \in Nat \ {0}
  /\ WORD \in Nat \ {0} /\ Grain \in Nat \ {0}
  /\ SEND_BUFFER_SIZE + 2 * WORD <= BUFFER_SIZE

VARIABLES
  pc,           \* the next call: "wifi", "wigi", "turn" once the loop ends, or
                \* "dead" once SIGPIPE has killed the program
  fwd_ptr,
  rev_ptr,
  window        \* history: "first" until the first window is done, then "later"

vars == <<pc, fwd_ptr, rev_ptr, window>>

Pad == 2 * WORD
Top == BUFFER_SIZE - Pad

\* What send can return for n bytes: -1 when the socket's buffer is full, else
\* what it took.  TCP also returns -1, once, when it has given the connection
\* up; the code treats that alike, and its next send there is Killed.
SendReturns(n) == {-1} \cup {r \in 1 .. n : r % Grain = 0}

\* Mutant: the two spare ints are forgotten.
RevStartUnpadded == BUFFER_SIZE - SEND_BUFFER_SIZE

\* Where the backward pointer starts: the block below the two spare ints.
RevStart == BUFFER_SIZE - SEND_BUFFER_SIZE - Pad

Init ==
  /\ pc = "wifi"
  /\ fwd_ptr = 0 /\ rev_ptr = RevStart
  /\ window = "first"

\* The bytes of buff the initialisation loop writes: all but the last int.
Initialised == 0 .. BUFFER_SIZE - WORD - 1

\* The forward half of the loop body: a block from fwd_ptr goes to sockwifi,
\* and fwd_ptr moves past the whole ints that send took.
SendForward(ret) ==
  /\ pc = "wifi"
  /\ ret \in SendReturns(SEND_BUFFER_SIZE)
  /\ fwd_ptr' = IF ret > 0 THEN fwd_ptr + Words(ret, WORD) ELSE fwd_ptr
  /\ pc' = "wigi"
  /\ UNCHANGED <<rev_ptr, window>>

\* Mutant: the loop goes on while the pointers are a block apart or less.
LoopTestLate == fwd_ptr <= rev_ptr + SEND_BUFFER_SIZE

\* Mutant: the loop ends one block early.
LoopTestEarly == fwd_ptr + SEND_BUFFER_SIZE <= rev_ptr

\* The test of the inner while.
LoopTest == fwd_ptr <= rev_ptr

\* The backward half: the block at rev_ptr goes to sockwigi back to front,
\* rev_ptr moves down past the whole ints taken, and the loop test follows.
SendBackward(ret) ==
  /\ pc = "wigi"
  /\ ret \in SendReturns(SEND_BUFFER_SIZE)
  /\ rev_ptr' = IF ret > 0 THEN rev_ptr - Words(ret, WORD) ELSE rev_ptr
  /\ UNCHANGED <<fwd_ptr, window>>
  /\ pc' = IF LoopTest' THEN "wifi" ELSE "turn"

\* The outer while(1): the next window starts from the same buffer.
NextWindow ==
  /\ pc = "turn"
  /\ pc' = "wifi"
  /\ fwd_ptr' = 0 /\ rev_ptr' = RevStart
  /\ window' = "later"

\* The next send goes to a connection that TCP has given up.  There is no
\* MSG_NOSIGNAL and no handler for SIGPIPE: the program ends inside the call.
Killed ==
  /\ pc \in {"wifi", "wigi"}
  /\ pc' = "dead"
  /\ UNCHANGED <<fwd_ptr, rev_ptr, window>>

Next ==
  \/ \E ret \in SendReturns(SEND_BUFFER_SIZE) : SendForward(ret)
  \/ \E ret \in SendReturns(SEND_BUFFER_SIZE) : SendBackward(ret)
  \/ NextWindow
  \/ Killed

Spec == Init /\ [][Next]_vars
-----------------------------------------------------------------------------
\* Types and ranges of the sender's variables.
TypeOK ==
  /\ pc \in {"wifi", "wigi", "turn", "dead"}
  /\ fwd_ptr \in 0 .. BUFFER_SIZE
  /\ rev_ptr \in -SEND_BUFFER_SIZE .. BUFFER_SIZE
  /\ window \in {"first", "later"}

\* Every block memcpy or reverse_memcpy takes from buff lies inside it and
\* was written by the initialisation loop, although the loop test runs once
\* per pair of sends and not before the backward one.
ReadsInitialised ==
  /\ pc = "wifi" => fwd_ptr .. fwd_ptr + SEND_BUFFER_SIZE - 1 \subseteq Initialised
  /\ pc = "wigi" => rev_ptr .. rev_ptr + SEND_BUFFER_SIZE - 1 \subseteq Initialised

\* The end of the block at rev_ptr: everything from here up has been sent.
BackwardFront == rev_ptr + SEND_BUFFER_SIZE

\* The sender keeps the promise of a transmission window: its fronts only
\* close in on each other, it turns to the next window with less than one
\* block unsent, and the two paths send at most one block of it twice.
SentWindow == INSTANCE TransmissionWindow WITH
  Top <- Top, Step <- SEND_BUFFER_SIZE,
  Slack <- SEND_BUFFER_SIZE, Overlap <- SEND_BUFFER_SIZE,
  lo <- fwd_ptr, hi <- BackwardFront
SendsWindow == SentWindow!Spec
=============================================================================
