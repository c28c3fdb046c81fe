# FBDT in TLA+

FBDT (Forward and Backward Data Transmission) moves a *transmission window* over several
radio access technologies (RATs) at once: one TCP connection sends the window upwards from
its start, another sends it downwards from its end, and the window is done when the two
meet. The repository's own logic is a handful of C programs under `FBDT-Userspace/` and
`TMC/FBDT-Userspace/`; everything else in it is measurement data, a saved web site, compiled
programs and host configuration.

This directory specifies those programs in TLA+, checks the specifications with TLC on small
instances and proves the results that matter for every size with TLAPS. The first part below
is the inventory of the system, the second the plan, the rest describes what exists.

A warning about names: in the repository the program called *server* connects and **sends**
the data, the one called *client* listens and **receives** it.

## 1. Inventory

Paths are relative to `src/`; `U` is `FBDT-Userspace`, `T` is `TMC/FBDT-Userspace`.

| component | source | state it keeps | operations | status |
|---|---|---|---|---|
| `reverse_memcpy` | in every program, e.g. `U/Server/FBDT-two-RAT-transmission/server.c` 31-40 | two cursors, a countdown | copy one byte, return | modelled, proved |
| two-RAT sender | the same `server.c` (two identical copies under `T`) | `buff`, `fwd_ptr`, `rev_ptr` | forward send, backward send, next window | modelled from the connections on, proved |
| two-RAT receiver | `U/Client/FBDT-two-RAT-transmission/client.c`; the `T` copy has other sizes | `buff`, `fwd_ptr`, `rev_ptr`, `totalbytes`, two counts | poll WiFi, poll WiGig, close the window | modelled from the connections on, proved |
| multi-RAT sender | `U/Server/FBDT-multi-RAT-transmission/server.c` (identical under `T`) | `buff`, three pointers and a reference pointer | three sends, rebalancing, next turn | modelled from the connections on, proved |
| multi-RAT receiver | `U/Client/FBDT-multi-RAT-transmission/client.c`; the `T` copy never ends | `buff`, three pointers, `totalbytes`, the last sequence number | poll WiFi, Ethernet, WiGig; check the buffer and end | modelled from the connections on (`U`), proved |
| SPTCP | the kernel's TCP, used through `send` and `recv` with `MSG_DONTWAIT` | bytes under way | take part of a block, deliver part of what is under way | modelled as an external component |
| connection setup | the first half of every program | listening and connected sockets | bind, listen, accept; connect | modelled, proved |
| file download receiver | `T/Client/FBDT-two-RAT-transmission/FBDT-Filedownload/` | window and file sizes, the two pointers, the count, a command connection | read a size, receive chunks, drain the sockets | modelled, proved |
| live video receiver | `T/Client/.../progressive_live_video/` | as the file download | as the file download; polls for a size, two paths | modelled, proved |
| web download receiver | `T/Client/.../FBDT-webdownload/client.c` | two sequence numbers, the pointers, what was acknowledged | receive a container, acknowledge, drain | modelled, proved |
| route and logging scripts | `*.sh` | none | configure the host | not modelled |
| kernel meta-socket | named in `README.md` | - | - | not in the repository |

**How they interact.** A sender and a receiver are two processes that share nothing but two
or three TCP streams. There is no header, no acknowledgement and no end-of-window mark in a
two-RAT stream: the receiver knows where a chunk belongs only from the order of the bytes on
its path and from how many it has counted. The multi-RAT receiver reads a sequence number out
of the data itself, since the data of the test programs is the offset of each int. The
download receivers add a command connection or container headers; their senders are not in
the repository.

**What makes it hard.**

- *Ordering.* Chunks of the paths interleave in any way, and every `send` and `recv` cuts the
  stream anywhere: the receiver reverses chunks, not the blocks the sender reversed.
- *Edges.* `1024*1024-8` is no multiple of a block; pointers are `int *` moved by `n/4`; the
  loop tests run once for two calls. The fronts meet somewhere inside a block.
- *Stale or uninitialised state.* `totalbytes` is not initialised in the receivers; the
  multi-RAT sender forgets its pointers in every turn of its loop.
- *Agreement by counting.* The two ends decide separately, by different rules, that a window
  is over: pointers crossing at one end, a byte count or pointers meeting at the other.
- *Liveness.* One RAT may stall; the point of FBDT is that the other carries on. It does until
  TCP gives the stalled connection up: the next `send` on it raises SIGPIPE, which no program
  handles, and the sender ends.
- *Termination.* The senders never end by themselves; a closed connection is what ends them.

**What correctness means**, per component: `reverse_memcpy` reverses, and undoes itself across any
cut; a sender reads only initialised bytes, covers its window and sends at most a block of it
twice; a receiver never lets one path overwrite the other and never loses count; end to end, the
streams are ascending and descending, every byte of a window lands in its place, and windows turn,
or the programs end, whichever RAT is alive, as long as no connection is given up. `PROJECT.json`
lists, under `hazards`, the line where each of these could go wrong and the property that watches
it.

## 2. Plan

Modules in the order they were written.

1. **Bytes and copies:** `Bytes`, `ReverseCopy`; proofs `Bytes_proofs`, `ReverseCopy_proofs`.
2. **Two RATs:** abstract `TransmissionWindow`; `TwoRatServer` and `TwoRatClient`, each shown
   to implement it; `Sptcp`; the composition `TwoRat` and `TwoRatBuffer` on top of it;
   proofs `TwoRatClient_proofs`, `TwoRat_proofs`.
3. **Many RATs:** `MultiRatServer`, `MultiRatClient`, composed by `MultiRat`, with
   `MultiRatBuffer` on top of it; `MultiRat_proofs`.
4. **The download receivers:** `DownloadClient` for file download and live video, composed by
   `Download` with a sender as an external component; `Download_proofs`.
5. **The web download receiver:** `WebDownloadClient`; `WebDownloadClient_proofs`.
6. **Connections:** `Rendezvous`; `Rendezvous_proofs`.

What is left, in the order of its worth: the two TMC receivers whose constants or loops differ
(the two-RAT one has an `RX_BUFFER_SIZE` of 100 KiB, for which `ClientAssumption` is false, the
multi-RAT one no exit from its outer loop); `CountsExact` and `NoOverwrite` of the receiver
restated for the composition; what the receiver's buffer of the multi-RAT transmission holds
when every sequence number is read right.

## 3. The modules

### Bytes, ReverseCopy

`Bytes` has `memcpy` and `reverse_memcpy` as functions on buffers, the two ways a block is
built in `send_buff`, and `Words(n, WORD)`, the distance an `int *` moves when `n/4` is added
to it. Offsets and lengths are bytes. `ReverseCopy` is the loop of `reverse_memcpy` step by
step (`dest`, `d`, `s`, `len`), with `len` wrapping below zero as a `size_t` does; it shows
that the loop computes the operator the other modules use.

### TransmissionWindow

The abstract specification: two fronts `lo` and `hi`, `Forward` and `Backward` steps of at
most `Step`, never more than `Overlap` past each other, and a `Turn` only when fewer than
`Slack` bytes are left between them. The sender's fronts are what it has handed to its
sockets; the receiver's are what it has counted.

### TwoRatServer, TwoRatClient

| in the module | in the code |
|---|---|
| `SendForward(ret)`, `SendBackward(ret)` | `server.c` 152-173, 175-215: build the block, `send`, move the pointer by what was taken; the `while` test of line 150 belongs to the second |
| `NextWindow` | the head of `while(1)`, 144-147 |
| `RecvWifi`/`WifiEmpty`, `RecvWigi`/`WigiEmpty` | `client.c` 205-223 and 225-267: the poll, the placement and the two tests that leave the loop |
| `CloseWindow` | `client.c` 282-303 and the head of the next turn |
| `pc` | the call the program is at |
| `window` | history only: in the first window or a later one |

Pointers are byte offsets into `buff`, `WORD` is `sizeof(int)`, `Pad` the literal 8. The
result of a call is the action's parameter; `Next` lets it be anything the call allows, with
`Grain` naming the multiple in which bytes move. `totalbytes` is not initialised
(`client.c` 65), so it starts from any member of `JunkTotals`, a set of integers. A NaN, or a number
so far below zero that adding a chunk does not change it, never fills a window by the count and
acts like any number below minus the size of the buffer. `ReceivedWindow` maps the first window,
which junk may close at any count, to one in which nothing has arrived.

### Sptcp, TwoRat, TwoRatBuffer

A pipe is a sequence of bytes, bounded by `CAP`. It loses, duplicates and reorders nothing, which
is what TCP gives, but it takes and delivers any part, and does nothing whenever it likes.
`TwoRat` instantiates sender and receiver over two pipes. As the sender's buffer holds the offset
of every int and never changes, a byte under way is its offset, with the window it was sent in as
history. `ServerKilled` is the end of the sender: a RAT other than `up` may have been silent for
so long that TCP gives its connection up, and the next `send` there raises SIGPIPE (`server.c` 157
and 181; neither has MSG_NOSIGNAL). `TwoRatBuffer` adds the receiver's `buff`. `SenderSpec` of
`TwoRat` is the sender alone.

### MultiRatSizes, MultiRatServer, MultiRatClient, MultiRat, MultiRatBuffer

The sender sends one block of each region and starts over: the inner loop is commented out (line
194), so the pointers never get past the first block. What the rebalancing code (275-287) assigns
is overwritten by the next statement executed, so `NextTurn` stands for both; its two conditions
are kept, and shown never to hold. The receiver polls three sockets and places each chunk by a
sequence number. `SeqnosOf` is the read of line 282 and line 337: the code takes
`&rx_buff[valread/4]` of a `char` array, so the four bytes come from a quarter of the way into the
chunk. If they are one int of the buffer the number is that int; if they straddle two ints or the
end of the chunk it is one of `JunkSeqnos`. The receiver ends after one window. A `send` kills the
sender with SIGPIPE after that, or before it on a connection that TCP has given up
(`ServerKilled`, `server.c` 201, 223 and 239). The range check (284, 339) comes before the pointer
is lowered, so chunks with out-of-range numbers, one after the other, take a backward pointer down
and in the end below `buff`: `StrayBounded` says by how much at most, and `MultiRatBuffer`, whose
functions have no bytes outside the buffer, leaves out what is written there. `MCMultiRat` and
`MCMultiRatBuffer` give the capacities and the junk for TLC. `totalbytes`, uninitialised here too
(`client.c` 64), starts from `JunkTotals`.

### DownloadClient, Download

One loop in four programs: `FBDT-Filedownload/client.c` and `mptcp_client.c`, which differ
only in how they set up their sockets, and the two of `progressive_live_video/`. `prog` says
which is meant, and three operators say what its build does: `TwoPaths` (WIGIG is defined),
`Tolerant` (it waits for commands, closes a file `error` bytes early and clears its sockets
after a trial) and `Meters` (it sets `bytes` back every second).

| in the module | in the code (`FBDT-Filedownload/client.c`; live video) |
|---|---|
| `RecvSize`, `ReuseSize`, `CommandClosed`, `RecvEndOfTrial` | what a `recv` on the command connection can come to: 306-322; 306-324 |
| `OpenFile` | the resets 325-341 |
| `ClearSockets(valread)` | one turn of `clear_sockets`, 62-80 |
| `OpenWholeWindow`, `OpenLastWindow`, `CloseFile` | the chunk loop 347-363 and its end 516-525 |
| `RecvWifi`, `WifiEmpty`; `RecvWigi`, `WigiEmpty` | 368-398; live video 406-456 |
| `CheckEnds`, `CheckGoesOn` | 456-479; live video 459-498 |

The bytes are counted and never looked at, so a connection is the number of bytes in it.
`got` and `windows` are history: bytes counted to the open file and windows opened for it.
The sender is not in the repository. `Download` has the one the receivers are written for: it
names a size, sends that many bytes in blocks over either path, ends a trial with -1 and
closes in the end. One thing about it is an assumption: after -1 it pauses until the receiver
has cleared its sockets (`Paused`), although nothing tells it when that is so.

### WebDownloadClient

The loop of `FBDT-webdownload/client.c`: trials, commands, three kinds of window (387-404),
containers that are counted unless their sequence number has been passed (410-452, 458-523),
acknowledgements (525-538). `wifi_seqno`, `wigig_seqno`, `fwd_ack`, `rev_ack` and `filesize`
are not initialised and start from any member of `Junk`. As the sender is not in the
repository, and as a container that `recv` cuts in two makes headers out of payload, the
connections deliver a container with any number of `Seqnos` at any time, or nothing. The number
expected next is an `int` computed from the header (421, 471) and wraps at either end (`AsInt`;
`INT_MAX` is a constant of the module). What is
shown holds for every sender, therefore, but completion is not: a sender that sends only what
the receiver refuses keeps it polling.

### Rendezvous

The receiver (`client.c` 71-176, two-RAT; 71-222, multi-RAT) listens on a socket of each RAT and
then accepts from each, in the same order; the sender (`server.c` 126-140; 157-178) connects in
that order and returns at the first failure. `RATS` is a constant, so one module stands for
both pairs; the download receivers have the same shape, with the command connection in the
second place. A connection is known by the run of the sender that made it: `queue[r]` holds
what the kernel took and the program has not accepted, `sock[r]` what it has. The failing
calls of the receiver are one action, `ReceiverEnds`, which may happen anywhere.

## 4. The runs

The code's sizes are scaled so that what matters about them stays: an int is 2 bytes, so that
it can be cut, the window without the spare ints is not a whole number of blocks, and the
receiver's `EXP_RX_SIZE` lies a chunk short of the window, as 1047000 does with 1024 and
1024*1024. A window of two and a half blocks is the smallest in which both paths send whole
blocks and the last one is cut.

| run | module, bounds | shows |
|---|---|---|
| `reverse_copy` | sources of up to 4 bytes over 3 values, a destination of 5, `size_t` of 8 values | `Reverses`: the loop reverses and touches nothing else; `CutAnywhere`: a reversed block, cut in two anywhere and placed from the top by the receiver, comes out as it was |
| `two_rat_server` | `SenderSpec` of `TwoRat`; 30-byte buffer, blocks of 6, ints of 2, byte-wise sends | `ReadsInitialised`; `SendsWindow`: refinement of `TransmissionWindow` with at most a block of overlap |
| `two_rat_client` | 24-byte buffer, chunks of up to 6, byte-wise, `totalbytes` from 0, -40, 12 or 17 (past full) | `NoOverwrite`: no overwriting unless `totalbytes` was below zero, and then only by the last chunks of a window; `CountsExact`: junk costs the first window only |
| `two_rat` | `MCTwoRat`; 14-byte buffer, blocks and chunks of 4, 4 bytes under way on a path, `totalbytes` from 0, 7 (past full) or -20 | `StreamsOrdered`; `ReceivesWindow` (refinement through the composition, from the second window on); `WindowsTurn` (liveness) |
| `two_rat_buffer` | `MCTwoRatBuffer`; 24-byte buffer, blocks and chunks of 6, 8 bytes under way, `totalbytes` from 0 or -40, first receiver window only | `FirstWindowPlaced`: until the pointers cross every byte of the sender's first window is at its own offset and none was overwritten; `MixingBoundedByLag`: bytes of the sender's next window get in only as far as a path lags |
| `two_rat_check` | as `two_rat_buffer`, 10 bytes under way, `totalbytes` from 0 | **violation** of the check at `client.c` 310-314, see below |
| `multi_rat` | 36-byte buffer, blocks and chunks of 4, ints of 2, junk below, inside and above the buffer; paths hold 4, 2 and 4 bytes; `totalbytes` from 0, -2 or 3 (past full) | `SpareIntsKept`: no chunk, to its last byte, is placed on the spare ints or above them, whatever the junk; `StrayBounded`: the backward pointers fall below the buffer by no more than was received; `RebalanceIdle`; `StreamsOrdered`; `ProgramsEnd` (liveness) |
| `rendezvous` | 3 RATs, 4 runs of the sender, a backlog of 1 | `NoneLost`, `StaleOnlyFirst`; `Meets` (liveness) |
| `download` | 6-byte buffer, chunks of 2, a tail of 1, tolerance 3, files of 1 and 10 bytes, 3 commands, blocks of 5, 12 bytes in a connection | `CompleteEnough`, `OvershootBounded`, `BacklogBounded`; `SessionEnds` (liveness) |
| `web_download` | `MCWebDownloadClient`; 11-byte buffer, containers of 1 + 2 bytes, a tail of 1, 2 trials, files of 1, 3, 9 and 14 bytes, ints of -16 to 15, four sequence numbers and the two ends of `int`, junk 0 and 4 | `CountedOnce`, `FileMissesLittle`, `WigigIdleInLargeFiles`; `EndsWithSession` (liveness) |
| `multi_rat_placed` | as `multi_rat`, only out-of-range junk | **violation**: a whole, aligned chunk is misplaced |
| `multi_rat_advance` | as `multi_rat` | **violation** of "moving towards the end of the transmission window" |

`two_rat_buffer` stops at the end of the receiver's first window (`FirstWindowOnly`): its
properties say nothing of later windows, where the two ends may have drifted apart. In `multi_rat`
the receiver ends after a few chunks, for the number of states; each turn of the sender starts
from the same place, so more chunks add no new kind of step. Three chunks whose sequence numbers
are junk are enough for a backward pointer to leave the buffer: junk in range is low in it, as it
is in the code (`MultiRatAssumption`). In `two_rat_buffer` a `totalbytes` of -40 keeps the first
window open until the pointers meet or cross, and a start above zero only closes it earlier, in a
state that is reached from zero too. Deadlock is not checked where the system really stops: `reverse_memcpy`
returns, a sender may be killed (in `two_rat_server` nothing else is left), the multi-RAT programs
end.

`rendezvous` needs four runs for one that gives up at every RAT before one that comes through,
and a backlog small enough to be full. Both programs may stop for good, so deadlock is not
checked. In `download` a file of 1 byte is below the tolerance and within the tail of its
window, and one of 10 has a whole window and a last one; three commands make a backlog of two
files that a third is counted against. `error` is larger than a chunk and a tail, as in the
code. With `CAP` at 12 the connection holds the largest backlog and a block; deadlock is
checked there, and with 8 TLC finds one: what completed files left behind fills the
connection, the sender cannot get rid of the next file, and the receiver waits for a command.
Without `Paused` it finds a file that waits for ever for bytes `clear_sockets` took. The files
of `web_download` get each of the three kinds of window, and a small and a whole one
together; its program ends after its trials, so deadlock is not checked.

**Grain.** `two_rat`, `two_rat_buffer` and `multi_rat` move whole ints (`Grain` = `WORD`): every
size in the programs is a multiple of four, and so is what the kernel takes or delivers as
long as its segments and buffers are. It is an assumption. With `Grain` = 1 TLC finds
`StreamsOrdered` violated at the second send, because `ret1/4` drops the remainder and the
bytes are sent again. The two programs on their own are checked, and proved, for any `Grain`.

**Fairness.** Both programs poll for ever without blocking, so each has weak fairness. Of the
network only this is assumed: the RAT named by `up` takes bytes infinitely often if it has
room infinitely often, and delivers infinitely often if it holds some infinitely often (strong
fairness, because a poll may find it busy). That is what a TCP connection over a working radio
does. Nothing is assumed of the other RATs: they may deliver nothing from any moment on, and TCP
may give their connections up or not. If it does, the sender ends, so `WindowsTurn` is stated of
the executions in which it does not (`[](s_pc # "dead")`), and `ProgramsEnd` of those in which
the receiver has its window first. Without these hypotheses TLC finds the sender killed at its
send on the silent RAT, and the other RAT idle from then on. TCP takes
minutes to give up: the two are about a silence that is shorter, not about a radio that is gone
for good. `ProgramsEnd` also uses that the reset of a closed connection arrives over the RAT
that is up.

In `Download` both programs run on and WiFi delivers; in `WebDownloadClient` the program runs
on between files and nothing is assumed of the connections; in `Rendezvous` the receiver makes
its next call and a transmitting sender sends. Nobody need run a sender there, and no connect
need succeed.

**What the violations show.**

- `two_rat_check`: the receiver counts a window full before the two fronts have met. With the
  code's sizes 1023 chunks of 1024 bytes end it with a hole of 1016 bytes in the middle, and
  the test program's own check of the buffer would report an error there.
- `multi_rat_placed`: the sequence number of a backward chunk is that of an int in its middle,
  in range and so accepted, and the chunk goes below its place.
- `multi_rat_advance`: every turn of the sender's loop goes back to the start.

## 5. The proofs

All are checked by TLAPS for every value of the constants that satisfies the named
assumption of the module.

- `ReverseCopy_proofs`: `CopyReverses`. The invariant ties `d`, `s` and `len` together and says
  of the destination that exactly the first `d` bytes are the reversed prefix.
- `TwoRat_proofs`, the sender: `SenderTypeCorrect`, `ReadsOnlyInitialised`,
  `SenderImplementsWindow`, from `ServerAssumption` (a block and the two spare ints fit).
  `ReadsInitialised` is not inductive: the backward send happens without a test of its own.
  `SenderInv` adds how far the pointers can have crossed at each point of the loop: not at all
  before the forward send, one block before the backward one, two at the end.
- `TwoRat_proofs`, the two programs joined: `TypeCorrect`, `ReceiverImplementsWindow`, from
  `TwoRatAssumption`, for any `Grain`. A step of the composition is a step or a stutter of each
  program, so that `SenderInv` and the receiver's `Inv` carry over (`JoinedStep`);
  `Streams` says that what is under way is bytes from below the spare ints.
  `StreamsStayOrdered` is under the hypothesis `WholeInts`, that `Grain` is a multiple of
  `WORD`, without which it is false. `StreamsOrdered` is not inductive: `Tails` says that the
  last byte of a pipe is the one next to the sender's pointer, or the last of a window.
- `TwoRat_proofs`, the receiver's buffer: `BufferTypeCorrect` for any `Grain`;
  `FirstWindowStaysPlaced`, `MixingStaysBounded` under `WholeInts`. The invariant `FirstWindow`
  says that there are two shares `F` and `B` of the sender's first window such that each stream
  carries the rest of its share, in order and before anything of a later window
  (`WifiCarries`, `WigiCarries`), and that the buffer holds exactly what has arrived of them
  (`Stored`); the shares are all of the window but less than a block once the sender has turned
  (`Sharing`). `Pointed`, the pointers are where the counts say, is what ties the places to
  the counts. Both properties count the sets this describes. They are about pointers that have not
  crossed, and so is the invariant (`Apart`): only junk below zero lets them cross, with the last
  chunks of the window. `EmptyAssumption` keeps a zeroed
  byte apart from a received one.
- `TwoRatClient_proofs`: `TypeCorrect`, `CountsStayExact`, `NeverOverwrites`, `ImplementsWindow`,
  from `ClientAssumption`, whose heart is `EXP_RX_SIZE + RX_BUFFER_SIZE + 2*WORD <= BUFFER_SIZE`.
  `Inv` has three parts: `Placed` (a pointer has moved by at most the bytes its path delivered),
  `Unmet` (the loop goes on only while the pointers are apart) and `Unfull` (it goes on only
  with a count that is not full, or with nothing received yet). `NeverOverwrites` follows since
  the counts leave room for one chunk. `ImplementsWindow` holds for every `JunkTotals`: the refinement
  mapping passes over the first window, and every later one starts from a count of zero.
- `MultiRat_proofs`: `RebalanceNeverRuns`, `StreamsStayOrdered`, `TypeCorrect`,
  `SpareIntsStayKept`, `StrayStaysBounded`, from `SizesAssumption` (half the buffer holds three
  blocks) and `MultiRatAssumption` (whole ints, a chunk no longer than two blocks, junk that is no
  offset of a spare int). `TurnInv` bounds each pointer of the sender by one block from its start,
  so that `Streams` can say each connection carries one block over and over; `StreamsOrdered` is
  then preserved because a block that is left off starts again at its first byte. `ReceiverInv`
  needs `Streams`: a sequence number is an int of the block the chunk came from, or junk
  (`SeqnosReadAs`). `Placed` says what a recv does: the last byte of a backward chunk stays below
  the spare ints (`LowerEndPlaced`), and its pointer falls by no more than the chunk, which is
  what both later theorems come from. A non-negative backward pointer turned out not to be an
  invariant.
- `ReverseCopy_proofs` also has `TypeCorrect` and `RestoredAcrossCuts`: the receiver's reversal
  undoes the sender's for every length and every cut.
- `Download_proofs`: `TypeCorrect`, `FilesComplete`, `OvershootStaysBounded`, for every size that
  satisfies `DownloadAssumption` and every set of files. The invariant says of the open window
  that the fronts are no further along than the bytes counted since it was opened, and carries
  over the windows what each may have left; the bound on the overshoot needs that a turn of the
  loop goes on only while the count is below the tolerance. `BacklogStaysBounded` needs that there
  is a file to ask for (`Sizes` is not empty, in `SenderAssumption`). Its invariant `BacklogInv`
  takes the largest file named so far and what such a file may leave, and compares what is unread
  or unsent with that much for every command taken and with partial sums over the commands under
  way (`asked`); in an open file the bytes not yet counted come on top (`Open`), and closing it
  settles the account (`CloseBacklog`).
- `WebDownloadClient_proofs`: `TypeCorrect`, `EachCountedOnce`, `FilesMissLittle`,
  `WigigStaysIdle`, for every stream of containers and every junk. `Passed` is the heart: a number
  that was counted is behind the one expected next, so that it is new to its set when it is
  counted and moves the cardinality together with the pointer. It holds until a counted number
  is so near the end of `int` that the next one wraps (`WifiInRange`, `WigiInRange`), and
  `EachCountedOnce` and `WigigStaysIdle` are stated up to there; `FilesMissLittle` and
  `TypeCorrect` need no such hypothesis. `Idle` follows the number expected over WiGig below zero
  in two containers.
- `Rendezvous_proofs`: `TypeCorrect`, `ConnectionsKept`, `PairsWithHalfRuns`, for any number of RATs,
  runs and any backlog. `StaleOnlyFirst` is not inductive: `Inv` says of each queue that it is in
  the order of the runs, newer than what was accepted, and complete (`NoneLost`); two RATs with
  different runs then differ because the older one never came as far as the later RAT
  (`Related`). Once the receiver has ended the queues are gone, and the relation is carried on
  by itself.
- `Bytes_proofs`: what `Words` does to a pointer, what a send appends to a pipe and what a recv
  takes off it.

Only model-checked: liveness (`WindowsTurn`, `ProgramsEnd`, `SessionEnds`, `EndsWithSession`,
`Meets`), which the prover does not reach, as it does not reason about fairness and ENABLED.
`MultiRatBuffer` has no invariant to prove: it is there for a violation. Every invariant of the
passing runs and both refinements are theorems.

## 6. Not modelled, and why

- The senders of the download, video and web receivers, which are not in the repository, and
  what they make of the acknowledgements. The web receiver also connects to its sender, for the
  acknowledgements, before it listens; `Rendezvous` does not have that connection.
- Two receivers run at once on the same port, which `SO_REUSEPORT` allows.
- The saved web pages under `web-download/`, whose scripts are third parties' page content: they
  are what a download transfers and are run by no program of the system.
- Throughput figures, CSV output and printing: they are read by no decision of the programs.
- The TMC receivers that differ: the multi-RAT one never leaves its outer loop, and the
  two-RAT one has chunks of 100 KiB against `EXP_RX_SIZE` of 1 MiB, so `ClientAssumption`,
  and with it `NoOverwrite`, does not apply.
- `recv` returning 0 for ever once the sender has gone is in the receiver's model as a poll
  that finds nothing; no document says what should happen, so no property is stated.
- A `double` counts `totalbytes`: it is exact for the integers reached here and is an integer
  in the models.
- `totalbytes` of the receivers starting from a NaN, an infinity or a number too large for a chunk to
  change it: in the two-RAT receiver that is a first window closed by the pointers, or at once;
  the multi-RAT receiver ends at its first chunk or never.
- What the receiver sees of a connection that has been given up: its reads fail, which the code
  takes for nothing having arrived.
- Route scripts, data files, binaries: no state of the programs.
