-------------------------- MODULE MultiRat_proofs --------------------------
(***************************************************************************)
(* The multi-RAT transmission, for every size of buffer, block, chunk and  *)
(* int, every capacity of the connections, every cut of the streams,       *)
(* whatever totalbytes starts from and whatever junk is taken for a        *)
(* sequence number.                                                        *)
(***************************************************************************)
EXTENDS MultiRat, Bytes_proofs

-----------------------------------------------------------------------------
(* The sender *)

\* The two starts are three blocks apart and more, and so is the lower one
\* from the bottom of the buffer but for a block.
LEMMA StartsApart ==
  /\ SEND_BUFFER_SIZE \in Nat \ {0} /\ BUFFER_SIZE \in Nat /\ Pad \in Nat
  /\ Server!SecStart \in Nat /\ Server!RevStart \in Nat
  /\ 2 * SEND_BUFFER_SIZE < Server!SecStart
  /\ Server!SecStart + 3 * SEND_BUFFER_SIZE < Server!RevStart
  /\ Server!RevStart + SEND_BUFFER_SIZE = BUFFER_SIZE - Pad
  BY SizesAssumption DEF Server!SecStart, Server!RevStart, Server!Pad, Pad

\* How far each region's pointer can be from its start at each point of the
\* turn: no further than the one block the turn sends.
Within(low, ptr, high) == ptr \in Int /\ low <= ptr /\ ptr <= high
TurnInv ==
  /\ s_pc \in {"wifi", "eth", "wigi", "rebalance", "dead"}
  /\ s_ref = Server!SecStart
  /\ Within(0, s_fwd, SEND_BUFFER_SIZE)
  /\ Within(Server!SecStart - SEND_BUFFER_SIZE, s_sec, Server!SecStart)
  /\ Within(Server!RevStart - SEND_BUFFER_SIZE, s_rev, Server!RevStart)
  /\ s_pc = "wifi" => s_fwd = 0
  /\ s_pc \in {"wifi", "eth"} => s_sec = Server!SecStart
  /\ s_pc \in {"wifi", "eth", "wigi"} => s_rev = Server!RevStart

\* A send moves its pointer by whole ints, at most a block.
LEMMA SendMoves ==
  ASSUME NEW ret \in SendReturns
  PROVE  /\ ret \in {-1} \cup 1 .. SEND_BUFFER_SIZE
         /\ ret > 0 => Server!Words(ret, WORD) \in 0 .. SEND_BUFFER_SIZE
<1>1. ret \in {-1} \cup 1 .. SEND_BUFFER_SIZE
  BY SizesAssumption DEF SendReturns, Server!SendReturns
<1>2. ASSUME ret > 0
      PROVE  Server!Words(ret, WORD) \in 0 .. SEND_BUFFER_SIZE
  <2>1. ret \in Nat /\ ret <= SEND_BUFFER_SIZE
    BY <1>1, <1>2, SizesAssumption
  <2>2. Server!Words(ret, WORD) = Words(ret, WORD)
    BY DEF Server!Words, Words
  <2> QED
    BY <2>1, <2>2, WordsBound, SizesAssumption
<1> QED
  BY <1>1, <1>2

\* The steps of the receiver leave the sender alone.
LEMMA ServerKeeps == ClientStep => UNCHANGED server
  BY DEF ClientStep, WifiRecv, EthRecv, WigiRecv, Delivers, ClientTurn

\* TurnInv holds in the first turn.
LEMMA TurnInvInit == Init => TurnInv
  BY StartsApart DEF Init, Server!Init, TurnInv, Within

\* Every send, the turn and the death of the sender preserve TurnInv.
LEMMA TurnInvNext == TurnInv /\ [Next]_vars => TurnInv'
<1> SUFFICES ASSUME TurnInv, [Next]_vars PROVE TurnInv'
  OBVIOUS
<1> USE StartsApart DEF TurnInv, Within
<1>1. ASSUME NEW ret \in SendReturns, WifiSend(ret) PROVE TurnInv'
  <2>1. s_fwd' \in 0 .. SEND_BUFFER_SIZE
    BY <1>1, SendMoves DEF WifiSend, Server!SendForward
  <2> QED
    BY <1>1, <2>1
    DEF WifiSend, Server!SendForward, Server!SecStart, Server!RevStart, Server!Pad
<1>2. ASSUME NEW ret \in SendReturns, EthSend(ret) PROVE TurnInv'
  <2>1. s_sec' \in Server!SecStart - SEND_BUFFER_SIZE .. Server!SecStart
    BY <1>2, SendMoves DEF EthSend, Server!SendSecondBackward
  <2> QED
    BY <1>2, <2>1
    DEF EthSend, Server!SendSecondBackward, Server!SecStart, Server!RevStart, Server!Pad
<1>3. ASSUME NEW ret \in SendReturns, WigiSend(ret) PROVE TurnInv'
  <2>1. s_rev' \in Server!RevStart - SEND_BUFFER_SIZE .. Server!RevStart
    BY <1>3, SendMoves DEF WigiSend, Server!SendThirdBackward
  <2> QED
    BY <1>3, <2>1
    DEF WigiSend, Server!SendThirdBackward, Server!SecStart, Server!RevStart, Server!Pad
<1>4. CASE ServerTurn
  BY <1>4 DEF ServerTurn, Server!NextTurn, Server!SecStart, Server!RevStart, Server!Pad
<1>5. CASE ServerKilled
  BY <1>5 DEF ServerKilled, Server!Killed, Server!SecStart, Server!RevStart, Server!Pad
<1>6. CASE UNCHANGED server
  BY <1>6 DEF server, Server!SecStart, Server!RevStart, Server!Pad
<1> QED
  BY <1>1, <1>2, <1>3, <1>4, <1>5, <1>6, ServerKeeps DEF Next, ServerStep, vars

\* The code that would give a path half of another path's region never runs.
THEOREM RebalanceNeverRuns == Spec => []RebalanceIdle
<1>1. TurnInv => RebalanceIdle
  BY StartsApart
  DEF TurnInv, Within, RebalanceIdle, Server!RebalanceIdle, Server!UpperUsedUp,
      Server!LowerUsedUp
<1> QED
  BY <1>1, TurnInvInit, TurnInvNext, PTL DEF Spec

-----------------------------------------------------------------------------
(* The streams *)

\* The bytes of the block at from, and a stream of them that ascends or
\* descends, up to where a block starts again.
Block(from) == from .. from + SEND_BUFFER_SIZE - 1
Carries(q, from, cap) == q \in Seq(Block(from)) /\ Len(q) <= cap
InOrder(q, by, first) == \A i \in 1 .. Len(q) - 1 : q[i + 1] \in {q[i] + by, first}

\* Each stream carries one block of the buffer, over and over.
Streams ==
  /\ pipe = [rat \in RATs |-> pipe[rat]]
  /\ Carries(pipe["wifi"], 0, Cap["wifi"])
  /\ Carries(pipe["eth"], Server!SecStart, Cap["eth"])
  /\ Carries(pipe["wigi"], Server!RevStart, Cap["wigi"])

\* A whole block from its first byte, upwards or downwards.
Steady(block, from, by, first) ==
  /\ block \in Seq(Block(from)) /\ Len(block) = SEND_BUFFER_SIZE
  /\ block[1] = first
  /\ \A i \in 1 .. SEND_BUFFER_SIZE - 1 : block[i + 1] = block[i] + by

\* The block that goes over WiFi ascends,
LEMMA ForwardBlock ==
  ASSUME NEW from \in Nat, from + SEND_BUFFER_SIZE <= BUFFER_SIZE
  PROVE  Steady(Chunk(Content, from, SEND_BUFFER_SIZE), from, 1, from)
<1> DEFINE block == Chunk(Content, from, SEND_BUFFER_SIZE)
<1>1. SEND_BUFFER_SIZE \in Nat \ {0} /\ BUFFER_SIZE \in Nat
  BY StartsApart
<1>2. \A i \in 1 .. SEND_BUFFER_SIZE :
        /\ from + i - 1 \in 0 .. BUFFER_SIZE - 1
        /\ from + i - 1 \in Block(from)
  BY <1>1 DEF Block
<1>3. block = [i \in 1 .. SEND_BUFFER_SIZE |-> from + i - 1]
  BY <1>2 DEF Chunk, Content
<1> HIDE DEF block
<1>4. block \in [1 .. SEND_BUFFER_SIZE -> Block(from)]
  BY <1>2, <1>3
<1>5. block \in Seq(Block(from)) /\ Len(block) = SEND_BUFFER_SIZE
  BY <1>1, <1>4
<1>6. block[1] = from
  BY <1>1, <1>3
<1>7. \A i \in 1 .. SEND_BUFFER_SIZE - 1 : block[i + 1] = block[i] + 1
  BY <1>1, <1>3
<1> QED
  BY <1>5, <1>6, <1>7 DEF Steady, block

\* and the two that go over Ethernet and WiGig descend.
LEMMA BackwardBlock ==
  ASSUME NEW from \in Nat, from + SEND_BUFFER_SIZE <= BUFFER_SIZE
  PROVE  Steady(ReversedChunk(Content, from, SEND_BUFFER_SIZE), from, -1,
                from + SEND_BUFFER_SIZE - 1)
<1> DEFINE block == ReversedChunk(Content, from, SEND_BUFFER_SIZE)
<1>1. SEND_BUFFER_SIZE \in Nat \ {0} /\ BUFFER_SIZE \in Nat
  BY StartsApart
<1>2. \A i \in 1 .. SEND_BUFFER_SIZE :
        /\ from + SEND_BUFFER_SIZE - i \in 0 .. BUFFER_SIZE - 1
        /\ from + SEND_BUFFER_SIZE - i \in Block(from)
  BY <1>1 DEF Block
<1>3. block = [i \in 1 .. SEND_BUFFER_SIZE |-> from + SEND_BUFFER_SIZE - i]
  BY <1>2 DEF ReversedChunk, Content
<1> HIDE DEF block
<1>4. block \in [1 .. SEND_BUFFER_SIZE -> Block(from)]
  BY <1>2, <1>3
<1>5. block \in Seq(Block(from)) /\ Len(block) = SEND_BUFFER_SIZE
  BY <1>1, <1>4
<1>6. block[1] = from + SEND_BUFFER_SIZE - 1
  BY <1>1, <1>3
<1>7. \A i \in 1 .. SEND_BUFFER_SIZE - 1 : block[i + 1] = block[i] + -1
  BY <1>1, <1>3
<1> QED
  BY <1>5, <1>6, <1>7 DEF Steady, block

\* A send that starts its block afresh keeps its stream in order.
LEMMA InOrderAppends ==
  ASSUME NEW q, NEW new, NEW block, Len(q) \in Nat, Len(new) \in Nat,
         NEW by \in Int, NEW first \in Int, NEW n \in Nat, n <= SEND_BUFFER_SIZE,
         InOrder(q, by, first), Appended(new, q, block, n),
         block[1] = first,
         \A i \in 1 .. SEND_BUFFER_SIZE - 1 : block[i + 1] = block[i] + by
  PROVE  InOrder(new, by, first)
<1> SUFFICES ASSUME NEW i \in 1 .. Len(new) - 1
             PROVE  new[i + 1] = new[i] + by \/ new[i + 1] = first
  BY DEF InOrder
<1>1. CASE i < Len(q)
  <2>1. i \in 1 .. Len(q) - 1 /\ i + 1 \in 1 .. Len(q) /\ i \in 1 .. Len(q)
    BY <1>1
  <2>2. new[i] = q[i] /\ new[i + 1] = q[i + 1]
    BY <2>1 DEF Appended
  <2> QED
    BY <2>1, <2>2 DEF InOrder
<1>2. CASE i = Len(q)
  <2>1. 1 \in 1 .. n
    BY <1>2 DEF Appended
  <2> QED
    BY <1>2, <2>1 DEF Appended
<1>3. CASE i > Len(q)
  <2> DEFINE j == i - Len(q)
  <2>1. /\ j \in 1 .. n /\ j + 1 \in 1 .. n /\ j \in 1 .. SEND_BUFFER_SIZE - 1
        /\ i = Len(q) + j /\ i + 1 = Len(q) + (j + 1)
    BY <1>3, StartsApart DEF Appended
  <2> HIDE DEF j
  <2>2. new[i] = block[j] /\ new[i + 1] = block[j + 1]
    BY <2>1 DEF Appended
  <2> QED
    BY <2>1, <2>2
<1> QED
  BY <1>1, <1>2, <1>3

\* A recv leaves the rest of an ordered stream in order.
LEMMA InOrderSplits ==
  ASSUME NEW q, NEW head, NEW rest, Len(q) \in Nat, Len(rest) \in Nat,
         NEW n \in 1 .. Len(q), NEW by \in Int, NEW first \in Int,
         InOrder(q, by, first), Split(head, rest, q, n)
  PROVE  InOrder(rest, by, first)
<1> SUFFICES ASSUME NEW i \in 1 .. Len(rest) - 1
             PROVE  rest[i + 1] = rest[i] + by \/ rest[i + 1] = first
  BY DEF InOrder
<1>1. /\ n + i \in 1 .. Len(q) - 1 /\ n + i + 1 = n + (i + 1)
      /\ i \in 1 .. Len(q) - n /\ i + 1 \in 1 .. Len(q) - n
  BY DEF Split
<1>2. rest[i] = q[n + i] /\ rest[i + 1] = q[n + i + 1]
  BY <1>1 DEF Split
<1> QED
  BY <1>1, <1>2 DEF InOrder

\* What the three streams are between the steps: new carries on from q.
Follows(new, q, from, cap, by, first) ==
  /\ Carries(new, from, cap)
  /\ InOrder(q, by, first) => InOrder(new, by, first)

\* A send of a whole block carries its stream on.
LEMMA TakenFollows ==
  ASSUME NEW q, NEW from, NEW cap, Carries(q, from, cap),
         NEW block, NEW by \in Int, NEW first \in Int, Steady(block, from, by, first),
         NEW ret \in SendReturns, HasRoom(q, ret, cap)
  PROVE  Follows(Taken(q, block, ret), q, from, cap, by, first)
<1> DEFINE new == Taken(q, block, ret)
<1>1. q \in Seq(Block(from)) /\ Len(q) \in Nat /\ Len(q) <= cap
  BY DEF Carries
<1>2. block \in Seq(Block(from)) /\ Len(block) = SEND_BUFFER_SIZE
  BY DEF Steady
<1>3. ret \in {-1} \cup 1 .. SEND_BUFFER_SIZE
  BY SendMoves
<1>4. ret \in {-1} \cup 1 .. Len(block)
  BY <1>2, <1>3
<1>5. new \in Seq(Block(from)) /\ Appended(new, q, block, Took(ret))
  BY <1>1, <1>2, <1>4, TakenAppends, Zenon
<1> HIDE DEF new
<1>6. Took(ret) \in Nat /\ Took(ret) <= SEND_BUFFER_SIZE
  BY <1>3, StartsApart DEF Took
<1>7. Len(new) = Len(q) + Took(ret) /\ Len(new) \in Nat
  BY <1>1, <1>5, <1>6 DEF Appended
<1>8. Len(new) <= cap
  BY <1>1, <1>3, <1>7 DEF Took, HasRoom
<1>9. InOrder(q, by, first) => InOrder(new, by, first)
  BY <1>1, <1>5, <1>6, <1>7, InOrderAppends DEF Steady
<1> QED
  BY <1>5, <1>8, <1>9 DEF Carries, Follows, new

\* A recv carries its stream on, and delivers bytes of the block.
LEMMA LeftFollows ==
  ASSUME NEW q, NEW from, NEW cap \in Nat, Carries(q, from, cap),
         NEW by \in Int, NEW first \in Int,
         NEW valread \in RecvReturns, valread > 0, valread <= Len(q)
  PROVE  /\ Follows(Left(q, valread), q, from, cap, by, first)
         /\ Arrived(q, valread) \in Seq(Block(from)) /\ Len(Arrived(q, valread)) = valread
<1>1. q \in Seq(Block(from)) /\ Len(q) \in Nat /\ Len(q) <= cap
  BY DEF Carries
<1>2. valread \in 1 .. Len(q)
  BY <1>1, SizesAssumption DEF RecvReturns, Client!RecvReturns
<1>3. /\ Arrived(q, valread) \in Seq(Block(from)) /\ Left(q, valread) \in Seq(Block(from))
      /\ Split(Arrived(q, valread), Left(q, valread), q, valread)
  BY <1>1, <1>2, RecvSplits, Zenon
<1>4. /\ Len(Arrived(q, valread)) = valread
      /\ Len(Left(q, valread)) = Len(q) - valread
  BY <1>3 DEF Split
<1>5. Len(Left(q, valread)) \in Nat /\ Len(Left(q, valread)) <= cap
  BY <1>1, <1>2, <1>4
<1>6. InOrder(q, by, first) => InOrder(Left(q, valread), by, first)
  BY <1>1, <1>2, <1>3, <1>5, InOrderSplits, Zenon
<1> QED
  BY <1>3, <1>4, <1>5, <1>6 DEF Follows, Carries

\* A step carries all three streams on.
WifiFollows == Follows(pipe'["wifi"], pipe["wifi"], 0, Cap["wifi"], 1, 0)
EthFollows ==
  Follows(pipe'["eth"], pipe["eth"], Server!SecStart, Cap["eth"], -1,
          Server!SecStart + SEND_BUFFER_SIZE - 1)
WigiFollows ==
  Follows(pipe'["wigi"], pipe["wigi"], Server!RevStart, Cap["wigi"], -1,
          Server!RevStart + SEND_BUFFER_SIZE - 1)
AllFollow ==
  /\ pipe' = [rat \in RATs |-> pipe'[rat]]
  /\ WifiFollows /\ EthFollows /\ WigiFollows

\* What is not touched carries on.
LEMMA StillFollows ==
  ASSUME Streams
  PROVE  /\ pipe'["wifi"] = pipe["wifi"] => WifiFollows
         /\ pipe'["eth"] = pipe["eth"] => EthFollows
         /\ pipe'["wigi"] = pipe["wigi"] => WigiFollows
  BY DEF Streams, WifiFollows, EthFollows, WigiFollows, Follows

\* Every send starts its block afresh, and carries its stream on.
LEMMA SendsFollow ==
  ASSUME TurnInv, Streams, NEW ret \in SendReturns,
         WifiSend(ret) \/ EthSend(ret) \/ WigiSend(ret)
  PROVE  AllFollow
<1>1. CASE WifiSend(ret)
  <2>1. s_fwd = 0
    BY <1>1 DEF WifiSend, Server!SendForward, TurnInv
  <2>2. Steady(Chunk(Content, s_fwd, SEND_BUFFER_SIZE), 0, 1, 0)
    BY <2>1, StartsApart, ForwardBlock
  <2>3. /\ HasRoom(pipe["wifi"], ret, Cap["wifi"])
        /\ pipe' = [pipe EXCEPT !["wifi"] =
                      Taken(pipe["wifi"], Chunk(Content, s_fwd, SEND_BUFFER_SIZE), ret)]
    BY <1>1 DEF WifiSend, Sends
  <2>4. /\ pipe'["wifi"] =
             Taken(pipe["wifi"], Chunk(Content, s_fwd, SEND_BUFFER_SIZE), ret)
        /\ pipe'["eth"] = pipe["eth"] /\ pipe'["wigi"] = pipe["wigi"]
        /\ pipe' = [rat \in RATs |-> pipe'[rat]]
    BY <2>3 DEF Streams, RATs
  <2>5. WifiFollows
    BY <2>2, <2>3, <2>4, TakenFollows DEF Streams, WifiFollows
  <2> QED
    BY <2>4, <2>5, StillFollows DEF AllFollow
<1>2. CASE EthSend(ret)
  <2>1. s_sec = Server!SecStart
    BY <1>2 DEF EthSend, Server!SendSecondBackward, TurnInv
  <2>2. Steady(ReversedChunk(Content, s_sec, SEND_BUFFER_SIZE), Server!SecStart, -1,
               Server!SecStart + SEND_BUFFER_SIZE - 1)
    BY <2>1, StartsApart, BackwardBlock
  <2>3. /\ HasRoom(pipe["eth"], ret, Cap["eth"])
        /\ pipe' = [pipe EXCEPT !["eth"] =
                      Taken(pipe["eth"], ReversedChunk(Content, s_sec, SEND_BUFFER_SIZE), ret)]
    BY <1>2 DEF EthSend, Sends
  <2>4. /\ pipe'["eth"] =
             Taken(pipe["eth"], ReversedChunk(Content, s_sec, SEND_BUFFER_SIZE), ret)
        /\ pipe'["wifi"] = pipe["wifi"] /\ pipe'["wigi"] = pipe["wigi"]
        /\ pipe' = [rat \in RATs |-> pipe'[rat]]
    BY <2>3 DEF Streams, RATs
  <2>5. EthFollows
    <3>1. -1 \in Int /\ Server!SecStart + SEND_BUFFER_SIZE - 1 \in Int
      BY StartsApart
    <3> QED
      BY <2>2, <2>3, <2>4, <3>1, TakenFollows DEF Streams, EthFollows
  <2> QED
    BY <2>4, <2>5, StillFollows DEF AllFollow
<1>3. CASE WigiSend(ret)
  <2>1. s_rev = Server!RevStart
    BY <1>3 DEF WigiSend, Server!SendThirdBackward, TurnInv
  <2>2. Steady(ReversedChunk(Content, s_rev, SEND_BUFFER_SIZE), Server!RevStart, -1,
               Server!RevStart + SEND_BUFFER_SIZE - 1)
    BY <2>1, StartsApart, BackwardBlock
  <2>3. /\ HasRoom(pipe["wigi"], ret, Cap["wigi"])
        /\ pipe' = [pipe EXCEPT !["wigi"] =
                      Taken(pipe["wigi"], ReversedChunk(Content, s_rev, SEND_BUFFER_SIZE), ret)]
    BY <1>3 DEF WigiSend, Sends
  <2>4. /\ pipe'["wigi"] =
             Taken(pipe["wigi"], ReversedChunk(Content, s_rev, SEND_BUFFER_SIZE), ret)
        /\ pipe'["wifi"] = pipe["wifi"] /\ pipe'["eth"] = pipe["eth"]
        /\ pipe' = [rat \in RATs |-> pipe'[rat]]
    BY <2>3 DEF Streams, RATs
  <2>5. WigiFollows
    <3>1. -1 \in Int /\ Server!RevStart + SEND_BUFFER_SIZE - 1 \in Int
      BY StartsApart
    <3> QED
      BY <2>2, <2>3, <2>4, <3>1, TakenFollows DEF Streams, WigiFollows
  <2> QED
    BY <2>4, <2>5, StillFollows DEF AllFollow
<1> QED
  BY <1>1, <1>2, <1>3

\* A recv that delivered something, and from which RAT.
LEMMA RecvDelivers ==
  ASSUME Streams, NEW valread \in RecvReturns, valread > 0
  PROVE  /\ Delivers("wifi", valread) =>
              /\ AllFollow
              /\ Arrived(pipe["wifi"], valread) \in Seq(Block(0))
              /\ Len(Arrived(pipe["wifi"], valread)) = valread
         /\ Delivers("eth", valread) =>
              /\ AllFollow
              /\ Arrived(pipe["eth"], valread) \in Seq(Block(Server!SecStart))
              /\ Len(Arrived(pipe["eth"], valread)) = valread
         /\ Delivers("wigi", valread) =>
              /\ AllFollow
              /\ Arrived(pipe["wigi"], valread) \in Seq(Block(Server!RevStart))
              /\ Len(Arrived(pipe["wigi"], valread)) = valread
<1>1. /\ Cap["wifi"] \in Nat /\ Cap["eth"] \in Nat /\ Cap["wigi"] \in Nat
      /\ -1 \in Int /\ 1 \in Int /\ 0 \in Int
      /\ Server!SecStart + SEND_BUFFER_SIZE - 1 \in Int
      /\ Server!RevStart + SEND_BUFFER_SIZE - 1 \in Int
  BY MultiRatAssumption, StartsApart DEF RATs
<1>2. ASSUME Delivers("wifi", valread)
      PROVE  /\ AllFollow
             /\ Arrived(pipe["wifi"], valread) \in Seq(Block(0))
             /\ Len(Arrived(pipe["wifi"], valread)) = valread
  <2>1. /\ valread <= Len(pipe["wifi"])
        /\ pipe'["wifi"] = Left(pipe["wifi"], valread)
        /\ pipe'["eth"] = pipe["eth"] /\ pipe'["wigi"] = pipe["wigi"]
        /\ pipe' = [rat \in RATs |-> pipe'[rat]]
    BY <1>2 DEF Delivers, Streams, RATs
  <2>2. /\ Follows(Left(pipe["wifi"], valread), pipe["wifi"], 0, Cap["wifi"], 1, 0)
        /\ Arrived(pipe["wifi"], valread) \in Seq(Block(0))
        /\ Len(Arrived(pipe["wifi"], valread)) = valread
    BY <1>1, <2>1, LeftFollows DEF Streams
  <2> QED
    BY <2>1, <2>2, StillFollows DEF AllFollow, WifiFollows
<1>3. ASSUME Delivers("eth", valread)
      PROVE  /\ AllFollow
             /\ Arrived(pipe["eth"], valread) \in Seq(Block(Server!SecStart))
             /\ Len(Arrived(pipe["eth"], valread)) = valread
  <2>1. /\ valread <= Len(pipe["eth"])
        /\ pipe'["eth"] = Left(pipe["eth"], valread)
        /\ pipe'["wifi"] = pipe["wifi"] /\ pipe'["wigi"] = pipe["wigi"]
        /\ pipe' = [rat \in RATs |-> pipe'[rat]]
    BY <1>3 DEF Delivers, Streams, RATs
  <2>2. /\ Follows(Left(pipe["eth"], valread), pipe["eth"], Server!SecStart, Cap["eth"], -1,
                   Server!SecStart + SEND_BUFFER_SIZE - 1)
        /\ Arrived(pipe["eth"], valread) \in Seq(Block(Server!SecStart))
        /\ Len(Arrived(pipe["eth"], valread)) = valread
    BY <1>1, <2>1, LeftFollows DEF Streams
  <2> QED
    BY <2>1, <2>2, StillFollows DEF AllFollow, EthFollows
<1>4. ASSUME Delivers("wigi", valread)
      PROVE  /\ AllFollow
             /\ Arrived(pipe["wigi"], valread) \in Seq(Block(Server!RevStart))
             /\ Len(Arrived(pipe["wigi"], valread)) = valread
  <2>1. /\ valread <= Len(pipe["wigi"])
        /\ pipe'["wigi"] = Left(pipe["wigi"], valread)
        /\ pipe'["wifi"] = pipe["wifi"] /\ pipe'["eth"] = pipe["eth"]
        /\ pipe' = [rat \in RATs |-> pipe'[rat]]
    BY <1>4 DEF Delivers, Streams, RATs
  <2>2. /\ Follows(Left(pipe["wigi"], valread), pipe["wigi"], Server!RevStart, Cap["wigi"], -1,
                   Server!RevStart + SEND_BUFFER_SIZE - 1)
        /\ Arrived(pipe["wigi"], valread) \in Seq(Block(Server!RevStart))
        /\ Len(Arrived(pipe["wigi"], valread)) = valread
    BY <1>1, <2>1, LeftFollows DEF Streams
  <2> QED
    BY <2>1, <2>2, StillFollows DEF AllFollow, WigiFollows
<1> QED
  BY <1>2, <1>3, <1>4

\* Every step carries the streams on.
LEMMA StepsFollow == TurnInv /\ Streams /\ [Next]_vars => AllFollow
<1> SUFFICES ASSUME TurnInv, Streams, [Next]_vars PROVE AllFollow
  OBVIOUS
<1>1. ASSUME NEW valread \in RecvReturns,
             WifiRecv(valread) \/ EthRecv(valread) \/ WigiRecv(valread)
      PROVE  AllFollow
  BY <1>1, RecvDelivers DEF WifiRecv, EthRecv, WigiRecv
<1>2. CASE UNCHANGED pipe
  <2>1. pipe' = [rat \in RATs |-> pipe'[rat]]
    BY <1>2 DEF Streams
  <2> QED
    BY <1>2, <2>1, StillFollows DEF AllFollow
<1>3. ServerTurn \/ ServerKilled \/ ClientTurn \/ UNCHANGED vars => UNCHANGED pipe
  BY DEF ServerTurn, ServerKilled, ClientTurn, vars
<1> QED
  BY <1>1, <1>2, <1>3, SendsFollow DEF Next, ServerStep, ClientStep

\* They then carry what they carried, in the order they carried it.
LEMMA FollowingKeeps ==
  AllFollow => Streams' /\ (StreamsOrdered => StreamsOrdered')
<1> SUFFICES ASSUME AllFollow PROVE Streams' /\ (StreamsOrdered => StreamsOrdered')
  OBVIOUS
<1> USE DEF AllFollow, WifiFollows, EthFollows, WigiFollows, Follows
<1>1. Streams'
  BY DEF Streams, Carries, Block, Server!SecStart, Server!RevStart, Server!Pad
<1>2. ASSUME StreamsOrdered PROVE StreamsOrdered'
  BY <1>2
  DEF StreamsOrdered, Ordered, InOrder, Server!SecStart, Server!RevStart, Server!Pad
<1> QED
  BY <1>1, <1>2

\* The streams start empty.
LEMMA StreamsInit == Init => Streams /\ StreamsOrdered
<1> SUFFICES ASSUME Init PROVE Streams /\ StreamsOrdered
  OBVIOUS
<1>1. /\ pipe["wifi"] = << >> /\ pipe["eth"] = << >> /\ pipe["wigi"] = << >>
      /\ pipe = [rat \in RATs |-> pipe[rat]]
      /\ Cap["wifi"] \in Nat /\ Cap["eth"] \in Nat /\ Cap["wigi"] \in Nat
  BY MultiRatAssumption DEF Init, RATs
<1> QED
  BY <1>1 DEF Streams, Carries, StreamsOrdered, Ordered

\* WiFi carries ascending bytes and the other two descending ones, up to
\* where a turn of the sender's loop starts its block again.
THEOREM StreamsStayOrdered == Spec => []StreamsOrdered
<1> DEFINE Inv == TurnInv /\ Streams /\ StreamsOrdered
<1>1. Init => Inv
  BY TurnInvInit, StreamsInit
<1>2. Inv /\ [Next]_vars => Inv'
  BY TurnInvNext, StepsFollow, FollowingKeeps
<1> QED
  BY <1>1, <1>2, PTL DEF Spec

-----------------------------------------------------------------------------
(* The receiver *)

\* What the receiver's sizes are, next to those of the sender.
LEMMA ReceiverSizes ==
  /\ RX_BUFFER_SIZE \in Nat \ {0} /\ EXP_RX_SIZE \in Nat
  /\ RX_BUFFER_SIZE <= 2 * SEND_BUFFER_SIZE
  /\ 3 * SEND_BUFFER_SIZE <= BUFFER_SIZE - Pad
  /\ Client!Pad = Pad /\ Server!Pad = Pad
  BY SizesAssumption, MultiRatAssumption DEF Pad, Client!Pad, Server!Pad

\* Types of the receiver's variables.  Both backward pointers stay below the
\* two spare ints.
AtMost(ptr) == ptr \in Int /\ ptr <= BUFFER_SIZE - Pad
ReceiverInv ==
  /\ c_pc \in {"wifi", "eth", "wigi", "check", "done"}
  /\ c_total \in Int
  /\ c_fwd \in 0 .. BUFFER_SIZE - Pad
  /\ AtMost(c_sec) /\ AtMost(c_rev)

\* Neither has fallen below the buffer by more than has been counted since
\* totalbytes was start.
Strays(start) ==
  /\ start <= c_total
  /\ c_sec >= start - c_total /\ c_rev >= start - c_total

\* A recv moves a pointer by what it delivered, which is whole ints.
LEMMA RecvMoves ==
  ASSUME NEW valread \in RecvReturns, valread > 0
  PROVE  /\ valread \in 1 .. RX_BUFFER_SIZE
         /\ Client!Words(valread, WORD) = valread
<1>1. valread \in 1 .. RX_BUFFER_SIZE /\ valread % Grain = 0
  BY SizesAssumption DEF RecvReturns, Client!RecvReturns
<1>2. Client!Words(valread, WORD) = Words(valread, WORD)
  BY DEF Client!Words, Words
<1>3. valread \in Nat /\ Grain % WORD = 0
  BY <1>1, MultiRatAssumption, SizesAssumption
<1> QED
  BY <1>1, <1>2, <1>3, GrainsAreWords, SizesAssumption

\* A sequence number that is an offset of the buffer leads to an int of it.
LEMMA SeqnoLeads ==
  ASSUME NEW seqno \in Nat
  PROVE  Client!Words(seqno, WORD) \in 0 .. seqno
<1>1. Client!Words(seqno, WORD) = Words(seqno, WORD)
  BY DEF Client!Words, Words
<1> QED
  BY <1>1, WordsBound, SizesAssumption

\* Whatever is taken for the sequence number of a backward chunk: an offset
\* of the buffer below the two spare ints, or out of range.
LEMMA SeqnosReadAs ==
  ASSUME NEW from \in Nat, from + SEND_BUFFER_SIZE <= BUFFER_SIZE - Pad,
         NEW chunk \in Seq(Block(from)), NEW seqno \in SeqnosOf(chunk)
  PROVE  seqno \in Int /\ (seqno \in 0 .. BUFFER_SIZE => seqno <= BUFFER_SIZE - Pad)
<1>1. CASE seqno \in JunkSeqnos
  BY <1>1, MultiRatAssumption
<1>2. CASE seqno \notin JunkSeqnos
  <2> DEFINE at == Len(chunk) \div WORD
  <2>1. at + WORD <= Len(chunk) /\ seqno = chunk[at + WORD]
    BY <1>2 DEF SeqnosOf
  <2>2. Len(chunk) \in Nat /\ WORD \in Nat \ {0}
    BY SizesAssumption
  <2>3. at \in Nat
    BY <2>2
  <2> HIDE DEF at
  <2>4. at + WORD \in 1 .. Len(chunk)
    BY <2>1, <2>2, <2>3
  <2>5. seqno \in Block(from)
    BY <2>1, <2>4
  <2> QED
    BY <2>5, StartsApart DEF Block
<1> QED
  BY <1>1, <1>2

\* Where a backward chunk is placed: with its last byte below the spare ints,
\* and no further down than its pointer or the bottom of the buffer and its own
\* length.
LEMMA LowerEndPlaced ==
  ASSUME NEW ptr, AtMost(ptr), NEW seqno \in Int,
         seqno \in 0 .. BUFFER_SIZE => seqno <= BUFFER_SIZE - Pad,
         NEW valread \in RecvReturns, valread > 0,
         NEW low, low = Client!LowerEnd(ptr, seqno, valread)
  PROVE  /\ AtMost(low) /\ low + valread <= BUFFER_SIZE - Pad
         /\ low >= ptr - valread \/ low >= -valread
<1>1. valread \in Nat /\ Client!Words(valread, WORD) = valread
  BY RecvMoves
<1>2. CASE seqno \in 0 .. BUFFER_SIZE
  <2>1. Client!Words(seqno, WORD) \in 0 .. seqno
    BY <1>2, SeqnoLeads
  <2>2. low = Client!Words(seqno, WORD) - valread
    BY <1>1, <1>2 DEF Client!LowerEnd
  <2> QED
    BY <1>1, <1>2, <2>1, <2>2, StartsApart DEF AtMost
<1>3. CASE seqno \notin 0 .. BUFFER_SIZE
  <2>1. low = ptr - valread
    BY <1>1, <1>3 DEF Client!LowerEnd
  <2> QED
    BY <1>1, <2>1, StartsApart DEF AtMost
<1> QED
  BY <1>2, <1>3

\* The receiver starts in ReceiverInv, its pointers in the buffer.
LEMMA ReceiverInit == Init => ReceiverInv /\ Strays(c_total) /\ c_total \in JunkTotals
  BY StartsApart, ReceiverSizes, SizesAssumption, MultiRatAssumption
  DEF Init, Client!Init, ReceiverInv, Strays, AtMost

\* What a recv does to the pointers and to the count.
Placed(valread) ==
  /\ valread \in Nat \ {0} /\ c_total' = c_total + valread
  /\ c_fwd' \in 0 .. BUFFER_SIZE - Pad
  /\ AtMost(c_sec') /\ AtMost(c_rev')
  /\ c_pc = "eth" => c_sec' + valread <= BUFFER_SIZE - Pad
  /\ c_pc = "wigi" => c_rev' + valread <= BUFFER_SIZE - Pad
  /\ c_sec' >= c_sec - valread \/ c_sec' >= -valread
  /\ c_rev' >= c_rev - valread \/ c_rev' >= -valread

\* A chunk from WiFi goes into the block it came from.
LEMMA WifiRecvPlaced ==
  ASSUME ReceiverInv, Streams, NEW valread \in RecvReturns, WifiRecv(valread)
  PROVE  Placed(valread) /\ c_pc = "wifi" /\ c_pc' \in {"check", "eth"}
<1> DEFINE seqno == Arrived(pipe["wifi"], valread)[1]
<1>1. /\ valread > 0 /\ valread \in 1 .. RX_BUFFER_SIZE
      /\ Client!Words(valread, WORD) = valread
  BY RecvMoves DEF WifiRecv
<1>2. /\ Arrived(pipe["wifi"], valread) \in Seq(Block(0))
      /\ Len(Arrived(pipe["wifi"], valread)) = valread
  BY <1>1, RecvDelivers DEF WifiRecv
<1>3. seqno \in Nat /\ seqno < SEND_BUFFER_SIZE
  <2>1. seqno \in Block(0)
    BY <1>1, <1>2
  <2> HIDE DEF seqno
  <2> QED
    BY <2>1, StartsApart DEF Block
<1>4. /\ c_pc = "wifi" /\ c_total' = c_total + valread
      /\ c_fwd' = Client!Words(seqno, WORD) + Client!Words(valread, WORD)
      /\ c_pc' \in {"check", "eth"}
      /\ UNCHANGED <<c_sec, c_rev>>
  BY DEF WifiRecv, Client!RecvWifi, Client!Full
<1> HIDE DEF seqno
<1>5. Client!Words(seqno, WORD) \in 0 .. seqno
  BY <1>3, SeqnoLeads
<1>6. c_fwd' \in 0 .. BUFFER_SIZE - Pad
  BY <1>1, <1>3, <1>4, <1>5, StartsApart, ReceiverSizes
<1>7. valread \in Nat \ {0}
  BY <1>1, ReceiverSizes
<1> QED
  BY <1>4, <1>6, <1>7 DEF Placed, ReceiverInv, AtMost

\* A chunk from Ethernet or WiGig goes no higher than the spare ints.
LEMMA BackwardRecvPlaced ==
  ASSUME ReceiverInv, Streams, NEW valread \in RecvReturns,
         EthRecv(valread) \/ WigiRecv(valread)
  PROVE  Placed(valread) /\ c_pc # "wifi" /\ c_pc' \in {"check", "wigi", "wifi"}
<1>1. valread > 0 /\ valread \in Nat \ {0}
  BY RecvMoves, ReceiverSizes DEF EthRecv, WigiRecv
<1>2. /\ c_pc \in {"eth", "wigi"} /\ c_total' = c_total + valread
      /\ c_pc' \in {"check", "wigi", "wifi"}
      /\ c_fwd' = c_fwd
  BY DEF EthRecv, WigiRecv, Client!RecvEth, Client!RecvWigi, Client!Full
<1>3. c_fwd' \in 0 .. BUFFER_SIZE - Pad /\ AtMost(c_sec) /\ AtMost(c_rev)
  BY <1>2 DEF ReceiverInv
<1>4. CASE EthRecv(valread)
  <2>1. Arrived(pipe["eth"], valread) \in Seq(Block(Server!SecStart))
    BY <1>1, <1>4, RecvDelivers DEF EthRecv
  <2>2. PICK seqno \in SeqnosOf(Arrived(pipe["eth"], valread)) :
          Client!RecvEth(valread, seqno)
    BY <1>4 DEF EthRecv
  <2>3. seqno \in Int /\ (seqno \in 0 .. BUFFER_SIZE => seqno <= BUFFER_SIZE - Pad)
    BY <2>1, StartsApart, SeqnosReadAs
  <2>4. /\ c_pc = "eth" /\ c_rev' = c_rev
        /\ c_sec' = Client!LowerEnd(c_sec, seqno, valread)
    BY <2>2 DEF Client!RecvEth
  <2>5. /\ AtMost(c_sec') /\ c_sec' + valread <= BUFFER_SIZE - Pad
        /\ c_sec' >= c_sec - valread \/ c_sec' >= -valread
    BY <1>1, <1>3, <2>3, <2>4, LowerEndPlaced
  <2> QED
    BY <1>1, <1>2, <1>3, <2>4, <2>5 DEF Placed, AtMost
<1>5. CASE WigiRecv(valread)
  <2>1. Arrived(pipe["wigi"], valread) \in Seq(Block(Server!RevStart))
    BY <1>1, <1>5, RecvDelivers DEF WigiRecv
  <2>2. PICK seqno \in SeqnosOf(Arrived(pipe["wigi"], valread)) :
          Client!RecvWigi(valread, seqno)
    BY <1>5 DEF WigiRecv
  <2>3. seqno \in Int /\ (seqno \in 0 .. BUFFER_SIZE => seqno <= BUFFER_SIZE - Pad)
    BY <2>1, StartsApart, SeqnosReadAs
  <2>4. /\ c_pc = "wigi" /\ c_sec' = c_sec
        /\ c_rev' = Client!LowerEnd(c_rev, seqno, valread)
    BY <2>2 DEF Client!RecvWigi
  <2>5. /\ AtMost(c_rev') /\ c_rev' + valread <= BUFFER_SIZE - Pad
        /\ c_rev' >= c_rev - valread \/ c_rev' >= -valread
    BY <1>1, <1>3, <2>3, <2>4, LowerEndPlaced
  <2> QED
    BY <1>1, <1>2, <1>3, <2>4, <2>5 DEF Placed, AtMost
<1> QED
  BY <1>4, <1>5

\* Every step is a recv or leaves the pointers and the count alone.
LEMMA ReceiverSteps ==
  ASSUME ReceiverInv, Streams, [Next]_vars
  PROVE  /\ c_pc' \in {"wifi", "eth", "wigi", "check", "done"}
         /\ \/ \E valread : Placed(valread)
            \/ UNCHANGED <<c_fwd, c_sec, c_rev, c_total>>
<1>1. CASE ClientTurn
  BY <1>1 DEF ClientTurn, Client!RecvNothing, Client!Finish, Client!After
<1>2. CASE UNCHANGED client
  BY <1>2 DEF client, ReceiverInv
<1>3. ServerStep \/ ServerKilled \/ UNCHANGED vars => UNCHANGED client
  BY DEF ServerStep, WifiSend, EthSend, WigiSend, Sends, ServerTurn, ServerKilled, vars
<1> QED
  BY <1>1, <1>2, <1>3, WifiRecvPlaced, BackwardRecvPlaced DEF Next, ClientStep

\* Every step of either program preserves ReceiverInv.
LEMMA ReceiverNext == ReceiverInv /\ Streams /\ [Next]_vars => ReceiverInv'
<1> SUFFICES ASSUME ReceiverInv, Streams, [Next]_vars PROVE ReceiverInv'
  OBVIOUS
<1>1. ASSUME NEW valread, Placed(valread) PROVE ReceiverInv'
  BY <1>1, ReceiverSteps DEF Placed, ReceiverInv, AtMost, Pad
<1>2. CASE UNCHANGED <<c_fwd, c_sec, c_rev, c_total>>
  BY <1>2, ReceiverSteps DEF ReceiverInv, AtMost, Pad
<1> QED
  BY <1>1, <1>2, ReceiverSteps

\* All of it together.
MultiRatInv == TurnInv /\ Streams /\ ReceiverInv

\* It is an invariant.
LEMMA MultiRatInvariance == Spec => []MultiRatInv
<1>1. Init => MultiRatInv
  BY TurnInvInit, StreamsInit, ReceiverInit DEF MultiRatInv
<1>2. MultiRatInv /\ [Next]_vars => MultiRatInv'
  BY TurnInvNext, StepsFollow, FollowingKeeps, ReceiverNext DEF MultiRatInv
<1> QED
  BY <1>1, <1>2, PTL DEF Spec

\* The variables of both programs keep their types, and no pointer of the
\* receiver passes the two spare ints.
THEOREM TypeCorrect == Spec => []TypeOK
<1>1. TurnInv => Server!TypeOK
  BY StartsApart DEF TurnInv, Within, Server!TypeOK
<1>2. ReceiverInv => Client!TypeOK
  BY ReceiverSizes DEF ReceiverInv, AtMost, Client!TypeOK
<1>3. Streams => \A rat \in RATs : Len(pipe[rat]) <= Cap[rat]
  BY DEF Streams, Carries, RATs
<1>4. MultiRatInv => TypeOK
  BY <1>1, <1>2, <1>3 DEF MultiRatInv, TypeOK
<1> QED
  BY <1>4, MultiRatInvariance, PTL

\* No chunk covers the two spare ints of the receiver's buffer or anything
\* above them, whatever junk is taken for its sequence number: those in range
\* lead below the spare ints, and the pointers never stand above them.
THEOREM SpareIntsStayKept == Spec => SpareIntsKept
<1>1. MultiRatInv /\ [Next]_vars => [KeepsSpareInts]_vars
  <2> SUFFICES ASSUME MultiRatInv, [Next]_vars PROVE KeepsSpareInts
    OBVIOUS
  <2>1. c_total \in Int /\ BUFFER_SIZE - Pad \in Int
    BY StartsApart DEF MultiRatInv, ReceiverInv
  <2>2. ASSUME NEW valread, Placed(valread) PROVE KeepsSpareInts
    <3>1. c_total' - c_total = valread
      BY <2>1, <2>2 DEF Placed
    <3> QED
      BY <2>1, <2>2, <3>1 DEF Placed, KeepsSpareInts
  <2>3. CASE UNCHANGED <<c_fwd, c_sec, c_rev, c_total>>
    BY <2>1, <2>3 DEF KeepsSpareInts
  <2> QED
    BY <2>2, <2>3, ReceiverSteps DEF MultiRatInv
<1> QED
  BY <1>1, MultiRatInvariance, PTL DEF Spec, SpareIntsKept

\* Nor do the pointers fall below the buffer by more than was received, over
\* the whole run and whatever junk lowers them.
THEOREM StrayStaysBounded == Spec => []StrayBounded
<1>1. Init => StrayBounded
  BY ReceiverInit DEF StrayBounded, Client!StrayBounded, Strays
<1>2. MultiRatInv /\ StrayBounded /\ [Next]_vars => StrayBounded'
  <2> SUFFICES ASSUME MultiRatInv, StrayBounded, [Next]_vars PROVE StrayBounded'
    OBVIOUS
  <2>1. PICK start \in JunkTotals : Strays(start)
    BY DEF StrayBounded, Client!StrayBounded, Strays
  <2>2. start \in Int /\ c_total \in Int /\ c_sec \in Int /\ c_rev \in Int
    BY MultiRatAssumption DEF MultiRatInv, ReceiverInv, AtMost
  <2>3. start <= c_total /\ c_sec >= start - c_total /\ c_rev >= start - c_total
    BY <2>1 DEF Strays
  <2>4. ASSUME NEW valread, Placed(valread)
        PROVE  /\ start <= c_total'
               /\ c_sec' >= start - c_total' /\ c_rev' >= start - c_total'
    BY <2>2, <2>3, <2>4 DEF Placed, AtMost
  <2>5. /\ start <= c_total'
        /\ c_sec' >= start - c_total' /\ c_rev' >= start - c_total'
    BY <2>3, <2>4, ReceiverSteps DEF MultiRatInv
  <2> QED
    BY <2>1, <2>5 DEF StrayBounded, Client!StrayBounded
<1> QED
  BY <1>1, <1>2, MultiRatInvariance, PTL DEF Spec
=============================================================================
