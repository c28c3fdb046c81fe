------------------------- MODULE Rendezvous_proofs -------------------------
(***************************************************************************)
(* What the receiver's connections have to do with each other, for every   *)
(* number of RATs, every backlog and every number of runs of the sender.   *)
(***************************************************************************)
EXTENDS Rendezvous, TLAPS

\* The runs that wait are in the order they came, came as far as their RAT,
\* and are newer than the run that was accepted.
Waiting ==
  \A r \in Rats :
    /\ \A i, j \in 1 .. Len(queue[r]) : i < j => queue[r][i] < queue[r][j]
    /\ \A i \in 1 .. Len(queue[r]) :
         connected[queue[r][i]] >= r /\ sock[r] < queue[r][i]

\* A run whose connection was accepted made it.
Made == \A r \in Rats : sock[r] # NoRun => connected[sock[r]] >= r

\* The sender is the only run that still connects.
OneSender ==
  /\ \A n \in 1 .. RUNS : connected[n] > 0 => n <= run
  /\ spc = "connect" => run > 0 /\ connected[run] < RATS

\* The RATs accepted are those before the one the receiver is at, and nothing
\* listens once it has ended.
Accepted ==
  /\ rpc \in {"setup", "listen"} => \A r \in Rats : sock[r] = NoRun
  /\ rpc = "accept" => \A r \in Rats : sock[r] # NoRun <=> r < at
  /\ rpc = "receive" => \A r \in Rats : sock[r] # NoRun
  /\ rpc = "end" => listening = {}

Base == TypeOK /\ Waiting /\ Made /\ OneSender /\ Accepted /\ NoneLost

\* What the connections have to do with each other outlives the queues.
Inv == Base /\ (rpc = "end" => StaleOnlyFirst)

\* What is left of a sequence without its head.
LEMMA TailIs ==
  ASSUME NEW S, NEW q \in Seq(S), q # << >>
  PROVE  /\ Len(q) \in Nat \ {0} /\ Head(q) = q[1] /\ q[1] \in S
         /\ Tail(q) \in Seq(S) /\ Len(Tail(q)) = Len(q) - 1
         /\ \A i \in 1 .. Len(q) - 1 : Tail(q)[i] = q[i + 1]
OBVIOUS

\* The same of a sequence that has grown.
LEMMA AppendIs ==
  ASSUME NEW S, NEW q \in Seq(S), NEW e \in S
  PROVE  /\ Len(q) \in Nat /\ Append(q, e) \in Seq(S)
         /\ Len(Append(q, e)) = Len(q) + 1
         /\ Append(q, e)[Len(q) + 1] = e
         /\ \A i \in 1 .. Len(q) : Append(q, e)[i] = q[i] /\ q[i] \in S
OBVIOUS

\* Inv holds as nothing runs yet.
LEMMA InitInv == Init => Inv
<1> SUFFICES ASSUME Init PROVE Inv
  OBVIOUS
<1> USE RendezvousAssumption DEF Init, Rats, NoRun
<1>1. \A r \in Rats : queue[r] = << >> /\ Len(queue[r]) = 0
  OBVIOUS
<1>2. TypeOK
  BY DEF TypeOK
<1>3. Waiting /\ Made /\ OneSender /\ Accepted
  BY <1>1 DEF Waiting, Made, OneSender, Accepted
<1>4. NoneLost /\ rpc # "end"
  BY DEF NoneLost
<1> QED
  BY <1>2, <1>3, <1>4 DEF Inv, Base

\* While the receiver runs, what is known of each queue says how the
\* connections accepted are related.
LEMMA Related == Base /\ rpc # "end" => StaleOnlyFirst
<1> SUFFICES ASSUME Base, rpc # "end" PROVE StaleOnlyFirst
  OBVIOUS
<1> USE RendezvousAssumption DEF Rats, NoRun
<1>1. /\ sock \in [Rats -> 0 .. RUNS] /\ connected \in [1 .. RUNS -> 0 .. RATS]
      /\ queue \in [Rats -> Seq(1 .. RUNS)] /\ at \in Rats
      /\ rpc \in {"setup", "listen", "accept", "receive"}
  BY DEF Base, TypeOK
<1>2. ASSUME NEW r \in Rats, NEW s \in Rats,
             r < s, sock[s] # NoRun, sock[r] # sock[s]
      PROVE  /\ sock[r] # NoRun /\ sock[r] < sock[s]
             /\ connected[sock[r]] \in r .. s - 1
  <2>1. sock[r] # NoRun
    BY <1>1, <1>2 DEF Base, Accepted
  <2>2. sock[r] \in 1 .. RUNS /\ sock[s] \in 1 .. RUNS
    BY <1>1, <1>2, <2>1
  <2>3. connected[sock[r]] \in 0 .. RATS /\ connected[sock[s]] \in 0 .. RATS
    BY <1>1, <2>2
  <2>4. connected[sock[r]] >= r /\ connected[sock[s]] >= s
    BY <1>2, <2>1 DEF Base, Made
  <2>5. PICK k \in 1 .. Len(queue[r]) : queue[r][k] = sock[s]
    <3>1. connected[sock[s]] >= r
      BY <1>2, <2>3, <2>4
    <3> QED
      BY <1>2, <2>2, <3>1 DEF Base, NoneLost
  <2>6. sock[r] < sock[s]
    BY <2>5 DEF Base, Waiting
  <2>7. ASSUME connected[sock[r]] >= s PROVE FALSE
    <3>1. PICK i \in 1 .. Len(queue[s]) : queue[s][i] = sock[r]
      BY <1>2, <2>2, <2>7 DEF Base, NoneLost
    <3>2. sock[s] < sock[r]
      BY <3>1 DEF Base, Waiting
    <3> QED
      BY <2>2, <2>6, <3>2
  <2> QED
    BY <2>1, <2>3, <2>4, <2>6, <2>7
<1>3. sock[RATS] # NoRun => Whole(sock[RATS])
  BY <1>1 DEF Base, Made, Whole
<1> QED
  BY <1>2, <1>3 DEF StaleOnlyFirst

-----------------------------------------------------------------------------
(* The receiver *)

\* Setting up and listening change nothing that is connected.
LEMMA ListenInv == ASSUME Inv, SetUp \/ Listen PROVE Inv'
<1> USE RendezvousAssumption DEF Rats, NoRun
<1>1. TypeOK /\ Waiting /\ Made /\ OneSender /\ Accepted /\ NoneLost
  BY DEF Inv, Base
<1>2. /\ UNCHANGED <<sock, queue, spc, run, connected>>
      /\ \/ rpc = "setup" /\ rpc' = "listen" /\ UNCHANGED <<at, listening>>
         \/ /\ rpc = "listen" /\ listening' = listening \cup {at}
            /\ \/ rpc' = "accept" /\ at' = 1
               \/ at # RATS /\ rpc' = "listen" /\ at' = at + 1
  BY DEF SetUp, Listen, LastRat, sender
<1>3. TypeOK'
  <2>1. at \in Rats /\ listening \subseteq Rats
    BY <1>1 DEF TypeOK
  <2>2. at' \in {1, at, at + 1} /\ (at' = at + 1 => at # RATS)
    BY <1>2, <2>1
  <2>3. at' \in Rats
    BY <2>1, <2>2
  <2>4. listening' \subseteq Rats
    BY <1>2, <2>1
  <2> QED
    BY <1>1, <1>2, <2>3, <2>4 DEF TypeOK
<1>4. Waiting' /\ Made' /\ OneSender'
  BY <1>1, <1>2 DEF Waiting, Made, OneSender
<1>5. Accepted'
  BY <1>1, <1>2 DEF Accepted
<1>6. NoneLost' /\ rpc' # "end"
  BY <1>1, <1>2 DEF NoneLost
<1> QED
  BY <1>3, <1>4, <1>5, <1>6 DEF Inv, Base

\* The oldest run of a queue is accepted, and the rest of it is newer.
LEMMA AcceptInv == ASSUME Inv, Accept PROVE Inv'
<1> USE RendezvousAssumption DEF Rats, NoRun
<1>1. TypeOK /\ Waiting /\ Made /\ OneSender /\ Accepted /\ NoneLost
  BY DEF Inv, Base
<1>2. /\ rpc = "accept" /\ queue[at] # << >>
      /\ sock' = [sock EXCEPT ![at] = Head(queue[at])]
      /\ queue' = [queue EXCEPT ![at] = Tail(queue[at])]
      /\ UNCHANGED <<listening, spc, run, connected>>
      /\ \/ at = RATS /\ rpc' = "receive" /\ at' = at
         \/ at # RATS /\ rpc' = "accept" /\ at' = at + 1
  BY DEF Accept, LastRat, sender
<1>3. /\ at \in Rats /\ queue \in [Rats -> Seq(1 .. RUNS)]
      /\ sock \in [Rats -> 0 .. RUNS] /\ connected \in [1 .. RUNS -> 0 .. RATS]
  BY <1>1 DEF TypeOK
<1>4. sock[at] = NoRun
  BY <1>1, <1>2, <1>3 DEF Accepted
<1>5. queue[at] \in Seq(1 .. RUNS)
  BY <1>3
<1>6. /\ Len(queue[at]) \in Nat \ {0}
      /\ Head(queue[at]) = queue[at][1] /\ queue[at][1] \in 1 .. RUNS
      /\ Tail(queue[at]) \in Seq(1 .. RUNS)
      /\ Len(Tail(queue[at])) = Len(queue[at]) - 1
      /\ \A i \in 1 .. Len(queue[at]) - 1 : Tail(queue[at])[i] = queue[at][i + 1]
  BY <1>2, <1>5, TailIs, Zenon
<1>7. /\ sock'[at] = queue[at][1]
      /\ Len(queue'[at]) = Len(queue[at]) - 1
      /\ \A i \in 1 .. Len(queue[at]) - 1 : queue'[at][i] = queue[at][i + 1]
  BY <1>2, <1>3, <1>6
<1>8. \A r \in Rats : r # at => sock'[r] = sock[r] /\ queue'[r] = queue[r]
  BY <1>2, <1>3
\* What is known of the queue that was taken from.
<1>9. /\ \A i, j \in 1 .. Len(queue[at]) : i < j => queue[at][i] < queue[at][j]
      /\ \A i \in 1 .. Len(queue[at]) : connected[queue[at][i]] >= at
  BY <1>1, <1>3 DEF Waiting
<1>10. TypeOK'
  <2>1. queue' \in [Rats -> Seq(1 .. RUNS)]
    BY <1>2, <1>3, <1>6
  <2>2. sock' \in [Rats -> 0 .. RUNS]
    BY <1>2, <1>3, <1>6
  <2>3. at' \in {at, at + 1} /\ (at' = at + 1 => at # RATS)
    BY <1>2, <1>3
  <2>4. at' \in Rats
    BY <1>3, <2>3
  <2> QED
    BY <1>1, <1>2, <2>1, <2>2, <2>4 DEF TypeOK
<1>11. Waiting'
  <2>1. ASSUME NEW r \in Rats
        PROVE  /\ \A i, j \in 1 .. Len(queue'[r]) :
                    i < j => queue'[r][i] < queue'[r][j]
               /\ \A i \in 1 .. Len(queue'[r]) :
                    connected'[queue'[r][i]] >= r /\ sock'[r] < queue'[r][i]
    <3>0. connected' = connected
      BY <1>2
    <3>1. CASE r # at
      BY <1>1, <1>8, <3>0, <3>1 DEF Waiting
    <3>2. CASE r = at
      <4>1. \A i \in 1 .. Len(queue'[at]) :
              i + 1 \in 1 .. Len(queue[at]) /\ queue'[at][i] = queue[at][i + 1]
        BY <1>6, <1>7
      <4>2. 1 \in 1 .. Len(queue[at])
        BY <1>6
      <4>3. \A i, j \in 1 .. Len(queue'[at]) : i < j => queue'[at][i] < queue'[at][j]
        <5> SUFFICES ASSUME NEW i \in 1 .. Len(queue'[at]), NEW j \in 1 .. Len(queue'[at]),
                            i < j
                     PROVE  queue'[at][i] < queue'[at][j]
          OBVIOUS
        <5>1. queue[at][i + 1] < queue[at][j + 1]
          BY <1>9, <4>1
        <5> QED
          BY <4>1, <5>1
      <4>4. \A i \in 1 .. Len(queue'[at]) :
              connected[queue'[at][i]] >= at /\ sock'[at] < queue'[at][i]
        <5> SUFFICES ASSUME NEW i \in 1 .. Len(queue'[at])
                     PROVE  connected[queue'[at][i]] >= at /\ sock'[at] < queue'[at][i]
          OBVIOUS
        <5>1. connected[queue[at][i + 1]] >= at /\ queue[at][1] < queue[at][i + 1]
          BY <1>9, <4>1, <4>2
        <5> QED
          BY <1>7, <4>1, <5>1
      <4> QED
        BY <3>0, <3>2, <4>3, <4>4
    <3> QED
      BY <3>1, <3>2
  <2> QED
    BY <2>1 DEF Waiting
<1>12. Made'
  <2>1. connected[queue[at][1]] >= at
    BY <1>6, <1>9
  <2>2. connected' = connected
    BY <1>2
  <2> QED
    BY <1>1, <1>7, <1>8, <2>1, <2>2 DEF Made
<1>13. OneSender'
  BY <1>1, <1>2 DEF OneSender
<1>14. Accepted'
  <2>1. sock'[at] # NoRun /\ \A r \in Rats : sock[r] # NoRun <=> r < at
    BY <1>1, <1>2, <1>6, <1>7 DEF Accepted
  <2>2. ASSUME NEW r \in Rats PROVE (sock'[r] # NoRun) <=> r < at + 1
    <3>1. CASE r = at
      BY <1>3, <2>1, <3>1
    <3>2. CASE r # at
      <4>1. sock'[r] = sock[r]
        BY <1>8, <3>2
      <4>2. r < at <=> r < at + 1
        BY <1>3, <3>2
      <4> QED
        BY <2>1, <4>1, <4>2
    <3> QED
      BY <3>1, <3>2
  <2>3. ASSUME NEW r \in Rats, at = RATS PROVE sock'[r] # NoRun
    <3>1. r < at + 1
      BY <1>3, <2>3
    <3> QED
      BY <2>2, <3>1
  <2> QED
    BY <1>2, <2>2, <2>3 DEF Accepted
<1>15. NoneLost'
  <2>1. ASSUME NEW r \in Rats, NEW n \in 1 .. RUNS, connected[n] >= r
        PROVE  sock'[r] = n \/ \E k \in 1 .. Len(queue'[r]) : queue'[r][k] = n
    <3>1. sock[r] = n \/ \E k \in 1 .. Len(queue[r]) : queue[r][k] = n
      BY <1>1, <1>2, <2>1 DEF NoneLost
    <3>2. CASE r # at
      BY <1>8, <3>1, <3>2
    <3>3. CASE r = at
      <4>1. PICK k \in 1 .. Len(queue[at]) : queue[at][k] = n
        BY <1>4, <3>1, <3>3
      <4>2. CASE k = 1
        BY <1>7, <3>3, <4>1, <4>2
      <4>3. CASE k > 1
        <5>1. k - 1 \in 1 .. Len(queue'[at]) /\ queue'[at][k - 1] = n
          BY <1>6, <1>7, <4>1, <4>3
        <5> QED
          BY <3>3, <5>1
      <4> QED
        BY <4>2, <4>3
    <3> QED
      BY <3>2, <3>3
  <2> QED
    BY <1>2, <2>1 DEF NoneLost
<1>16. rpc' # "end"
  BY <1>2
<1> QED
  BY <1>10, <1>11, <1>12, <1>13, <1>14, <1>15, <1>16 DEF Inv, Base

\* The receiver's end leaves its connections as they were related.
LEMMA EndInv == ASSUME Inv, ReceiverEnds PROVE Inv'
<1> USE RendezvousAssumption DEF Rats, NoRun
<1>1. /\ TypeOK /\ Made /\ OneSender /\ StaleOnlyFirst
      /\ rpc' = "end" /\ listening' = {}
      /\ queue' = [r \in Rats |-> << >>]
      /\ UNCHANGED <<at, sock, spc, run, connected>>
  BY Related DEF ReceiverEnds, Inv, Base, sender
<1>2. \A r \in Rats : queue'[r] = << >> /\ Len(queue'[r]) = 0
  BY <1>1
<1>3. TypeOK'
  BY <1>1 DEF TypeOK
<1>4. Waiting' /\ Made' /\ OneSender' /\ Accepted' /\ NoneLost'
  BY <1>1, <1>2 DEF Waiting, Made, OneSender, Accepted, NoneLost
<1>5. StaleOnlyFirst'
  BY <1>1 DEF StaleOnlyFirst, Whole
<1> QED
  BY <1>3, <1>4, <1>5 DEF Inv, Base

-----------------------------------------------------------------------------
(* The sender *)

\* A sender that begins or is over leaves what is connected alone.
LEMMA SenderInv ==
  ASSUME Inv, Run \/ ConnectFails \/ Interrupt \/ SendBroken
  PROVE  Inv'
<1> USE RendezvousAssumption DEF Rats, NoRun
<1>1. /\ TypeOK /\ Waiting /\ Made /\ OneSender /\ Accepted /\ NoneLost
      /\ rpc = "end" => StaleOnlyFirst
      /\ UNCHANGED <<rpc, at, listening, sock, queue, connected>>
      /\ \/ spc' = "over" /\ run' = run
         \/ spc' = "connect" /\ run < RUNS /\ run' = run + 1
  BY DEF Run, ConnectFails, Interrupt, SendBroken, Inv, Base, receiver, vars
<1>2. TypeOK'
  BY <1>1 DEF TypeOK
<1>3. Waiting' /\ Made' /\ Accepted' /\ NoneLost'
  BY <1>1 DEF Waiting, Made, Accepted, NoneLost
<1>4. OneSender'
  <2>1. run \in 0 .. RUNS /\ connected \in [1 .. RUNS -> 0 .. RATS]
    BY <1>1 DEF TypeOK
  <2> QED
    BY <1>1, <2>1 DEF OneSender
<1>5. rpc' = "end" => StaleOnlyFirst'
  BY <1>1 DEF StaleOnlyFirst, Whole
<1> QED
  BY <1>2, <1>3, <1>4, <1>5 DEF Inv, Base

\* A connection joins its queue behind older runs.
LEMMA ConnectInv ==
  ASSUME Inv, Connect, NEW rat, rat = connected[run] + 1
  PROVE  Inv'
<1> USE RendezvousAssumption DEF Rats, NoRun
<1>1. TypeOK /\ Waiting /\ Made /\ OneSender /\ Accepted /\ NoneLost
  BY DEF Inv, Base
<1>2. /\ spc = "connect" /\ rat \in listening
      /\ queue' = [queue EXCEPT ![rat] = Append(queue[rat], run)]
      /\ connected' = [connected EXCEPT ![run] = rat]
      /\ \/ rat = RATS /\ spc' = "transmit"
         \/ rat # RATS /\ spc' = "connect"
      /\ UNCHANGED <<run, rpc, at, listening, sock>>
  BY DEF Connect, receiver
<1>3. /\ queue \in [Rats -> Seq(1 .. RUNS)]
      /\ sock \in [Rats -> 0 .. RUNS] /\ connected \in [1 .. RUNS -> 0 .. RATS]
      /\ listening \subseteq Rats /\ run \in 0 .. RUNS
  BY <1>1 DEF TypeOK
<1>4. /\ run \in 1 .. RUNS /\ \A n \in 1 .. RUNS : connected[n] > 0 => n <= run
  BY <1>1, <1>2, <1>3 DEF OneSender
<1>5. rat \in Rats /\ rpc # "end"
  BY <1>1, <1>2, <1>3 DEF Accepted
<1>6. /\ connected'[run] = rat /\ connected[run] < rat
      /\ \A n \in 1 .. RUNS : n # run => connected'[n] = connected[n]
  BY <1>2, <1>3, <1>4
<1>7. ASSUME NEW n \in 1 .. RUNS, NEW r \in Rats, connected[n] >= r
      PROVE  connected'[n] >= r
  <2>1. CASE n = run
    BY <1>3, <1>4, <1>5, <1>6, <1>7, <2>1
  <2>2. CASE n # run
    BY <1>6, <1>7, <2>2
  <2> QED
    BY <2>1, <2>2
<1>8. queue[rat] \in Seq(1 .. RUNS)
  BY <1>3, <1>5
<1>9. /\ Len(queue[rat]) \in Nat /\ Append(queue[rat], run) \in Seq(1 .. RUNS)
      /\ Len(Append(queue[rat], run)) = Len(queue[rat]) + 1
      /\ Append(queue[rat], run)[Len(queue[rat]) + 1] = run
      /\ \A i \in 1 .. Len(queue[rat]) :
           Append(queue[rat], run)[i] = queue[rat][i] /\ queue[rat][i] \in 1 .. RUNS
  BY <1>4, <1>8, AppendIs, Zenon
<1>10. /\ Len(queue'[rat]) = Len(queue[rat]) + 1
       /\ queue'[rat][Len(queue[rat]) + 1] = run
       /\ \A i \in 1 .. Len(queue[rat]) : queue'[rat][i] = queue[rat][i]
       /\ \A r \in Rats : r # rat => queue'[r] = queue[r]
  BY <1>2, <1>3, <1>5, <1>9
\* Whatever waits on this RAT, or was accepted from it, got here before.
<1>11. ASSUME NEW n \in 1 .. RUNS, connected[n] >= rat PROVE n < run
  BY <1>3, <1>4, <1>5, <1>6, <1>11
<1>12. /\ \A i, j \in 1 .. Len(queue[rat]) : i < j => queue[rat][i] < queue[rat][j]
       /\ \A i \in 1 .. Len(queue[rat]) :
            connected[queue[rat][i]] >= rat /\ sock[rat] < queue[rat][i]
  BY <1>1, <1>5 DEF Waiting
<1>13. \A i \in 1 .. Len(queue[rat]) : queue[rat][i] < run
  BY <1>9, <1>11, <1>12
<1>14. sock[rat] < run
  <2>1. CASE sock[rat] = NoRun
    BY <1>4, <2>1
  <2>2. CASE sock[rat] # NoRun
    <3>1. sock[rat] \in 1 .. RUNS
      BY <1>3, <1>5, <2>2
    <3>2. connected[sock[rat]] >= rat
      BY <1>1, <1>5, <2>2 DEF Made
    <3> QED
      BY <1>11, <3>1, <3>2
  <2> QED
    BY <2>1, <2>2
<1>15. TypeOK'
  <2>1. queue' \in [Rats -> Seq(1 .. RUNS)]
    BY <1>2, <1>3, <1>9
  <2>2. connected' \in [1 .. RUNS -> 0 .. RATS]
    <3>1. rat \in 0 .. RATS
      BY <1>5
    <3> QED
      BY <1>2, <1>3, <3>1
  <2>3. spc' \in {"connect", "transmit"}
    BY <1>2
  <2> QED
    BY <1>1, <1>2, <2>1, <2>2, <2>3 DEF TypeOK
<1>16. Waiting'
  <2>1. ASSUME NEW r \in Rats
        PROVE  /\ \A i, j \in 1 .. Len(queue'[r]) :
                    i < j => queue'[r][i] < queue'[r][j]
               /\ \A i \in 1 .. Len(queue'[r]) :
                    connected'[queue'[r][i]] >= r /\ sock[r] < queue'[r][i]
    <3>1. CASE r # rat
      <4>1. queue'[r] = queue[r]
        BY <1>10, <3>1
      <4>2. /\ \A i, j \in 1 .. Len(queue[r]) : i < j => queue[r][i] < queue[r][j]
            /\ \A i \in 1 .. Len(queue[r]) :
                 connected[queue[r][i]] >= r /\ sock[r] < queue[r][i]
        BY <1>1 DEF Waiting
      <4>3. queue[r] \in Seq(1 .. RUNS)
        BY <1>3
      <4>4. \A i \in 1 .. Len(queue[r]) : queue[r][i] \in 1 .. RUNS
        BY <4>3
      <4>5. \A i \in 1 .. Len(queue[r]) : connected'[queue[r][i]] >= r
        BY <1>7, <4>2, <4>4
      <4> QED
        BY <4>1, <4>2, <4>5
    <3>2. CASE r = rat
      <4>1. ASSUME NEW i \in 1 .. Len(queue'[rat])
            PROVE  i \in 1 .. Len(queue[rat]) \/ (i = Len(queue[rat]) + 1 /\ queue'[rat][i] = run)
        <5>1. PICK n \in Nat : n = Len(queue[rat])
          BY <1>9
        <5>2. i \in 1 .. n + 1 /\ queue'[rat][n + 1] = run
          BY <1>10, <5>1
        <5>3. i \in 1 .. n \/ i = n + 1
          BY <5>2
        <5> QED
          BY <5>1, <5>2, <5>3
      <4>2. ASSUME NEW i \in 1 .. Len(queue'[rat]), NEW j \in 1 .. Len(queue'[rat]), i < j
            PROVE  queue'[rat][i] < queue'[rat][j]
        <5>1. i \in 1 .. Len(queue[rat]) /\ queue'[rat][i] = queue[rat][i]
          BY <1>9, <1>10, <4>2
        <5>2. CASE j \in 1 .. Len(queue[rat])
          BY <1>10, <1>12, <4>2, <5>1, <5>2
        <5>3. CASE j = Len(queue[rat]) + 1 /\ queue'[rat][j] = run
          BY <1>13, <5>1, <5>3
        <5> QED
          BY <4>1, <5>2, <5>3
      <4>3. ASSUME NEW i \in 1 .. Len(queue'[rat])
            PROVE  connected'[queue'[rat][i]] >= rat /\ sock[rat] < queue'[rat][i]
        <5>1. CASE i \in 1 .. Len(queue[rat])
          <6>1. queue'[rat][i] = queue[rat][i] /\ queue[rat][i] \in 1 .. RUNS
            BY <1>9, <1>10, <5>1
          <6>2. connected'[queue[rat][i]] >= rat
            BY <1>5, <1>7, <1>12, <5>1, <6>1
          <6> QED
            BY <1>12, <5>1, <6>1, <6>2
        <5>2. CASE i = Len(queue[rat]) + 1 /\ queue'[rat][i] = run
          BY <1>5, <1>6, <1>14, <5>2
        <5> QED
          BY <4>1, <5>1, <5>2
      <4> QED
        BY <3>2, <4>2, <4>3
    <3> QED
      BY <3>1, <3>2
  <2>2. sock' = sock
    BY <1>2
  <2> QED
    BY <2>1, <2>2 DEF Waiting
<1>17. Made'
  <2>1. ASSUME NEW r \in Rats, sock[r] # NoRun PROVE connected'[sock[r]] >= r
    <3>1. sock[r] \in 1 .. RUNS
      BY <1>3, <2>1
    <3>2. connected[sock[r]] >= r
      BY <1>1, <2>1 DEF Made
    <3> QED
      BY <1>7, <3>1, <3>2
  <2> QED
    BY <1>2, <2>1 DEF Made
<1>18. OneSender'
  BY <1>2, <1>3, <1>4, <1>5, <1>6 DEF OneSender
<1>19. Accepted'
  BY <1>1, <1>2 DEF Accepted
<1>20. NoneLost'
  <2>1. ASSUME NEW r \in Rats, NEW n \in 1 .. RUNS, connected'[n] >= r
        PROVE  sock[r] = n \/ \E k \in 1 .. Len(queue'[r]) : queue'[r][k] = n
    <3>1. CASE n = run /\ r = rat
      BY <1>9, <1>10, <3>1
    <3>2. CASE ~(n = run /\ r = rat)
      <4>1. connected[n] >= r
        <5>1. CASE n # run
          BY <1>6, <2>1, <5>1
        <5>2. CASE n = run
          <6>1. r <= rat /\ r # rat
            BY <1>6, <2>1, <3>2, <5>2
          <6>2. connected[run] \in 0 .. RATS /\ rat = connected[run] + 1
            BY <1>3, <1>4
          <6> QED
            BY <1>5, <5>2, <6>1, <6>2
        <5> QED
          BY <5>1, <5>2
      <4>2. sock[r] = n \/ \E k \in 1 .. Len(queue[r]) : queue[r][k] = n
        BY <1>1, <1>5, <4>1 DEF NoneLost
      <4>3. CASE r = rat
        <5>1. ASSUME NEW k \in 1 .. Len(queue[rat]), queue[rat][k] = n
              PROVE  k \in 1 .. Len(queue'[rat]) /\ queue'[rat][k] = n
          <6>1. PICK len \in Nat : len = Len(queue[rat])
            BY <1>9
          <6>2. k \in 1 .. len /\ Len(queue'[rat]) = len + 1 /\ queue'[rat][k] = n
            BY <1>10, <5>1, <6>1
          <6>3. k \in 1 .. len + 1
            BY <6>2
          <6> QED
            BY <6>2, <6>3
        <5> QED
          BY <4>2, <4>3, <5>1
      <4>4. CASE r # rat
        BY <1>10, <4>2, <4>4
      <4> QED
        BY <4>3, <4>4
    <3> QED
      BY <3>1, <3>2
  <2>2. sock' = sock /\ rpc' = rpc
    BY <1>2
  <2> QED
    BY <2>1, <2>2 DEF NoneLost
<1>21. rpc' # "end"
  BY <1>2, <1>5
<1> QED
  BY <1>15, <1>16, <1>17, <1>18, <1>19, <1>20, <1>21 DEF Inv, Base

-----------------------------------------------------------------------------
\* Inv holds in every state.
LEMMA Invariant == Spec => []Inv
<1>1. Inv /\ [Next]_vars => Inv'
  <2>1. ASSUME Inv, UNCHANGED vars PROVE Inv'
    BY <2>1 DEF vars, receiver, sender, Inv, Base, TypeOK, Waiting, Made, OneSender,
                Accepted, NoneLost, StaleOnlyFirst, Whole
  <2> QED
    BY <2>1, ListenInv, AcceptInv, EndInv, SenderInv, ConnectInv DEF Next
<1> QED
  BY <1>1, InitInv, PTL DEF Spec

\* The variables of both programs and the queues keep their types: no accept
\* is for a RAT there is not.
THEOREM TypeCorrect == Spec => []TypeOK
<1>1. Inv => TypeOK
  BY DEF Inv, Base
<1> QED
  BY <1>1, Invariant, PTL

\* No connection the sender was told of is lost while the receiver runs.
THEOREM ConnectionsKept == Spec => []NoneLost
<1>1. Inv => NoneLost
  BY DEF Inv, Base
<1> QED
  BY <1>1, Invariant, PTL

\* Only a run that gave up can be paired with a later one, and only on the
\* RATs it connected before it did.
THEOREM PairsWithHalfRuns == Spec => []StaleOnlyFirst
<1>1. Inv => StaleOnlyFirst
  BY Related DEF Inv
<1> QED
  BY <1>1, Invariant, PTL
=============================================================================
