---------------------------- MODULE Bytes_proofs ----------------------------
(***************************************************************************)
(* What the byte-level operations of the FBDT programs, and of the streams *)
(* between them, do: for every length, every size of int and every cut.    *)
(***************************************************************************)
EXTENDS Bytes, Sptcp, TLAPS

\* Moving an int pointer by n/4 ints moves it by at most n bytes, never
\* backwards: fwd_ptr+(ret1/4) and rev_ptr-valread/4, for every size of int.
LEMMA WordsBound ==
  ASSUME NEW n \in Nat, NEW W \in Nat \ {0}
  PROVE  Words(n, W) \in Nat /\ Words(n, W) <= n
<1>1. n \div W \in Nat
  OBVIOUS
<1>2. n = W * (n \div W) + (n % W) /\ (n % W) \in 0 .. W - 1
  BY SMT
<1> QED
  BY <1>1, <1>2, SMT DEF Words

\* It loses nothing exactly when the call moved whole ints.
LEMMA WordsExact ==
  ASSUME NEW n \in Nat, NEW W \in Nat \ {0}
  PROVE  Words(n, W) = n <=> n % W = 0
<1>1. n = W * (n \div W) + (n % W) /\ (n % W) \in 0 .. W - 1
  BY SMT
<1> QED
  BY <1>1, SMT DEF Words

\* A multiple of a multiple is a multiple: calls that move whole grains move
\* whole ints if a grain is made of ints.
LEMMA GrainsAreWords ==
  ASSUME NEW n \in Nat, NEW W \in Nat \ {0}, NEW G \in Nat \ {0},
         G % W = 0, n % G = 0
  PROVE  Words(n, W) = n
<1> DEFINE g == G \div W
           k == n \div G
           q == n \div W
<1>1. g \in Nat /\ k \in Nat /\ q \in Nat
  OBVIOUS
<1>2. G = W * g /\ n = G * k
  BY SMT
<1>3. n = W * q + (n % W) /\ (n % W) \in 0 .. W - 1
  BY SMT
<1> HIDE DEF g, k, q
<1>4. g * k \in Nat /\ n = W * (g * k)
  BY <1>1, <1>2, SMT
<1> DEFINE m == g * k
<1> HIDE DEF m
<1>5. m \in Nat /\ W * m = W * q + (n % W)
  BY <1>3, <1>4 DEF m
<1>6. CASE m = q
  BY <1>1, <1>4, <1>6 DEF m, q, Words
<1>7. CASE m > q
  <2>1. m - q - 1 \in Nat
    BY <1>1, <1>5, <1>7
  <2>2. W * (m - q - 1) \in Nat
    BY <2>1
  <2>3. W * (m - q - 1) = W * m - W * q - W
    BY <1>1, <1>5, SMT
  <2> QED
    BY <1>1, <1>3, <1>5, <2>2, <2>3, SMT
<1>8. CASE m < q
  <2>1. q - m - 1 \in Nat
    BY <1>1, <1>5, <1>8
  <2>2. W * (q - m - 1) \in Nat
    BY <2>1
  <2>3. W * (q - m - 1) = W * q - W * m - W
    BY <1>1, <1>5, SMT
  <2> QED
    BY <1>1, <1>3, <1>5, <2>2, <2>3, SMT
<1> QED
  BY <1>1, <1>5, <1>6, <1>7, <1>8

\* What a send that returned ret put on the stream.
Took(ret) == IF ret > 0 THEN ret ELSE 0

\* new is pipe with the first n bytes of chunk behind it.
Appended(new, pipe, chunk, n) ==
  /\ Len(new) = Len(pipe) + n
  /\ \A i \in 1 .. Len(pipe) : new[i] = pipe[i]
  /\ \A i \in 1 .. n : new[Len(pipe) + i] = chunk[i]

\* A send appends the first ret bytes of its block to the stream, and leaves
\* the stream alone when it fails.
LEMMA TakenAppends ==
  ASSUME NEW S, NEW pipe \in Seq(S), NEW chunk \in Seq(S),
         NEW ret \in {-1} \cup 1 .. Len(chunk)
  PROVE  /\ Taken(pipe, chunk, ret) \in Seq(S)
         /\ Appended(Taken(pipe, chunk, ret), pipe, chunk, Took(ret))
<1> DEFINE part == SubSeq(chunk, 1, ret)
<1>1. part \in Seq(S) /\ Len(part) = Took(ret)
  <2>1. Len(chunk) \in Nat
    OBVIOUS
  <2> QED
    BY <2>1 DEF Took
<1>2. \A i \in 1 .. Took(ret) : part[i] = chunk[i]
  BY DEF Took
<1> HIDE DEF part
<1>3. Taken(pipe, chunk, ret) = pipe \o part
  BY DEF Taken, part
<1>4. Taken(pipe, chunk, ret) \in Seq(S)
  BY <1>1, <1>3
<1>5. Len(Taken(pipe, chunk, ret)) = Len(pipe) + Took(ret)
  <2>1. Len(pipe \o part) = Len(pipe) + Len(part)
    BY <1>1
  <2> QED
    BY <1>1, <1>3, <2>1
<1>6. \A i \in 1 .. Len(pipe) : Taken(pipe, chunk, ret)[i] = pipe[i]
  BY <1>1, <1>3
<1>7. Took(ret) \in Nat
  BY DEF Took
<1>8. \A i \in 1 .. Took(ret) : (pipe \o part)[Len(pipe) + i] = part[i]
  BY <1>1, <1>7
<1> QED
  BY <1>2, <1>3, <1>4, <1>5, <1>6, <1>8 DEF Appended

\* head is the first n bytes of pipe, and rest what is left of it.
Split(head, rest, pipe, n) ==
  /\ Len(head) = n /\ Len(rest) = Len(pipe) - n
  /\ \A i \in 1 .. n : head[i] = pipe[i]
  /\ \A i \in 1 .. Len(pipe) - n : rest[i] = pipe[n + i]

\* A recv delivers the head of the stream and leaves the rest.
LEMMA RecvSplits ==
  ASSUME NEW S, NEW pipe \in Seq(S), NEW valread \in 1 .. Len(pipe)
  PROVE  /\ Arrived(pipe, valread) \in Seq(S)
         /\ Left(pipe, valread) \in Seq(S)
         /\ Split(Arrived(pipe, valread), Left(pipe, valread), pipe, valread)
  BY DEF Arrived, Left, Split
=============================================================================
