------------------------- MODULE ReverseCopy_proofs -------------------------
(***************************************************************************)
(* reverse_memcpy, for sources of every length and content.                *)
(***************************************************************************)
EXTENDS ReverseCopy, TLAPS

Blank == [p \in 0 .. Room - 1 |-> Old]

\* The loop invariant: d bytes are written and len are left to read, s is
\* the last of these, and what is written is the end of the source reversed.
Inv ==
  /\ pc \in {"loop", "done"}
  /\ src \in Seq(Byte) /\ Len(src) <= MaxLen
  /\ dest \in [0 .. Room - 1 -> Byte \cup {Old}]
  /\ d \in Nat /\ s \in Int
  /\ pc = "loop" => /\ len \in Nat /\ d + len = Len(src)
                    /\ s = len - 1
  /\ pc = "done" => /\ d = Len(src) /\ s = -1
                    /\ len = SizeMod - 1
  /\ \A p \in 0 .. Room - 1 :
       dest[p] = IF p < d THEN src[Len(src) - p] ELSE Old

\* A source is a sequence of bytes, of its own length.
LEMMA SourcesAreSequences ==
  ASSUME NEW t \in Sources
  PROVE  t \in Seq(Byte) /\ Len(t) \in 0 .. MaxLen
<1>1. PICK n \in 0 .. MaxLen : t \in [1 .. n -> Byte]
  BY DEF Sources
<1>2. n \in Nat
  BY <1>1, LengthsAssumption
<1> QED
  BY <1>1, <1>2

\* The loop starts with nothing written.
LEMMA InitInv == Init => Inv
<1> SUFFICES ASSUME Init PROVE Inv
  OBVIOUS
<1>1. src \in Seq(Byte) /\ Len(src) \in 0 .. MaxLen
  BY SourcesAreSequences DEF Init
<1> QED
  BY <1>1, LengthsAssumption DEF Init, Inv

\* Every turn of the loop, and its end, preserve the loop invariant.
LEMMA NextInv == Inv /\ [Next]_vars => Inv'
<1> SUFFICES ASSUME Inv, [Next]_vars PROVE Inv'
  OBVIOUS
<1> USE LengthsAssumption
<1>1. CASE CopyByte
  <2>1. /\ len \in Nat \ {0} /\ d + len = Len(src) /\ s = len - 1
        /\ d \in 0 .. Room - 1 /\ s + 1 = Len(src) - d
        /\ s + 1 \in 1 .. Len(src)
    BY <1>1 DEF Inv, CopyByte
  <2>2. src[s + 1] \in Byte
    BY <2>1 DEF Inv
  <2>3. dest' \in [0 .. Room - 1 -> Byte \cup {Old}]
    BY <1>1, <2>1, <2>2 DEF Inv, CopyByte
  <2>4. \A p \in 0 .. Room - 1 :
          dest'[p] = IF p < d' THEN src'[Len(src') - p] ELSE Old
    <3> TAKE p \in 0 .. Room - 1
    <3>1. dest'[p] = IF p = d THEN src[s + 1] ELSE dest[p]
      BY <1>1, <2>1 DEF Inv, CopyByte
    <3>2. dest[p] = IF p < d THEN src[Len(src) - p] ELSE Old
      BY DEF Inv
    <3>3. d' = d + 1 /\ src' = src
      BY <1>1 DEF CopyByte
    <3>4. CASE p = d
      BY <2>1, <3>1, <3>3, <3>4
    <3>5. CASE p # d
      <4>1. p < d' <=> p < d
        BY <2>1, <3>3, <3>5
      <4> QED
        BY <3>1, <3>2, <3>3, <3>5, <4>1
    <3> QED
      BY <3>4, <3>5
  <2> QED
    BY <1>1, <2>1, <2>3, <2>4 DEF Inv, CopyByte
<1>2. CASE Return
  <2>1. (0 - 1) % SizeMod = SizeMod - 1
    BY SMT
  <2> QED
    BY <1>2, <2>1 DEF Inv, Return
<1>3. CASE UNCHANGED vars
  BY <1>3 DEF Inv, vars
<1> QED
  BY <1>1, <1>2, <1>3 DEF Next

\* The loop invariant holds throughout.
LEMMA Invariance == Spec => []Inv
  BY InitInv, NextInv, PTL DEF Spec

\* reverse_memcpy returns the source back to front, with the rest of the
\* destination untouched.
THEOREM CopyReverses == Spec => []Reverses
<1>1. Inv => Reverses
  <2> SUFFICES ASSUME Inv, pc = "done"
               PROVE  dest = reverse_memcpy(Blank, 0, src)
    BY DEF Reverses, Blank
  <2>1. d = Len(src) /\ Len(src) \in Nat
    BY DEF Inv
  <2>2. DOMAIN Blank = 0 .. Room - 1
    BY DEF Blank
  <2>3. \A p \in 0 .. Room - 1 :
          dest[p] = IF p \in 0 .. 0 + Len(src) - 1
                    THEN src[0 + Len(src) - p] ELSE Blank[p]
    BY <2>1 DEF Inv, Blank
  <2>4. dest = [p \in 0 .. Room - 1 |-> dest[p]]
    BY DEF Inv
  <2> QED
    BY <2>2, <2>3, <2>4 DEF reverse_memcpy
<1> QED
  BY <1>1, Invariance, PTL

\* The loop variables keep their types, the counter wrapped below zero
\* included.
THEOREM TypeCorrect == Spec => []TypeOK
<1>1. Init => src \in Sources
  BY DEF Init
<1>2. src \in Sources /\ [Next]_vars => (src \in Sources)'
  BY DEF Next, CopyByte, Return, vars
<1>3. Inv /\ src \in Sources => TypeOK
  BY LengthsAssumption DEF Inv, TypeOK
<1>4. Spec => [](src \in Sources)
  BY <1>1, <1>2, PTL DEF Spec
<1> QED
  BY <1>3, <1>4, Invariance, PTL

\* Whatever cut the receiver makes in what the sender reversed, it restores
\* the block: the reason why it may reverse what recv returns.
THEOREM RestoredAcrossCuts == Spec => []CutAnywhere
<1>1. Inv => CutAnywhere
  <2> DEFINE L == Len(src)
             block == [p \in 0 .. L - 1 |-> src[p + 1]]
             sent == [i \in 1 .. L |-> dest[i - 1]]
             blank == [p \in 0 .. L - 1 |-> Old]
  <2> SUFFICES ASSUME Inv, pc = "done", NEW k \in 0 .. L
               PROVE  reverse_memcpy(reverse_memcpy(blank, L - k, SubSeq(sent, 1, k)),
                                     0, SubSeq(sent, k + 1, L)) = block
    BY DEF CutAnywhere
  <2>1. /\ L \in Nat /\ L <= Room /\ d = L /\ src \in Seq(Byte)
        /\ \A p \in 0 .. Room - 1 : dest[p] = IF p < d THEN src[L - p] ELSE Old
    BY LengthsAssumption DEF Inv
  <2>2. ASSUME NEW i \in 1 .. L PROVE sent[i] = src[L - (i - 1)]
    <3>1. i - 1 \in 0 .. Room - 1 /\ i - 1 < d
      BY <2>1, LengthsAssumption
    <3>2. dest[i - 1] = src[L - (i - 1)]
      BY <2>1, <3>1
    <3> QED
      BY <3>2
  <2>3. sent \in Seq(Byte) /\ Len(sent) = L
    <3>1. \A i \in 1 .. L : sent[i] \in Byte
      BY <2>1, <2>2
    <3> QED
      BY <2>1, <3>1
  <2> HIDE DEF sent
  <2> DEFINE first == SubSeq(sent, 1, k)
             second == SubSeq(sent, k + 1, L)
             upper == reverse_memcpy(blank, L - k, first)
  <2>4. Len(first) = k /\ \A i \in 1 .. k : first[i] = sent[i]
    BY <2>1, <2>3
  <2>5. Len(second) = L - k /\ \A i \in 1 .. L - k : second[i] = sent[k + i]
    BY <2>1, <2>3
  <2> HIDE DEF first, second, L
  <2>6. /\ DOMAIN upper = 0 .. L - 1
        /\ \A p \in 0 .. L - 1 : p >= L - k => upper[p] = src[p + 1]
    <3>1. DOMAIN upper = 0 .. L - 1
      BY DEF reverse_memcpy
    <3>2. ASSUME NEW p \in 0 .. L - 1, p >= L - k PROVE upper[p] = src[p + 1]
      <4>1. upper[p] = first[L - p]
        BY <2>1, <2>4, <3>2 DEF reverse_memcpy
      <4>2. L - p \in 1 .. k
        BY <2>1, <3>2
      <4>3. upper[p] = sent[L - p] /\ L - p \in 1 .. L
        BY <2>1, <2>4, <4>1, <4>2
      <4>4. L - ((L - p) - 1) = p + 1
        BY <2>1
      <4> QED
        BY <2>2, <4>3, <4>4
    <3> QED
      BY <3>1, <3>2
  <2> DEFINE whole == reverse_memcpy(upper, 0, second)
  <2> HIDE DEF upper
  <2>7. whole = [p \in 0 .. L - 1 |-> whole[p]]
    BY <2>6 DEF reverse_memcpy
  <2>8. ASSUME NEW p \in 0 .. L - 1 PROVE whole[p] = src[p + 1]
    <3>1. CASE p >= L - k
      BY <2>1, <2>5, <2>6, <3>1 DEF reverse_memcpy
    <3>2. CASE p < L - k
      <4>1. whole[p] = second[(L - k) - p]
        BY <2>1, <2>5, <2>6, <3>2 DEF reverse_memcpy
      <4>2. (L - k) - p \in 1 .. L - k /\ k + ((L - k) - p) = L - p
        BY <2>1, <3>2
      <4>3. whole[p] = sent[L - p] /\ L - p \in 1 .. L
        BY <2>1, <2>5, <4>1, <4>2
      <4>4. L - ((L - p) - 1) = p + 1
        BY <2>1
      <4> QED
        BY <2>2, <4>3, <4>4
    <3> QED
      BY <2>1, <3>1, <3>2
  <2>9. whole = block
    BY <2>7, <2>8
  <2> QED
    BY <2>9 DEF upper, first, second, L
<1> QED
  BY <1>1, Invariance, PTL
=============================================================================
