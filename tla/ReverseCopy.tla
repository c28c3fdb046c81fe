---------------------------- MODULE ReverseCopy ----------------------------
(***************************************************************************)
(* The loop of reverse_memcpy, which both ends of the backward path call   *)
(* on every chunk: the sender to lay a block out in descending order, the  *)
(* receiver to put it back in ascending order.                             *)
(*                                                                         *)
(*     char *d = dest;  const char *s = src+len-1;                         *)
(*     while (len--)  *d++ = *s--;                                         *)
(*                                                                         *)
(* d and s are kept as offsets into dest and src.                          *)
(***************************************************************************)
EXTENDS Bytes

CONSTANTS
  Byte,         \* the values a byte of the source may have
  Old,          \* what dest holds before the call, outside Byte
  MaxLen,       \* the longest source
  Room,         \* the size of the buffer dest points to
  SizeMod       \* 2^w for the w bits of a size_t

ASSUME LengthsAssumption ==
  /\ MaxLen \in Nat /\ Room \in Nat /\ SizeMod \in Nat
  /\ MaxLen <= Room /\ MaxLen < SizeMod
ASSUME OldAssumption == Old \notin Byte

VARIABLES
  pc,           \* "loop": at the while; "done": returned
  src,          \* the source, never written
  dest,         \* the destination buffer
  d,            \* offset of the next byte to write
  s,            \* offset of the next byte to read, -1 once past the front
  len           \* the counter, a size_t

vars == <<pc, src, dest, d, s, len>>

Sources == UNION {[1 .. n -> Byte] : n \in 0 .. MaxLen}

Init ==
  /\ pc = "loop"
  /\ src \in Sources
  /\ dest = [p \in 0 .. Room - 1 |-> Old]
  /\ d = 0
  /\ s = Len(src) - 1
  /\ len = Len(src)

\* Mutant: *d++ = *src++, a plain memcpy.
CopyByteUnreversed ==
  /\ pc = "loop" /\ len # 0
  /\ dest' = [dest EXCEPT ![d] = src[d + 1]]
  /\ d' = d + 1 /\ s' = s - 1 /\ len' = len - 1
  /\ UNCHANGED <<pc, src>>

\* Mutant: --len in place of len-- leaves the last byte out.
CopyByteShort ==
  /\ pc = "loop" /\ len > 1
  /\ dest' = [dest EXCEPT ![d] = src[s + 1]]
  /\ d' = d + 1 /\ s' = s - 1 /\ len' = len - 1
  /\ pc' = IF len' = 1 THEN "done" ELSE "loop"
  /\ UNCHANGED src

\* One turn of the loop: len-- was not zero, *d++ = *s--.
CopyByte ==
  /\ pc = "loop" /\ len # 0
  /\ dest' = [dest EXCEPT ![d] = src[s + 1]]
  /\ d' = d + 1
  /\ s' = s - 1
  /\ len' = len - 1
  /\ UNCHANGED <<pc, src>>

\* Mutant: the counter is an int, not a size_t.
ReturnSigned ==
  /\ pc = "loop" /\ len = 0
  /\ pc' = "done"
  /\ len' = len - 1
  /\ UNCHANGED <<src, dest, d, s>>

\* len-- was zero: the loop ends and the counter wraps.
Return ==
  /\ pc = "loop" /\ len = 0
  /\ pc' = "done"
  /\ len' = (len - 1) % SizeMod
  /\ UNCHANGED <<src, dest, d, s>>

Next == CopyByte \/ Return

Spec == Init /\ [][Next]_vars
-----------------------------------------------------------------------------
\* Types of the loop's variables; s may stop one byte before the source.
TypeOK ==
  /\ pc \in {"loop", "done"}
  /\ src \in Sources
  /\ dest \in [0 .. Room - 1 -> Byte \cup {Old}]
  /\ d \in 0 .. MaxLen
  /\ s \in -1 .. MaxLen - 1
  /\ len \in 0 .. SizeMod - 1

\* reverse_memcpy returns with dest holding the source back to front and
\* nothing written past it: what the callers' pointer arithmetic relies on.
Reverses ==
  pc = "done" =>
    dest = reverse_memcpy([p \in 0 .. Room - 1 |-> Old], 0, src)

\* The receiver undoes the sender although it cuts the stream elsewhere: for
\* any cut of a chunk the sender reversed, reversing the two pieces and
\* placing the first above the second restores the block.  The client calls
\* reverse_memcpy on whatever recv returned, never on the sender's blocks.
CutAnywhere ==
  pc = "done" =>
    \A k \in 0 .. Len(src) :
      LET block == [p \in 0 .. Len(src) - 1 |-> src[p + 1]]
          sent  == [i \in 1 .. Len(src) |-> dest[i - 1]]
          blank == [p \in 0 .. Len(src) - 1 |-> Old]
          upper == reverse_memcpy(blank, Len(src) - k, SubSeq(sent, 1, k))
      IN  reverse_memcpy(upper, 0, SubSeq(sent, k + 1, Len(src))) = block
=============================================================================
