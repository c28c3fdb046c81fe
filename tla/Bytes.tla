------------------------------- MODULE Bytes -------------------------------
(***************************************************************************)
(* The byte-level operations every FBDT program is built from, over        *)
(* buffers written as functions from a range of offsets to bytes and       *)
(* chunks written as sequences.  Offsets and lengths are in bytes, as in   *)
(* the calls of the C code.                                                *)
(***************************************************************************)
EXTENDS Integers, Sequences

\* memcpy(buff + at, chunk, Len(chunk))
memcpy(buff, at, chunk) ==
  [p \in DOMAIN buff |->
     IF p \in at .. at + Len(chunk) - 1 THEN chunk[p - at + 1] ELSE buff[p]]

\* reverse_memcpy(buff + at, chunk, Len(chunk)): the chunk lands back to
\* front.  ReverseCopy models the loop and is shown to compute this.
reverse_memcpy(buff, at, chunk) ==
  [p \in DOMAIN buff |->
     IF p \in at .. at + Len(chunk) - 1 THEN chunk[at + Len(chunk) - p]
     ELSE buff[p]]

\* The chunk reverse_memcpy builds in send_buff from the len bytes at from:
\* the highest offset comes first.
ReversedChunk(buff, from, len) == [i \in 1 .. len |-> buff[from + len - i]]

\* The chunk memcpy builds in send_buff from the len bytes at from.
Chunk(buff, from, len) == [i \in 1 .. len |-> buff[from + i - 1]]

\* An int pointer moved by n/4 ints moves by the whole words among n bytes:
\* the division drops the rest.  WORD stands for sizeof(int).
Words(n, WORD) == WORD * (n \div WORD)
=============================================================================
