------------------------------- MODULE Sptcp -------------------------------
(***************************************************************************)
(* One single-path TCP connection as FBDT uses it, outside the repository: *)
(* a reliable, ordered stream of bytes, bounded by the two socket buffers. *)
(* A pipe is a sequence, its head the next byte recv delivers.  Both ends  *)
(* call with MSG_DONTWAIT, so either call may also do nothing: send when   *)
(* there is no room, recv while the bytes are still under way.             *)
(***************************************************************************)
EXTENDS Integers, Sequences

\* send on pipe returned ret for chunk, where cap bytes fit: nothing or -1
\* leaves the pipe alone.
Taken(pipe, chunk, ret) == pipe \o SubSeq(chunk, 1, ret)
HasRoom(pipe, ret, cap) == ret > 0 => Len(pipe) + ret <= cap

\* recv on pipe returned valread, the first valread bytes.
Arrived(pipe, valread) == SubSeq(pipe, 1, valread)
Left(pipe, valread) == IF valread > 0 THEN SubSeq(pipe, valread + 1, Len(pipe)) ELSE pipe
=============================================================================
