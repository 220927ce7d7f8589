-------------------------------- MODULE Pipe --------------------------------
(****************************************************************************)
(* The pipes between tasks (lib/src/pipe.cpp), as operators on their        *)
(* content.  A pipe is a byte stream: what write_data writes is one string  *)
(* with its terminating 0, and what read_data reads is up to cap bytes, of  *)
(* which the reader looks at the first string only.                         *)
(*                                                                          *)
(* The content is the sequence of the strings in it, each a record whose    *)
(* field len is the number of its bytes still there: a read that stops in   *)
(* the middle of a string leaves a fragment of it at the head.              *)
(****************************************************************************)
EXTENDS Integers, Sequences

(* The bytes in the first k strings of q.                                   *)
Bytes(q, k) ==
  LET sum[n \in 0 .. Len(q)] == IF n = 0 THEN 0 ELSE sum[n - 1] + q[n].len
  IN  sum[k]

(* write blocks until the string fits: a write of this size is atomic.      *)
CanWrite(q, m, capacity) == Bytes(q, Len(q)) + m.len <= capacity

(* What a read of up to cap bytes leaves.                                   *)
AfterRead(q, cap) ==
  LET gone == {k \in DOMAIN q : Bytes(q, k) <= cap}
  IN  IF gone = DOMAIN q
      THEN << >>
      ELSE LET k == CHOOSE k \in DOMAIN q \ gone :
                      \A j \in DOMAIN q \ gone : k <= j
           IN  <<[q[k] EXCEPT !.len = Bytes(q, k) - cap]>> \o SubSeq(q, k + 1, Len(q))
=============================================================================
