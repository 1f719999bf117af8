------------------------------- MODULE Arrays -------------------------------
(***************************************************************************)
(* Slices and concatenations of arrays, which are sequences.               *)
(***************************************************************************)
EXTENDS Integers, Sequences

\* s[:k] and s[k:].
Take(s, k) == SubSeq(s, 1, k)
Drop(s, k) == SubSeq(s, k + 1, Len(s))

\* The members of ss, one behind the other.
Flat(ss) ==
  LET upto[i \in 0 .. Len(ss)] == IF i = 0 THEN <<>> ELSE upto[i - 1] \o ss[i]
  IN upto[Len(ss)]
=============================================================================
