--------------------------- MODULE PlainIteration ---------------------------
(***************************************************************************)
(* What the docstring of PrefetchIterator promises: iterating through the  *)
(* prefetcher is iterating the source directly.  The consumer receives     *)
(* chunks 1, 2, 3, ... of the source; at the end it is told so, or gets    *)
(* the exception of the source at the point where the source raised; it    *)
(* may stop early by closing the iterator.                                 *)
(***************************************************************************)
EXTENDS Naturals, Sequences

VARIABLES
  chunks,   \* how many chunks the source yields (never changes)
  fails,    \* whether the source then raises instead of ending (never changes)
  got,      \* the chunks received so far
  status    \* "open", "stopped", "raised" or "closed"

vars == <<chunks, fails, got, status>>

Init ==
  /\ chunks \in Nat
  /\ fails \in BOOLEAN
  /\ got = <<>>
  /\ status = "open"

Deliver ==
  /\ status = "open"
  /\ Len(got) < chunks
  /\ got' = Append(got, Len(got) + 1)
  /\ UNCHANGED <<chunks, fails, status>>

\* The source is exhausted: it ends, or raises.
End ==
  /\ status = "open"
  /\ Len(got) = chunks
  /\ status' = IF fails THEN "raised" ELSE "stopped"
  /\ UNCHANGED <<chunks, fails, got>>

Close ==
  /\ status = "open"
  /\ status' = "closed"
  /\ UNCHANGED <<chunks, fails, got>>

Next == Deliver \/ End \/ Close

Spec == Init /\ [][Next]_vars
=============================================================================
