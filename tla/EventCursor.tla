---------------------------- MODULE EventCursor -----------------------------
(***************************************************************************)
(* What an EventReader is to its user: a cursor in a recording of total    *)
(* events.  Each read hands out the next events, as many as it chooses,    *)
(* each exactly once and in order; a seek or a reset moves the cursor; and *)
(* is_eof() is true only when nothing is left.                             *)
(***************************************************************************)
EXTENDS Naturals, Sequences

VARIABLES
  total,   \* the number of events of the recording (never changes)
  pos,     \* how many events precede the cursor
  window,  \* the events handed out by the last read
  ended    \* what is_eof() says

vars == <<total, pos, window, ended>>

Init == total \in Nat /\ pos = 0 /\ window = <<>> /\ ended = FALSE

Read ==
  \E n \in 0 .. (total - pos) :
    /\ window' = [i \in 1 .. n |-> pos + i]
    /\ pos' = pos + n
    /\ ended' \in {FALSE, pos + n = total}
    /\ UNCHANGED total

Move ==
  /\ pos' \in 0 .. total
  /\ window' = <<>>
  /\ ended' \in {FALSE, pos' = total}
  /\ UNCHANGED total

Spec == Init /\ [][Read \/ Move]_vars
=============================================================================
