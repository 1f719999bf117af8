----------------------------- MODULE EventQueues ----------------------------
(***************************************************************************)
(* What an EventAccumulator is to its user: a queue of events beside a     *)
(* queue of triggers.  A decoder feeds them at the end, a window is taken  *)
(* from the front, and a reset empties them.                               *)
(***************************************************************************)
EXTENDS Naturals, Sequences

VARIABLES
  events,    \* the unconsumed events
  triggers   \* the unconsumed triggers

vars == <<events, triggers>>

Init == events = <<>> /\ triggers = <<>>

\* s grows into t by elements added at the end.
Extends(s, t) == Len(s) <= Len(t) /\ SubSeq(t, 1, Len(s)) = s

Feed ==
  /\ Extends(events, events')
  /\ Extends(triggers, triggers')

Take ==
  \E k \in 0 .. Len(events), m \in 0 .. Len(triggers) :
    /\ events' = SubSeq(events, k + 1, Len(events))
    /\ triggers' = SubSeq(triggers, m + 1, Len(triggers))

Clear == events' = <<>> /\ triggers' = <<>>

Spec == Init /\ [][Feed \/ Take \/ Clear]_vars
=============================================================================
