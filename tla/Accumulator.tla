----------------------------- MODULE Accumulator ----------------------------
(***************************************************************************)
(* EventAccumulator (io/buffer.py): the staging buffer that native parsers *)
(* fill in place.  Events lie in an array between start (what lies before  *)
(* was consumed) and size; triggers in a second array.  Consumed space is  *)
(* reclaimed by moving the remainder to the front, and when that is not    *)
(* enough the arrays are reallocated.                                      *)
(*                                                                         *)
(* The four columns of an array move together and are one cell here; a     *)
(* cell holds the number of an event (or trigger), counted from 1.         *)
(***************************************************************************)
EXTENDS Naturals, Sequences

CONSTANTS
  Capacity,       \* the initial capacity
  Ratio,          \* one trigger is provided for so many events (16)
  StepSizes,      \* headrooms that prepare() is asked for
  ChunkSizes,     \* lengths of the arrays that append() is given
  MaxEvents, MaxTriggers   \* bounds of the model: how many are ever fed

ASSUME AccumulatorAssumption ==
  /\ Capacity \in Nat \ {0}
  /\ Ratio \in Nat \ {0}
  /\ StepSizes \subseteq Nat \ {0}
  /\ ChunkSizes \subseteq Nat
  /\ MaxEvents \in Nat /\ MaxTriggers \in Nat

VARIABLES
  ev,         \* _buf and _start
  tr,         \* _tr and _tr_start
  limit,      \* _buf.c.capacity, the capacity the parser is shown
  parsing,    \* prepare() has returned and the parser has not run yet
  asked,      \* history: the headroom asked for, 0 after it was used
  nev, ntr    \* how many events and triggers were fed so far

vars == <<ev, tr, limit, parsing, asked, nev, ntr>>

-----------------------------------------------------------------------------
(* One array.                                                              *)

Array(mem, start, size, cap) ==
  [mem |-> mem, start |-> start, size |-> size, cap |-> cap]

Junk == 0
Larger(a, b) == IF a < b THEN b ELSE a
Smaller(a, b) == IF a < b THEN a ELSE b

Empty(cap) == Array([j \in 0 .. cap - 1 |-> Junk], 0, 0, cap)

Free(b) == b.cap - b.size
Len0(b) == b.size - b.start
Unconsumed(b) == [i \in 1 .. Len0(b) |-> b.mem[b.start + i - 1]]

\* Mutant of Front: the offset of the consumed part is kept.
Front_KeepStart(b) ==
  Array([j \in 0 .. b.cap - 1 |->
           IF j < Len0(b) THEN b.mem[b.start + j] ELSE b.mem[j]],
        b.start, b.size, b.cap)

\* Mutant of Front: the last element is left behind.
Front_OneShort(b) ==
  Array([j \in 0 .. b.cap - 1 |->
           IF j + 1 < Len0(b) THEN b.mem[b.start + j] ELSE b.mem[j]],
        0, Len0(b), b.cap)

\* memmove of the remainder to the front; what lies behind it stays as it is.
Front(b) ==
  Array([j \in 0 .. b.cap - 1 |->
           IF j < Len0(b) THEN b.mem[b.start + j] ELSE b.mem[j]],
        0, Len0(b), b.cap)

\* Reallocate: the cells up to size are copied.
Grow(b, cap) ==
  IF cap <= b.cap THEN b
  ELSE Array([j \in 0 .. cap - 1 |-> IF j < b.size THEN b.mem[j] ELSE Junk],
             b.start, b.size, cap)

\* Write the elements from + 1 .. from + n behind the last one.
Write(b, from, n) ==
  Array([j \in 0 .. b.cap - 1 |->
           IF b.size <= j /\ j < b.size + n THEN from + (j - b.size) + 1 ELSE b.mem[j]],
        b.start, b.size + n, b.cap)

Consume(b, k) == Array(b.mem, b.start + k, b.size, b.cap)

-----------------------------------------------------------------------------
(* Operations.                                                             *)

\* _rotate, its effect on one of the two arrays.
RotatedIf(cond, b) == IF cond THEN Front(b) ELSE b

\* Mutant of RoomFor: reallocate without reclaiming first.
RoomFor_NoReclaim(b, n) ==
  IF Free(b) < n
  THEN Grow(b, Larger(b.size + n, (b.cap * 3) \div 2 + 1))
  ELSE b

\* _ensure_events, its effect on the events.
RoomFor(b, n) ==
  LET r == RotatedIf(Free(b) < n, b) IN
  IF Free(r) < n
  THEN Grow(r, Larger(r.size + n, (r.cap * 3) \div 2 + 1))
  ELSE r

\* Mutant of TriggerRoomFor: only reclaims.
TriggerRoomFor_NoGrow(b, n, more) == RotatedIf(Free(b) < n, b)

\* Room for n triggers, grown to exactly `more` of them.
TriggerRoomFor(b, n, more) ==
  LET r == RotatedIf(Free(b) < n, b) IN
  IF Free(r) < n THEN Grow(r, r.size + more) ELSE r

Init ==
  /\ ev = Empty(Capacity)
  /\ tr = Empty(Larger(Capacity \div Ratio, 1))
  /\ limit = Capacity
  /\ parsing = FALSE /\ asked = 0
  /\ nev = 0 /\ ntr = 0

\* Both arrays are rotated when either of them is short of room: the events
\* when the triggers are short, after the events had their turn, and the other
\* way round.
Prepare(step) ==
  LET most == step \div Ratio
      t1 == RotatedIf(Free(ev) < step, tr)
      e1 == RoomFor(ev, step)
  IN
  /\ ~parsing
  /\ ev' = RotatedIf(Free(t1) < most, e1)
  /\ tr' = TriggerRoomFor(t1, most, Larger(most, 1))
  /\ limit' = Smaller(ev'.cap, ev'.size + step)
  /\ parsing' = TRUE
  /\ asked' = step
  /\ UNCHANGED <<nev, ntr>>

\* The parser appends to what prepare() returned: any number of events up to
\* the limit it is shown, and of triggers up to their capacity.
ParseStep ==
  /\ parsing
  /\ \E n \in 0 .. limit - ev.size, m \in 0 .. Free(tr) :
       /\ nev + n <= MaxEvents /\ ntr + m <= MaxTriggers
       /\ ev' = Write(ev, nev, n) /\ nev' = nev + n
       /\ tr' = Write(tr, ntr, m) /\ ntr' = ntr + m
  /\ parsing' = FALSE /\ asked' = 0
  /\ UNCHANGED limit

\* Mutant of AppendChunk: the chunk is expected to fit.
AppendChunk_NoRoom(n, m) ==
  /\ ~parsing
  /\ nev + n <= MaxEvents /\ ntr + m <= MaxTriggers
  /\ ev' = Write(ev, nev, n)
  /\ tr' = Write(tr, ntr, m)
  /\ nev' = nev + n /\ ntr' = ntr + m
  /\ asked' = n
  /\ UNCHANGED <<limit, parsing>>

\* append of n events and m triggers, either of which may be none.
AppendChunk(n, m) ==
  LET t1 == RotatedIf(Free(ev) < n, tr)
      e1 == Write(RoomFor(ev, n), nev, n)
  IN
  /\ ~parsing
  /\ nev + n <= MaxEvents /\ ntr + m <= MaxTriggers
  /\ ev' = RotatedIf(Free(t1) < m, e1)
  /\ tr' = Write(TriggerRoomFor(t1, m, m), ntr, m)
  /\ nev' = nev + n /\ ntr' = ntr + m
  /\ asked' = n
  /\ limit' = IF ev'.cap > ev.cap THEN ev'.cap ELSE limit
  /\ UNCHANGED parsing

\* A copy of the first k events and m triggers, which count as consumed then.
SliceCopy ==
  /\ ~parsing
  /\ \E k \in 0 .. Len0(ev), m \in 0 .. Len0(tr) :
       /\ ev' = Consume(ev, k)
       /\ tr' = Consume(tr, m)
  /\ asked' = 0
  /\ UNCHANGED <<limit, parsing, nev, ntr>>

Reset ==
  /\ ~parsing
  /\ ev' = Array(ev.mem, 0, 0, ev.cap)
  /\ tr' = Array(tr.mem, 0, 0, tr.cap)
  /\ asked' = 0
  /\ UNCHANGED <<limit, parsing, nev, ntr>>

Next ==
  \/ \E step \in StepSizes : Prepare(step)
  \/ ParseStep
  \/ \E n, m \in ChunkSizes : AppendChunk(n, m)
  \/ SliceCopy
  \/ Reset

Spec == Init /\ [][Next]_vars

-----------------------------------------------------------------------------
(* Properties.                                                             *)

IsArray(b) ==
  /\ b.cap \in Nat \ {0}
  /\ b.size \in 0 .. b.cap
  /\ b.start \in 0 .. b.size
  /\ b.mem \in [0 .. b.cap - 1 -> Nat]

\* The type of every variable: above all, nothing is ever written behind the
\* end of an array.
TypeOK ==
  /\ IsArray(ev) /\ IsArray(tr)
  /\ limit \in 0 .. ev.cap
  /\ parsing \in BOOLEAN
  /\ asked \in Nat /\ nev \in Nat /\ ntr \in Nat

\* A parser that was given the buffer finds the room that was asked for: as
\* many events as the step, not one more ("so a single step does not overshoot
\* the requested window"), and one trigger per Ratio events.
PrepareGivesRoom ==
  parsing => limit = ev.size + asked /\ Free(tr) >= asked \div Ratio

\* The arrays are reallocated only when reclaiming the consumed space would
\* not have been enough.
GrowsOnlyIfNeeded ==
  [][ev'.cap > ev.cap => Len0(ev) + asked' > ev.cap]_vars

\* q ends with the last element that was fed, and has no gap before it.
EndsWith(q, last) == \A i \in 1 .. Len(q) : q[i] + Len(q) = last + i

\* What is held is always what was fed last, up to the newest element: no cell
\* of a new array that was never written is handed out, and none that holds an
\* element consumed before.
HoldsNewest == EndsWith(Unconsumed(ev), nev) /\ EndsWith(Unconsumed(tr), ntr)

\* Moving, growing and writing in place, the accumulator is a queue of events
\* and a queue of triggers: nothing that was not consumed is lost, repeated or
\* overwritten.
Queues == INSTANCE EventQueues WITH
  events <- Unconsumed(ev), triggers <- Unconsumed(tr)

IsTwoQueues == Queues!Spec
=============================================================================
