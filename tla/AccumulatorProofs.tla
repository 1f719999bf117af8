-------------------------- MODULE AccumulatorProofs -------------------------
(***************************************************************************)
(* Theorems about Accumulator, for every capacity, every headroom and any  *)
(* number of events.                                                       *)
(***************************************************************************)
EXTENDS Accumulator, SequenceTheorems, TLAPS

-----------------------------------------------------------------------------
(* What the operations on one array do.                                    *)

\* The unconsumed items of an array, one by one.
LEMMA UnconsumedFacts ==
  ASSUME NEW b, IsArray(b)
  PROVE  /\ Len0(b) \in Nat /\ Free(b) \in Nat
         /\ Unconsumed(b) \in Seq(Nat)
         /\ Len(Unconsumed(b)) = Len0(b)
         /\ \A i \in 1 .. Len0(b) : Unconsumed(b)[i] = b.mem[b.start + i - 1]
  <1>1. Len0(b) \in Nat /\ Free(b) \in Nat
    BY DEF IsArray, Len0, Free
  <1>2. ASSUME NEW i \in 1 .. Len0(b)
        PROVE  b.mem[b.start + i - 1] \in Nat
    <2>1. b.start + i - 1 \in 0 .. b.cap - 1
      BY DEF IsArray, Len0
    <2>2. b.mem \in [0 .. b.cap - 1 -> Nat]
      BY DEF IsArray
    <2> QED  BY <2>1, <2>2
  <1>3. Unconsumed(b) \in [1 .. Len0(b) -> Nat]
    BY <1>2 DEF Unconsumed
  <1> QED BY <1>1, <1>3 DEF Unconsumed

\* Two arrays that agree on their live cells hold the same items.
LEMMA SameUnconsumed ==
  ASSUME NEW b, NEW c, Len0(c) = Len0(b),
         \A i \in 1 .. Len0(b) : c.mem[c.start + i - 1] = b.mem[b.start + i - 1]
  PROVE  Unconsumed(c) = Unconsumed(b)
  BY DEF Unconsumed

\* Moving the items to the front keeps them.
LEMMA FrontFacts ==
  ASSUME NEW b, IsArray(b)
  PROVE  /\ IsArray(Front(b))
         /\ Unconsumed(Front(b)) = Unconsumed(b)
         /\ Front(b).cap = b.cap
         /\ Front(b).size = Len0(b)
  <1>1. /\ Front(b).cap = b.cap /\ Front(b).size = Len0(b) /\ Front(b).start = 0
        /\ Front(b).mem = [j \in 0 .. b.cap - 1 |->
                             IF j < Len0(b) THEN b.mem[b.start + j] ELSE b.mem[j]]
    BY DEF Front, Array
  <1>2. \A j \in 0 .. b.cap - 1 : j < Len0(b) => b.start + j \in 0 .. b.cap - 1
    BY DEF IsArray, Len0
  <1>3. Front(b).mem \in [0 .. b.cap - 1 -> Nat]
    BY <1>1, <1>2 DEF IsArray
  <1>4. Len0(b) \in 0 .. b.cap
    BY DEF IsArray, Len0
  <1>5. IsArray(Front(b))
    BY <1>1, <1>3, <1>4 DEF IsArray
  <1>6. Len0(Front(b)) = Len0(b)
    BY <1>1, <1>4 DEF Len0
  <1>7. \A i \in 1 .. Len0(b) : Front(b).mem[i - 1] = b.mem[b.start + i - 1]
    <2> SUFFICES ASSUME NEW i \in 1 .. Len0(b)
                 PROVE  Front(b).mem[i - 1] = b.mem[b.start + i - 1]
      OBVIOUS
    <2>1. i - 1 \in 0 .. b.cap - 1 /\ i - 1 < Len0(b)
      BY <1>4 DEF IsArray
    <2>2. b.start + (i - 1) = b.start + i - 1
      BY DEF IsArray
    <2> QED BY <1>1, <2>1, <2>2
  <1>8. Unconsumed(Front(b)) = Unconsumed(b)
    <2>1. \A i \in 1 .. Len0(b) : Front(b).start + i - 1 = i - 1
      BY <1>1, <1>4
    <2>2. \A i \in 1 .. Len0(b) :
             Front(b).mem[Front(b).start + i - 1] = b.mem[b.start + i - 1]
      BY <1>7, <2>1
    <2> QED BY <1>6, <2>2, SameUnconsumed
  <1> QED BY <1>1, <1>5, <1>8

\* Growing keeps them, and the size.
LEMMA GrowFacts ==
  ASSUME NEW b, IsArray(b), NEW cap \in Nat
  PROVE  /\ IsArray(Grow(b, cap))
         /\ Unconsumed(Grow(b, cap)) = Unconsumed(b)
         /\ Grow(b, cap).size = b.size
         /\ Grow(b, cap).cap = Larger(b.cap, cap)
  <1>1. CASE cap <= b.cap
    BY <1>1 DEF Grow, Larger, IsArray
  <1>2. CASE ~(cap <= b.cap)
    <2>1. /\ Grow(b, cap).cap = cap /\ Grow(b, cap).size = b.size
          /\ Grow(b, cap).start = b.start
          /\ Grow(b, cap).mem = [j \in 0 .. cap - 1 |->
                                   IF j < b.size THEN b.mem[j] ELSE Junk]
      BY <1>2 DEF Grow, Array
    <2>2. Grow(b, cap).mem \in [0 .. cap - 1 -> Nat]
      <3>1. \A j \in 0 .. cap - 1 : j < b.size => b.mem[j] \in Nat
        BY DEF IsArray
      <3> QED BY <2>1, <3>1 DEF Junk
    <2>3. IsArray(Grow(b, cap))
      BY <1>2, <2>1, <2>2 DEF IsArray
    <2>4. Len0(Grow(b, cap)) = Len0(b)
      BY <2>1 DEF Len0
    <2>5. \A i \in 1 .. Len0(b) :
             Grow(b, cap).mem[b.start + i - 1] = b.mem[b.start + i - 1]
      <3> SUFFICES ASSUME NEW i \in 1 .. Len0(b)
                   PROVE  Grow(b, cap).mem[b.start + i - 1] = b.mem[b.start + i - 1]
        OBVIOUS
      <3>1. b.start + i - 1 \in 0 .. cap - 1 /\ b.start + i - 1 < b.size
        BY <1>2 DEF IsArray, Len0
      <3> QED BY <2>1, <3>1
    <2>6. \A i \in 1 .. Len0(b) :
             Grow(b, cap).mem[Grow(b, cap).start + i - 1] = b.mem[b.start + i - 1]
      BY <2>1, <2>5
    <2>7. Unconsumed(Grow(b, cap)) = Unconsumed(b)
      BY <2>4, <2>6, SameUnconsumed
    <2>8. Larger(b.cap, cap) = cap
      BY <1>2 DEF Larger, IsArray
    <2> QED BY <2>1, <2>3, <2>7, <2>8
  <1> QED BY <1>1, <1>2

\* t is s with n more elements: what an array holds before and after a write.
LEMMA WriteFacts ==
  ASSUME NEW b, IsArray(b), NEW from \in Nat, NEW n \in 0 .. Free(b)
  PROVE  /\ IsArray(Write(b, from, n))
         /\ Write(b, from, n).cap = b.cap
         /\ Write(b, from, n).size = b.size + n
         /\ Queues!Extends(Unconsumed(b), Unconsumed(Write(b, from, n)))
  <1> DEFINE w == Write(b, from, n)
  <1>0. n \in Nat /\ b.size + n <= b.cap
    BY DEF Free, IsArray
  <1>1. /\ w.cap = b.cap /\ w.size = b.size + n /\ w.start = b.start
        /\ w.mem = [j \in 0 .. b.cap - 1 |->
                      IF b.size <= j /\ j < b.size + n
                      THEN from + (j - b.size) + 1 ELSE b.mem[j]]
    BY DEF Write, Array
  <1>2. \A j \in 0 .. b.cap - 1 : b.size <= j => from + (j - b.size) + 1 \in Nat
    BY DEF IsArray
  <1>3. w.mem \in [0 .. b.cap - 1 -> Nat]
    BY <1>1, <1>2 DEF IsArray
  <1>4. IsArray(w)
    BY <1>0, <1>1, <1>3 DEF IsArray
  <1>5. Len0(w) = Len0(b) + n
    BY <1>0, <1>1 DEF Len0, IsArray
  <1>6. \A i \in 1 .. Len0(b) : w.mem[w.start + i - 1] = b.mem[b.start + i - 1]
    <2> SUFFICES ASSUME NEW i \in 1 .. Len0(b)
                 PROVE  w.mem[b.start + i - 1] = b.mem[b.start + i - 1]
      BY <1>1
    <2>1. b.start + i - 1 \in 0 .. b.cap - 1 /\ ~(b.size <= b.start + i - 1)
      BY DEF IsArray, Len0
    <2> HIDE DEF w
    <2> QED BY <1>1, <2>1
  <1>7. Queues!Extends(Unconsumed(b), Unconsumed(w))
    <2>1. /\ Unconsumed(b) \in Seq(Nat) /\ Len(Unconsumed(b)) = Len0(b)
          /\ Unconsumed(w) \in Seq(Nat) /\ Len(Unconsumed(w)) = Len0(b) + n
          /\ Len0(b) \in Nat
      BY <1>4, <1>5, UnconsumedFacts
    <2>2. \A i \in 1 .. Len0(b) : Unconsumed(w)[i] = Unconsumed(b)[i]
      BY <1>0, <1>5, <1>6, <2>1 DEF Unconsumed
    <2> HIDE DEF w
    <2>3. SubSeq(Unconsumed(w), 1, Len0(b)) = Unconsumed(b)
      BY <1>0, <2>1, <2>2
    <2> QED BY <1>0, <2>1, <2>3 DEF Queues!Extends
  <1> QED BY <1>1, <1>4, <1>7

\* Consuming k drops the first k.
LEMMA ConsumeFacts ==
  ASSUME NEW b, IsArray(b), NEW k \in 0 .. Len0(b)
  PROVE  /\ IsArray(Consume(b, k))
         /\ Consume(b, k).cap = b.cap
         /\ Unconsumed(Consume(b, k)) = SubSeq(Unconsumed(b), k + 1, Len(Unconsumed(b)))
  <1>1. /\ Consume(b, k).cap = b.cap /\ Consume(b, k).size = b.size
        /\ Consume(b, k).start = b.start + k /\ Consume(b, k).mem = b.mem
    BY DEF Consume, Array
  <1>2. IsArray(Consume(b, k))
    BY <1>1 DEF IsArray, Len0
  <1>3. Len0(Consume(b, k)) = Len0(b) - k
    BY <1>1 DEF Len0, IsArray
  <1>4. \A i \in 1 .. Len0(b) - k :
           Unconsumed(Consume(b, k))[i] = Unconsumed(b)[k + i]
    <2> SUFFICES ASSUME NEW i \in 1 .. Len0(b) - k
                 PROVE  Unconsumed(Consume(b, k))[i] = Unconsumed(b)[k + i]
      OBVIOUS
    <2>1. k + i \in 1 .. Len0(b) /\ b.start + k + i - 1 = b.start + (k + i) - 1
      BY DEF Len0, IsArray
    <2>2. Unconsumed(Consume(b, k))[i] = b.mem[b.start + k + i - 1]
      BY <1>1, <1>3 DEF Unconsumed
    <2>3. Unconsumed(b)[k + i] = b.mem[b.start + (k + i) - 1]
      BY <2>1 DEF Unconsumed
    <2> QED BY <2>1, <2>2, <2>3
  <1>5. /\ Unconsumed(b) \in Seq(Nat) /\ Len(Unconsumed(b)) = Len0(b)
        /\ Unconsumed(Consume(b, k)) \in Seq(Nat)
        /\ Len(Unconsumed(Consume(b, k))) = Len0(b) - k
        /\ Len0(b) \in Nat
    BY <1>2, <1>3, UnconsumedFacts
  <1>6. Unconsumed(Consume(b, k)) = SubSeq(Unconsumed(b), k + 1, Len(Unconsumed(b)))
    BY <1>4, <1>5
  <1> QED BY <1>1, <1>2, <1>6

-----------------------------------------------------------------------------
(* What the operations built from them do.                                 *)

\* Rotating keeps the items, and loses no room.
LEMMA RotatedFacts ==
  ASSUME NEW b, IsArray(b), NEW cond
  PROVE  /\ IsArray(RotatedIf(cond, b))
         /\ Unconsumed(RotatedIf(cond, b)) = Unconsumed(b)
         /\ RotatedIf(cond, b).cap = b.cap
         /\ Free(RotatedIf(cond, b)) >= Free(b)
  <1>1. CASE cond
    <2>1. RotatedIf(cond, b) = Front(b)
      BY <1>1 DEF RotatedIf
    <2>2. Len0(b) <= b.size /\ b.cap \in Nat /\ b.size \in Nat /\ Len0(b) \in Nat
      BY DEF Len0, IsArray
    <2> QED BY <2>1, <2>2, FrontFacts DEF Free
  <1>2. CASE ~cond
    BY <1>2 DEF RotatedIf, Free, IsArray
  <1> QED BY <1>1, <1>2

\* Making room gives it, keeps the items and grows only when it must.
LEMMA RoomFacts ==
  ASSUME NEW b, IsArray(b), NEW n \in Nat
  PROVE  /\ IsArray(RoomFor(b, n))
         /\ Unconsumed(RoomFor(b, n)) = Unconsumed(b)
         /\ Free(RoomFor(b, n)) >= n
         /\ RoomFor(b, n).cap >= b.cap
         /\ RoomFor(b, n).cap > b.cap => Len0(b) + n > b.cap
  <1> DEFINE r == RotatedIf(Free(b) < n, b)
             new == Larger(r.size + n, (r.cap * 3) \div 2 + 1)
  <1>1. /\ IsArray(r) /\ Unconsumed(r) = Unconsumed(b) /\ r.cap = b.cap
    BY RotatedFacts
  <1>2. CASE Free(r) < n
    <2>1. RoomFor(b, n) = Grow(r, new)
      BY <1>2 DEF RoomFor
    <2>2. r.size \in Nat /\ r.cap \in Nat /\ b.cap \in Nat
      BY <1>1 DEF IsArray
    <2>3. (r.cap * 3) \div 2 + 1 \in Nat
      BY <2>2
    <2>4. new \in Nat /\ new >= r.size + n
      BY <2>2, <2>3 DEF Larger
    <2>5. /\ IsArray(Grow(r, new)) /\ Unconsumed(Grow(r, new)) = Unconsumed(r)
          /\ Grow(r, new).size = r.size /\ Grow(r, new).cap = Larger(r.cap, new)
      BY <1>1, <2>4, GrowFacts
    <2>6. Larger(r.cap, new) >= r.cap /\ Larger(r.cap, new) >= r.size + n
          /\ Larger(r.cap, new) \in Nat
      <3> HIDE DEF new, r
      <3> QED BY <2>2, <2>4 DEF Larger
    <2>7. r.size = Len0(b)
      <3>1. Free(b) < n
        BY <1>2 DEF RotatedIf
      <3> QED BY <3>1, FrontFacts DEF RotatedIf
    <2>8. Len0(b) + n > b.cap
      BY <1>1, <1>2, <2>2, <2>7 DEF Free
    <2> HIDE DEF new, r
    <2> QED BY <1>1, <2>1, <2>2, <2>5, <2>6, <2>8 DEF Free
  <1>3. CASE ~(Free(r) < n)
    <2>1. RoomFor(b, n) = r
      BY <1>3 DEF RoomFor
    <2>2. Free(r) \in Nat /\ b.cap \in Nat
      BY <1>1, UnconsumedFacts DEF IsArray
    <2> HIDE DEF r
    <2> QED BY <1>1, <1>3, <2>1, <2>2
  <1> QED BY <1>2, <1>3

\* And so for the triggers, which ask for more than they need.
LEMMA TriggerRoomFacts ==
  ASSUME NEW b, IsArray(b), NEW n \in Nat, NEW more \in Nat, n <= more
  PROVE  /\ IsArray(TriggerRoomFor(b, n, more))
         /\ Unconsumed(TriggerRoomFor(b, n, more)) = Unconsumed(b)
         /\ Free(TriggerRoomFor(b, n, more)) >= n
  <1> DEFINE r == RotatedIf(Free(b) < n, b)
             new == r.size + more
  <1>1. IsArray(r) /\ Unconsumed(r) = Unconsumed(b)
    BY RotatedFacts
  <1>2. r.size \in Nat /\ r.cap \in Nat /\ Free(r) \in Nat /\ new \in Nat
    BY <1>1, UnconsumedFacts, SMTT(30), ZenonT(30) DEF IsArray
  <1>3. CASE Free(r) < n
    <2>1. TriggerRoomFor(b, n, more) = Grow(r, new)
      BY <1>3 DEF TriggerRoomFor
    <2>2. /\ IsArray(Grow(r, new)) /\ Unconsumed(Grow(r, new)) = Unconsumed(r)
          /\ Grow(r, new).size = r.size /\ Grow(r, new).cap = Larger(r.cap, new)
      BY <1>1, <1>2, GrowFacts
    <2>3. Larger(r.cap, new) >= r.size + n /\ Larger(r.cap, new) \in Nat
      <3>1. new >= r.size + n
        BY <1>2
      <3> HIDE DEF new, r
      <3> QED BY <1>2, <3>1 DEF Larger
    <2> HIDE DEF new, r
    <2> QED BY <1>1, <1>2, <2>1, <2>2, <2>3 DEF Free
  <1>4. CASE ~(Free(r) < n)
    <2>1. TriggerRoomFor(b, n, more) = r
      BY <1>4 DEF TriggerRoomFor
    <2> HIDE DEF r
    <2> QED BY <1>1, <1>2, <1>4, <2>1
  <1> QED BY <1>3, <1>4

\* A new array holds nothing.
LEMMA EmptyFacts ==
  ASSUME NEW cap \in Nat \ {0}
  PROVE  IsArray(Empty(cap)) /\ Unconsumed(Empty(cap)) = <<>>
  BY DEF Empty, Array, IsArray, Junk, Unconsumed, Len0

\* An array whose size and offset are reset keeps its storage.
LEMMA ClearedFacts ==
  ASSUME NEW b, IsArray(b)
  PROVE  /\ IsArray(Array(b.mem, 0, 0, b.cap))
         /\ Unconsumed(Array(b.mem, 0, 0, b.cap)) = <<>>
  BY DEF Array, IsArray, Unconsumed, Len0

\* A sequence that is not touched is fed nothing.
LEMMA ExtendsItself ==
  ASSUME NEW s \in Seq(Nat)
  PROVE  Queues!Extends(s, s)
  BY DEF Queues!Extends

-----------------------------------------------------------------------------
(* The three actions that write, one fact per array.                       *)

\* prepare() keeps the items and makes the room the parser was promised.
LEMMA PrepareFacts ==
  ASSUME TypeOK, NEW step \in StepSizes, Prepare(step)
  PROVE  /\ IsArray(ev') /\ IsArray(tr')
         /\ Unconsumed(ev') = Unconsumed(ev)
         /\ Unconsumed(tr') = Unconsumed(tr)
         /\ limit' = ev'.size + step /\ limit' \in 0 .. ev'.cap
         /\ Free(tr') >= step \div Ratio
         /\ ev'.cap > ev.cap => Len0(ev) + step > ev.cap
  <1> DEFINE most == step \div Ratio
             t1 == RotatedIf(Free(ev) < step, tr)
             e1 == RoomFor(ev, step)
             e2 == RotatedIf(Free(t1) < most, e1)
  <1>1. IsArray(ev) /\ IsArray(tr)
    BY DEF TypeOK
  <1>2. step \in Nat /\ Ratio \in Nat \ {0}
    BY AccumulatorAssumption
  <1>3. most \in Nat
    BY <1>2
  <1>4. Larger(most, 1) \in Nat /\ most <= Larger(most, 1)
    <2> HIDE DEF most
    <2> QED BY <1>3 DEF Larger
  <1>5. IsArray(t1) /\ Unconsumed(t1) = Unconsumed(tr)
    BY <1>1, RotatedFacts
  <1>6. tr' = TriggerRoomFor(t1, most, Larger(most, 1)) /\ ev' = e2
        /\ limit' = Smaller(ev'.cap, ev'.size + step)
    BY DEF Prepare
  <1>7. IsArray(tr') /\ Unconsumed(tr') = Unconsumed(tr) /\ Free(tr') >= most
    <2> HIDE DEF most, t1
    <2> QED BY <1>3, <1>4, <1>5, <1>6, TriggerRoomFacts
  <1>8. /\ IsArray(e1) /\ Unconsumed(e1) = Unconsumed(ev) /\ Free(e1) >= step
        /\ e1.cap > ev.cap => Len0(ev) + step > ev.cap
    BY <1>1, <1>2, RoomFacts
  <1>9. /\ IsArray(e2) /\ Unconsumed(e2) = Unconsumed(e1) /\ e2.cap = e1.cap
        /\ Free(e2) >= Free(e1)
    <2> HIDE DEF e1, t1, most
    <2> QED BY <1>8, RotatedFacts
  <1>10. Free(e2) >= step /\ e2.size \in Nat /\ e2.cap \in Nat
    <2>1. Free(e2) \in Nat /\ Free(e1) \in Nat
      BY <1>8, <1>9, UnconsumedFacts
    <2>2. e2.size \in Nat /\ e2.cap \in Nat
      BY <1>9 DEF IsArray
    <2> HIDE DEF e1, e2
    <2> QED BY <1>2, <1>8, <1>9, <2>1, <2>2
  <1>11. limit' = ev'.size + step /\ limit' \in 0 .. ev'.cap
    <2> HIDE DEF e2
    <2> QED BY <1>2, <1>6, <1>10 DEF Smaller, Free
  <1> HIDE DEF e1, e2
  <1> QED BY <1>6, <1>7, <1>8, <1>9, <1>11

\* A parse only adds items, and never grows the arrays.
LEMMA ParseFacts ==
  ASSUME TypeOK, ParseStep
  PROVE  /\ IsArray(ev') /\ IsArray(tr')
         /\ Queues!Extends(Unconsumed(ev), Unconsumed(ev'))
         /\ Queues!Extends(Unconsumed(tr), Unconsumed(tr'))
         /\ ev'.cap = ev.cap
         /\ nev' \in Nat /\ ntr' \in Nat
  <1>1. PICK n \in 0 .. limit - ev.size, m \in 0 .. Free(tr) :
          /\ ev' = Write(ev, nev, n) /\ nev' = nev + n
          /\ tr' = Write(tr, ntr, m) /\ ntr' = ntr + m
    BY DEF ParseStep
  <1>2. IsArray(ev) /\ IsArray(tr) /\ nev \in Nat /\ ntr \in Nat
    BY DEF TypeOK
  <1>3. n \in 0 .. Free(ev)
    BY DEF TypeOK, IsArray, Free
  <1>4. n \in Nat /\ m \in Nat
    BY <1>2, <1>3, UnconsumedFacts
  <1> QED BY <1>1, <1>2, <1>3, <1>4, WriteFacts

\* append() only adds items, and grows the events only when it must.
LEMMA AppendFacts ==
  ASSUME TypeOK, NEW n \in ChunkSizes, NEW m \in ChunkSizes, AppendChunk(n, m)
  PROVE  /\ IsArray(ev') /\ IsArray(tr')
         /\ Queues!Extends(Unconsumed(ev), Unconsumed(ev'))
         /\ Queues!Extends(Unconsumed(tr), Unconsumed(tr'))
         /\ ev'.cap >= ev.cap
         /\ ev'.cap > ev.cap => Len0(ev) + n > ev.cap
  <1> DEFINE t1 == RotatedIf(Free(ev) < n, tr)
             t2 == TriggerRoomFor(t1, m, m)
             e0 == RoomFor(ev, n)
             e1 == Write(e0, nev, n)
             e2 == RotatedIf(Free(t1) < m, e1)
  <1>1. IsArray(ev) /\ IsArray(tr) /\ nev \in Nat /\ ntr \in Nat
    BY DEF TypeOK
  <1>2. n \in Nat /\ m \in Nat
    BY AccumulatorAssumption
  <1>3. IsArray(t1) /\ Unconsumed(t1) = Unconsumed(tr)
    BY <1>1, RotatedFacts
  <1>4. IsArray(t2) /\ Unconsumed(t2) = Unconsumed(tr) /\ m \in 0 .. Free(t2)
    <2> HIDE DEF t1
    <2>1. IsArray(t2) /\ Unconsumed(t2) = Unconsumed(t1) /\ Free(t2) >= m
      BY <1>2, <1>3, TriggerRoomFacts
    <2>2. Free(t2) \in Nat
      BY <2>1, UnconsumedFacts
    <2> HIDE DEF t2
    <2> QED BY <1>2, <1>3, <2>1, <2>2
  <1>5. tr' = Write(t2, ntr, m) /\ ev' = e2
    BY DEF AppendChunk
  <1>6. IsArray(tr') /\ Queues!Extends(Unconsumed(tr), Unconsumed(tr'))
    <2> HIDE DEF t2
    <2>1. IsArray(tr') /\ Queues!Extends(Unconsumed(t2), Unconsumed(tr'))
      BY <1>1, <1>4, <1>5, WriteFacts
    <2> QED BY <1>4, <2>1
  <1>7. /\ IsArray(e0) /\ Unconsumed(e0) = Unconsumed(ev)
        /\ e0.cap >= ev.cap /\ Free(e0) >= n
        /\ e0.cap > ev.cap => Len0(ev) + n > ev.cap
    BY <1>1, <1>2, RoomFacts
  <1>8. n \in 0 .. Free(e0)
    <2>1. Free(e0) \in Nat
      BY <1>7, UnconsumedFacts
    <2> HIDE DEF e0
    <2> QED BY <1>2, <1>7, <2>1
  <1>9. /\ IsArray(e1) /\ e1.cap = e0.cap
        /\ Queues!Extends(Unconsumed(e0), Unconsumed(e1))
    <2> HIDE DEF e0
    <2> QED BY <1>1, <1>7, <1>8, WriteFacts
  <1>10. IsArray(e2) /\ e2.cap = e1.cap /\ Unconsumed(e2) = Unconsumed(e1)
    <2> HIDE DEF e1, t1
    <2> QED BY <1>9, RotatedFacts
  <1> HIDE DEF e0, e1, e2
  <1>11. Queues!Extends(Unconsumed(ev), Unconsumed(ev'))
    BY <1>5, <1>7, <1>9, <1>10
  <1> QED BY <1>5, <1>6, <1>7, <1>9, <1>10, <1>11

\* A slice takes from the front of both queues.
LEMMA SliceFacts ==
  ASSUME TypeOK, SliceCopy
  PROVE  IsArray(ev') /\ IsArray(tr') /\ ev'.cap = ev.cap /\ Queues!Take
  <1>1. PICK k \in 0 .. Len0(ev), m \in 0 .. Len0(tr) :
          ev' = Consume(ev, k) /\ tr' = Consume(tr, m)
    BY DEF SliceCopy
  <1>2. IsArray(ev) /\ IsArray(tr)
    BY DEF TypeOK
  <1>3. /\ IsArray(ev') /\ ev'.cap = ev.cap
        /\ Unconsumed(ev') = SubSeq(Unconsumed(ev), k + 1, Len(Unconsumed(ev)))
    BY <1>1, <1>2, ConsumeFacts
  <1>4. /\ IsArray(tr')
        /\ Unconsumed(tr') = SubSeq(Unconsumed(tr), m + 1, Len(Unconsumed(tr)))
    BY <1>1, <1>2, ConsumeFacts
  <1>5. Len(Unconsumed(ev)) = Len0(ev) /\ Len(Unconsumed(tr)) = Len0(tr)
    BY <1>2, UnconsumedFacts
  <1>6. Queues!Take
    BY <1>3, <1>4, <1>5 DEF Queues!Take
  <1> QED BY <1>3, <1>4, <1>6

\* reset() empties both.
LEMMA ResetFacts ==
  ASSUME TypeOK, Reset
  PROVE  IsArray(ev') /\ IsArray(tr') /\ ev'.cap = ev.cap /\ Queues!Clear
  <1>1. IsArray(ev) /\ IsArray(tr)
    BY DEF TypeOK
  <1>2. ev' = Array(ev.mem, 0, 0, ev.cap) /\ tr' = Array(tr.mem, 0, 0, tr.cap)
    BY DEF Reset
  <1>3. ev'.cap = ev.cap
    BY <1>2 DEF Array
  <1> QED BY <1>1, <1>2, <1>3, ClearedFacts DEF Queues!Clear

-----------------------------------------------------------------------------
(* What is held is what was fed last.                                      *)

\* Items written behind numbered ones carry the numbering on.
LEMMA WriteHolds ==
  ASSUME NEW b, IsArray(b), NEW from \in Nat, NEW n \in 0 .. Free(b),
         EndsWith(Unconsumed(b), from)
  PROVE  EndsWith(Unconsumed(Write(b, from, n)), from + n)
  <1> DEFINE w == Write(b, from, n)
  <1>1. /\ w.cap = b.cap /\ w.size = b.size + n /\ w.start = b.start
        /\ w.mem = [j \in 0 .. b.cap - 1 |->
                      IF b.size <= j /\ j < b.size + n
                      THEN from + (j - b.size) + 1 ELSE b.mem[j]]
    BY DEF Write, Array
  <1>2. /\ n \in Nat /\ b.start \in Nat /\ b.size \in Nat /\ b.cap \in Nat
        /\ b.start <= b.size /\ b.size + n <= b.cap
    BY DEF Free, IsArray
  <1>3. IsArray(w) /\ Len0(w) = Len0(b) + n
    BY <1>1, <1>2, WriteFacts DEF Len0
  <1>4. /\ Len(Unconsumed(b)) = Len0(b) /\ Len0(b) \in Nat
        /\ Len(Unconsumed(w)) = Len0(b) + n
        /\ \A i \in 1 .. Len0(b) : Unconsumed(b)[i] = b.mem[b.start + i - 1]
        /\ \A i \in 1 .. Len0(b) + n : Unconsumed(w)[i] = w.mem[b.start + i - 1]
    <2> HIDE DEF w
    <2>1. \A i \in 1 .. Len0(w) : Unconsumed(w)[i] = w.mem[w.start + i - 1]
      BY <1>3, UnconsumedFacts
    <2>2. Len(Unconsumed(w)) = Len0(w)
      BY <1>3, UnconsumedFacts
    <2> QED BY <1>1, <1>3, <2>1, <2>2, UnconsumedFacts
  <1>5. ASSUME NEW i \in 1 .. Len0(b) + n
        PROVE  w.mem[b.start + i - 1] + (Len0(b) + n) = (from + n) + i
    <2>1. b.start + i - 1 \in 0 .. b.cap - 1
      BY <1>2 DEF Len0
    <2>2. CASE i <= Len0(b)
      <3>1. ~(b.size <= b.start + i - 1) /\ i \in 1 .. Len0(b)
        BY <1>2, <2>2 DEF Len0
      <3>2. w.mem[b.start + i - 1] = b.mem[b.start + i - 1]
        <4> HIDE DEF w
        <4> QED BY <1>1, <2>1, <3>1
      <3>3. b.mem[b.start + i - 1] + Len0(b) = from + i
        BY <1>4, <3>1 DEF EndsWith
      <3>4. b.mem[b.start + i - 1] \in Nat
        BY <2>1 DEF IsArray
      <3>5. i \in Nat /\ Len0(b) \in Nat /\ n \in Nat /\ from \in Nat
        BY <1>2, <1>4
      <3>6. b.mem[b.start + i - 1] + (Len0(b) + n) = (from + n) + i
        <4> DEFINE v == b.mem[b.start + i - 1]
                   l == Len0(b)
        <4>1. v \in Nat /\ l \in Nat /\ v + l = from + i
          BY <3>3, <3>4, <3>5
        <4> HIDE DEF v, l
        <4>2. v + (l + n) = (from + n) + i
          BY <3>5, <4>1
        <4> QED BY <4>2 DEF v, l
      <3> HIDE DEF w
      <3> QED BY <3>2, <3>6
    <2>3. CASE ~(i <= Len0(b))
      <3>1. b.size <= b.start + i - 1 /\ b.start + i - 1 < b.size + n
        BY <1>2, <2>3 DEF Len0
      <3>2. w.mem[b.start + i - 1] = from + ((b.start + i - 1) - b.size) + 1
        <4> HIDE DEF w
        <4> QED BY <1>1, <2>1, <3>1
      <3>3. from + ((b.start + i - 1) - b.size) + 1 + (Len0(b) + n) = (from + n) + i
        BY <1>2 DEF Len0
      <3> HIDE DEF w
      <3> QED BY <3>2, <3>3
    <2> QED BY <2>2, <2>3
  <1> HIDE DEF w
  <1>6. EndsWith(Unconsumed(w), from + n)
    BY <1>4, <1>5 DEF EndsWith
  <1> QED BY <1>6 DEF w

\* What is left after a slice still ends with the newest item.
LEMMA SuffixHolds ==
  ASSUME NEW q \in Seq(Nat), NEW last \in Nat, EndsWith(q, last), NEW k \in 0 .. Len(q)
  PROVE  EndsWith(SubSeq(q, k + 1, Len(q)), last)
  <1> DEFINE r == SubSeq(q, k + 1, Len(q))
  <1>1. Len(r) = Len(q) - k /\ Len(q) \in Nat
    OBVIOUS
  <1>2. ASSUME NEW i \in 1 .. Len(q) - k
        PROVE  r[i] + (Len(q) - k) = last + i
    <2>1. k + i \in 1 .. Len(q) /\ (k + 1) + i - 1 = k + i
      BY <1>1
    <2>2. q[k + i] + Len(q) = last + (k + i) /\ q[k + i] \in Nat
      BY <2>1 DEF EndsWith
    <2>3. r[i] = q[(k + 1) + i - 1]
      BY <1>1, <2>1
    <2>4. r[i] = q[k + i]
      <3> HIDE DEF r
      <3> QED BY <2>1, <2>3
    <2>5. q[k + i] + (Len(q) - k) = last + i
      <3> DEFINE v == q[k + i]
      <3>1. v \in Nat /\ v + Len(q) = last + (k + i)
        BY <2>2
      <3> HIDE DEF v
      <3>2. v + (Len(q) - k) = last + i
        BY <1>1, <3>1
      <3> QED BY <3>2 DEF v
    <2> HIDE DEF r
    <2> QED BY <2>4, <2>5
  <1> HIDE DEF r
  <1>3. EndsWith(r, last)
    BY <1>1, <1>2 DEF EndsWith
  <1> QED BY <1>3 DEF r

\* And so do the queues after an append.
LEMMA AppendHolds ==
  ASSUME TypeOK, HoldsNewest,
         NEW n \in ChunkSizes, NEW m \in ChunkSizes, AppendChunk(n, m)
  PROVE  EndsWith(Unconsumed(ev'), nev') /\ EndsWith(Unconsumed(tr'), ntr')
  <1> DEFINE t1 == RotatedIf(Free(ev) < n, tr)
             t2 == TriggerRoomFor(t1, m, m)
             e0 == RoomFor(ev, n)
             e1 == Write(e0, nev, n)
  <1>1. /\ IsArray(ev) /\ IsArray(tr) /\ nev \in Nat /\ ntr \in Nat
        /\ n \in Nat /\ m \in Nat
    BY AccumulatorAssumption DEF TypeOK
  <1>2. EndsWith(Unconsumed(ev), nev) /\ EndsWith(Unconsumed(tr), ntr)
    BY DEF HoldsNewest
  <1>3. /\ tr' = Write(t2, ntr, m) /\ ntr' = ntr + m
        /\ ev' = RotatedIf(Free(t1) < m, e1) /\ nev' = nev + n
    BY DEF AppendChunk
  <1>4. IsArray(t1) /\ Unconsumed(t1) = Unconsumed(tr)
    BY <1>1, RotatedFacts
  <1>5. IsArray(t2) /\ Unconsumed(t2) = Unconsumed(tr) /\ Free(t2) >= m
    <2> HIDE DEF t1
    <2> QED BY <1>1, <1>4, TriggerRoomFacts
  <1>6. EndsWith(Unconsumed(Write(t2, ntr, m)), ntr + m)
    <2> HIDE DEF t2
    <2>1. m \in 0 .. Free(t2)
      BY <1>1, <1>5, UnconsumedFacts
    <2> QED BY <1>1, <1>2, <1>5, <2>1, WriteHolds
  <1>7. IsArray(e0) /\ Unconsumed(e0) = Unconsumed(ev) /\ Free(e0) >= n
    BY <1>1, RoomFacts
  <1>8. IsArray(e1) /\ EndsWith(Unconsumed(e1), nev + n)
    <2> HIDE DEF e0
    <2>1. n \in 0 .. Free(e0)
      BY <1>1, <1>7, UnconsumedFacts
    <2> QED BY <1>1, <1>2, <1>7, <2>1, WriteFacts, WriteHolds
  <1>9. Unconsumed(ev') = Unconsumed(e1)
    <2> HIDE DEF e1, t1
    <2> QED BY <1>3, <1>8, RotatedFacts
  <1> HIDE DEF e1, t2
  <1> QED BY <1>3, <1>6, <1>8, <1>9

\* Every step leaves the newest items at the end of the queues.
LEMMA StepHolds ==
  ASSUME TypeOK, HoldsNewest, [Next]_vars
  PROVE  HoldsNewest'
  <1>0. /\ IsArray(ev) /\ IsArray(tr) /\ nev \in Nat /\ ntr \in Nat
        /\ Unconsumed(ev) \in Seq(Nat) /\ Unconsumed(tr) \in Seq(Nat)
    BY UnconsumedFacts DEF TypeOK
  <1>1. EndsWith(Unconsumed(ev), nev) /\ EndsWith(Unconsumed(tr), ntr)
    BY DEF HoldsNewest
  <1> SUFFICES /\ EndsWith(Unconsumed(ev'), nev')
               /\ EndsWith(Unconsumed(tr'), ntr')
    BY DEF HoldsNewest, EndsWith, Unconsumed, Len0
  <1>2. CASE \E step \in StepSizes : Prepare(step)
    <2>1. PICK step \in StepSizes : Prepare(step)
      BY <1>2
    <2>2. nev' = nev /\ ntr' = ntr
      BY <2>1 DEF Prepare
    <2> QED BY <1>1, <2>1, <2>2, PrepareFacts
  <1>3. CASE ParseStep
    <2>1. PICK n \in 0 .. limit - ev.size, m \in 0 .. Free(tr) :
            /\ ev' = Write(ev, nev, n) /\ nev' = nev + n
            /\ tr' = Write(tr, ntr, m) /\ ntr' = ntr + m
      BY <1>3 DEF ParseStep
    <2>2. n \in 0 .. Free(ev)
      BY DEF TypeOK, IsArray, Free
    <2> QED BY <1>0, <1>1, <2>1, <2>2, WriteHolds
  <1>4. CASE \E n, m \in ChunkSizes : AppendChunk(n, m)
    <2>1. PICK n \in ChunkSizes, m \in ChunkSizes : AppendChunk(n, m)
      BY <1>4
    <2> QED BY <1>1, <2>1, AppendHolds
  <1>5. CASE SliceCopy
    <2>1. PICK k \in 0 .. Len0(ev), m \in 0 .. Len0(tr) :
            ev' = Consume(ev, k) /\ tr' = Consume(tr, m)
      BY <1>5 DEF SliceCopy
    <2>2. nev' = nev /\ ntr' = ntr
      BY <1>5 DEF SliceCopy
    <2>3. /\ Unconsumed(ev') = SubSeq(Unconsumed(ev), k + 1, Len(Unconsumed(ev)))
          /\ Unconsumed(tr') = SubSeq(Unconsumed(tr), m + 1, Len(Unconsumed(tr)))
      BY <1>0, <2>1, ConsumeFacts
    <2>4. k \in 0 .. Len(Unconsumed(ev)) /\ m \in 0 .. Len(Unconsumed(tr))
      BY <1>0, UnconsumedFacts
    <2>5. EndsWith(SubSeq(Unconsumed(ev), k + 1, Len(Unconsumed(ev))), nev)
      BY <1>0, <1>1, <2>4, SuffixHolds
    <2>6. EndsWith(SubSeq(Unconsumed(tr), m + 1, Len(Unconsumed(tr))), ntr)
      BY <1>0, <1>1, <2>4, SuffixHolds
    <2> QED BY <2>2, <2>3, <2>5, <2>6
  <1>6. CASE Reset
    <2>1. ev' = Array(ev.mem, 0, 0, ev.cap) /\ tr' = Array(tr.mem, 0, 0, tr.cap)
      BY <1>6 DEF Reset
    <2>2. Unconsumed(ev') = <<>> /\ Unconsumed(tr') = <<>>
      BY <1>0, <2>1, ClearedFacts
    <2> QED BY <2>2 DEF EndsWith
  <1>7. CASE UNCHANGED vars
    BY <1>1, <1>7 DEF vars
  <1> QED BY <1>2, <1>3, <1>4, <1>5, <1>6, <1>7 DEF Next

-----------------------------------------------------------------------------
(* The theorems.                                                           *)

\* A new accumulator has all of it.
LEMMA InitFacts ==
  ASSUME Init
  PROVE  TypeOK /\ PrepareGivesRoom /\ HoldsNewest /\ Queues!Init
  <1>1. Capacity \in Nat \ {0} /\ Ratio \in Nat \ {0}
    BY AccumulatorAssumption
  <1>2. Capacity \div Ratio \in Nat
    BY <1>1
  <1>3. Larger(Capacity \div Ratio, 1) \in Nat \ {0}
    BY <1>2 DEF Larger
  <1>4. ev = Empty(Capacity) /\ tr = Empty(Larger(Capacity \div Ratio, 1))
    BY DEF Init
  <1>5. /\ IsArray(ev) /\ Unconsumed(ev) = <<>>
        /\ IsArray(tr) /\ Unconsumed(tr) = <<>>
    BY <1>1, <1>3, <1>4, EmptyFacts
  <1>6. ev.cap = Capacity
    BY <1>4 DEF Empty, Array
  <1>7. TypeOK
    <2>1. limit \in 0 .. ev.cap
      BY <1>1, <1>6 DEF Init
    <2>2. parsing \in BOOLEAN /\ asked \in Nat /\ nev \in Nat /\ ntr \in Nat
      BY DEF Init
    <2> QED BY <1>5, <2>1, <2>2 DEF TypeOK
  <1>8. PrepareGivesRoom
    BY DEF Init, PrepareGivesRoom
  <1>9. HoldsNewest
    BY <1>5 DEF HoldsNewest, EndsWith
  <1> QED BY <1>5, <1>7, <1>8, <1>9 DEF Queues!Init

\* Every step keeps the two invariants, reallocates only if it has to, and is a
\* step of the two queues or leaves them alone.
LEMMA StepFacts ==
  ASSUME TypeOK, PrepareGivesRoom, [Next]_vars
  PROVE  /\ TypeOK' /\ PrepareGivesRoom'
         /\ ev'.cap > ev.cap => Len0(ev) + asked' > ev.cap
         /\ [Queues!Feed \/ Queues!Take \/ Queues!Clear]_(Queues!vars)
  <1>0. /\ IsArray(ev) /\ IsArray(tr) /\ ev.cap \in Nat /\ limit \in 0 .. ev.cap
        /\ parsing \in BOOLEAN /\ asked \in Nat /\ nev \in Nat /\ ntr \in Nat
    BY DEF TypeOK, IsArray
  <1>1. ASSUME NEW step \in StepSizes, Prepare(step)
        PROVE  /\ TypeOK' /\ PrepareGivesRoom'
               /\ ev'.cap > ev.cap => Len0(ev) + asked' > ev.cap
               /\ UNCHANGED Queues!vars
    <2>1. parsing' = TRUE /\ asked' = step /\ nev' = nev /\ ntr' = ntr /\ step \in Nat
      BY <1>1, AccumulatorAssumption DEF Prepare
    <2>2. TypeOK'
      BY <1>0, <1>1, <2>1, PrepareFacts DEF TypeOK, IsArray
    <2>3. PrepareGivesRoom'
      BY <1>1, <2>1, PrepareFacts DEF PrepareGivesRoom, Free
    <2>4. UNCHANGED Queues!vars
      BY <1>1, PrepareFacts DEF Queues!vars, Unconsumed, Len0
    <2> QED BY <1>1, <2>1, <2>2, <2>3, <2>4, PrepareFacts
  <1>2. ASSUME ParseStep
        PROVE  /\ TypeOK' /\ PrepareGivesRoom' /\ ev'.cap = ev.cap
               /\ Queues!Feed
    <2>1. parsing' = FALSE /\ asked' = 0 /\ limit' = limit
      BY <1>2 DEF ParseStep
    <2>2. TypeOK'
      BY <1>0, <1>2, <2>1, ParseFacts DEF TypeOK, IsArray
    <2>3. PrepareGivesRoom'
      BY <2>1 DEF PrepareGivesRoom
    <2>4. Queues!Feed
      BY <1>2, ParseFacts DEF Queues!Feed, Unconsumed, Len0
    <2> QED BY <1>2, <2>2, <2>3, <2>4, ParseFacts
  <1>3. ASSUME NEW n \in ChunkSizes, NEW m \in ChunkSizes, AppendChunk(n, m)
        PROVE  /\ TypeOK' /\ PrepareGivesRoom'
               /\ ev'.cap > ev.cap => Len0(ev) + asked' > ev.cap
               /\ Queues!Feed
    <2>1. /\ parsing' = parsing /\ ~parsing /\ asked' = n
          /\ nev' = nev + n /\ ntr' = ntr + m
          /\ limit' = IF ev'.cap > ev.cap THEN ev'.cap ELSE limit
      BY <1>3 DEF AppendChunk
    <2>2. n \in Nat /\ m \in Nat
      BY AccumulatorAssumption
    <2>3. IsArray(ev') /\ IsArray(tr') /\ ev'.cap >= ev.cap /\ ev'.cap \in Nat
      BY <1>3, AppendFacts DEF IsArray
    <2>4. limit' \in 0 .. ev'.cap
      BY <1>0, <2>1, <2>3
    <2>5. TypeOK'
      <3>1. parsing' = FALSE
        BY <1>0, <2>1
      <3>2. asked' \in Nat
        BY <2>1, <2>2
      <3>3. nev' \in Nat /\ ntr' \in Nat
        BY <1>0, <2>1, <2>2
      <3> QED BY <2>3, <2>4, <3>1, <3>2, <3>3 DEF TypeOK, IsArray
    <2>6. PrepareGivesRoom'
      BY <2>1 DEF PrepareGivesRoom
    <2>7. Queues!Feed
      BY <1>3, AppendFacts DEF Queues!Feed, Unconsumed, Len0
    <2> QED BY <1>3, <2>1, <2>5, <2>6, <2>7, AppendFacts
  <1>4. ASSUME SliceCopy
        PROVE  TypeOK' /\ PrepareGivesRoom' /\ ev'.cap = ev.cap /\ Queues!Take
    <2>1. /\ parsing' = parsing /\ ~parsing /\ asked' = 0 /\ limit' = limit
          /\ nev' = nev /\ ntr' = ntr
      BY <1>4 DEF SliceCopy
    <2>2. TypeOK'
      BY <1>0, <1>4, <2>1, SliceFacts DEF TypeOK, IsArray
    <2> QED BY <1>4, <2>1, <2>2, SliceFacts DEF PrepareGivesRoom
  <1>5. ASSUME Reset
        PROVE  TypeOK' /\ PrepareGivesRoom' /\ ev'.cap = ev.cap /\ Queues!Clear
    <2>1. /\ parsing' = parsing /\ ~parsing /\ asked' = 0 /\ limit' = limit
          /\ nev' = nev /\ ntr' = ntr
      BY <1>5 DEF Reset
    <2>2. TypeOK'
      BY <1>0, <1>5, <2>1, ResetFacts DEF TypeOK, IsArray
    <2> QED BY <1>5, <2>1, <2>2, ResetFacts DEF PrepareGivesRoom
  <1>6. ASSUME UNCHANGED vars
        PROVE  TypeOK' /\ PrepareGivesRoom' /\ ev'.cap = ev.cap /\ UNCHANGED Queues!vars
    <2>1. /\ ev' = ev /\ tr' = tr /\ limit' = limit /\ parsing' = parsing
          /\ asked' = asked /\ nev' = nev /\ ntr' = ntr
      BY <1>6 DEF vars
    <2>2. TypeOK'
      BY <2>1 DEF TypeOK, IsArray
    <2>3. PrepareGivesRoom'
      BY <2>1 DEF PrepareGivesRoom, Free
    <2>4. UNCHANGED Queues!vars
      BY <2>1 DEF Queues!vars, Unconsumed, Len0
    <2> QED BY <2>1, <2>2, <2>3, <2>4
  <1>7. ev'.cap = ev.cap => ~(ev'.cap > ev.cap)
    BY <1>0
  <1> QED BY <1>1, <1>2, <1>3, <1>4, <1>5, <1>6, <1>7 DEF Next

\* Whatever is asked of it, in any order, the accumulator never writes behind
\* the end of an array and never counts as consumed what it does not hold.
THEOREM AccumulatorTypeCorrect == Spec => []TypeOK
  <1>1. Init => TypeOK /\ PrepareGivesRoom
    BY InitFacts
  <1>2. TypeOK /\ PrepareGivesRoom /\ [Next]_vars => (TypeOK /\ PrepareGivesRoom)'
    BY StepFacts
  <1> QED BY <1>1, <1>2, PTL DEF Spec

\* prepare() always leaves the room that was asked for and shows the parser no
\* more than that, for any headroom and any capacity it started with.
THEOREM AccumulatorGivesRoom == Spec => []PrepareGivesRoom
  <1>1. Init => TypeOK /\ PrepareGivesRoom
    BY InitFacts
  <1>2. TypeOK /\ PrepareGivesRoom /\ [Next]_vars => (TypeOK /\ PrepareGivesRoom)'
    BY StepFacts
  <1> QED BY <1>1, <1>2, PTL DEF Spec

\* Whatever is moved, reallocated and written, the arrays hold what was fed last
\* and nothing else: no uninitialised and no consumed element comes back.
THEOREM AccumulatorHoldsNewest == Spec => []HoldsNewest
  <1>1. Init => TypeOK /\ PrepareGivesRoom /\ HoldsNewest
    BY InitFacts
  <1>2. TypeOK /\ PrepareGivesRoom /\ HoldsNewest /\ [Next]_vars
          => (TypeOK /\ PrepareGivesRoom /\ HoldsNewest)'
    BY StepFacts, StepHolds
  <1> QED BY <1>1, <1>2, PTL DEF Spec

\* The event arrays are never reallocated while the consumed space would do.
THEOREM AccumulatorGrowsOnlyIfNeeded == Spec => GrowsOnlyIfNeeded
  <1>1. Init => TypeOK /\ PrepareGivesRoom
    BY InitFacts
  <1>2. TypeOK /\ PrepareGivesRoom /\ [Next]_vars
          => /\ (TypeOK /\ PrepareGivesRoom)'
             /\ [ev'.cap > ev.cap => Len0(ev) + asked' > ev.cap]_vars
    BY StepFacts
  <1> QED BY <1>1, <1>2, PTL DEF Spec, GrowsOnlyIfNeeded

\* The accumulator implements a queue of events and a queue of triggers: moving
\* the remainder, reallocating and writing in place lose, repeat and overwrite
\* nothing that was not consumed.
THEOREM AccumulatorIsTwoQueues == Spec => IsTwoQueues
  <1>1. Init => TypeOK /\ PrepareGivesRoom /\ Queues!Init
    BY InitFacts
  <1>2. TypeOK /\ PrepareGivesRoom /\ [Next]_vars
          => /\ (TypeOK /\ PrepareGivesRoom)'
             /\ [Queues!Feed \/ Queues!Take \/ Queues!Clear]_(Queues!vars)
    BY StepFacts
  <1> QED BY <1>1, <1>2, PTL DEF Spec, IsTwoQueues, Queues!Spec
=============================================================================
