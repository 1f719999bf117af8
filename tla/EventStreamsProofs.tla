--------------------------- MODULE EventStreamsProofs --------------------------
(***************************************************************************)
(* What EventStreams keeps for every file, every way it comes in chunks,   *)
(* every pipeline and every size of the queue: nothing is lost, windows    *)
(* are cut where they say, and an end or an error is seen in its place.    *)
(***************************************************************************)
EXTENDS StreamLemmas

-----------------------------------------------------------------------------
(* Types.                                                                  *)

Both == {"ev", "tr"}
Chunk == [ev : Seq(Items), tr : Seq(Items)]
Windows == [ev : Seq(Items), tr : Seq(Items), end : Nat \cup {None}]
Messages == {Sentinel, Failure} \cup [kind : {"copy"}, chunk : Chunk]

TypeInv ==
  /\ opt \in Pipelines /\ (opt.skew => opt.skip = "none")
  /\ file \in Chunk
  /\ src \in {"open", "done", "failed"}
  /\ skip \in [on : BOOLEAN, seen : Nat]
  /\ worker \in {"pull", "put", "exited"}
  /\ item \in Messages /\ queue \in Seq(Messages)
  /\ acc \in Chunk /\ anchor \in Nat \cup {None}
  /\ pc \in {"pull", "cut", "held", "rest", "ended", "raised", "gone"}
  /\ out \in Seq(Windows)

-----------------------------------------------------------------------------
(* The inductive invariant.  What the worker has put, or is putting, is the *)
(* chunks Flight; the other parts are about chunks and sequences of them,   *)
(* whichever variables they stand in.                                       *)

Body(i) == IF i.kind = "copy" THEN i.chunk ELSE Nothing
Bodies(q) == [i \in 1 .. Len(q) |-> Body(q[i])]
Flight == Bodies(Append(queue, item))

Join(c, d) == [ev |-> c.ev \o d.ev, tr |-> c.tr \o d.tr]

\* Each kind is in time order; c is made of what is in f; nothing in d is
\* earlier than anything in c, of its kind if the kinds have a skew.
Tidy(c) == \A k \in Both : Sorted(c[k])
Within(c, f) == \A k \in Both : ToSet(c[k]) \subseteq ToSet(f[k])
Follows(skew, c, d) ==
  \A k, l \in Both : k = l \/ ~skew =>
    \A x \in ToSet(c[k]), y \in ToSet(d[l]) : x.t <= y.t

\* What is handed out (o), waits to be cut (a) and is in flight (w) comes from
\* the file (f), and what is in flight follows the rest, chunk by chunk.
InOrder(skew, f, a, w, o) ==
  /\ Tidy(f)
  /\ Tidy(a) /\ Within(a, f)
  /\ \A i \in 1 .. Len(w) : Tidy(w[i]) /\ Within(w[i], f) /\ Follows(skew, a, w[i])
  /\ \A i, j \in 1 .. Len(w) : i < j => Follows(skew, w[i], w[j])
  /\ \A i \in 1 .. Len(o) :
        Within(o[i], f) /\ \A j \in 1 .. Len(w) : Follows(skew, o[i], w[j])

OrderInv == InOrder(opt.skew, file, acc, Flight, out)

\* All of one kind on its way through the pipeline.
Through(o, a, w, k) == Spread(o, k) \o a[k] \o Spread(w, k)

\* What a skipping stage that has found its place keeps: the events from
\* number i + 1 on, and the triggers from number m + 1 on.
KeptFrom(how, ev, tr, e, r, i, m) ==
  /\ e = Drop(ev, i) /\ r = Drop(tr, m)
  /\ how = "time" => /\ \A x \in ToSet(Take(ev, i)) : x.t < SkipTime
                     /\ SkipTime <= ev[i + 1].t
  /\ how = "event" => i = SkipCount
  /\ \A x \in ToSet(Take(tr, m)) : x.t <= ev[i + 1].t
  /\ \A x \in ToSet(Drop(tr, m)) :
        x.t >= IF how = "time" THEN SkipTime ELSE ev[i + 1].t

\* What comes through (e and r) of the events and triggers of the file.
Kept(how, s, f, e, r) ==
  /\ how = "none" => ~s.on /\ e = f.ev /\ r = f.tr
  /\ how # "none" /\ s.on =>
       /\ e = <<>> /\ r = <<>>
       /\ how = "time" => \A x \in ToSet(f.ev) : x.t < SkipTime
       /\ how = "event" => s.seen = Len(f.ev) /\ s.seen <= SkipCount
  /\ how # "none" /\ ~s.on =>
       \E i \in 0 .. Len(f.ev) - 1 : \E m \in 0 .. Len(f.tr) :
         KeptFrom(how, f.ev, f.tr, e, r, i, m)

KeptInv ==
  Kept(opt.skip, skip, file, Through(out, acc, Flight, "ev"), Through(out, acc, Flight, "tr"))

\* What the end of the source leaves in the queue q, and in the hands of the
\* worker: chunks, then the failure if there is one, then the sentinel.
Ends(q, s, async, at) ==
  /\ \A i, j \in 1 .. Len(q) : i < j /\ q[i] \in {Sentinel, Failure} => q[j] = Sentinel
  /\ \A i \in 1 .. Len(q) - 1 : q[i] \in {Sentinel, Failure} => s # "open"
  /\ \A i \in 1 .. Len(q) : q[i] = Failure => s = "failed"
  /\ async /\ s = "failed" /\ at # "raised" => \E i \in 1 .. Len(q) : q[i] = Failure
  /\ at \in {"rest", "ended", "raised"} => \A i \in 1 .. Len(q) : q[i] = Sentinel

\* Who runs when.
Control ==
  /\ opt.cut = "none" => acc = Nothing /\ pc # "cut" /\ pc # "rest"
  /\ ~opt.async => worker = "exited" /\ queue = <<>> /\ item = Sentinel
  /\ worker \in {"pull", "exited"} => item = Sentinel
  /\ worker = "pull" => src = "open"
  /\ opt.async /\ src = "open" => worker # "exited"
  /\ src = "open" /\ worker = "put" => item \notin {Sentinel, Failure}
  /\ src # "open" => item \in {Sentinel, Failure}
  /\ pc \in {"rest", "ended"} => src = "done"
  /\ pc = "ended" => acc = Nothing
  /\ pc = "raised" => src = "failed"

EndInv == Control /\ Ends(Append(queue, item), src, opt.async, pc)

\* Nothing in c is earlier than t; everything in c is.
From(c, t) == \A k \in Both : \A x \in ToSet(c[k]) : t <= x.t
Till(c, t) == \A k \in Both : \A x \in ToSet(c[k]) : x.t < t

\* The windows of stream_delta_t, and what waits to be cut after them.
TimeWindow(skew, o, i) ==
  /\ i > 1 => o[i - 1].end # None
  /\ i > 1 /\ o[i].end # None => o[i].end = o[i - 1].end + Delta
  /\ o[i].end # None => Till(o[i], o[i].end)
  /\ i > 1 => Till(o[i], o[i - 1].end + Delta)
  /\ ~skew /\ o[i].end # None => \A x \in ToSet(o[i].ev) : o[i].end - Delta <= x.t
  /\ ~skew /\ i > 1 => From(o[i], o[i - 1].end)

TimeRest(skew, a, w, o, from, at) ==
  /\ from = None => o = <<>> /\ (at \in {"pull", "rest"} => a = Nothing)
  /\ at # "ended" /\ o # <<>> => o[Len(o)].end = from
  /\ from # None =>
       /\ at \in {"pull", "rest"} => Till(a, from + Delta)
       /\ ~skew => /\ \A x \in ToSet(a.ev) : from <= x.t
                   /\ o # <<>> => From(a, from)
                   /\ \A i \in 1 .. Len(w) : From(w[i], from)

\* The file has come as far as the window that is being filled.
Reached(skew, f, from) ==
  from # None /\ ~skew => \E k \in Both : \E x \in ToSet(f[k]) : from <= x.t

TimeInv ==
  opt.cut = "time" =>
    /\ \A i \in 1 .. Len(out) : TimeWindow(opt.skew, out, i)
    /\ TimeRest(opt.skew, acc, Flight, out, anchor, pc)
    /\ Reached(opt.skew, file, anchor)

\* The windows of stream_n_events, and what waits to be cut after them.
CountWindow(skew, o, i, at) ==
  /\ Len(o[i].ev) = Count \/ (i = Len(o) /\ at = "ended" /\ Len(o[i].ev) < Count)
  /\ ~skew =>
       /\ i > 1 => \A x \in ToSet(o[i].tr) : o[i - 1].ev[Count].t <= x.t
       /\ \A j \in 1 .. Len(o) : i < j =>
            \A x \in ToSet(o[i].tr), y \in ToSet(o[j].ev) : x.t <= y.t

CountRest(skew, a, o, at) ==
  /\ at \in {"pull", "rest"} => Len(a.ev) < Count
  /\ ~skew /\ o # <<>> => \A x \in ToSet(a.tr) : o[Len(o)].ev[Count].t <= x.t
  /\ ~skew => \A i \in 1 .. Len(o) :
       \A x \in ToSet(o[i].tr), y \in ToSet(a.ev) : x.t <= y.t

CountInv ==
  opt.cut = "count" =>
    /\ \A i \in 1 .. Len(out) : CountWindow(opt.skew, out, i, pc)
    /\ CountRest(opt.skew, acc, out, pc)

Core == TypeInv /\ EndInv /\ OrderInv /\ KeptInv

Inv == Core /\ TimeInv /\ CountInv

-----------------------------------------------------------------------------
(* Chunks and their order.                                                 *)

\* A chunk, or a window, has arrays of events and triggers.
LEMMA ChunkFacts ==
  /\ \A c \in Chunk : \A k \in Both : c[k] \in Seq(Items)
  /\ \A c \in Windows : \A k \in Both : c[k] \in Seq(Items)
  /\ Nothing \in Chunk /\ \A k \in Both : Nothing[k] = <<>> /\ ToSet(Nothing[k]) = {}
  /\ \A c \in Chunk : c # Nothing => c.ev # <<>> \/ c.tr # <<>>
  <1>1. ASSUME NEW c \in Chunk, NEW k \in Both
        PROVE  c[k] \in Seq(Items)
    BY DEF Chunk, Both
  <1>2. ASSUME NEW c \in Windows, NEW k \in Both
        PROVE  c[k] \in Seq(Items)
    BY DEF Windows, Both
  <1>3. <<>> \in Seq(Items)
    OBVIOUS
  <1>4. Nothing \in Chunk /\ \A k \in Both : Nothing[k] = <<>>
    BY <1>3 DEF Nothing, Chunk, Both
  <1>5. ToSet(<<>>) = {}
    BY DEF ToSet
  <1>6. ASSUME NEW c \in Chunk, c.ev = <<>>, c.tr = <<>>
        PROVE  c = Nothing
    BY <1>6 DEF Nothing, Chunk
  <1> QED  BY <1>1, <1>2, <1>4, <1>5, <1>6

\* Joining two chunks.
LEMMA JoinFacts ==
  ASSUME NEW c \in Chunk, NEW d \in Chunk
  PROVE  /\ Join(c, d) \in Chunk
         /\ \A k \in Both : /\ Join(c, d)[k] = c[k] \o d[k]
                            /\ ToSet(Join(c, d)[k]) = ToSet(c[k]) \cup ToSet(d[k])
  <1>1. /\ c.ev \in Seq(Items) /\ d.ev \in Seq(Items) /\ c.tr \in Seq(Items) /\ d.tr \in Seq(Items)
    BY DEF Chunk
  <1>2. c.ev \o d.ev \in Seq(Items) /\ c.tr \o d.tr \in Seq(Items)
    BY <1>1
  <1>3. Join(c, d) \in Chunk
    BY <1>2 DEF Join, Chunk
  <1>4. /\ ToSet(c.ev \o d.ev) = ToSet(c.ev) \cup ToSet(d.ev)
        /\ ToSet(c.tr \o d.tr) = ToSet(c.tr) \cup ToSet(d.tr)
    BY <1>1, SetConcat
  <1>5. Join(c, d)["ev"] = c["ev"] \o d["ev"] /\ Join(c, d)["tr"] = c["tr"] \o d["tr"]
    BY DEF Join
  <1> QED  BY <1>3, <1>4, <1>5 DEF Both

\* Nothing to join.
LEMMA JoinNothing ==
  ASSUME NEW c \in Chunk
  PROVE  Join(c, Nothing) = c
  <1>1. c.ev \in Seq(Items) /\ c.tr \in Seq(Items) /\ c = [ev |-> c.ev, tr |-> c.tr]
    BY DEF Chunk
  <1>2. c.ev \o <<>> = c.ev /\ c.tr \o <<>> = c.tr
    BY <1>1
  <1>3. Join(c, Nothing) = [ev |-> c.ev, tr |-> c.tr]
    BY <1>2 DEF Join, Nothing
  <1> QED  BY <1>1, <1>3

\* Pieces of what follows follow.
LEMMA FollowsPieces ==
  ASSUME NEW skew, NEW c, NEW d, NEW c2, NEW d2,
         Follows(skew, c, d), Within(c2, c), Within(d2, d)
  PROVE  Follows(skew, c2, d2)
  BY DEF Follows, Within

\* What is made of a piece is made of the whole.
LEMMA WithinTrans ==
  ASSUME NEW c, NEW d, NEW f, Within(c, d), Within(d, f)
  PROVE  Within(c, f)
  BY DEF Within

\* Nothing is within everything, and what has nothing in it follows.
LEMMA NothingFacts ==
  /\ Tidy(Nothing)
  /\ \A f : Within(Nothing, f)
  /\ \A skew, c : Follows(skew, Nothing, c) /\ Follows(skew, c, Nothing)
  <1>1. \A k \in Both : Nothing[k] = <<>> /\ ToSet(Nothing[k]) = {}
    BY ChunkFacts
  <1>2. Sorted(<<>>)
    BY DEF Sorted
  <1>3. Tidy(Nothing)
    BY <1>1, <1>2 DEF Tidy
  <1>4. \A f : Within(Nothing, f)
    BY <1>1 DEF Within
  <1>5. \A skew, c : Follows(skew, Nothing, c) /\ Follows(skew, c, Nothing)
    BY <1>1 DEF Follows
  <1> QED  BY <1>3, <1>4, <1>5

\* A chunk that follows another makes one with it that is in time order.
LEMMA JoinOrder ==
  ASSUME NEW c \in Chunk, NEW d \in Chunk, NEW skew
  PROVE  /\ Within(c, Join(c, d)) /\ Within(d, Join(c, d))
         /\ \A f : Within(c, f) /\ Within(d, f) => Within(Join(c, d), f)
         /\ \A e : Follows(skew, c, e) /\ Follows(skew, d, e) => Follows(skew, Join(c, d), e)
         /\ Tidy(c) /\ Tidy(d) /\ Follows(skew, c, d) => Tidy(Join(c, d))
  <1>1. \A k \in Both : /\ Join(c, d)[k] = c[k] \o d[k]
                        /\ ToSet(Join(c, d)[k]) = ToSet(c[k]) \cup ToSet(d[k])
    BY JoinFacts
  <1>2. Within(c, Join(c, d)) /\ Within(d, Join(c, d))
    BY <1>1 DEF Within
  <1>3. \A f : Within(c, f) /\ Within(d, f) => Within(Join(c, d), f)
    BY <1>1 DEF Within
  <1>4. ASSUME NEW e, Follows(skew, c, e), Follows(skew, d, e)
        PROVE  Follows(skew, Join(c, d), e)
    BY <1>1, <1>4 DEF Follows
  <1>5. ASSUME Tidy(c), Tidy(d), Follows(skew, c, d)
        PROVE  Tidy(Join(c, d))
    <2>1. SUFFICES ASSUME NEW k \in Both
                   PROVE  Sorted(Join(c, d)[k])
      BY DEF Tidy
    <2>2. c[k] \in Seq(Items) /\ d[k] \in Seq(Items)
      BY ChunkFacts
    <2>3. Sorted(c[k]) /\ Sorted(d[k])
      BY <1>5 DEF Tidy
    <2>4. \A x \in ToSet(c[k]), y \in ToSet(d[k]) : x.t <= y.t
      BY <1>5 DEF Follows
    <2>5. Sorted(c[k] \o d[k])
      BY <2>2, <2>3, <2>4, SortedConcat
    <2> QED  BY <1>1, <2>5
  <1> QED  BY <1>2, <1>3, <1>4, <1>5

\* The file grows.
LEMMA OrderGrow ==
  ASSUME NEW skew, NEW f, NEW f2, NEW a, NEW w, NEW o, InOrder(skew, f, a, w, o),
         Tidy(f2), Within(f, f2)
  PROVE  InOrder(skew, f2, a, w, o)
  <1>1. \A c : Within(c, f) => Within(c, f2)
    BY WithinTrans
  <1> QED  BY <1>1 DEF InOrder

\* One more chunk is in flight, from the end of the file.
LEMMA OrderSend ==
  ASSUME NEW skew, NEW f, NEW a, NEW v \in Seq(Chunk), NEW o, NEW c \in Chunk,
         InOrder(skew, f, a, Append(v, Nothing), o), Tidy(c), Within(c, f),
         Follows(skew, a, c), \A i \in 1 .. Len(v) : Follows(skew, v[i], c),
         \A i \in 1 .. Len(o) : Follows(skew, o[i], c)
  PROVE  InOrder(skew, f, a, Append(v, c), o)
  <1> DEFINE w == Append(v, Nothing)
             u == Append(v, c)
             n == Len(v)
  <1>1. Nothing \in Chunk
    BY ChunkFacts
  <1>2. /\ n \in Nat /\ Len(w) = n + 1 /\ Len(u) = n + 1 /\ u[n + 1] = c
        /\ \A i \in 1 .. n : w[i] = v[i] /\ u[i] = v[i]
    BY <1>1
  <1> HIDE DEF w, u, n
  <1>3. InOrder(skew, f, a, w, o)
    BY DEF w
  <1>4. \A i \in 1 .. n + 1 : i \in 1 .. n \/ i = n + 1
    BY <1>2
  <1>5. \A i \in 1 .. n : i \in 1 .. Len(w)
    BY <1>2
  <1>6. ASSUME NEW i \in 1 .. n + 1
        PROVE  Tidy(u[i]) /\ Within(u[i], f) /\ Follows(skew, a, u[i])
    BY <1>2, <1>3, <1>4, <1>5 DEF InOrder
  <1>7. ASSUME NEW i \in 1 .. n + 1, NEW j \in 1 .. n + 1, i < j
        PROVE  Follows(skew, u[i], u[j])
    <2>1. i \in 1 .. n
      BY <1>2, <1>7
    <2>2. CASE j \in 1 .. n
      BY <1>2, <1>3, <1>5, <1>7, <2>1, <2>2 DEF InOrder
    <2>3. CASE j = n + 1
      BY <1>2, <2>1, <2>3 DEF n
    <2> QED  BY <1>4, <2>2, <2>3
  <1>8. ASSUME NEW i \in 1 .. Len(o)
        PROVE  Within(o[i], f) /\ \A j \in 1 .. n + 1 : Follows(skew, o[i], u[j])
    BY <1>2, <1>3, <1>4, <1>5 DEF InOrder
  <1> QED  BY <1>2, <1>3, <1>6, <1>7, <1>8 DEF InOrder, u

\* Nothing more is in flight.
LEMMA OrderPut ==
  ASSUME NEW skew, NEW f, NEW a, NEW v \in Seq(Chunk), NEW o, InOrder(skew, f, a, v, o)
  PROVE  InOrder(skew, f, a, Append(v, Nothing), o)
  <1> DEFINE u == Append(v, Nothing)
             n == Len(v)
  <1>1. Nothing \in Chunk
    BY ChunkFacts
  <1>2. n \in Nat /\ Len(u) = n + 1 /\ u[n + 1] = Nothing /\ \A i \in 1 .. n : u[i] = v[i]
    BY <1>1
  <1>3. n = Len(v)
    OBVIOUS
  <1> HIDE DEF u, n
  <1>4. \A i \in 1 .. n + 1 : i \in 1 .. n \/ i = n + 1
    BY <1>2
  <1>5. ASSUME NEW i \in 1 .. n + 1
        PROVE  Tidy(u[i]) /\ Within(u[i], f) /\ Follows(skew, a, u[i])
    BY <1>2, <1>3, <1>4, NothingFacts DEF InOrder
  <1>6. ASSUME NEW i \in 1 .. n + 1, NEW j \in 1 .. n + 1, i < j
        PROVE  Follows(skew, u[i], u[j])
    <2>1. CASE j = n + 1
      BY <1>2, <2>1, NothingFacts
    <2>2. CASE j \in 1 .. n
      <3>1. i \in 1 .. n
        BY <1>2, <1>6, <2>2
      <3> QED  BY <1>2, <1>3, <1>6, <2>2, <3>1 DEF InOrder
    <2> QED  BY <1>4, <2>1, <2>2
  <1>7. ASSUME NEW i \in 1 .. Len(o)
        PROVE  Within(o[i], f) /\ \A j \in 1 .. n + 1 : Follows(skew, o[i], u[j])
    BY <1>2, <1>3, <1>4, NothingFacts DEF InOrder
  <1>8. InOrder(skew, f, a, u, o)
    BY <1>2, <1>5, <1>6, <1>7 DEF InOrder
  <1> QED  BY <1>8 DEF u

\* The first chunk in flight has arrived.
LEMMA OrderArrive ==
  ASSUME NEW skew, NEW f, NEW a, NEW w \in Seq(Chunk), w # <<>>, NEW o,
         InOrder(skew, f, a, w, o)
  PROVE  /\ InOrder(skew, f, a, Tail(w), o)
         /\ Tidy(Head(w)) /\ Within(Head(w), f) /\ Follows(skew, a, Head(w))
         /\ \A j \in 1 .. Len(Tail(w)) : Follows(skew, Head(w), Tail(w)[j])
  <1> DEFINE v == Tail(w)
  <1>1. /\ Len(v) \in Nat /\ Len(w) = Len(v) + 1 /\ Head(w) = w[1]
        /\ \A i \in 1 .. Len(v) : v[i] = w[i + 1]
    OBVIOUS
  <1> HIDE DEF v
  <1>2. 1 \in 1 .. Len(w) /\ \A i \in 1 .. Len(v) : i + 1 \in 1 .. Len(w) /\ 1 < i + 1
    BY <1>1
  <1>3. ASSUME NEW i \in 1 .. Len(v)
        PROVE  Tidy(v[i]) /\ Within(v[i], f) /\ Follows(skew, a, v[i]) /\ Follows(skew, w[1], v[i])
    BY <1>1, <1>2 DEF InOrder
  <1>4. ASSUME NEW i \in 1 .. Len(v), NEW j \in 1 .. Len(v), i < j
        PROVE  Follows(skew, v[i], v[j])
    <2>1. i + 1 < j + 1 /\ i + 1 \in 1 .. Len(w) /\ j + 1 \in 1 .. Len(w)
      BY <1>1, <1>4
    <2> QED  BY <1>1, <2>1 DEF InOrder
  <1>5. ASSUME NEW i \in 1 .. Len(o)
        PROVE  Within(o[i], f) /\ \A j \in 1 .. Len(v) : Follows(skew, o[i], v[j])
    BY <1>1, <1>2 DEF InOrder
  <1>6. InOrder(skew, f, a, v, o)
    BY <1>3, <1>4, <1>5 DEF InOrder
  <1> QED  BY <1>1, <1>2, <1>3, <1>6 DEF v, InOrder

\* A chunk ahead of those in flight is appended to what waits to be cut.
LEMMA OrderJoin ==
  ASSUME NEW skew, NEW f, NEW a \in Chunk, NEW w, NEW o, NEW c \in Chunk,
         InOrder(skew, f, a, w, o), Tidy(c), Within(c, f), Follows(skew, a, c),
         \A i \in 1 .. Len(w) : Follows(skew, c, w[i])
  PROVE  InOrder(skew, f, Join(a, c), w, o)
  <1>1. Tidy(Join(a, c)) /\ Within(Join(a, c), f)
    BY JoinOrder DEF InOrder
  <1>2. \A i \in 1 .. Len(w) : Follows(skew, Join(a, c), w[i])
    BY JoinOrder DEF InOrder
  <1> QED  BY <1>1, <1>2 DEF InOrder

\* A window ahead of those in flight is handed out, and what waits is less.
LEMMA OrderHand ==
  ASSUME NEW skew, NEW f, NEW a, NEW w, NEW o \in Seq(Windows), NEW b, NEW c \in Windows,
         InOrder(skew, f, a, w, o), Tidy(b), Within(b, a), Within(c, f),
         \A i \in 1 .. Len(w) : Follows(skew, c, w[i])
  PROVE  InOrder(skew, f, b, w, Append(o, c))
  <1> DEFINE p == Append(o, c)
             n == Len(o)
  <1>1. n \in Nat /\ Len(p) = n + 1 /\ p[n + 1] = c /\ \A i \in 1 .. n : p[i] = o[i]
    OBVIOUS
  <1> HIDE DEF p
  <1>2. Within(b, f)
    BY WithinTrans DEF InOrder
  <1>3. \A x : Follows(skew, a, x) => Follows(skew, b, x)
    BY DEF Follows, Within
  <1>4. ASSUME NEW i \in 1 .. Len(p)
        PROVE  Within(p[i], f) /\ \A j \in 1 .. Len(w) : Follows(skew, p[i], w[j])
    <2>1. CASE i \in 1 .. n
      BY <1>1, <2>1 DEF InOrder
    <2>2. CASE i = n + 1
      BY <1>1, <2>2
    <2> QED  BY <1>1, <2>1, <2>2
  <1> QED  BY <1>2, <1>3, <1>4 DEF InOrder, p

-----------------------------------------------------------------------------
(* The source, and the skipping stages.                                    *)

\* The offsets of a chunk are in time order.
LEMMA LaterFacts ==
  ASSUME NEW s \in Later
  PROVE  s \in Seq(Nat) /\ \A i, j \in 1 .. Len(s) : i <= j => s[i] <= s[j]
  <1>1. PICK m \in 0 .. MaxChunk : s \in [1 .. m -> Steps]
    BY DEF Later, BoundedSeq, SeqOf
  <1>2. s \in Seq(Nat) /\ Len(s) = m /\ DOMAIN s = 1 .. m
    <2>0. Steps \subseteq Nat /\ MaxChunk \in Nat
      BY StreamsAssumption
    <2>1. s \in [1 .. m -> Nat]
      BY <1>1, <2>0
    <2>2. s = [i \in 1 .. m |-> s[i]]
      BY <2>1
    <2> QED  BY <2>1, <2>2
  <1>3. \A i, j \in DOMAIN s : i <= j => s[i] <= s[j]
    BY DEF Later
  <1> QED  BY <1>2, <1>3

\* The last of what is in order is the latest.
LEMMA LastTimeFacts ==
  ASSUME NEW s \in Seq(Items), Sorted(s)
  PROVE  LastTime(s) \in Nat /\ \A x \in ToSet(s) : x.t \in Nat /\ x.t <= LastTime(s)
  <1>1. CASE s = <<>>
    <2>1. ToSet(s) = {}
      BY <1>1 DEF ToSet
    <2> QED  BY <1>1, <2>1 DEF LastTime
  <1>2. CASE s # <<>>
    <2>1. Len(s) \in 1 .. Len(s) /\ s[Len(s)] \in Items
      BY <1>2
    <2>2. LastTime(s) = s[Len(s)].t
      BY <1>2 DEF LastTime, Last
    <2>3. ASSUME NEW x \in ToSet(s)
          PROVE  x.t \in Nat /\ x.t <= s[Len(s)].t
      <3>1. PICK i \in 1 .. Len(s) : x = s[i]
        BY DEF ToSet
      <3>2. s[i] \in Items /\ i <= Len(s)
        BY <3>1
      <3> QED  BY <2>1, <3>1, <3>2 DEF Sorted, Items
    <2> QED  BY <2>1, <2>2, <2>3 DEF Items
  <1> QED  BY <1>1, <1>2

\* The clock is not behind what the file has shown so far.
LEMMA ClockFacts ==
  ASSUME file \in Chunk, Tidy(file), NEW k \in Both
  PROVE  /\ Clock(k) \in Nat
         /\ \A x \in ToSet(file[k]) : x.t <= Clock(k)
         /\ ~opt.skew => \A l \in Both : \A x \in ToSet(file[l]) : x.t <= Clock(k)
  <1>1. \A l \in Both : file[l] \in Seq(Items) /\ Sorted(file[l])
    BY ChunkFacts DEF Tidy
  <1>2. \A l \in Both : /\ LastTime(file[l]) \in Nat
                        /\ \A x \in ToSet(file[l]) : x.t \in Nat /\ x.t <= LastTime(file[l])
    BY <1>1, LastTimeFacts
  <1>3. "ev" \in Both /\ "tr" \in Both /\ \A l \in Both : l = "ev" \/ l = "tr"
    BY DEF Both
  <1> DEFINE e == LastTime(file["ev"])
             r == LastTime(file["tr"])
  <1>4. file.ev = file["ev"] /\ file.tr = file["tr"]
    OBVIOUS
  <1>5. Clock(k) = IF opt.skew THEN LastTime(file[k]) ELSE IF e > r THEN e ELSE r
    BY <1>4 DEF Clock
  <1>6. e \in Nat /\ r \in Nat
    BY <1>2, <1>3
  <1>7. CASE opt.skew
    BY <1>2, <1>5, <1>7
  <1>8. CASE ~opt.skew
    <2>1. Clock(k) \in Nat /\ e <= Clock(k) /\ r <= Clock(k)
      BY <1>5, <1>6, <1>8
    <2>2. ASSUME NEW l \in Both, NEW x \in ToSet(file[l])
          PROVE  x.t <= Clock(k)
      <3>1. x.t \in Nat /\ x.t <= LastTime(file[l])
        BY <1>2
      <3>2. CASE l = "ev"
        BY <1>6, <2>1, <3>1, <3>2
      <3>3. CASE l = "tr"
        BY <1>6, <2>1, <3>1, <3>3
      <3> QED  BY <1>3, <3>2, <3>3
    <2> QED  BY <1>8, <2>1, <2>2
  <1> QED  BY <1>7, <1>8

\* Items of one kind, numbered on and timed on from a clock.
LEMMA TimedFacts ==
  ASSUME NEW s \in Seq(Nat), \A i, j \in 1 .. Len(s) : i <= j => s[i] <= s[j],
         NEW b \in Nat, NEW h \in Nat,
         NEW z, z = [j \in 1 .. Len(s) |-> [n |-> b + j, t |-> h + s[j]]]
  PROVE  z \in Seq(Items) /\ Sorted(z) /\ \A x \in ToSet(z) : x.t \in Nat /\ h <= x.t
  <1>1. Len(s) \in Nat /\ \A j \in 1 .. Len(s) : s[j] \in Nat
    OBVIOUS
  <1>2. \A j \in 1 .. Len(s) : [n |-> b + j, t |-> h + s[j]] \in Items
    BY <1>1 DEF Items
  <1>3. z \in Seq(Items) /\ Len(z) = Len(s) /\ DOMAIN z = 1 .. Len(s)
    BY <1>1, <1>2
  <1>4. \A j \in 1 .. Len(s) : z[j].t = h + s[j]
    OBVIOUS
  <1>5. Sorted(z)
    BY <1>1, <1>3, <1>4 DEF Sorted
  <1>6. ASSUME NEW x \in ToSet(z)
        PROVE  x.t \in Nat /\ h <= x.t
    <2>1. PICK j \in 1 .. Len(s) : x = z[j]
      BY <1>3 DEF ToSet
    <2> QED  BY <1>1, <1>4, <2>1
  <1> QED  BY <1>3, <1>5, <1>6

\* The decoder's next chunk is in order and follows what came before it.
LEMMA DecodedFacts ==
  ASSUME file \in Chunk, Tidy(file), NEW s \in Chunks
  PROVE  Decoded(s) \in Chunk /\ Tidy(Decoded(s)) /\ Follows(opt.skew, file, Decoded(s))
  <1> DEFINE d == Decoded(s)
  <1>1. s \in [ev : Later, tr : Later]
    BY DEF Chunks, Packets
  <1>2. ASSUME NEW k \in Both
        PROVE  /\ d[k] \in Seq(Items) /\ Sorted(d[k])
               /\ \A x \in ToSet(d[k]) : x.t \in Nat /\ Clock(k) <= x.t
    <2>1. s[k] \in Later
      BY <1>1 DEF Both
    <2>2. s[k] \in Seq(Nat) /\ \A i, j \in 1 .. Len(s[k]) : i <= j => s[k][i] <= s[k][j]
      BY <2>1, LaterFacts
    <2>3. Len(file[k]) \in Nat
      BY ChunkFacts
    <2>4. d[k] = [j \in 1 .. Len(s[k]) |->
                    [n |-> Len(file[k]) + j, t |-> Clock(k) + s[k][j]]]
      <3>1. CASE k = "ev"
        BY <3>1 DEF Decoded
      <3>2. CASE k = "tr"
        BY <3>2 DEF Decoded
      <3> QED  BY <3>1, <3>2 DEF Both
    <2>5. Clock(k) \in Nat
      BY ClockFacts
    <2> HIDE DEF d
    <2> QED  BY <2>2, <2>3, <2>4, <2>5, TimedFacts
  <1>3. d \in Chunk
    <2>1. d["ev"] \in Seq(Items) /\ d["tr"] \in Seq(Items)
      BY <1>2 DEF Both
    <2>2. d = [ev |-> d["ev"], tr |-> d["tr"]]
      BY DEF Decoded
    <2> HIDE DEF d
    <2> QED  BY <2>1, <2>2 DEF Chunk
  <1>4. Tidy(d)
    BY <1>2 DEF Tidy
  <1>5. Follows(opt.skew, file, d)
    <2>1. SUFFICES ASSUME NEW k \in Both, NEW l \in Both, k = l \/ ~opt.skew,
                          NEW x \in ToSet(file[k]), NEW y \in ToSet(d[l])
                   PROVE  x.t <= y.t
      BY DEF Follows
    <2>2. x.t <= Clock(l) /\ Clock(l) \in Nat
      BY <2>1, ClockFacts
    <2>3. y.t \in Nat /\ Clock(l) <= y.t
      BY <1>2
    <2>4. x.t \in Nat
      <3>1. file[k] \in Seq(Items) /\ Sorted(file[k])
        BY ChunkFacts DEF Tidy
      <3> QED  BY <3>1, LastTimeFacts
    <2> QED  BY <2>2, <2>3, <2>4
  <1> QED  BY <1>3, <1>4, <1>5

\* A piece of a chunk: of each kind what is behind a place.
LEMMA PieceFacts ==
  ASSUME NEW d \in Chunk, Tidy(d), NEW i \in 0 .. Len(d.ev), NEW j \in 0 .. Len(d.tr),
         NEW c, c = [ev |-> Drop(d.ev, i), tr |-> Drop(d.tr, j)]
  PROVE  c \in Chunk /\ Tidy(c) /\ Within(c, d)
  <1>1. d.ev \in Seq(Items) /\ d.tr \in Seq(Items) /\ Sorted(d.ev) /\ Sorted(d.tr)
    BY DEF Chunk, Tidy, Both
  <1>2. Drop(d.ev, i) \in Seq(Items) /\ Drop(d.tr, j) \in Seq(Items)
    BY <1>1, CutFacts
  <1>3. Sorted(Drop(d.ev, i)) /\ Sorted(Drop(d.tr, j))
    BY <1>1, SortedCut
  <1>4. ToSet(Drop(d.ev, i)) \subseteq ToSet(d.ev)
    <2>1. ToSet(d.ev) = ToSet(Take(d.ev, i)) \cup ToSet(Drop(d.ev, i))
      BY <1>1, SetCut
    <2> QED  BY <2>1
  <1>5. ToSet(Drop(d.tr, j)) \subseteq ToSet(d.tr)
    <2>1. ToSet(d.tr) = ToSet(Take(d.tr, j)) \cup ToSet(Drop(d.tr, j))
      BY <1>1, SetCut
    <2> QED  BY <2>1
  <1>6. c["ev"] = Drop(d.ev, i) /\ c["tr"] = Drop(d.tr, j) /\ c \in Chunk
    BY <1>2 DEF Chunk
  <1>7. Tidy(c)
    BY <1>3, <1>6 DEF Tidy, Both
  <1>8. Within(c, d)
    BY <1>4, <1>5, <1>6 DEF Within, Both
  <1> QED  BY <1>6, <1>7, <1>8

-----------------------------------------------------------------------------
(* What a skipping stage keeps.                                            *)

\* What is known of g, put together of a and b, and of its two pieces.
Pieces(g, a, b) ==
  /\ Len(a) \in Nat /\ Len(b) \in Nat /\ Len(g) = Len(a) + Len(b)
  /\ \A i \in 1 .. Len(a) : g[i] = a[i] /\ a[i] \in Items /\ a[i] \in ToSet(a)
  /\ \A i \in 1 .. Len(b) : g[Len(a) + i] = b[i] /\ b[i] \in Items /\ b[i] \in ToSet(b)
  /\ \A k \in 0 .. Len(a) : /\ Drop(g, k) = Drop(a, k) \o b /\ Take(g, k) = Take(a, k)
                            /\ ToSet(Drop(g, k)) = ToSet(Drop(a, k)) \cup ToSet(b)
  /\ \A k \in 0 .. Len(b) : /\ Drop(g, Len(a) + k) = Drop(b, k)
                            /\ ToSet(Take(g, Len(a) + k)) = ToSet(a) \cup ToSet(Take(b, k))

\* So it is, whatever the two pieces.
LEMMA CutJoin ==
  ASSUME NEW a \in Seq(Items), NEW b \in Seq(Items)
  PROVE  Pieces(a \o b, a, b)
  <1>1. /\ Len(a) \in Nat /\ Len(b) \in Nat /\ Len(a \o b) = Len(a) + Len(b)
        /\ DOMAIN a = 1 .. Len(a) /\ DOMAIN b = 1 .. Len(b)
    OBVIOUS
  <1>2. \A i \in 1 .. Len(a) : a[i] \in Items /\ a[i] \in ToSet(a)
    BY <1>1 DEF ToSet
  <1>3. \A i \in 1 .. Len(b) : b[i] \in Items /\ b[i] \in ToSet(b)
    BY <1>1 DEF ToSet
  <1>4. \A i \in 1 .. Len(a) : (a \o b)[i] = a[i]
    OBVIOUS
  <1>5. \A i \in 1 .. Len(b) : (a \o b)[Len(a) + i] = b[i]
    OBVIOUS
  <1>6. /\ \A k \in 0 .. Len(b) : /\ Drop(a \o b, Len(a) + k) = Drop(b, k)
                                  /\ Take(a \o b, Len(a) + k) = a \o Take(b, k)
        /\ \A k \in 0 .. Len(a) : /\ Drop(a \o b, k) = Drop(a, k) \o b
                                  /\ Take(a \o b, k) = Take(a, k)
    BY CutConcat
  <1>7. ASSUME NEW k \in 0 .. Len(a)
        PROVE  ToSet(Drop(a \o b, k)) = ToSet(Drop(a, k)) \cup ToSet(b)
    <2>1. Drop(a, k) \in Seq(Items)
      BY CutFacts
    <2>2. ToSet(Drop(a, k) \o b) = ToSet(Drop(a, k)) \cup ToSet(b)
      BY <2>1, SetConcat
    <2> QED  BY <1>6, <2>2
  <1>8. ASSUME NEW k \in 0 .. Len(b)
        PROVE  ToSet(Take(a \o b, Len(a) + k)) = ToSet(a) \cup ToSet(Take(b, k))
    <2>1. Take(b, k) \in Seq(Items)
      BY CutFacts
    <2>2. ToSet(a \o Take(b, k)) = ToSet(a) \cup ToSet(Take(b, k))
      BY <2>1, SetConcat
    <2> QED  BY <1>6, <2>2
  <1> QED  BY <1>1, <1>2, <1>3, <1>4, <1>5, <1>6, <1>7, <1>8 DEF Pieces

\* The place after event i and trigger m, and what comes through from it, are
\* right for the file with one more chunk.
KeepsOn(how, ge, gt, e, r, i, m) ==
  /\ i \in 0 .. Len(ge) - 1 /\ m \in 0 .. Len(gt)
  /\ KeptFrom(how, ge, gt, e, r, i, m)

\* Nothing in b is earlier than anything in a.
Behind(a, b) == \A x \in ToSet(a), y \in ToSet(b) : x.t <= y.t

\* A stage that has found its place keeps all of the next chunk.
LEMMA KeptOn ==
  ASSUME NEW how, NEW fe \in Seq(Items), NEW ft \in Seq(Items), NEW de \in Seq(Items),
         NEW dt \in Seq(Items), NEW e, NEW r,
         Behind(fe, dt),
         NEW i \in 0 .. Len(fe) - 1, NEW m \in 0 .. Len(ft), KeptFrom(how, fe, ft, e, r, i, m)
  PROVE  KeepsOn(how, fe \o de, ft \o dt, e \o de, r \o dt, i, m)
  <1> DEFINE ge == fe \o de
             gt == ft \o dt
  <1>0. Pieces(ge, fe, de) /\ Pieces(gt, ft, dt)
    BY CutJoin
  <1> HIDE DEF ge, gt
  <1>1. /\ Len(fe) \in Nat /\ Len(de) \in Nat /\ Len(ge) = Len(fe) + Len(de)
        /\ \A l \in 1 .. Len(fe) : ge[l] = fe[l] /\ fe[l] \in Items /\ fe[l] \in ToSet(fe)
        /\ \A k \in 0 .. Len(fe) : Drop(ge, k) = Drop(fe, k) \o de /\ Take(ge, k) = Take(fe, k)
    BY <1>0 DEF Pieces
  <1>2. /\ Len(ft) \in Nat /\ Len(dt) \in Nat /\ Len(gt) = Len(ft) + Len(dt)
        /\ \A k \in 0 .. Len(ft) : /\ Drop(gt, k) = Drop(ft, k) \o dt /\ Take(gt, k) = Take(ft, k)
                                   /\ ToSet(Drop(gt, k)) = ToSet(Drop(ft, k)) \cup ToSet(dt)
    BY <1>0 DEF Pieces
  <1>3. i \in 0 .. Len(fe) /\ i + 1 \in 1 .. Len(fe) /\ i \in Int
    BY <1>1
  <1>4. i \in 0 .. Len(ge) - 1 /\ m \in 0 .. Len(gt)
    BY <1>1, <1>2, <1>3
  <1> DEFINE here == fe[i + 1]
  <1>5. ge[i + 1] = here /\ here \in Items /\ here \in ToSet(fe)
    BY <1>1, <1>3
  <1>6. Drop(ge, i) = Drop(fe, i) \o de /\ Take(ge, i) = Take(fe, i)
    BY <1>1, <1>3
  <1>7. /\ Drop(gt, m) = Drop(ft, m) \o dt /\ Take(gt, m) = Take(ft, m)
        /\ ToSet(Drop(gt, m)) = ToSet(Drop(ft, m)) \cup ToSet(dt)
    BY <1>2
  <1> HIDE DEF here
  <1>8. here.t \in Nat /\ \A y \in ToSet(dt) : here.t <= y.t /\ y.t \in Nat
    <2>1. ToSet(dt) \subseteq Items
      BY SetFacts
    <2> QED  BY <1>5, <2>1 DEF Items, Behind
  <1>9. /\ e = Drop(fe, i) /\ r = Drop(ft, m)
        /\ how = "time" => /\ \A x \in ToSet(Take(fe, i)) : x.t < SkipTime
                           /\ SkipTime <= here.t
        /\ how = "event" => i = SkipCount
        /\ \A x \in ToSet(Take(ft, m)) : x.t <= here.t
        /\ \A x \in ToSet(Drop(ft, m)) : x.t >= IF how = "time" THEN SkipTime ELSE here.t
    BY DEF KeptFrom, here
  <1>10. ASSUME NEW x \in ToSet(Drop(gt, m))
         PROVE  x.t >= IF how = "time" THEN SkipTime ELSE here.t
    <2>1. CASE x \in ToSet(dt)
      <3>1. SkipTime \in Nat
        BY StreamsAssumption
      <3> QED  BY <1>8, <1>9, <2>1, <3>1
    <2> QED  BY <1>7, <1>9, <2>1
  <1>11. e \o de = Drop(ge, i) /\ r \o dt = Drop(gt, m)
    BY <1>6, <1>7, <1>9
  <1>12. KeptFrom(how, ge, gt, e \o de, r \o dt, i, m)
    BY <1>5, <1>6, <1>7, <1>9, <1>10, <1>11 DEF KeptFrom
  <1> QED  BY <1>4, <1>12 DEF KeepsOn, ge, gt

\* A stage that finds its place in a chunk, after event number i of it.
LEMMA KeptStart ==
  ASSUME NEW how, NEW fe \in Seq(Items), NEW ft \in Seq(Items), NEW de \in Seq(Items),
         NEW dt \in Seq(Items),
         Behind(ft, de),
         Sorted(dt), NEW i \in 0 .. Len(de) - 1, NEW t \in Nat, NEW m, m = Before(dt, t),
         t = IF how = "time" THEN SkipTime ELSE de[i + 1].t, t <= de[i + 1].t,
         how = "time" => /\ \A x \in ToSet(fe) : x.t < SkipTime
                         /\ \A x \in ToSet(Take(de, i)) : x.t < SkipTime,
         how = "event" => Len(fe) + i = SkipCount
  PROVE  KeepsOn(how, fe \o de, ft \o dt, Drop(de, i), Drop(dt, m), Len(fe) + i, Len(ft) + m)
  <1> DEFINE ge == fe \o de
             gt == ft \o dt
  <1>0. Pieces(ge, fe, de) /\ Pieces(gt, ft, dt)
    BY CutJoin
  <1> HIDE DEF ge, gt
  <1>1. /\ Len(fe) \in Nat /\ Len(de) \in Nat /\ Len(ge) = Len(fe) + Len(de)
        /\ \A l \in 1 .. Len(de) : /\ ge[Len(fe) + l] = de[l]
                                   /\ de[l] \in Items /\ de[l] \in ToSet(de)
        /\ \A k \in 0 .. Len(de) :
              /\ Drop(ge, Len(fe) + k) = Drop(de, k)
              /\ ToSet(Take(ge, Len(fe) + k)) = ToSet(fe) \cup ToSet(Take(de, k))
    BY <1>0 DEF Pieces
  <1>2. /\ Len(ft) \in Nat /\ Len(dt) \in Nat /\ Len(gt) = Len(ft) + Len(dt)
        /\ \A k \in 0 .. Len(dt) :
              /\ Drop(gt, Len(ft) + k) = Drop(dt, k)
              /\ ToSet(Take(gt, Len(ft) + k)) = ToSet(ft) \cup ToSet(Take(dt, k))
    BY <1>0 DEF Pieces
  <1>3. /\ m \in 0 .. Len(dt)
        /\ \A x \in ToSet(Take(dt, m)) : x.t < t
        /\ \A x \in ToSet(Drop(dt, m)) : t <= x.t
    <2>1. t \in Int
      OBVIOUS
    <2> QED  BY <2>1, BeforeFacts
  <1>4. i \in 0 .. Len(de) /\ i + 1 \in 1 .. Len(de) /\ i \in Int
    BY <1>1
  <1> DEFINE here == de[i + 1]
             a == Len(fe) + i
             b == Len(ft) + m
  <1>5. here \in Items /\ here \in ToSet(de)
    BY <1>1, <1>4
  <1>6. ge[a + 1] = here
    <2>1. ge[Len(fe) + (i + 1)] = here
      BY <1>1, <1>4
    <2>2. a + 1 = Len(fe) + (i + 1)
      BY <1>1, <1>4
    <2> HIDE DEF a, here
    <2> QED  BY <2>1, <2>2
  <1>7. /\ Drop(ge, a) = Drop(de, i)
        /\ ToSet(Take(ge, a)) = ToSet(fe) \cup ToSet(Take(de, i))
    BY <1>1, <1>4
  <1>8. /\ Drop(gt, b) = Drop(dt, m)
        /\ ToSet(Take(gt, b)) = ToSet(ft) \cup ToSet(Take(dt, m))
    BY <1>2, <1>3
  <1>9. a \in 0 .. Len(ge) - 1
    BY <1>1, <1>4
  <1>10. b \in 0 .. Len(gt)
    BY <1>2, <1>3
  <1>11. t <= here.t /\ t = IF how = "time" THEN SkipTime ELSE here.t
    OBVIOUS
  <1>12. how = "event" => a = SkipCount
    OBVIOUS
  <1> HIDE DEF a, b, here
  <1>13. \A x \in ToSet(ft) : x.t <= here.t
    BY <1>5 DEF Behind
  <1>14. here.t \in Nat /\ \A x \in ToSet(Take(dt, m)) : x.t \in Nat
    <2>1. Take(dt, m) \in Seq(Items)
      BY <1>3, CutFacts
    <2>2. ToSet(Take(dt, m)) \subseteq Items
      BY <2>1, SetFacts
    <2> QED  BY <1>5, <2>2 DEF Items
  <1>15. \A x \in ToSet(Take(gt, b)) : x.t <= here.t
    <2> SUFFICES ASSUME NEW x \in ToSet(Take(gt, b))
                 PROVE  x.t <= here.t
      OBVIOUS
    <2>1. x \in ToSet(ft) \/ x \in ToSet(Take(dt, m))
      BY <1>8
    <2>2. CASE x \in ToSet(ft)
      BY <1>13, <2>2
    <2>3. CASE x \in ToSet(Take(dt, m))
      <3>1. x.t < t /\ x.t \in Nat /\ here.t \in Nat
        BY <1>3, <1>14, <2>3
      <3>2. t \in Nat
        OBVIOUS
      <3> QED  BY <1>11, <3>1, <3>2
    <2> QED  BY <2>1, <2>2, <2>3
  <1>16. \A x \in ToSet(Drop(gt, b)) : x.t >= t
    BY <1>3, <1>8
  <1>17. how = "time" => \A x \in ToSet(Take(ge, a)) : x.t < SkipTime
    BY <1>7
  <1>18. how = "time" => SkipTime <= here.t
    BY <1>11
  <1>19. KeptFrom(how, ge, gt, Drop(de, i), Drop(dt, m), a, b)
    BY <1>6, <1>7, <1>8, <1>11, <1>12, <1>15, <1>16, <1>17, <1>18 DEF KeptFrom
  <1> QED  BY <1>9, <1>10, <1>19 DEF KeepsOn, a, b, ge, gt

\* What a skipping stage makes of the next chunk d, as r says it, is a piece of
\* it; and what came through before (e and q) with it is what the stage keeps
\* of the file with it.
SkipsRight(d, r, e, q) ==
  /\ r.chunk \in Chunk /\ Tidy(r.chunk) /\ Within(r.chunk, d)
  /\ r.skip \in [on : BOOLEAN, seen : Nat] /\ r.drop \in BOOLEAN
  /\ r.drop => r.chunk = Nothing
  /\ Kept(opt.skip, r.skip, Join(file, d), e \o r.chunk.ev, q \o r.chunk.tr)

\* The stage has found its place, or there is none.
LEMMA SkipsOff ==
  ASSUME file \in Chunk, skip \in [on : BOOLEAN, seen : Nat], ~skip.on,
         opt.skip # "none" => ~opt.skew,
         NEW d \in Chunk, Tidy(d), Follows(opt.skew, file, d),
         NEW e, NEW q, Kept(opt.skip, skip, file, e, q)
  PROVE  SkipsRight(d, [chunk |-> d, drop |-> FALSE, skip |-> skip], e, q)
  <1> DEFINE r == [chunk |-> d, drop |-> FALSE, skip |-> skip]
             g == Join(file, d)
  <1>1. r.chunk = d /\ r.drop = FALSE /\ r.skip = skip
    OBVIOUS
  <1>2. g.ev = file.ev \o d.ev /\ g.tr = file.tr \o d.tr
    BY DEF Join
  <1>3. Within(d, d)
    BY DEF Within
  <1> HIDE DEF r, g
  <1>4. CASE opt.skip = "none"
    <2>1. e = file.ev /\ q = file.tr
      BY <1>4 DEF Kept
    <2>2. Kept(opt.skip, skip, g, e \o d.ev, q \o d.tr)
      BY <1>2, <1>4, <2>1 DEF Kept
    <2> QED  BY <1>1, <1>3, <2>2 DEF SkipsRight, g
  <1>5. CASE opt.skip # "none"
    <2>1. PICK i \in 0 .. Len(file.ev) - 1, m \in 0 .. Len(file.tr) :
             KeptFrom(opt.skip, file.ev, file.tr, e, q, i, m)
      BY <1>5 DEF Kept
    <2>2. Behind(file.ev, d.tr)
      <3>1. \A x \in ToSet(file["ev"]), y \in ToSet(d["tr"]) : x.t <= y.t
        BY <1>5 DEF Follows, Both
      <3> QED  BY <3>1 DEF Behind
    <2>3. file.ev \in Seq(Items) /\ file.tr \in Seq(Items) /\ d.ev \in Seq(Items) /\ d.tr \in Seq(Items)
      BY DEF Chunk
    <2>4. KeepsOn(opt.skip, file.ev \o d.ev, file.tr \o d.tr, e \o d.ev, q \o d.tr, i, m)
      BY <2>1, <2>2, <2>3, KeptOn
    <2>5. Kept(opt.skip, skip, g, e \o d.ev, q \o d.tr)
      BY <1>2, <1>5, <2>4 DEF Kept, KeepsOn
    <2> QED  BY <1>1, <1>3, <2>5 DEF SkipsRight, g
  <1> QED  BY <1>4, <1>5

\* The stage drops the chunk.
LEMMA SkipsAll ==
  ASSUME file \in Chunk, skip \in [on : BOOLEAN, seen : Nat], skip.on, opt.skip # "none",
         NEW d \in Chunk, NEW e, NEW q, Kept(opt.skip, skip, file, e, q),
         NEW s \in [on : BOOLEAN, seen : Nat], s.on,
         opt.skip = "time" => \A x \in ToSet(d.ev) : x.t < SkipTime,
         opt.skip = "event" => s.seen = skip.seen + Len(d.ev) /\ s.seen <= SkipCount
  PROVE  SkipsRight(d, [chunk |-> Nothing, drop |-> TRUE, skip |-> s], e, q)
  <1> DEFINE r == [chunk |-> Nothing, drop |-> TRUE, skip |-> s]
             g == Join(file, d)
  <1>1. r.chunk = Nothing /\ r.drop = TRUE /\ r.skip = s
    OBVIOUS
  <1>2. file.ev \in Seq(Items) /\ d.ev \in Seq(Items)
    BY DEF Chunk
  <1>3. /\ ToSet(g.ev) = ToSet(file.ev) \cup ToSet(d.ev)
        /\ Len(g.ev) = Len(file.ev) + Len(d.ev)
    <2>1. g.ev = file.ev \o d.ev
      BY DEF Join
    <2> HIDE DEF g
    <2> QED  BY <1>2, <2>1, SetConcat
  <1> HIDE DEF r, g
  <1>4. /\ e = <<>> /\ q = <<>>
        /\ opt.skip = "time" => \A x \in ToSet(file.ev) : x.t < SkipTime
        /\ opt.skip = "event" => skip.seen = Len(file.ev)
    BY DEF Kept
  <1>5. e \o Nothing.ev = <<>> /\ q \o Nothing.tr = <<>>
    BY <1>4 DEF Nothing
  <1>6. Kept(opt.skip, s, g, e \o Nothing.ev, q \o Nothing.tr)
    BY <1>3, <1>4, <1>5 DEF Kept
  <1>7. Nothing \in Chunk /\ Tidy(Nothing) /\ Within(Nothing, d)
    BY ChunkFacts, NothingFacts
  <1> QED  BY <1>1, <1>6, <1>7 DEF SkipsRight, g

\* The stage finds its place in the chunk, after event number i of it.
LEMMA SkipsTo ==
  ASSUME file \in Chunk, skip \in [on : BOOLEAN, seen : Nat], skip.on, opt.skip # "none",
         ~opt.skew, NEW d \in Chunk, Tidy(d), Follows(opt.skew, file, d),
         NEW e, NEW q, Kept(opt.skip, skip, file, e, q),
         NEW i \in 0 .. Len(d.ev) - 1, NEW t \in Nat,
         t = IF opt.skip = "time" THEN SkipTime ELSE d.ev[i + 1].t, t <= d.ev[i + 1].t,
         opt.skip = "time" => \A x \in ToSet(Take(d.ev, i)) : x.t < SkipTime,
         opt.skip = "event" => skip.seen + i = SkipCount,
         NEW s \in [on : BOOLEAN, seen : Nat], ~s.on
  PROVE  SkipsRight(d, [chunk |-> [ev |-> Drop(d.ev, i), tr |-> Drop(d.tr, Before(d.tr, t))],
                        drop |-> FALSE, skip |-> s], e, q)
  <1> DEFINE m == Before(d.tr, t)
             c == [ev |-> Drop(d.ev, i), tr |-> Drop(d.tr, m)]
             r == [chunk |-> c, drop |-> FALSE, skip |-> s]
             g == Join(file, d)
  <1>1. r.chunk = c /\ r.drop = FALSE /\ r.skip = s
    OBVIOUS
  <1>2. g.ev = file.ev \o d.ev /\ g.tr = file.tr \o d.tr
    BY DEF Join
  <1>3. /\ file.ev \in Seq(Items) /\ file.tr \in Seq(Items) /\ d.ev \in Seq(Items)
        /\ d.tr \in Seq(Items) /\ Sorted(d.tr)
    BY DEF Chunk, Tidy, Both
  <1>4. m \in 0 .. Len(d.tr)
    <2>1. t \in Int
      OBVIOUS
    <2> QED  BY <1>3, <2>1, BeforeFacts
  <1>5. i \in 0 .. Len(d.ev)
    BY <1>3
  <1>6. c.ev = Drop(d.ev, i) /\ c.tr = Drop(d.tr, m)
    OBVIOUS
  <1>7. c \in Chunk /\ Tidy(c) /\ Within(c, d)
    BY <1>4, <1>5, PieceFacts
  <1>8. /\ e = <<>> /\ q = <<>>
        /\ opt.skip = "time" => \A x \in ToSet(file.ev) : x.t < SkipTime
        /\ opt.skip = "event" => skip.seen = Len(file.ev)
    BY DEF Kept
  <1>9. Behind(file.tr, d.ev)
    <2>1. \A x \in ToSet(file["tr"]), y \in ToSet(d["ev"]) : x.t <= y.t
      BY DEF Follows, Both
    <2> QED  BY <2>1 DEF Behind
  <1>10. opt.skip = "event" => Len(file.ev) + i = SkipCount
    BY <1>8
  <1> HIDE DEF r, g, c
  <1>11. KeepsOn(opt.skip, file.ev \o d.ev, file.tr \o d.tr, Drop(d.ev, i), Drop(d.tr, m),
                 Len(file.ev) + i, Len(file.tr) + m)
    BY <1>3, <1>8, <1>9, <1>10, KeptStart, ZenonT(30), SMTT(30)
  <1> HIDE DEF m
  <1>12. e \o c.ev = Drop(d.ev, i) /\ q \o c.tr = Drop(d.tr, m)
    <2>1. Drop(d.ev, i) \in Seq(Items) /\ Drop(d.tr, m) \in Seq(Items)
      BY <1>3, <1>4, <1>5, CutFacts
    <2> QED  BY <1>6, <1>8, <2>1
  <1>13. KeepsOn(opt.skip, g.ev, g.tr, e \o c.ev, q \o c.tr, Len(file.ev) + i, Len(file.tr) + m)
    BY <1>2, <1>11, <1>12
  <1>14. Kept(opt.skip, s, g, e \o c.ev, q \o c.tr)
    BY <1>13 DEF Kept, KeepsOn
  <1>15. SkipsRight(d, r, e, q)
    BY <1>1, <1>7, <1>14 DEF SkipsRight, g
  <1> QED  BY <1>15 DEF r, c, m

\* So a skipping stage does what it should with every chunk.
LEMMA SkippedFacts ==
  ASSUME opt \in Pipelines, opt.skew => opt.skip = "none", file \in Chunk,
         skip \in [on : BOOLEAN, seen : Nat],
         NEW d \in Chunk, Tidy(d), Follows(opt.skew, file, d),
         NEW e, NEW q, Kept(opt.skip, skip, file, e, q)
  PROVE  SkipsRight(d, Skipped(d), e, q)
  <1>1. CASE ~skip.on
    BY <1>1, SkipsOff DEF Skipped
  <1>2. ASSUME skip.on
        PROVE  SkipsRight(d, Skipped(d), e, q)
    <2>1. opt.skip # "none" /\ ~opt.skew /\ opt.skip \in {"time", "event"}
      BY <1>2 DEF Kept, Pipelines
    <2>2. /\ d.ev \in Seq(Items) /\ Sorted(d.ev) /\ Len(d.ev) \in Nat
          /\ SkipTime \in Nat /\ SkipCount \in Nat
      BY StreamsAssumption DEF Chunk, Tidy, Both
    <2>3. \A x \in ToSet(d.ev) : x.t \in Nat /\ x.t <= LastTime(d.ev)
      BY <2>2, LastTimeFacts
    <2>4. d.ev # <<>> => LastTime(d.ev) = Last(d.ev).t
      BY DEF LastTime
    <2>5. CASE opt.skip = "time"
      <3>1. Skipped(d) = SkipToTime(d)
        BY <1>2, <2>5 DEF Skipped
      <3>2. CASE d.ev = <<>> \/ Last(d.ev).t < SkipTime
        <4>1. \A x \in ToSet(d.ev) : x.t < SkipTime
          <5>1. CASE d.ev = <<>>
            BY <2>2, <5>1, SetFacts
          <5>2. CASE d.ev # <<>>
            <6>1. LastTime(d.ev) < SkipTime /\ LastTime(d.ev) \in Nat
              BY <2>2, <2>4, <3>2, <5>2, LastTimeFacts
            <6> QED  BY <2>2, <2>3, <6>1
          <5> QED  BY <5>1, <5>2
        <4>2. SkipToTime(d) = [chunk |-> Nothing, drop |-> TRUE, skip |-> skip]
          BY <3>2 DEF SkipToTime
        <4>3. SkipsRight(d, [chunk |-> Nothing, drop |-> TRUE, skip |-> skip], e, q)
          BY <1>2, <2>1, <2>5, <4>1, SkipsAll
        <4> QED  BY <3>1, <4>2, <4>3
      <3>3. CASE ~(d.ev = <<>> \/ Last(d.ev).t < SkipTime)
        <4> DEFINE i == Before(d.ev, SkipTime)
                   s == [skip EXCEPT !.on = FALSE]
        <4>1. /\ i \in 0 .. Len(d.ev)
              /\ \A j \in 1 .. Len(d.ev) : d.ev[j].t < SkipTime <=> j <= i
              /\ \A x \in ToSet(Take(d.ev, i)) : x.t < SkipTime
          <5>1. SkipTime \in Int
            BY <2>2
          <5> QED  BY <2>2, <5>1, BeforeFacts
        <4>2. s \in [on : BOOLEAN, seen : Nat] /\ ~s.on
          OBVIOUS
        <4>3. SkipToTime(d) = [chunk |-> [ev |-> Drop(d.ev, i), tr |-> Drop(d.tr, Before(d.tr, SkipTime))],
                               drop |-> FALSE, skip |-> s]
          BY <3>3 DEF SkipToTime
        <4> HIDE DEF i, s
        <4>4. i \in 0 .. Len(d.ev) - 1 /\ SkipTime <= d.ev[i + 1].t
          <5>1. Last(d.ev) = d.ev[Len(d.ev)] /\ Len(d.ev) \in 1 .. Len(d.ev)
            BY <2>2, <3>3 DEF Last
          <5>2. ~(d.ev[Len(d.ev)].t < SkipTime)
            BY <3>3, <5>1
          <5>3. i # Len(d.ev)
            BY <2>2, <4>1, <5>1, <5>2
          <5>4. i \in 0 .. Len(d.ev) - 1 /\ i + 1 \in 1 .. Len(d.ev) /\ ~(i + 1 <= i)
            BY <2>2, <4>1, <5>3
          <5>5. d.ev[i + 1] \in Items /\ ~(d.ev[i + 1].t < SkipTime)
            BY <2>2, <4>1, <5>4
          <5> QED  BY <2>2, <5>4, <5>5 DEF Items
        <4>5. SkipsRight(d, [chunk |-> [ev |-> Drop(d.ev, i), tr |-> Drop(d.tr, Before(d.tr, SkipTime))],
                             drop |-> FALSE, skip |-> s], e, q)
          BY <1>2, <2>1, <2>2, <2>5, <4>1, <4>2, <4>4, SkipsTo
        <4> QED  BY <3>1, <4>3, <4>5
      <3> QED  BY <3>2, <3>3
    <2>6. CASE opt.skip = "event"
      <3>1. Skipped(d) = SkipToEvent(d)
        BY <1>2, <2>6 DEF Skipped
      <3>2. skip.seen \in Nat /\ skip.seen <= SkipCount
        BY <1>2, <2>6 DEF Kept
      <3>3. CASE skip.seen + Len(d.ev) <= SkipCount
        <4> DEFINE s == [skip EXCEPT !.seen = @ + Len(d.ev)]
        <4>1. s \in [on : BOOLEAN, seen : Nat] /\ s.on /\ s.seen = skip.seen + Len(d.ev)
          BY <1>2, <2>2, <3>2
        <4>2. SkipToEvent(d) = [chunk |-> Nothing, drop |-> TRUE, skip |-> s]
          BY <3>3 DEF SkipToEvent
        <4> HIDE DEF s
        <4>3. SkipsRight(d, [chunk |-> Nothing, drop |-> TRUE, skip |-> s], e, q)
          BY <1>2, <2>1, <2>6, <3>3, <4>1, SkipsAll
        <4> QED  BY <3>1, <4>2, <4>3
      <3>4. CASE ~(skip.seen + Len(d.ev) <= SkipCount)
        <4> DEFINE i == SkipCount - skip.seen
                   t == d.ev[i + 1].t
                   s == [skip EXCEPT !.on = FALSE]
        <4>1. i \in 0 .. Len(d.ev) - 1 /\ i + 1 \in 1 .. Len(d.ev) /\ skip.seen + i = SkipCount
          BY <2>2, <3>2, <3>4
        <4>2. s \in [on : BOOLEAN, seen : Nat] /\ ~s.on
          OBVIOUS
        <4>3. SkipToEvent(d) = [chunk |-> [ev |-> Drop(d.ev, i), tr |-> Drop(d.tr, Before(d.tr, t))],
                                drop |-> FALSE, skip |-> s]
          BY <3>4 DEF SkipToEvent
        <4> HIDE DEF i, s
        <4>4. t \in Nat /\ t = d.ev[i + 1].t /\ t <= d.ev[i + 1].t
          <5>1. d.ev[i + 1] \in Items
            BY <2>2, <4>1
          <5> QED  BY <5>1 DEF Items
        <4> HIDE DEF t
        <4>5. t = IF opt.skip = "time" THEN SkipTime ELSE d.ev[i + 1].t
          BY <2>6, <4>4
        <4>6. SkipsRight(d, [chunk |-> [ev |-> Drop(d.ev, i), tr |-> Drop(d.tr, Before(d.tr, t))],
                             drop |-> FALSE, skip |-> s], e, q)
          BY <1>2, <2>1, <2>6, <4>1, <4>2, <4>4, <4>5, SkipsTo
        <4> QED  BY <3>1, <4>3, <4>6
      <3> QED  BY <3>3, <3>4
    <2> QED  BY <2>1, <2>5, <2>6
  <1> QED  BY <1>1, <1>2

-----------------------------------------------------------------------------
(* What is in flight, and what comes through.                              *)

\* The chunks in a queue, when a message is put and when one is taken.
LEMMA BodiesFacts ==
  /\ \A m \in Messages : Body(m) \in Chunk
  /\ Body(Sentinel) = Nothing /\ Body(Failure) = Nothing
  /\ \A c \in Chunk : /\ Copied(c) \in Messages /\ Body(Copied(c)) = c
                      /\ Copied(c) \notin {Sentinel, Failure} /\ Copied(c).kind = "copy"
  /\ \A m \in Messages : /\ Load(m) = Body(m)
                         /\ m \notin {Sentinel, Failure} => m.kind = "copy" /\ Contents(m) = Body(m)
                         /\ m.kind = "copy" => m \notin {Sentinel, Failure}
  /\ Sentinel # Failure /\ Sentinel \in Messages /\ Failure \in Messages
  <1>1. Sentinel.kind = "none" /\ Failure.kind = "exception"
    BY DEF Sentinel, Failure
  <1>2. Body(Sentinel) = Nothing /\ Body(Failure) = Nothing
    BY <1>1 DEF Body
  <1>3. Nothing \in Chunk
    BY ChunkFacts
  <1>4. ASSUME NEW m \in Messages
        PROVE  /\ Body(m) \in Chunk /\ Load(m) = Body(m)
               /\ m \notin {Sentinel, Failure} => m.kind = "copy" /\ Contents(m) = Body(m)
               /\ m.kind = "copy" => m \notin {Sentinel, Failure}
    <2>1. CASE m \in {Sentinel, Failure}
      BY <1>1, <1>2, <1>3, <2>1 DEF Load, Body
    <2>2. CASE m \in [kind : {"copy"}, chunk : Chunk]
      BY <1>1, <2>2 DEF Load, Body, Contents
    <2> QED  BY <2>1, <2>2 DEF Messages
  <1>5. ASSUME NEW c \in Chunk
        PROVE  /\ Copied(c) \in Messages /\ Body(Copied(c)) = c
               /\ Copied(c) \notin {Sentinel, Failure} /\ Copied(c).kind = "copy"
    <2>1. Copied(c).kind = "copy" /\ Copied(c).chunk = c
      BY DEF Copied
    <2>2. Copied(c) \in Messages
      BY DEF Copied, Messages
    <2> QED  BY <1>1, <2>1, <2>2 DEF Body
  <1> QED  BY <1>1, <1>2, <1>4, <1>5 DEF Messages

\* One message more in the queue is one chunk more in flight.
LEMMA BodiesPut ==
  ASSUME NEW q \in Seq(Messages), NEW m \in Messages
  PROVE  /\ Bodies(q) \in Seq(Chunk) /\ Len(Bodies(q)) = Len(q)
         /\ Bodies(Append(q, m)) = Append(Bodies(q), Body(m))
  <1> DEFINE u == Bodies(q)
             v == Bodies(Append(q, m))
  <1>1. \A x \in Messages : Body(x) \in Chunk
    BY BodiesFacts
  <1>2. u \in Seq(Chunk) /\ Len(u) = Len(q) /\ \A i \in 1 .. Len(q) : u[i] = Body(q[i])
    BY <1>1 DEF Bodies
  <1>3. /\ Append(q, m) \in Seq(Messages) /\ Len(Append(q, m)) = Len(q) + 1
        /\ Append(q, m)[Len(q) + 1] = m /\ \A i \in 1 .. Len(q) : Append(q, m)[i] = q[i]
    OBVIOUS
  <1>4. /\ v \in Seq(Chunk) /\ Len(v) = Len(q) + 1 /\ v[Len(q) + 1] = Body(m)
        /\ \A i \in 1 .. Len(q) : v[i] = Body(q[i])
    BY <1>1, <1>3 DEF Bodies
  <1> HIDE DEF u, v
  <1>5. Body(m) \in Chunk /\ Append(u, Body(m)) \in Seq(Chunk)
    BY <1>1, <1>2
  <1>6. Len(v) = Len(Append(u, Body(m)))
    BY <1>2, <1>4
  <1>7. ASSUME NEW i \in 1 .. Len(v)
        PROVE  v[i] = Append(u, Body(m))[i]
    BY <1>2, <1>4
  <1>8. v = Append(u, Body(m))
    BY <1>4, <1>5, <1>6, <1>7, SeqEqual
  <1> QED  BY <1>2, <1>8 DEF u, v

\* One taken from it is the first of the chunks.
LEMMA BodiesTake ==
  ASSUME NEW q \in Seq(Messages), q # <<>>, NEW m \in Messages
  PROVE  /\ Bodies(Append(Tail(q), m)) = Tail(Bodies(Append(q, m)))
         /\ Bodies(Append(q, m)) # <<>>
         /\ Head(Bodies(Append(q, m))) = Body(Head(q))
  <1> DEFINE v == Bodies(Append(q, m))
             w == Bodies(Append(Tail(q), m))
  <1>1. \A x \in Messages : Body(x) \in Chunk
    BY BodiesFacts
  <1>2. Tail(q) \in Seq(Messages) /\ Append(Tail(q), m) = Tail(Append(q, m))
    OBVIOUS
  <1>3. /\ Append(q, m) \in Seq(Messages) /\ Len(Append(q, m)) = Len(q) + 1 /\ Len(q) \in Nat \ {0}
        /\ Append(q, m)[1] = Head(q)
    OBVIOUS
  <1>4. /\ Tail(Append(q, m)) \in Seq(Messages) /\ Len(Tail(Append(q, m))) = Len(q)
        /\ \A i \in 1 .. Len(q) : Tail(Append(q, m))[i] = Append(q, m)[i + 1]
    BY <1>3
  <1>5. /\ v \in Seq(Chunk) /\ Len(v) = Len(q) + 1
        /\ \A i \in 1 .. Len(q) + 1 : v[i] = Body(Append(q, m)[i])
    BY <1>1, <1>3 DEF Bodies
  <1>6. /\ w \in Seq(Chunk) /\ Len(w) = Len(q)
        /\ \A i \in 1 .. Len(q) : w[i] = Body(Append(q, m)[i + 1])
    BY <1>1, <1>2, <1>4 DEF Bodies
  <1> HIDE DEF v, w
  <1>7. /\ Tail(v) \in Seq(Chunk) /\ Len(Tail(v)) = Len(q) /\ v # <<>> /\ Head(v) = v[1]
        /\ \A i \in 1 .. Len(q) : Tail(v)[i] = v[i + 1]
    BY <1>3, <1>5
  <1>8. ASSUME NEW i \in 1 .. Len(w)
        PROVE  w[i] = Tail(v)[i]
    <2>1. i \in 1 .. Len(q) /\ i + 1 \in 1 .. Len(q) + 1
      BY <1>3, <1>6
    <2> QED  BY <1>5, <1>6, <1>7, <2>1
  <1>9. w = Tail(v)
    BY <1>6, <1>7, <1>8, SeqEqual
  <1>10. Head(v) = Body(Head(q))
    BY <1>3, <1>5, <1>7
  <1> QED  BY <1>7, <1>9, <1>10 DEF v, w

\* What comes through does not change when a chunk moves on in the pipeline,
\* and is longer by the chunk that is sent.
LEMMA ThroughSend ==
  ASSUME NEW o \in Seq(Windows), NEW a \in Chunk, NEW v \in Seq(Chunk), NEW c \in Chunk,
         NEW k \in Both
  PROVE  Through(o, a, Append(v, c), k) = Through(o, a, Append(v, Nothing), k) \o c[k]
  <1>1. /\ \A x \in Chunk : x[k] \in Seq(Items)
        /\ \A x \in Windows : x[k] \in Seq(Items)
        /\ Nothing \in Chunk /\ Nothing[k] = <<>>
    BY ChunkFacts
  <1>2. /\ Spread(Append(v, c), k) = Spread(v, k) \o c[k]
        /\ Spread(Append(v, Nothing), k) = Spread(v, k) \o <<>>
    BY <1>1, SpreadAppend
  <1>3. Spread(v, k) \in Seq(Items) /\ Spread(o, k) \in Seq(Items)
    BY <1>1, SpreadFacts
  <1>4. a[k] \in Seq(Items) /\ c[k] \in Seq(Items)
    BY <1>1
  <1>5. Spread(v, k) \o <<>> = Spread(v, k)
    BY <1>3
  <1>6. (Spread(o, k) \o a[k]) \in Seq(Items)
    BY <1>3, <1>4
  <1>7. (Spread(o, k) \o a[k]) \o (Spread(v, k) \o c[k]) = ((Spread(o, k) \o a[k]) \o Spread(v, k)) \o c[k]
    BY <1>3, <1>4, <1>6, ItemsAssoc
  <1> QED  BY <1>2, <1>5, <1>7 DEF Through

\* A place for the next chunk adds nothing to what comes through.
LEMMA ThroughPut ==
  ASSUME NEW o \in Seq(Windows), NEW a \in Chunk, NEW v \in Seq(Chunk), NEW k \in Both
  PROVE  /\ Through(o, a, Append(v, Nothing), k) = Through(o, a, v, k)
         /\ Through(o, a, v, k) \in Seq(Items)
  <1>1. /\ \A x \in Chunk : x[k] \in Seq(Items)
        /\ \A x \in Windows : x[k] \in Seq(Items)
        /\ Nothing \in Chunk /\ Nothing[k] = <<>>
    BY ChunkFacts
  <1>2. Spread(Append(v, Nothing), k) = Spread(v, k) \o <<>>
    BY <1>1, SpreadAppend
  <1>3. Spread(v, k) \in Seq(Items) /\ Spread(o, k) \in Seq(Items)
    BY <1>1, SpreadFacts
  <1>4. Spread(v, k) \o <<>> = Spread(v, k) /\ a[k] \in Seq(Items)
    BY <1>1, <1>3
  <1>5. (Spread(o, k) \o a[k]) \o Spread(v, k) \in Seq(Items)
    BY <1>3, <1>4
  <1> QED  BY <1>2, <1>4, <1>5 DEF Through

\* The next chunk in flight is appended to what waits to be cut, or handed on.
LEMMA ThroughArrive ==
  ASSUME NEW o \in Seq(Windows), NEW a \in Chunk, NEW w \in Seq(Chunk), w # <<>>, NEW k \in Both
  PROVE  /\ Through(o, Join(a, Head(w)), Tail(w), k) = Through(o, a, w, k)
         /\ a[k] = <<>> => \A x \in Windows : x[k] = Head(w)[k] =>
               Through(Append(o, x), a, Tail(w), k) = Through(o, a, w, k)
  <1>1. /\ \A x \in Chunk : x[k] \in Seq(Items)
        /\ \A x \in Windows : x[k] \in Seq(Items)
    BY ChunkFacts
  <1>2. Head(w) \in Chunk /\ Tail(w) \in Seq(Chunk)
    OBVIOUS
  <1>3. Spread(w, k) = Head(w)[k] \o Spread(Tail(w), k)
    BY <1>1, SpreadTail
  <1>4. Spread(Tail(w), k) \in Seq(Items) /\ Spread(o, k) \in Seq(Items)
    BY <1>1, <1>2, SpreadFacts
  <1>5. a[k] \in Seq(Items) /\ Head(w)[k] \in Seq(Items)
    BY <1>1, <1>2
  <1> DEFINE p == Spread(o, k)
             b == a[k]
             h == Head(w)[k]
             z == Spread(Tail(w), k)
  <1>6. p \in Seq(Items) /\ b \in Seq(Items) /\ h \in Seq(Items) /\ z \in Seq(Items)
    BY <1>4, <1>5
  <1>7. Join(a, Head(w))[k] = b \o h
    BY <1>2, JoinFacts
  <1>8. ASSUME b = <<>>, NEW x \in Windows, x[k] = h
        PROVE  Through(Append(o, x), a, Tail(w), k) = Through(o, a, w, k)
    <2>1. Spread(Append(o, x), k) = p \o h
      BY <1>1, <1>8, SpreadAppend
    <2> HIDE DEF p, h, z
    <2>2. (p \o h) \o <<>> = p \o h /\ p \o <<>> = p
      BY <1>6
    <2>3. (p \o h) \o z = p \o (h \o z)
      BY <1>6, ItemsAssoc, SMTT(30), ZenonT(30)
    <2> QED  BY <1>3, <1>8, <2>1, <2>2, <2>3 DEF Through, p, h, z
  <1> HIDE DEF p, b, h, z
  <1>9. (p \o (b \o h)) \o z = (p \o b) \o (h \o z)
    <2>1. p \o b \in Seq(Items)
      BY <1>6
    <2>2. p \o (b \o h) = (p \o b) \o h
      BY <1>6, ItemsAssoc
    <2>3. ((p \o b) \o h) \o z = (p \o b) \o (h \o z)
      BY <1>6, <2>1, ItemsAssoc
    <2> QED  BY <2>2, <2>3
  <1>10. Through(o, Join(a, Head(w)), Tail(w), k) = (p \o (b \o h)) \o z
    BY <1>7 DEF Through, p, z
  <1>11. Through(o, a, w, k) = (p \o b) \o (h \o z)
    BY <1>3 DEF Through, p, b, h, z
  <1>12. Through(o, Join(a, Head(w)), Tail(w), k) = Through(o, a, w, k)
    BY <1>9, <1>10, <1>11
  <1> QED  BY <1>8, <1>12 DEF b, h

\* A window is cut off what waits.
LEMMA ThroughCut ==
  ASSUME NEW o \in Seq(Windows), NEW a \in Chunk, NEW b \in Chunk, NEW w \in Seq(Chunk),
         NEW x \in Windows, NEW k \in Both, a[k] = x[k] \o b[k]
  PROVE  Through(Append(o, x), b, w, k) = Through(o, a, w, k)
  <1>1. /\ \A y \in Chunk : y[k] \in Seq(Items)
        /\ \A y \in Windows : y[k] \in Seq(Items)
    BY ChunkFacts
  <1>2. Spread(Append(o, x), k) = Spread(o, k) \o x[k]
    BY <1>1, SpreadAppend
  <1>3. Spread(o, k) \in Seq(Items) /\ x[k] \in Seq(Items) /\ b[k] \in Seq(Items)
    BY <1>1, SpreadFacts
  <1>4. (Spread(o, k) \o x[k]) \o b[k] = Spread(o, k) \o (x[k] \o b[k])
    BY <1>3, ItemsAssoc
  <1> QED  BY <1>2, <1>4 DEF Through

-----------------------------------------------------------------------------
(* The end in the queue.                                                   *)

\* Nothing is put yet, or there is no worker.
LEMMA EndsNone ==
  ASSUME NEW s, NEW at, NEW async, ~async \/ s # "failed"
  PROVE  Ends(Append(<<>>, Sentinel), s, async, at)
  <1> DEFINE v == <<Sentinel>>
  <1>1. Append(<<>>, Sentinel) = v /\ Len(v) = 1 /\ v[1] = Sentinel
    OBVIOUS
  <1> HIDE DEF v
  <1>2. /\ \A i \in 1 .. Len(v) : i = 1 /\ v[i] = Sentinel
        /\ \A i \in 1 .. Len(v) - 1 : FALSE
    BY <1>1
  <1>3. Sentinel # Failure
    BY BodiesFacts
  <1>4. \A i, j \in 1 .. Len(v) : i < j /\ v[i] \in {Sentinel, Failure} => v[j] = Sentinel
    BY <1>2
  <1>5. \A i \in 1 .. Len(v) - 1 : v[i] \in {Sentinel, Failure} => s # "open"
    BY <1>2
  <1>6. \A i \in 1 .. Len(v) : v[i] = Failure => s = "failed"
    BY <1>2, <1>3
  <1>7. at \in {"rest", "ended", "raised"} => \A i \in 1 .. Len(v) : v[i] = Sentinel
    BY <1>2
  <1>8. Ends(v, s, async, at)
    BY <1>4, <1>5, <1>6, <1>7, Zenon DEF Ends
  <1> QED  BY <1>1, <1>8

\* The worker has something else in its hands: a chunk, when it has pulled one.
LEMMA EndsSend ==
  ASSUME NEW v \in Seq(Messages), NEW m \in Messages, NEW async, NEW at,
         Ends(Append(v, Sentinel), "open", async, at), at \notin {"rest", "ended", "raised"},
         m \notin {Sentinel, Failure}
  PROVE  Ends(Append(v, m), "open", async, at)
  <1>1. /\ Len(v) \in Nat /\ Len(Append(v, m)) = Len(v) + 1 /\ Append(v, m)[Len(v) + 1] = m
        /\ \A i \in 1 .. Len(v) : Append(v, m)[i] = v[i]
    OBVIOUS
  <1>2. Sentinel \in Messages
    BY BodiesFacts
  <1>3. /\ Len(Append(v, Sentinel)) = Len(v) + 1 /\ Append(v, Sentinel)[Len(v) + 1] = Sentinel
        /\ \A i \in 1 .. Len(v) : Append(v, Sentinel)[i] = v[i]
    BY <1>2
  <1>4. \A i \in 1 .. Len(v) : v[i] \notin {Sentinel, Failure}
    BY <1>1, <1>3 DEF Ends
  <1> QED  BY <1>1, <1>4 DEF Ends

\* Or the end, when there is no more.
LEMMA EndsStop ==
  ASSUME NEW v \in Seq(Messages), NEW m \in Messages, NEW async, NEW at, NEW s,
         Ends(Append(v, Sentinel), "open", async, at), at \notin {"rest", "ended", "raised"},
         s \in {"done", "failed"}, m = IF s = "failed" THEN Failure ELSE Sentinel
  PROVE  Ends(Append(v, m), s, async, at)
  <1>1. /\ Len(v) \in Nat /\ Len(Append(v, m)) = Len(v) + 1 /\ Append(v, m)[Len(v) + 1] = m
        /\ \A i \in 1 .. Len(v) : Append(v, m)[i] = v[i]
    OBVIOUS
  <1>2. Sentinel \in Messages /\ Sentinel # Failure
    BY BodiesFacts
  <1>3. /\ Len(Append(v, Sentinel)) = Len(v) + 1 /\ Append(v, Sentinel)[Len(v) + 1] = Sentinel
        /\ \A i \in 1 .. Len(v) : Append(v, Sentinel)[i] = v[i]
    BY <1>2
  <1>4. \A i \in 1 .. Len(v) : v[i] \notin {Sentinel, Failure}
    BY <1>1, <1>3 DEF Ends
  <1> QED  BY <1>1, <1>2, <1>4 DEF Ends

\* What it holds is put, and it holds the sentinel.
LEMMA EndsPut ==
  ASSUME NEW q \in Seq(Messages), NEW m \in Messages, NEW s, NEW async, NEW at,
         Ends(Append(q, m), s, async, at), m \in {Sentinel, Failure} => s # "open"
  PROVE  Ends(Append(Append(q, m), Sentinel), s, async, at)
  <1> DEFINE v == Append(q, m)
             w == Append(v, Sentinel)
  <1>1. Sentinel \in Messages /\ Sentinel # Failure
    BY BodiesFacts
  <1>2. v \in Seq(Messages) /\ Len(v) \in Nat /\ v[Len(v)] = m /\ Len(v) - 1 \in Nat
    OBVIOUS
  <1> HIDE DEF v
  <1>3. Len(w) = Len(v) + 1 /\ w[Len(v) + 1] = Sentinel /\ \A i \in 1 .. Len(v) : w[i] = v[i]
    BY <1>1, <1>2
  <1> HIDE DEF w
  <1>4. Ends(v, s, async, at)
    BY DEF v
  <1>5. \A i \in 1 .. Len(w) : i \in 1 .. Len(v) \/ i = Len(v) + 1
    BY <1>2, <1>3
  <1>6. ASSUME NEW i \in 1 .. Len(w), NEW j \in 1 .. Len(w), i < j, w[i] \in {Sentinel, Failure}
        PROVE  w[j] = Sentinel
    BY <1>2, <1>3, <1>4, <1>5, <1>6 DEF Ends
  <1>7. ASSUME NEW i \in 1 .. Len(w) - 1, w[i] \in {Sentinel, Failure}
        PROVE  s # "open"
    <2>1. i \in 1 .. Len(v) - 1 \/ i = Len(v)
      BY <1>2, <1>3
    <2> QED  BY <1>2, <1>3, <1>4, <1>7, <2>1 DEF Ends
  <1>8. /\ \A i \in 1 .. Len(w) : w[i] = Failure => s = "failed"
        /\ at \in {"rest", "ended", "raised"} => \A i \in 1 .. Len(w) : w[i] = Sentinel
    BY <1>1, <1>3, <1>4, <1>5 DEF Ends
  <1>9. ASSUME async, s = "failed", at # "raised"
        PROVE  \E i \in 1 .. Len(w) : w[i] = Failure
    <2>1. PICK i \in 1 .. Len(v) : v[i] = Failure
      BY <1>4, <1>9 DEF Ends
    <2>2. i \in 1 .. Len(w) /\ w[i] = Failure
      BY <1>2, <1>3, <2>1
    <2> QED  BY <2>2
  <1>10. Ends(w, s, async, at)
    BY <1>6, <1>7, <1>8, <1>9 DEF Ends
  <1> QED  BY <1>10 DEF w, v

\* The consumer takes the first; the end is true.
LEMMA EndsTake ==
  ASSUME NEW v \in Seq(Messages), 1 < Len(v), NEW s \in {"open", "done", "failed"}, NEW at,
         Ends(v, s, TRUE, at), at # "raised"
  PROVE  /\ v[1] \notin {Sentinel, Failure} =>
              \A to : to \notin {"rest", "ended", "raised"} => Ends(Tail(v), s, TRUE, to)
         /\ v[1] = Sentinel => s = "done" /\ \A to : to # "raised" => Ends(Tail(v), s, TRUE, to)
         /\ v[1] = Failure => s = "failed" /\ Ends(Tail(v), s, TRUE, "raised")
  <1> DEFINE w == Tail(v)
  <1>1. /\ Len(v) \in Nat /\ Len(w) = Len(v) - 1 /\ Len(w) \in Nat
        /\ \A i \in 1 .. Len(w) : w[i] = v[i + 1] /\ i + 1 \in 1 .. Len(v)
    OBVIOUS
  <1>2. Sentinel # Failure
    BY BodiesFacts
  <1> HIDE DEF w
  <1>3. ASSUME NEW i \in 1 .. Len(w), NEW j \in 1 .. Len(w), i < j, w[i] \in {Sentinel, Failure}
        PROVE  w[j] = Sentinel
    <2>1. i + 1 < j + 1 /\ i + 1 \in 1 .. Len(v) /\ j + 1 \in 1 .. Len(v)
      BY <1>1, <1>3
    <2> QED  BY <1>1, <1>3, <2>1 DEF Ends
  <1>4. ASSUME NEW i \in 1 .. Len(w) - 1, w[i] \in {Sentinel, Failure}
        PROVE  s # "open"
    <2>1. i + 1 \in 1 .. Len(v) - 1 /\ i \in 1 .. Len(w)
      BY <1>1
    <2> QED  BY <1>1, <1>4, <2>1 DEF Ends
  <1>5. \A i \in 1 .. Len(w) : w[i] = Failure => s = "failed"
    BY <1>1 DEF Ends
  <1>6. 1 \in 1 .. Len(v) /\ 1 \in 1 .. Len(v) - 1
    BY <1>1
  <1>7. v[1] \in {Sentinel, Failure} =>
          s # "open" /\ \A i \in 1 .. Len(w) : w[i] = Sentinel
    <2>1. \A j \in 1 .. Len(w) : 1 < j + 1
      BY <1>1
    <2> QED  BY <1>1, <1>6, <2>1 DEF Ends
  <1>8. s = "failed" /\ v[1] # Failure => \E i \in 1 .. Len(w) : w[i] = Failure
    <2>1. SUFFICES ASSUME s = "failed", v[1] # Failure
                   PROVE  \E i \in 1 .. Len(w) : w[i] = Failure
      OBVIOUS
    <2>2. PICK i \in 1 .. Len(v) : v[i] = Failure
      BY <2>1 DEF Ends
    <2>3. i - 1 \in 1 .. Len(w) /\ (i - 1) + 1 = i
      BY <1>1, <2>1, <2>2
    <2>4. w[i - 1] = Failure
      BY <1>1, <2>2, <2>3
    <2> QED  BY <2>3, <2>4
  <1>9. v[1] = Sentinel => s = "done"
    BY <1>2, <1>7, <1>8
  <1>10. v[1] = Failure => s = "failed"
    BY <1>6 DEF Ends
  <1>11. ASSUME NEW to, to = "raised" => v[1] = Failure,
                to \in {"rest", "ended", "raised"} => v[1] \in {Sentinel, Failure},
                v[1] = Failure => to = "raised"
         PROVE  Ends(w, s, TRUE, to)
    <2>1. TRUE /\ s = "failed" /\ to # "raised" => \E i \in 1 .. Len(w) : w[i] = Failure
      BY <1>8, <1>11
    <2>2. to \in {"rest", "ended", "raised"} => \A i \in 1 .. Len(w) : w[i] = Sentinel
      BY <1>7, <1>11
    <2> QED  BY <1>3, <1>4, <1>5, <2>1, <2>2 DEF Ends
  <1>12. v[1] \notin {Sentinel, Failure} =>
            \A to : to \notin {"rest", "ended", "raised"} => Ends(w, s, TRUE, to)
    BY <1>11
  <1>13. v[1] = Sentinel => \A to : to # "raised" => Ends(w, s, TRUE, to)
    BY <1>2, <1>11
  <1>14. v[1] = Failure => Ends(w, s, TRUE, "raised")
    BY <1>2, <1>11
  <1> QED  BY <1>9, <1>10, <1>12, <1>13, <1>14 DEF w

-----------------------------------------------------------------------------
(* What each action does, in terms of the chunks on their way.             *)

\* What is in flight is a sequence of chunks.
LEMMA FlightFacts ==
  ASSUME TypeInv
  PROVE  /\ Flight \in Seq(Chunk) /\ Bodies(queue) \in Seq(Chunk)
         /\ Flight = Append(Bodies(queue), Body(item)) /\ Body(item) \in Chunk
         /\ opt.skew => opt.skip = "none"
  <1>1. queue \in Seq(Messages) /\ item \in Messages
    BY DEF TypeInv
  <1>2. Body(item) \in Chunk
    BY <1>1, BodiesFacts
  <1>3. Bodies(queue) \in Seq(Chunk) /\ Flight = Append(Bodies(queue), Body(item))
    BY <1>1, BodiesPut DEF Flight
  <1>4. Append(Bodies(queue), Body(item)) \in Seq(Chunk)
    BY <1>2, <1>3
  <1> QED  BY <1>2, <1>3, <1>4 DEF TypeInv

\* The next chunk of the file, and what the skipping stage leaves of it: c.
Sent(c) ==
  /\ c \in Chunk /\ Tidy(c) /\ Within(c, file') /\ Follows(opt.skew, file, c)
  /\ file' \in Chunk /\ Tidy(file') /\ Within(file, file')
  /\ skip' \in [on : BOOLEAN, seen : Nat]
  /\ Kept(opt.skip, skip', file', Through(out, acc, Flight, "ev") \o c.ev,
                                  Through(out, acc, Flight, "tr") \o c.tr)
  /\ src = "open" /\ src' = "open"

\* Whatever a stage leaves of the chunk that is decoded next, is sent.
LEMMA PullFacts ==
  ASSUME TypeInv, OrderInv, KeptInv, NEW s \in Chunks, NEW d, d = Decoded(s),
         NEW r, r = Skipped(d), Pull(d, r)
  PROVE  Sent(r.chunk) /\ r.drop \in BOOLEAN /\ (r.drop => r.chunk = Nothing)
  <1>1. opt \in Pipelines /\ (opt.skew => opt.skip = "none") /\ file \in Chunk
        /\ skip \in [on : BOOLEAN, seen : Nat]
    BY DEF TypeInv
  <1>2. Tidy(file)
    BY DEF OrderInv, InOrder
  <1>3. d \in Chunk /\ Tidy(d) /\ Follows(opt.skew, file, d)
    BY <1>1, <1>2, DecodedFacts
  <1> DEFINE e == Through(out, acc, Flight, "ev")
             q == Through(out, acc, Flight, "tr")
  <1>4. Kept(opt.skip, skip, file, e, q)
    BY DEF KeptInv
  <1> HIDE DEF e, q
  <1>5. SkipsRight(d, r, e, q)
    BY <1>1, <1>3, <1>4, SkippedFacts
  <1>6. file' = Join(file, d) /\ skip' = r.skip /\ src = "open" /\ src' = "open"
    BY DEF Pull, Join
  <1>7. Join(file, d) \in Chunk /\ Tidy(Join(file, d)) /\ Within(file, Join(file, d))
        /\ Within(d, Join(file, d))
    BY <1>1, <1>2, <1>3, JoinFacts, JoinOrder
  <1>8. r.chunk \in Chunk /\ Tidy(r.chunk) /\ Within(r.chunk, d)
        /\ r.skip \in [on : BOOLEAN, seen : Nat]
        /\ r.drop \in BOOLEAN /\ (r.drop => r.chunk = Nothing)
        /\ Kept(opt.skip, r.skip, Join(file, d), e \o r.chunk.ev, q \o r.chunk.tr)
    BY <1>5 DEF SkipsRight
  <1>9. Within(r.chunk, Join(file, d))
    BY <1>7, <1>8, WithinTrans
  <1>10. Follows(opt.skew, file, r.chunk)
    <2>1. Within(file, file)
      BY DEF Within
    <2> QED  BY <1>3, <1>8, <2>1, FollowsPieces
  <1> QED  BY <1>6, <1>7, <1>8, <1>9, <1>10 DEF Sent, e, q

\* The worker has a chunk in its hands, instead of nothing.
LEMMA WorkerPullDoes ==
  ASSUME Core, WorkerPull
  PROVE  /\ TypeInv' /\ EndInv'
         /\ opt' = opt /\ acc' = acc /\ anchor' = anchor /\ pc' = pc /\ out' = out
         /\ pc \notin {"rest", "ended", "raised"}
         /\ \E v \in Seq(Chunk), c \in Chunk :
              Sent(c) /\ Flight = Append(v, Nothing) /\ Flight' = Append(v, c)
  <1>0. TypeInv /\ EndInv /\ OrderInv /\ KeptInv
    BY DEF Core
  <1>1. PICK s \in Chunks : \E d \in {Decoded(s)} : \E r \in {Skipped(d)} :
           /\ Pull(d, r)
           /\ IF r.drop THEN UNCHANGED <<worker, item>>
              ELSE worker' = "put" /\ item' = Copied(r.chunk)
    BY DEF WorkerPull
  <1>2. PICK d, r : /\ d = Decoded(s) /\ r = Skipped(d) /\ Pull(d, r)
                    /\ IF r.drop THEN worker' = worker /\ item' = item
                       ELSE worker' = "put" /\ item' = Copied(r.chunk)
    BY <1>1
  <1>3. Sent(r.chunk) /\ r.drop \in BOOLEAN /\ (r.drop => r.chunk = Nothing)
    BY <1>0, <1>2, PullFacts
  <1> DEFINE c == r.chunk
             v == Bodies(queue)
  <1>4. /\ worker = "pull" /\ opt' = opt /\ queue' = queue /\ acc' = acc /\ anchor' = anchor
        /\ pc' = pc /\ out' = out
    BY DEF WorkerPull, cvars
  <1>5. c \in Chunk /\ src = "open" /\ src' = "open" /\ file' \in Chunk
        /\ skip' \in [on : BOOLEAN, seen : Nat]
    BY <1>3 DEF Sent
  <1>6. item = Sentinel /\ pc \notin {"rest", "ended", "raised"}
    BY <1>0, <1>4, <1>5 DEF EndInv, Control
  <1>7. v \in Seq(Chunk) /\ Flight = Append(v, Nothing)
    BY <1>0, <1>6, FlightFacts, BodiesFacts
  <1>8. queue \in Seq(Messages) /\ opt \in Pipelines
    BY <1>0 DEF TypeInv
  <1>9. Copied(c) \in Messages /\ Copied(c) \notin {Sentinel, Failure} /\ Body(Copied(c)) = c
        /\ Sentinel \in Messages
    BY <1>5, BodiesFacts
  <1> HIDE DEF v, c
  <1>10. CASE r.drop
    <2>1. c = Nothing /\ worker' = worker /\ item' = item
      BY <1>2, <1>3, <1>10 DEF c
    <2>2. Flight' = Flight
      BY <1>4, <2>1 DEF Flight
    <2>3. TypeInv'
      BY <1>0, <1>4, <1>5, <2>1 DEF TypeInv
    <2>4. Control'
      BY <1>0, <1>4, <1>5, <2>1 DEF EndInv, Control
    <2>5. Ends(Append(queue, item), src, opt.async, pc)'
      BY <1>0, <1>4, <1>5, <2>1 DEF EndInv
    <2> QED  BY <1>3, <1>4, <1>5, <1>6, <1>7, <2>1, <2>2, <2>3, <2>4, <2>5 DEF EndInv, c
  <1>11. CASE ~r.drop
    <2>1. worker' = "put" /\ item' = Copied(c)
      BY <1>2, <1>11 DEF c
    <2>2. Flight' = Append(v, c)
      <3>1. Bodies(Append(queue, Copied(c))) = Append(v, c)
        BY <1>8, <1>9, BodiesPut DEF v
      <3> QED  BY <1>4, <2>1, <3>1 DEF Flight
    <2>3. TypeInv'
      BY <1>0, <1>4, <1>5, <1>9, <2>1 DEF TypeInv
    <2>4. Control'
      BY <1>0, <1>4, <1>5, <1>6, <1>9, <2>1 DEF EndInv, Control
    <2>5. Ends(Append(queue, Sentinel), "open", opt.async, pc)
      BY <1>0, <1>5, <1>6 DEF EndInv
    <2>6. Ends(Append(queue, Copied(c)), "open", opt.async, pc)
      BY <1>6, <1>8, <1>9, <2>5, EndsSend
    <2>7. Ends(Append(queue, item), src, opt.async, pc)'
      BY <1>4, <1>5, <2>1, <2>6
    <2> QED  BY <1>3, <1>4, <1>5, <1>6, <1>7, <2>2, <2>3, <2>4, <2>7 DEF EndInv, c
  <1> QED  BY <1>3, <1>10, <1>11

\* The worker has the end in its hands, instead of nothing.
LEMMA WorkerStopsDoes ==
  ASSUME Core, WorkerStops
  PROVE  /\ TypeInv' /\ EndInv'
         /\ opt' = opt /\ acc' = acc /\ anchor' = anchor /\ pc' = pc /\ out' = out
         /\ file' = file /\ skip' = skip /\ Flight' = Flight
  <1>1. TypeInv /\ EndInv
    BY DEF Core
  <1>2. /\ worker = "pull" /\ worker' = "put" /\ opt' = opt /\ queue' = queue /\ acc' = acc
        /\ anchor' = anchor /\ pc' = pc /\ out' = out /\ file' = file /\ skip' = skip
        /\ src = "open" /\ src' \in {"done", "failed"}
        /\ item' = IF src' = "failed" THEN Failure ELSE Sentinel
    BY DEF WorkerStops, PullEnd, cvars
  <1>3. item = Sentinel /\ pc \notin {"rest", "ended", "raised"}
    BY <1>1, <1>2 DEF EndInv, Control
  <1>4. /\ Sentinel \in Messages /\ Failure \in Messages
        /\ Body(Sentinel) = Nothing /\ Body(Failure) = Nothing
    BY BodiesFacts
  <1>5. queue \in Seq(Messages) /\ item' \in Messages /\ Body(item') = Body(item)
    BY <1>1, <1>2, <1>3, <1>4 DEF TypeInv
  <1>6. Flight' = Flight
    <2>1. Bodies(Append(queue, item')) = Append(Bodies(queue), Body(item'))
      BY <1>5, BodiesPut
    <2>2. Bodies(Append(queue, item)) = Append(Bodies(queue), Body(item))
      BY <1>1, FlightFacts DEF Flight
    <2>3. Bodies(Append(queue, item')) = Bodies(Append(queue, item))
      BY <1>5, <2>1, <2>2
    <2> QED  BY <1>2, <2>3 DEF Flight
  <1>7. TypeInv'
    BY <1>1, <1>2, <1>5 DEF TypeInv
  <1>8. Control'
    BY <1>1, <1>2, <1>3 DEF EndInv, Control
  <1>9. Ends(Append(queue, item), src, opt.async, pc)'
    <2>1. Ends(Append(queue, Sentinel), "open", opt.async, pc)
      BY <1>1, <1>2, <1>3 DEF EndInv
    <2>2. Ends(Append(queue, item'), src', opt.async, pc)
      BY <1>2, <1>3, <1>5, <2>1, EndsStop
    <2> QED  BY <1>2, <2>2
  <1> QED  BY <1>2, <1>6, <1>7, <1>8, <1>9 DEF EndInv

\* What the worker has in its hands is put in the queue.
LEMMA WorkerPutDoes ==
  ASSUME Core, WorkerPut
  PROVE  /\ TypeInv' /\ EndInv'
         /\ opt' = opt /\ acc' = acc /\ anchor' = anchor /\ pc' = pc /\ out' = out
         /\ file' = file /\ skip' = skip /\ Flight' = Append(Flight, Nothing)
  <1>1. TypeInv /\ EndInv
    BY DEF Core
  <1>2. /\ worker = "put" /\ opt' = opt /\ queue' = Append(queue, item) /\ acc' = acc
        /\ anchor' = anchor /\ pc' = pc /\ out' = out /\ file' = file /\ skip' = skip
        /\ src' = src /\ item' = Sentinel
        /\ worker' = IF item = Sentinel THEN "exited" ELSE IF item = Failure THEN "put" ELSE "pull"
    <2>1. Sentinel # Failure
      BY BodiesFacts
    <2> QED  BY <2>1 DEF WorkerPut, cvars, svars
  <1>3. /\ Sentinel \in Messages /\ Sentinel # Failure /\ Body(Sentinel) = Nothing
    BY BodiesFacts
  <1>4. queue \in Seq(Messages) /\ item \in Messages /\ Append(queue, item) \in Seq(Messages)
    BY <1>1 DEF TypeInv
  <1>5. Flight' = Append(Flight, Nothing)
    <2>1. Bodies(Append(Append(queue, item), Sentinel)) = Append(Bodies(Append(queue, item)), Nothing)
      BY <1>3, <1>4, BodiesPut
    <2> QED  BY <1>2, <2>1 DEF Flight
  <1>6. TypeInv'
    BY <1>1, <1>2, <1>3, <1>4 DEF TypeInv
  <1>7. item \in {Sentinel, Failure} => src # "open"
    BY <1>1, <1>2 DEF EndInv, Control
  <1>8. Control'
    BY <1>1, <1>2, <1>3, <1>7 DEF TypeInv, EndInv, Control
  <1>9. Ends(Append(queue, item), src, opt.async, pc)'
    <2>1. Ends(Append(Append(queue, item), Sentinel), src, opt.async, pc)
      BY <1>1, <1>4, <1>7, EndsPut DEF EndInv
    <2> QED  BY <1>2, <2>1
  <1> QED  BY <1>2, <1>5, <1>6, <1>8, <1>9 DEF EndInv

\* A chunk has come to the cutting stage, or is handed out.
Got(c) ==
  /\ anchor' = anchor
  /\ \/ /\ opt.cut = "none" /\ acc = Nothing /\ acc' = acc
        /\ out' = Append(out, Window(c.ev, c.tr, None)) /\ pc' = "held"
     \/ opt.cut # "none" /\ acc' = Join(acc, c) /\ out' = out /\ pc' = "cut"

\* Without a cutting stage the chunk is the window, with one it is appended.
LEMMA GotFacts ==
  ASSUME Core, NEW c \in Chunk, Received(c)
  PROVE  /\ Got(c) /\ acc' \in Chunk /\ anchor' \in Nat \cup {None}
         /\ pc' \in {"cut", "held"} /\ out' \in Seq(Windows)
         /\ (opt.cut = "none" => acc' = Nothing /\ pc' = "held")
         /\ Window(c.ev, c.tr, None) \in Windows
         /\ \A k \in Both : Window(c.ev, c.tr, None)[k] = c[k]
  <1>1. TypeInv /\ Control
    BY DEF Core, EndInv
  <1>2. c.ev \in Seq(Items) /\ c.tr \in Seq(Items)
    BY DEF Chunk
  <1>3. Window(c.ev, c.tr, None) \in Windows
    BY <1>2 DEF Window, Windows
  <1>4. \A k \in Both : Window(c.ev, c.tr, None)[k] = c[k]
    BY DEF Window, Both
  <1>5. acc \in Chunk /\ Join(acc, c) \in Chunk
    BY <1>1, JoinFacts DEF TypeInv
  <1>6. anchor \in Nat \cup {None} /\ out \in Seq(Windows)
    BY <1>1 DEF TypeInv
  <1>7. CASE opt.cut = "none"
    <2>1. /\ acc = Nothing /\ acc' = acc /\ anchor' = anchor
          /\ out' = Append(out, Window(c.ev, c.tr, None)) /\ pc' = "held"
      BY <1>1, <1>7 DEF Received, Control
    <2> QED  BY <1>3, <1>4, <1>5, <1>6, <1>7, <2>1 DEF Got
  <1>8. CASE opt.cut # "none"
    <2>1. acc' = Join(acc, c) /\ out' = out /\ pc' = "cut" /\ anchor' = anchor
      BY <1>8 DEF Received, Join
    <2> QED  BY <1>3, <1>4, <1>5, <1>6, <1>8, <2>1 DEF Got
  <1> QED  BY <1>7, <1>8

\* Without a worker the next chunk is at the cutting stage at once.
LEMMA ConsumerPullDoes ==
  ASSUME Core, ConsumerPull
  PROVE  /\ TypeInv' /\ EndInv' /\ opt' = opt /\ pc = "pull"
         /\ Flight = Append(<<>>, Nothing) /\ Flight' = Flight
         /\ \E c \in Chunk :
              /\ Sent(c)
              /\ \/ /\ c = Nothing /\ acc' = acc /\ anchor' = anchor /\ pc' = pc /\ out' = out
                 \/ Got(c) /\ Window(c.ev, c.tr, None) \in Windows
                    /\ \A k \in Both : Window(c.ev, c.tr, None)[k] = c[k]
  <1>0. TypeInv /\ EndInv /\ OrderInv /\ KeptInv
    BY DEF Core
  <1>1. PICK s \in Chunks : \E d \in {Decoded(s)} : \E r \in {Skipped(d)} :
           /\ Pull(d, r)
           /\ IF r.drop THEN UNCHANGED cvars ELSE Received(r.chunk)
    BY DEF ConsumerPull
  <1>2. PICK d, r : /\ d = Decoded(s) /\ r = Skipped(d) /\ Pull(d, r)
                    /\ IF r.drop THEN UNCHANGED cvars ELSE Received(r.chunk)
    BY <1>1
  <1>3. Sent(r.chunk) /\ r.drop \in BOOLEAN /\ (r.drop => r.chunk = Nothing)
    BY <1>0, <1>2, PullFacts
  <1> DEFINE c == r.chunk
  <1>4. /\ pc = "pull" /\ ~opt.async /\ opt' = opt /\ queue' = queue /\ item' = item
        /\ worker' = worker
    BY DEF ConsumerPull, avars
  <1>5. c \in Chunk /\ src = "open" /\ src' = "open" /\ file' \in Chunk
        /\ skip' \in [on : BOOLEAN, seen : Nat]
    BY <1>3 DEF Sent
  <1>6. queue = <<>> /\ item = Sentinel /\ worker = "exited"
    BY <1>0, <1>4 DEF EndInv, Control
  <1>7. Flight = Append(<<>>, Nothing) /\ Flight' = Flight
    <2>1. Bodies(<<>>) = <<>>
      BY DEF Bodies
    <2>2. Flight = Append(<<>>, Nothing)
      BY <1>0, <1>6, <2>1, FlightFacts, BodiesFacts
    <2>3. Flight' = Flight
      BY <1>4 DEF Flight
    <2> QED  BY <2>2, <2>3
  <1> HIDE DEF c
  <1>8. /\ acc' \in Chunk /\ anchor' \in Nat \cup {None} /\ out' \in Seq(Windows)
        /\ pc' \in {"pull", "cut", "held"}
        /\ opt.cut = "none" => acc' = Nothing /\ pc' # "cut"
        /\ \/ c = Nothing /\ acc' = acc /\ anchor' = anchor /\ pc' = pc /\ out' = out
           \/ Got(c) /\ Window(c.ev, c.tr, None) \in Windows
              /\ \A k \in Both : Window(c.ev, c.tr, None)[k] = c[k]
    <2>1. CASE r.drop
      <3>1. c = Nothing /\ acc' = acc /\ anchor' = anchor /\ pc' = pc /\ out' = out
        BY <1>2, <1>3, <2>1 DEF cvars, c
      <3> QED  BY <1>0, <1>4, <3>1 DEF TypeInv, EndInv, Control
    <2>2. CASE ~r.drop
      <3>1. Received(c)
        BY <1>2, <2>2 DEF c
      <3> QED  BY <1>5, <3>1, GotFacts
    <2> QED  BY <1>3, <2>1, <2>2
  <1>9. TypeInv'
    BY <1>0, <1>4, <1>5, <1>8 DEF TypeInv
  <1>10. Control'
    BY <1>0, <1>4, <1>5, <1>6, <1>8 DEF EndInv, Control
  <1>11. Ends(Append(queue, item), src, opt.async, pc)'
    <2>1. Ends(Append(queue, item), src, opt.async, pc)
      BY <1>0 DEF EndInv
    <2>2. Ends(Append(queue, item), src, opt.async, pc')
      BY <1>4, <1>8, <2>1 DEF Ends
    <2> QED  BY <1>4, <1>5, <2>2
  <1>12. EndInv'
    BY <1>10, <1>11 DEF EndInv
  <1> QED  BY <1>3, <1>4, <1>5, <1>7, <1>8, <1>9, <1>12 DEF c

\* Without a worker the consumer comes to the end of the file itself.
LEMMA ConsumerStopsDoes ==
  ASSUME Core, ConsumerStops
  PROVE  /\ TypeInv' /\ EndInv' /\ opt' = opt /\ pc = "pull" /\ pc' \in {"rest", "ended", "raised"}
         /\ acc' = acc /\ anchor' = anchor /\ out' = out
         /\ file' = file /\ skip' = skip /\ Flight' = Flight
  <1>1. TypeInv /\ EndInv
    BY DEF Core
  <1>2. /\ pc = "pull" /\ ~opt.async /\ opt' = opt /\ queue' = queue /\ item' = item
        /\ worker' = worker /\ file' = file /\ skip' = skip /\ src' \in {"done", "failed"}
        /\ acc' = acc /\ anchor' = anchor /\ out' = out
        /\ pc' = IF src' = "failed" THEN "raised" ELSE IF opt.cut = "none" THEN "ended" ELSE "rest"
    BY DEF ConsumerStops, PullEnd, Stopped, avars
  <1>3. queue = <<>> /\ item = Sentinel /\ worker = "exited"
    BY <1>1, <1>2 DEF EndInv, Control
  <1>4. Flight' = Flight
    BY <1>2 DEF Flight
  <1>5. pc' \in {"rest", "ended", "raised"}
    BY <1>2
  <1>6. TypeInv'
    BY <1>1, <1>2, <1>5 DEF TypeInv
  <1>7. Control'
    BY <1>1, <1>2, <1>3 DEF EndInv, Control
  <1>8. Ends(Append(queue, item), src, opt.async, pc)'
    <2>1. Ends(Append(<<>>, Sentinel), src', opt.async, pc')
      BY <1>2, EndsNone
    <2> QED  BY <1>2, <1>3, <2>1
  <1> QED  BY <1>2, <1>4, <1>5, <1>6, <1>7, <1>8 DEF EndInv

\* The consumer takes what the worker put: a chunk, the failure or the sentinel.
LEMMA ConsumerGetDoes ==
  ASSUME Core, ConsumerGet
  PROVE  /\ TypeInv' /\ EndInv' /\ opt' = opt /\ pc = "pull"
         /\ file' = file /\ skip' = skip
         /\ Flight \in Seq(Chunk) /\ Flight # <<>> /\ Flight' = Tail(Flight)
         /\ \/ /\ Head(Flight) = Nothing /\ acc' = acc /\ anchor' = anchor /\ out' = out
               /\ pc' \in {"rest", "ended", "raised"}
            \/ /\ Got(Head(Flight))
               /\ Window(Head(Flight).ev, Head(Flight).tr, None) \in Windows
               /\ \A k \in Both :
                     Window(Head(Flight).ev, Head(Flight).tr, None)[k] = Head(Flight)[k]
  <1>1. TypeInv /\ EndInv
    BY DEF Core
  <1>2. /\ pc = "pull" /\ opt.async /\ queue # <<>> /\ queue' = Tail(queue) /\ opt' = opt
        /\ file' = file /\ skip' = skip /\ src' = src /\ item' = item /\ worker' = worker
        /\ Head(queue) = Sentinel => Stopped("done")
        /\ Head(queue) = Failure => Stopped("failed")
        /\ Head(queue) \notin {Sentinel, Failure} => Received(Contents(Head(queue)))
    <2>1. Sentinel # Failure
      BY BodiesFacts
    <2> QED  BY <2>1 DEF ConsumerGet, svars
  <1>3. /\ queue \in Seq(Messages) /\ item \in Messages /\ opt \in Pipelines
        /\ src \in {"open", "done", "failed"}
    BY <1>1 DEF TypeInv
  <1>4. Head(queue) \in Messages /\ Tail(queue) \in Seq(Messages)
    BY <1>2, <1>3
  <1> DEFINE v == Append(queue, item)
             h == Head(Flight)
  <1>5. /\ v \in Seq(Messages) /\ 1 < Len(v) /\ v[1] = Head(queue)
        /\ Tail(v) = Append(Tail(queue), item)
    BY <1>2, <1>3
  <1>6. Flight \in Seq(Chunk) /\ Flight # <<>> /\ Flight' = Tail(Flight) /\ h = Body(Head(queue))
    <2>1. /\ Bodies(Append(Tail(queue), item)) = Tail(Bodies(Append(queue, item)))
          /\ Bodies(Append(queue, item)) # <<>>
          /\ Head(Bodies(Append(queue, item))) = Body(Head(queue))
      BY <1>2, <1>3, BodiesTake
    <2>2. Flight' = Bodies(Append(Tail(queue), item))
      BY <1>2 DEF Flight
    <2>3. Flight \in Seq(Chunk)
      BY <1>1, FlightFacts
    <2> QED  BY <2>1, <2>2, <2>3 DEF Flight
  <1>7. h \in Chunk
    BY <1>6
  <1>8. Ends(v, src, TRUE, pc)
    BY <1>1, <1>2 DEF EndInv
  <1> HIDE DEF v, h
  <1>9. /\ v[1] \notin {Sentinel, Failure} =>
              \A to : to \notin {"rest", "ended", "raised"} => Ends(Tail(v), src, TRUE, to)
        /\ v[1] = Sentinel => src = "done" /\ \A to : to # "raised" => Ends(Tail(v), src, TRUE, to)
        /\ v[1] = Failure => src = "failed" /\ Ends(Tail(v), src, TRUE, "raised")
    BY <1>2, <1>3, <1>5, <1>8, EndsTake
  <1>10. /\ acc' \in Chunk /\ anchor' \in Nat \cup {None} /\ out' \in Seq(Windows)
         /\ pc' \in {"cut", "held", "rest", "ended", "raised"}
         /\ opt.cut = "none" => acc' = Nothing /\ pc' # "cut" /\ pc' # "rest"
         /\ pc' \in {"rest", "ended"} => src = "done"
         /\ pc' = "ended" => acc' = Nothing
         /\ pc' = "raised" => src = "failed"
         /\ Ends(Tail(v), src, TRUE, pc')
         /\ \/ /\ h = Nothing /\ acc' = acc /\ anchor' = anchor /\ out' = out
               /\ pc' \in {"rest", "ended", "raised"}
            \/ Got(h) /\ Window(h.ev, h.tr, None) \in Windows
               /\ \A k \in Both : Window(h.ev, h.tr, None)[k] = h[k]
    <2>1. acc \in Chunk /\ anchor \in Nat \cup {None} /\ out \in Seq(Windows)
          /\ (opt.cut = "none" => acc = Nothing)
      BY <1>1 DEF TypeInv, EndInv, Control
    <2>2. CASE Head(queue) = Sentinel
      <3>1. /\ pc' = (IF opt.cut = "none" THEN "ended" ELSE "rest")
            /\ acc' = acc /\ anchor' = anchor /\ out' = out
        BY <1>2, <2>2 DEF Stopped
      <3>2. h = Nothing
        BY <1>6, <2>2, BodiesFacts
      <3>3. pc' # "raised" /\ v[1] = Sentinel
        BY <1>5, <2>2, <3>1
      <3>4. src = "done" /\ Ends(Tail(v), src, TRUE, pc')
        BY <1>9, <3>3
      <3> QED  BY <2>1, <3>1, <3>2, <3>4
    <2>3. CASE Head(queue) = Failure
      <3>1. pc' = "raised" /\ acc' = acc /\ anchor' = anchor /\ out' = out
        BY <1>2, <2>3 DEF Stopped
      <3>2. h = Nothing
        BY <1>6, <2>3, BodiesFacts
      <3>3. src = "failed" /\ Ends(Tail(v), src, TRUE, pc')
        BY <1>5, <1>9, <2>3, <3>1
      <3> QED  BY <2>1, <3>1, <3>2, <3>3
    <2>4. CASE Head(queue) \notin {Sentinel, Failure}
      <3>1. Contents(Head(queue)) = h
        BY <1>4, <1>6, <2>4, BodiesFacts
      <3>2. Received(h)
        BY <1>2, <2>4, <3>1
      <3>3. /\ Got(h) /\ acc' \in Chunk /\ anchor' \in Nat \cup {None}
            /\ pc' \in {"cut", "held"} /\ out' \in Seq(Windows)
            /\ (opt.cut = "none" => acc' = Nothing /\ pc' = "held")
            /\ Window(h.ev, h.tr, None) \in Windows
            /\ \A k \in Both : Window(h.ev, h.tr, None)[k] = h[k]
        BY <1>7, <3>2, GotFacts
      <3>4. Ends(Tail(v), src, TRUE, pc')
        <4>1. pc' \notin {"rest", "ended", "raised"} /\ v[1] \notin {Sentinel, Failure}
          BY <1>5, <2>4, <3>3
        <4> QED  BY <1>9, <4>1
      <3> QED  BY <3>3, <3>4
    <2> QED  BY <2>2, <2>3, <2>4
  <1>11. TypeInv'
    BY <1>1, <1>2, <1>4, <1>10 DEF TypeInv
  <1>12. Control'
    BY <1>1, <1>2, <1>10 DEF EndInv, Control
  <1>13. Ends(Append(queue, item), src, opt.async, pc)'
    BY <1>2, <1>5, <1>8, <1>10
  <1>14. EndInv'
    BY <1>12, <1>13 DEF EndInv
  <1> QED  BY <1>2, <1>6, <1>10, <1>11, <1>14 DEF h

\* A window is cut off what waits: events up to i and triggers up to j.
CutsOff(a, i, j, end, x, b) ==
  /\ x \in Windows /\ b \in Chunk /\ Tidy(b) /\ Within(b, a) /\ Within(x, a)
  /\ \A k \in Both : a[k] = x[k] \o b[k]
  /\ x.ev = Take(a.ev, i) /\ x.tr = Take(a.tr, j) /\ x.end = end
  /\ b.ev = Drop(a.ev, i) /\ b.tr = Drop(a.tr, j)

\* Take and Drop cut a window off.
LEMMA WindowFacts ==
  ASSUME NEW a \in Chunk, Tidy(a), NEW i \in 0 .. Len(a.ev), NEW j \in 0 .. Len(a.tr),
         NEW end \in Nat \cup {None}
  PROVE  CutsOff(a, i, j, end, Window(Take(a.ev, i), Take(a.tr, j), end),
                 [ev |-> Drop(a.ev, i), tr |-> Drop(a.tr, j)])
  <1> DEFINE x == Window(Take(a.ev, i), Take(a.tr, j), end)
             b == [ev |-> Drop(a.ev, i), tr |-> Drop(a.tr, j)]
  <1>1. a.ev \in Seq(Items) /\ a.tr \in Seq(Items)
    BY DEF Chunk
  <1>2. x.ev = Take(a.ev, i) /\ x.tr = Take(a.tr, j) /\ x.end = end
    BY DEF Window
  <1>3. b.ev = Drop(a.ev, i) /\ b.tr = Drop(a.tr, j)
    OBVIOUS
  <1>4. /\ Take(a.ev, i) \in Seq(Items) /\ Take(a.ev, i) \o Drop(a.ev, i) = a.ev
        /\ ToSet(a.ev) = ToSet(Take(a.ev, i)) \cup ToSet(Drop(a.ev, i))
    BY <1>1, CutFacts, SetCut
  <1>5. /\ Take(a.tr, j) \in Seq(Items) /\ Take(a.tr, j) \o Drop(a.tr, j) = a.tr
        /\ ToSet(a.tr) = ToSet(Take(a.tr, j)) \cup ToSet(Drop(a.tr, j))
    BY <1>1, CutFacts, SetCut
  <1>6. x \in Windows
    BY <1>4, <1>5 DEF Window, Windows
  <1>7. b \in Chunk /\ Tidy(b) /\ Within(b, a)
    BY PieceFacts
  <1>8. Within(x, a)
    BY <1>2, <1>4, <1>5 DEF Within, Both
  <1>9. \A k \in Both : a[k] = x[k] \o b[k]
    BY <1>2, <1>3, <1>4, <1>5 DEF Both
  <1> QED  BY <1>2, <1>3, <1>6, <1>7, <1>8, <1>9 DEF CutsOff

\* The cutting stage hands x out and keeps the rest.
Handed(x) ==
  /\ x \in Windows /\ Within(x, acc) /\ out' = Append(out, x)
  /\ acc' \in Chunk /\ Tidy(acc') /\ Within(acc', acc)
  /\ \A k \in Both : acc[k] = x[k] \o acc'[k]

\* An action of the consumer alone: nothing moves in front of it.
Stays ==
  /\ opt' = opt /\ file' = file /\ src' = src /\ skip' = skip
  /\ worker' = worker /\ item' = item /\ queue' = queue

\* It keeps who runs when, and what the end leaves in the queue.
LEMMA StaysFacts ==
  ASSUME Core, Stays, acc' \in Chunk, anchor' \in Nat \cup {None}, out' \in Seq(Windows),
         opt.cut = "none" => acc' = Nothing /\ pc' # "cut",
         \/ pc' \in {"pull", "cut", "held", "gone"} /\ pc \notin {"raised"}
         \/ pc' = "ended" /\ pc = "rest" /\ acc' = Nothing
  PROVE  TypeInv' /\ EndInv' /\ Flight' = Flight
  <1>1. TypeInv /\ EndInv
    BY DEF Core
  <1>2. pc' \in {"pull", "cut", "held", "rest", "ended", "raised", "gone"}
    OBVIOUS
  <1>3. TypeInv'
    BY <1>1, <1>2 DEF TypeInv, Stays
  <1>4. Control'
    BY <1>1 DEF EndInv, Control, Stays
  <1>5. Ends(Append(queue, item), src, opt.async, pc)'
    <2>1. Ends(Append(queue, item), src, opt.async, pc)
      BY <1>1 DEF EndInv
    <2>2. Ends(Append(queue, item), src, opt.async, pc')
      BY <2>1 DEF Ends
    <2> QED  BY <2>2 DEF Stays
  <1>6. Flight' = Flight
    BY DEF Flight, Stays
  <1> QED  BY <1>3, <1>4, <1>5, <1>6 DEF EndInv

\* The first window begins at an event or a trigger that waits to be cut.
LEMMA AnchorFacts ==
  ASSUME TypeInv, acc # Nothing
  PROVE  /\ Anchor \in Nat /\ (anchor # None => Anchor = anchor)
         /\ anchor = None => \/ acc.ev # <<>> /\ Anchor = acc.ev[1].t
                             \/ acc.ev = <<>> /\ acc.tr # <<>> /\ Anchor = acc.tr[1].t
  <1>1. /\ acc.ev \in Seq(Items) /\ acc.tr \in Seq(Items) /\ anchor \in Nat \cup {None}
        /\ (acc.ev # <<>> \/ acc.tr # <<>>)
    BY ChunkFacts DEF TypeInv, Chunk
  <1>2. None \notin Nat
    BY DEF None
  <1>3. CASE anchor # None
    BY <1>1, <1>3 DEF Anchor
  <1>4. CASE anchor = None /\ acc.ev # <<>>
    <2>1. Anchor = Head(acc.ev).t
      BY <1>4 DEF Anchor
    <2>2. Head(acc.ev) = acc.ev[1] /\ acc.ev[1] \in Items
      BY <1>1, <1>4
    <2> QED  BY <1>4, <2>1, <2>2 DEF Items
  <1>5. CASE anchor = None /\ acc.ev = <<>>
    <2>1. Anchor = Head(acc.tr).t /\ acc.tr # <<>>
      BY <1>1, <1>5 DEF Anchor
    <2>2. Head(acc.tr) = acc.tr[1] /\ acc.tr[1] \in Items
      BY <1>1, <2>1
    <2> QED  BY <1>5, <2>1, <2>2 DEF Items
  <1> QED  BY <1>3, <1>4, <1>5

\* stream_delta_t waits for more, or hands out what is in front of the end of
\* the window.
LEMMA CutTimeDoes ==
  ASSUME Core, CutTime
  PROVE  /\ TypeInv' /\ EndInv' /\ Stays /\ Flight' = Flight /\ opt.cut = "time" /\ pc = "cut"
         /\ \/ /\ acc = Nothing \/ Latest < Anchor + Delta
               /\ pc' = "pull" /\ acc' = acc /\ out' = out
               /\ anchor' = IF acc = Nothing THEN anchor ELSE Anchor
            \/ /\ acc # Nothing /\ ~(Latest < Anchor + Delta)
               /\ pc' = "held" /\ anchor' = Anchor + Delta
               /\ \E x : /\ Handed(x) /\ x.end = Anchor + Delta
                         /\ x.ev = Take(acc.ev, Before(acc.ev, Anchor + Delta))
                         /\ x.tr = Take(acc.tr, Before(acc.tr, Anchor + Delta))
                         /\ acc'.ev = Drop(acc.ev, Before(acc.ev, Anchor + Delta))
                         /\ acc'.tr = Drop(acc.tr, Before(acc.tr, Anchor + Delta))
  <1>1. TypeInv /\ OrderInv
    BY DEF Core
  <1>2. Stays /\ opt.cut = "time" /\ pc = "cut"
    BY DEF CutTime, Stays, svars, avars
  <1>3. /\ acc \in Chunk /\ out \in Seq(Windows) /\ anchor \in Nat \cup {None}
        /\ acc.ev \in Seq(Items) /\ acc.tr \in Seq(Items) /\ Delta \in Nat \ {0}
    BY <1>1, StreamsAssumption DEF TypeInv, Chunk
  <1>4. Tidy(acc) /\ Sorted(acc.ev) /\ Sorted(acc.tr)
    BY <1>1 DEF OrderInv, InOrder, Tidy, Both
  <1>5. CASE acc = Nothing \/ Latest < Anchor + Delta
    <2>1. /\ pc' = "pull" /\ acc' = acc /\ out' = out
          /\ anchor' = IF acc = Nothing THEN anchor ELSE Anchor
      BY <1>5 DEF CutTime
    <2>2. anchor' \in Nat \cup {None}
      BY <1>1, <1>3, <2>1, AnchorFacts
    <2>3. TypeInv' /\ EndInv' /\ Flight' = Flight
      BY <1>2, <1>3, <2>1, <2>2, StaysFacts
    <2> QED  BY <1>2, <1>5, <2>1, <2>3
  <1>6. CASE ~(acc = Nothing \/ Latest < Anchor + Delta)
    <2> DEFINE end == Anchor + Delta
               i == Before(acc.ev, end)
               j == Before(acc.tr, end)
               x == Window(Take(acc.ev, i), Take(acc.tr, j), end)
    <2>1. Anchor \in Nat
      BY <1>1, <1>6, AnchorFacts
    <2>2. end \in Nat /\ end \in Int
      BY <1>3, <2>1
    <2>3. /\ Yield(i, j, end) /\ anchor' = end
      BY <1>6 DEF CutTime
    <2> HIDE DEF end
    <2>4. i \in 0 .. Len(acc.ev) /\ j \in 0 .. Len(acc.tr)
      BY <1>3, <1>4, <2>2, BeforeFacts
    <2>5. out' = Append(out, x) /\ acc' = [ev |-> Drop(acc.ev, i), tr |-> Drop(acc.tr, j)]
          /\ pc' = "held"
      BY <2>3 DEF Yield
    <2> HIDE DEF i, j
    <2>6. x = Window(Take(acc.ev, i), Take(acc.tr, j), end)
      OBVIOUS
    <2> HIDE DEF x
    <2>7. /\ x \in Windows /\ acc' \in Chunk /\ Tidy(acc') /\ Within(acc', acc) /\ Within(x, acc)
          /\ \A k \in Both : acc[k] = x[k] \o acc'[k]
          /\ x.ev = Take(acc.ev, i) /\ x.tr = Take(acc.tr, j) /\ x.end = end
          /\ acc'.ev = Drop(acc.ev, i) /\ acc'.tr = Drop(acc.tr, j)
      <3>1. CutsOff(acc, i, j, end, x, acc')
        BY <1>3, <1>4, <2>2, <2>4, <2>5, <2>6, WindowFacts
      <3> QED  BY <3>1 DEF CutsOff
    <2>8. Handed(x)
      BY <2>5, <2>7 DEF Handed
    <2>9. out' \in Seq(Windows)
      BY <1>3, <2>5, <2>7
    <2>10. TypeInv' /\ EndInv' /\ Flight' = Flight
      BY <1>2, <2>2, <2>3, <2>5, <2>7, <2>9, StaysFacts
    <2> QED  BY <1>2, <1>6, <2>3, <2>5, <2>7, <2>8, <2>10 DEF end, i, j
  <1> QED  BY <1>5, <1>6

\* stream_n_events likewise, with the number of events.
LEMMA CutCountDoes ==
  ASSUME Core, CutCount
  PROVE  /\ TypeInv' /\ EndInv' /\ Stays /\ Flight' = Flight /\ opt.cut = "count" /\ pc = "cut"
         /\ \/ Len(acc.ev) < Count /\ pc' = "pull" /\ acc' = acc /\ out' = out
            \/ /\ Count <= Len(acc.ev) /\ pc' = "held"
               /\ TriggersOfCount \in 0 .. Len(acc.tr)
               /\ \E x : /\ Handed(x)
                         /\ x.ev = Take(acc.ev, Count) /\ x.tr = Take(acc.tr, TriggersOfCount)
                         /\ acc'.ev = Drop(acc.ev, Count) /\ acc'.tr = Drop(acc.tr, TriggersOfCount)
  <1>1. TypeInv /\ OrderInv
    BY DEF Core
  <1>2. Stays /\ opt.cut = "count" /\ pc = "cut" /\ anchor' = anchor
    BY DEF CutCount, Stays, svars, avars
  <1>3. /\ acc \in Chunk /\ out \in Seq(Windows) /\ anchor \in Nat \cup {None}
        /\ acc.ev \in Seq(Items) /\ acc.tr \in Seq(Items) /\ Count \in Nat \ {0}
        /\ Len(acc.ev) \in Nat /\ Len(acc.tr) \in Nat
    BY <1>1, StreamsAssumption DEF TypeInv, Chunk
  <1>4. Tidy(acc) /\ Sorted(acc.ev) /\ Sorted(acc.tr)
    BY <1>1 DEF OrderInv, InOrder, Tidy, Both
  <1>5. CASE Len(acc.ev) < Count
    <2>1. pc' = "pull" /\ acc' = acc /\ out' = out
      BY <1>5 DEF CutCount
    <2>2. TypeInv' /\ EndInv' /\ Flight' = Flight
      BY <1>2, <1>3, <2>1, StaysFacts
    <2> QED  BY <1>2, <1>5, <2>1, <2>2
  <1>6. CASE ~(Len(acc.ev) < Count)
    <2> DEFINE m == TriggersOfCount
               x == Window(Take(acc.ev, Count), Take(acc.tr, m), None)
    <2>1. Yield(Count, m, None)
      BY <1>6 DEF CutCount
    <2>2. Count \in 0 .. Len(acc.ev)
      BY <1>3, <1>6
    <2>3. m \in 0 .. Len(acc.tr)
      <3>1. CASE Len(acc.ev) = Count
        BY <1>3, <3>1 DEF TriggersOfCount
      <3>2. CASE Len(acc.ev) # Count
        <4>1. Count + 1 \in 1 .. Len(acc.ev)
          BY <1>3, <2>2, <3>2
        <4>2. acc.ev[Count + 1] \in Items
          BY <1>3, <4>1
        <4>3. acc.ev[Count + 1].t \in Int
          BY <4>2 DEF Items
        <4>4. m = Before(acc.tr, acc.ev[Count + 1].t)
          BY <3>2 DEF TriggersOfCount
        <4> QED  BY <1>3, <1>4, <4>3, <4>4, BeforeFacts
      <3> QED  BY <3>1, <3>2
    <2>4. out' = Append(out, x) /\ acc' = [ev |-> Drop(acc.ev, Count), tr |-> Drop(acc.tr, m)]
          /\ pc' = "held"
      BY <2>1 DEF Yield
    <2> HIDE DEF m
    <2>5. x = Window(Take(acc.ev, Count), Take(acc.tr, m), None)
      OBVIOUS
    <2> HIDE DEF x
    <2>6. /\ x \in Windows /\ acc' \in Chunk /\ Tidy(acc') /\ Within(acc', acc) /\ Within(x, acc)
          /\ \A k \in Both : acc[k] = x[k] \o acc'[k]
          /\ x.ev = Take(acc.ev, Count) /\ x.tr = Take(acc.tr, m)
          /\ acc'.ev = Drop(acc.ev, Count) /\ acc'.tr = Drop(acc.tr, m)
      <3>1. None \in Nat \cup {None}
        OBVIOUS
      <3>2. CutsOff(acc, Count, m, None, x, acc')
        BY <1>3, <1>4, <2>2, <2>3, <2>4, <2>5, <3>1, WindowFacts
      <3> QED  BY <3>2 DEF CutsOff
    <2>7. Handed(x)
      BY <2>4, <2>6 DEF Handed
    <2>8. out' \in Seq(Windows)
      BY <1>3, <2>4, <2>6
    <2>9. TypeInv' /\ EndInv' /\ Flight' = Flight
      BY <1>2, <1>3, <2>4, <2>6, <2>8, StaysFacts
    <2>10. Count <= Len(acc.ev)
      BY <2>2
    <2> QED  BY <1>2, <2>3, <2>4, <2>6, <2>7, <2>9, <2>10 DEF m
  <1> QED  BY <1>5, <1>6

\* What is left at the end is handed out, if there is any.
LEMMA RestDoes ==
  ASSUME Core, Rest
  PROVE  /\ TypeInv' /\ EndInv' /\ Stays /\ Flight' = Flight /\ pc = "rest" /\ pc' = "ended"
         /\ acc' = Nothing /\ anchor' = anchor
         /\ \/ acc = Nothing /\ out' = out
            \/ acc # Nothing /\ \E x : /\ Handed(x) /\ x.end = None
                                       /\ x.ev = acc.ev /\ x.tr = acc.tr
  <1>1. TypeInv /\ OrderInv
    BY DEF Core
  <1>2. Stays /\ pc = "rest" /\ pc' = "ended" /\ anchor' = anchor
    BY DEF Rest, Stays, svars, avars
  <1>3. acc \in Chunk /\ out \in Seq(Windows) /\ anchor \in Nat \cup {None} /\ Nothing \in Chunk
    BY <1>1, ChunkFacts DEF TypeInv
  <1>4. CASE acc = Nothing
    <2>1. out' = out /\ acc' = acc
      BY <1>4 DEF Rest
    <2>2. TypeInv' /\ EndInv' /\ Flight' = Flight
      BY <1>2, <1>3, <1>4, <2>1, StaysFacts
    <2> QED  BY <1>2, <1>4, <2>1, <2>2
  <1>5. CASE acc # Nothing
    <2> DEFINE x == Window(acc.ev, acc.tr, None)
    <2>1. out' = Append(out, x) /\ acc' = Nothing
      BY <1>5 DEF Rest
    <2>2. acc.ev \in Seq(Items) /\ acc.tr \in Seq(Items)
      BY <1>3 DEF Chunk
    <2>3. /\ x \in Windows /\ x.ev = acc.ev /\ x.tr = acc.tr /\ x.end = None
          /\ \A k \in Both : x[k] = acc[k]
      BY <2>2 DEF Window, Windows, Both
    <2> HIDE DEF x
    <2>4. Within(x, acc)
      BY <2>3 DEF Within
    <2>5. \A k \in Both : acc[k] = x[k] \o Nothing[k]
      <3>1. \A k \in Both : acc[k] \in Seq(Items) /\ Nothing[k] = <<>>
        BY <1>3, ChunkFacts
      <3>2. \A k \in Both : acc[k] = acc[k] \o <<>>
        BY <3>1
      <3> QED  BY <2>3, <3>1, <3>2
    <2>6. Handed(x)
      BY <1>3, <2>1, <2>3, <2>4, <2>5, NothingFacts DEF Handed
    <2>7. out' \in Seq(Windows)
      BY <1>3, <2>1, <2>3
    <2>8. TypeInv' /\ EndInv' /\ Flight' = Flight
      BY <1>2, <1>3, <2>1, <2>7, StaysFacts
    <2> QED  BY <1>2, <1>5, <2>1, <2>3, <2>6, <2>8
  <1> QED  BY <1>4, <1>5

\* The consumer goes on, or goes away.
LEMMA AskDoes ==
  ASSUME Core, Ask \/ Abandon
  PROVE  /\ TypeInv' /\ EndInv' /\ Stays /\ Flight' = Flight /\ acc' = acc /\ anchor' = anchor
         /\ out' = out /\ pc = "held"
         /\ \/ pc' = "gone"
            \/ pc' = IF opt.cut = "none" THEN "pull" ELSE "cut"
  <1>1. TypeInv /\ Control
    BY DEF Core, EndInv
  <1>2. /\ Stays /\ acc' = acc /\ anchor' = anchor /\ out' = out /\ pc = "held"
        /\ \/ pc' = "gone"
           \/ pc' = IF opt.cut = "none" THEN "pull" ELSE "cut"
    BY DEF Ask, Abandon, Stays, svars, avars
  <1>3. acc \in Chunk /\ out \in Seq(Windows) /\ anchor \in Nat \cup {None}
        /\ (opt.cut = "none" => acc = Nothing)
    BY <1>1 DEF TypeInv, Control
  <1>4. TypeInv' /\ EndInv' /\ Flight' = Flight
    BY <1>2, <1>3, StaysFacts
  <1> QED  BY <1>2, <1>4

-----------------------------------------------------------------------------
(* The core of the invariant, action by action.                            *)

\* It holds at the start, where nothing is decoded.
LEMMA CoreInit ==
  ASSUME Init
  PROVE  Core
  <1>1. /\ opt \in Pipelines /\ (opt.skew => opt.skip = "none")
        /\ file = Nothing /\ src = "open" /\ skip = [on |-> opt.skip # "none", seen |-> 0]
        /\ worker = (IF opt.async THEN "pull" ELSE "exited")
        /\ item = Sentinel /\ queue = <<>>
        /\ acc = Nothing /\ anchor = None /\ pc = "pull" /\ out = <<>>
    BY DEF Init
  <1>2. Nothing \in Chunk /\ Sentinel \in Messages /\ Body(Sentinel) = Nothing
    BY ChunkFacts, BodiesFacts
  <1>3. TypeInv
    <2>1. queue \in Seq(Messages) /\ out \in Seq(Windows)
      BY <1>1
    <2>2. skip \in [on : BOOLEAN, seen : Nat]
      BY <1>1
    <2> QED  BY <1>1, <1>2, <2>1, <2>2 DEF TypeInv
  <1>4. EndInv
    <2>1. Control
      BY <1>1 DEF Control
    <2>2. Ends(Append(queue, item), src, opt.async, pc)
      <3>1. Ends(Append(<<>>, Sentinel), "open", opt.async, "pull")
        BY EndsNone
      <3> QED  BY <1>1, <3>1
    <2> QED  BY <2>1, <2>2 DEF EndInv
  <1>5. Flight = Append(<<>>, Nothing)
    <2>1. Bodies(<<>>) = <<>>
      BY DEF Bodies
    <2> QED  BY <1>1, <1>2, <1>3, <2>1, FlightFacts
  <1>6. OrderInv
    <2>1. InOrder(opt.skew, Nothing, Nothing, <<>>, <<>>)
      <3>1. Len(<<>>) = 0 /\ 1 .. 0 = {}
        OBVIOUS
      <3> QED  BY <3>1, NothingFacts DEF InOrder
    <2>2. <<>> \in Seq(Chunk)
      OBVIOUS
    <2>3. InOrder(opt.skew, Nothing, Nothing, Append(<<>>, Nothing), <<>>)
      BY <2>1, <2>2, OrderPut
    <2> QED  BY <1>1, <1>5, <2>3 DEF OrderInv
  <1>7. KeptInv
    <2>1. ASSUME NEW k \in Both
          PROVE  Through(out, acc, Flight, k) = <<>>
      <3>1. Spread(<<>>, k) = <<>>
        <4>1. Column(<<>>, k) = <<>>
          BY DEF Column
        <4> QED  BY <4>1, FlatEmpty DEF Spread
      <3>2. Nothing[k] = <<>>
        BY ChunkFacts
      <3>3. Through(<<>>, Nothing, <<>>, k) = <<>>
        <4>1. (<<>> \o <<>>) \o <<>> = <<>>
          OBVIOUS
        <4> QED  BY <3>1, <3>2, <4>1 DEF Through
      <3>4. <<>> \in Seq(Windows) /\ <<>> \in Seq(Chunk)
        OBVIOUS
      <3>5. Through(<<>>, Nothing, Append(<<>>, Nothing), k) = <<>>
        BY <1>2, <3>3, <3>4, ThroughPut
      <3> QED  BY <1>1, <1>5, <3>5
    <2>2. Through(out, acc, Flight, "ev") = <<>> /\ Through(out, acc, Flight, "tr") = <<>>
      BY <2>1 DEF Both
    <2>3. file.ev = <<>> /\ file.tr = <<>> /\ ToSet(<<>>) = {} /\ Len(<<>>) = 0
      BY <1>1 DEF Nothing, ToSet
    <2>4. (opt.skip # "none" <=> skip.on) /\ skip.seen = 0 /\ 0 <= SkipCount
      <3>1. skip.on = (opt.skip # "none") /\ skip.seen = 0
        BY <1>1
      <3>2. SkipCount \in Nat
        BY StreamsAssumption
      <3>3. 0 <= SkipCount
        BY <3>2
      <3> QED  BY <3>1, <3>3, Zenon
    <2>5. Kept(opt.skip, skip, file, <<>>, <<>>)
      BY <2>3, <2>4 DEF Kept
    <2> QED  BY <2>2, <2>5 DEF KeptInv
  <1> QED  BY <1>3, <1>4, <1>6, <1>7 DEF Core

\* What is sent follows everything that came before it.
LEMMA SentFollows ==
  ASSUME OrderInv, NEW c, Sent(c)
  PROVE  /\ InOrder(opt.skew, file', acc, Flight, out)
         /\ Follows(opt.skew, acc, c)
         /\ \A i \in 1 .. Len(Flight) : Follows(opt.skew, Flight[i], c)
         /\ \A i \in 1 .. Len(out) : Follows(opt.skew, out[i], c)
  <1>1. Tidy(file') /\ Within(file, file') /\ Follows(opt.skew, file, c)
    BY DEF Sent
  <1>2. InOrder(opt.skew, file, acc, Flight, out)
    BY DEF OrderInv
  <1>3. InOrder(opt.skew, file', acc, Flight, out)
    BY <1>1, <1>2, OrderGrow
  <1>4. \A x : Within(x, file) => Follows(opt.skew, x, c)
    <2>1. Within(c, c)
      BY DEF Within
    <2> QED  BY <1>1, <2>1, FollowsPieces
  <1> QED  BY <1>2, <1>3, <1>4 DEF InOrder

\* The worker decodes a chunk behind all that came before it.
LEMMA WorkerPullCore ==
  ASSUME Core, WorkerPull
  PROVE  Core'
  <1>1. TypeInv /\ OrderInv
    BY DEF Core
  <1>2. /\ TypeInv' /\ EndInv'
        /\ opt' = opt /\ acc' = acc /\ out' = out
        /\ \E v \in Seq(Chunk), c \in Chunk :
             Sent(c) /\ Flight = Append(v, Nothing) /\ Flight' = Append(v, c)
    BY WorkerPullDoes
  <1>3. PICK v \in Seq(Chunk), c \in Chunk :
          Sent(c) /\ Flight = Append(v, Nothing) /\ Flight' = Append(v, c)
    BY <1>2
  <1>4. acc \in Chunk /\ out \in Seq(Windows)
    BY <1>1 DEF TypeInv
  <1>5. OrderInv'
    <2>1. /\ InOrder(opt.skew, file', acc, Append(v, Nothing), out)
          /\ Follows(opt.skew, acc, c)
          /\ \A i \in 1 .. Len(Append(v, Nothing)) : Follows(opt.skew, Append(v, Nothing)[i], c)
          /\ \A i \in 1 .. Len(out) : Follows(opt.skew, out[i], c)
      BY <1>1, <1>3, SentFollows
    <2>2. \A i \in 1 .. Len(v) : Follows(opt.skew, v[i], c)
      <3>1. Nothing \in Chunk
        BY ChunkFacts
      <3>2. \A i \in 1 .. Len(v) : i \in 1 .. Len(Append(v, Nothing)) /\ Append(v, Nothing)[i] = v[i]
        BY <3>1
      <3> QED  BY <2>1, <3>2
    <2>3. Tidy(c) /\ Within(c, file')
      BY <1>3 DEF Sent
    <2>4. InOrder(opt.skew, file', acc, Append(v, c), out)
      BY <2>1, <2>2, <2>3, OrderSend
    <2> QED  BY <1>2, <1>3, <2>4 DEF OrderInv
  <1>6. KeptInv'
    <2>1. \A k \in Both :
            Through(out, acc, Append(v, c), k) = Through(out, acc, Append(v, Nothing), k) \o c[k]
      BY <1>4, ThroughSend
    <2>2. /\ Through(out, acc, Append(v, c), "ev") = Through(out, acc, Flight, "ev") \o c.ev
          /\ Through(out, acc, Append(v, c), "tr") = Through(out, acc, Flight, "tr") \o c.tr
      BY <1>3, <2>1 DEF Both
    <2>3. Kept(opt.skip, skip', file', Through(out, acc, Append(v, c), "ev"),
                                       Through(out, acc, Append(v, c), "tr"))
      BY <1>3, <2>2 DEF Sent
    <2> QED  BY <1>2, <1>3, <2>3 DEF KeptInv
  <1> QED  BY <1>2, <1>5, <1>6 DEF Core

\* It puts it in the queue.
LEMMA WorkerPutCore ==
  ASSUME Core, WorkerPut
  PROVE  Core'
  <1>1. TypeInv /\ OrderInv /\ KeptInv
    BY DEF Core
  <1>2. /\ TypeInv' /\ EndInv'
        /\ opt' = opt /\ acc' = acc /\ out' = out
        /\ file' = file /\ skip' = skip /\ Flight' = Append(Flight, Nothing)
    BY WorkerPutDoes
  <1>3. acc \in Chunk /\ out \in Seq(Windows) /\ Flight \in Seq(Chunk)
    BY <1>1, FlightFacts DEF TypeInv
  <1>4. OrderInv'
    <2>1. InOrder(opt.skew, file, acc, Append(Flight, Nothing), out)
      BY <1>1, <1>3, OrderPut DEF OrderInv
    <2> QED  BY <1>2, <2>1 DEF OrderInv
  <1>5. KeptInv'
    <2>1. \A k \in Both : Through(out, acc, Append(Flight, Nothing), k) = Through(out, acc, Flight, k)
      BY <1>3, ThroughPut
    <2>2. /\ Through(out, acc, Append(Flight, Nothing), "ev") = Through(out, acc, Flight, "ev")
          /\ Through(out, acc, Append(Flight, Nothing), "tr") = Through(out, acc, Flight, "tr")
      BY <2>1 DEF Both
    <2> QED  BY <1>1, <1>2, <2>2 DEF KeptInv
  <1> QED  BY <1>2, <1>4, <1>5 DEF Core

\* An action that moves nothing keeps all.
LEMMA SameCore ==
  ASSUME Core, TypeInv', EndInv', opt' = opt, acc' = acc, out' = out,
         file' = file, skip' = skip, Flight' = Flight
  PROVE  Core'
  <1>1. OrderInv /\ KeptInv
    BY DEF Core
  <1>2. OrderInv' /\ KeptInv'
    BY <1>1 DEF OrderInv, KeptInv
  <1> QED  BY <1>2 DEF Core

\* The consumer's pull keeps the core of the invariant.
LEMMA ConsumerPullCore ==
  ASSUME Core, ConsumerPull
  PROVE  Core'
  <1>1. TypeInv /\ OrderInv
    BY DEF Core
  <1>2. /\ TypeInv' /\ EndInv' /\ opt' = opt
        /\ Flight = Append(<<>>, Nothing) /\ Flight' = Flight
        /\ \E c \in Chunk :
             /\ Sent(c)
             /\ \/ /\ c = Nothing /\ acc' = acc /\ anchor' = anchor /\ pc' = pc /\ out' = out
                \/ Got(c) /\ Window(c.ev, c.tr, None) \in Windows
                   /\ \A k \in Both : Window(c.ev, c.tr, None)[k] = c[k]
    BY ConsumerPullDoes
  <1>3. PICK c \in Chunk :
          /\ Sent(c)
          /\ \/ c = Nothing /\ acc' = acc /\ out' = out
             \/ Got(c) /\ Window(c.ev, c.tr, None) \in Windows
                /\ \A k \in Both : Window(c.ev, c.tr, None)[k] = c[k]
    BY <1>2
  <1>4. acc \in Chunk /\ out \in Seq(Windows) /\ <<>> \in Seq(Chunk)
    BY <1>1 DEF TypeInv
  <1> DEFINE x == Window(c.ev, c.tr, None)
             w == Append(<<>>, c)
             z == Append(<<>>, Nothing)
  <1>5. w \in Seq(Chunk) /\ w # <<>> /\ Head(w) = c /\ Tail(w) = <<>>
    OBVIOUS
  <1>6. /\ Len(z) = 1 /\ z[1] = Nothing /\ \A i \in 1 .. Len(z) : z[i] = Nothing
    <2>1. Nothing \in Chunk
      BY ChunkFacts
    <2> QED  BY <2>1
  <1> HIDE DEF x, w, z
  <1>7. /\ Tidy(c) /\ Within(c, file')
        /\ InOrder(opt.skew, file', acc, z, out) /\ Follows(opt.skew, acc, c)
        /\ \A i \in 1 .. Len(z) : Follows(opt.skew, c, z[i])
        /\ \A i \in 1 .. Len(z) : Follows(opt.skew, x, z[i])
    <2>1. /\ InOrder(opt.skew, file', acc, Flight, out) /\ Follows(opt.skew, acc, c)
      BY <1>1, <1>3, SentFollows
    <2>2. Tidy(c) /\ Within(c, file')
      BY <1>3 DEF Sent
    <2> QED  BY <1>2, <1>6, <2>1, <2>2, NothingFacts DEF z
  <1>8. ASSUME NEW k \in Both
        PROVE  /\ Through(out, acc, w, k) = Through(out, acc, z, k) \o c[k]
               /\ Through(out, Join(acc, c), z, k) = Through(out, acc, w, k)
               /\ acc[k] = <<>> => \A y \in Windows : y[k] = c[k] =>
                    Through(Append(out, y), acc, z, k) = Through(out, acc, w, k)
    <2>1. Through(out, acc, w, k) = Through(out, acc, z, k) \o c[k]
      BY <1>4, ThroughSend DEF w, z
    <2>2. /\ Through(out, Join(acc, c), <<>>, k) = Through(out, acc, w, k)
          /\ acc[k] = <<>> => \A y \in Windows : y[k] = c[k] =>
               Through(Append(out, y), acc, <<>>, k) = Through(out, acc, w, k)
      <3>1. /\ Through(out, Join(acc, Head(w)), Tail(w), k) = Through(out, acc, w, k)
            /\ acc[k] = <<>> => \A y \in Windows : y[k] = Head(w)[k] =>
                 Through(Append(out, y), acc, Tail(w), k) = Through(out, acc, w, k)
        BY <1>4, <1>5, ThroughArrive
      <3> QED  BY <1>5, <3>1
    <2>3. Join(acc, c) \in Chunk
      BY <1>4, JoinFacts
    <2>4. Through(out, Join(acc, c), z, k) = Through(out, Join(acc, c), <<>>, k)
      BY <1>4, <2>3, ThroughPut DEF z
    <2>5. ASSUME NEW y \in Windows
          PROVE  Through(Append(out, y), acc, z, k) = Through(Append(out, y), acc, <<>>, k)
      <3>1. Append(out, y) \in Seq(Windows)
        BY <1>4
      <3> QED  BY <1>4, <3>1, ThroughPut DEF z
    <2> QED  BY <2>1, <2>2, <2>4, <2>5
  <1>9. Flight = z /\ Flight' = z
    BY <1>2 DEF z
  <1>10. CASE c = Nothing /\ acc' = acc /\ out' = out
    <2>1. OrderInv'
      BY <1>2, <1>7, <1>9, <1>10 DEF OrderInv
    <2>2. \A k \in Both : Through(out, acc, z, k) \in Seq(Items) /\ Nothing[k] = <<>>
      BY <1>4, ThroughPut, ChunkFacts DEF z
    <2>3. /\ Through(out, acc, z, "ev") \o c.ev = Through(out, acc, z, "ev")
          /\ Through(out, acc, z, "tr") \o c.tr = Through(out, acc, z, "tr")
      BY <1>10, <2>2 DEF Both
    <2>4. Kept(opt.skip, skip', file', Through(out, acc, z, "ev"), Through(out, acc, z, "tr"))
      BY <1>3, <1>9, <2>3 DEF Sent
    <2>5. KeptInv'
      BY <1>2, <1>9, <1>10, <2>4 DEF KeptInv
    <2> QED  BY <1>2, <2>1, <2>5 DEF Core
  <1>11. ASSUME Got(c), x \in Windows, \A k \in Both : x[k] = c[k]
         PROVE  Core'
    <2>1. CASE opt.cut = "none"
      <3>1. acc = Nothing /\ acc' = acc /\ out' = Append(out, x)
        BY <1>11, <2>1 DEF Got, x
      <3>2. Within(x, file') /\ Tidy(acc) /\ Within(acc, acc)
        BY <1>7, <1>11, <3>1, NothingFacts DEF Within
      <3>3. InOrder(opt.skew, file', acc, z, Append(out, x))
        BY <1>4, <1>7, <1>11, <3>2, OrderHand
      <3>4. OrderInv'
        BY <1>2, <1>9, <3>1, <3>3 DEF OrderInv
      <3>5. \A k \in Both : acc[k] = <<>>
        BY <3>1, ChunkFacts
      <3>6. \A k \in Both : Through(Append(out, x), acc, z, k) = Through(out, acc, z, k) \o c[k]
        BY <1>8, <1>11, <3>5
      <3>7. /\ Through(Append(out, x), acc, z, "ev") = Through(out, acc, z, "ev") \o c.ev
            /\ Through(Append(out, x), acc, z, "tr") = Through(out, acc, z, "tr") \o c.tr
        BY <3>6 DEF Both
      <3>8. KeptInv'
        BY <1>2, <1>3, <1>9, <3>1, <3>7 DEF KeptInv, Sent
      <3> QED  BY <1>2, <3>4, <3>8 DEF Core
    <2>2. CASE opt.cut # "none"
      <3>1. acc' = Join(acc, c) /\ out' = out
        BY <1>11, <2>2 DEF Got
      <3>2. InOrder(opt.skew, file', Join(acc, c), z, out)
        BY <1>4, <1>7, OrderJoin
      <3>3. OrderInv'
        BY <1>2, <1>9, <3>1, <3>2 DEF OrderInv
      <3>4. \A k \in Both : Through(out, Join(acc, c), z, k) = Through(out, acc, z, k) \o c[k]
        BY <1>8
      <3>5. /\ Through(out, Join(acc, c), z, "ev") = Through(out, acc, z, "ev") \o c.ev
            /\ Through(out, Join(acc, c), z, "tr") = Through(out, acc, z, "tr") \o c.tr
        BY <3>4 DEF Both
      <3>6. KeptInv'
        BY <1>2, <1>3, <1>9, <3>1, <3>5 DEF KeptInv, Sent
      <3> QED  BY <1>2, <3>3, <3>6 DEF Core
    <2> QED  BY <2>1, <2>2
  <1> QED  BY <1>3, <1>10, <1>11 DEF x

\* The consumer takes the first of what is in flight.
LEMMA ConsumerGetCore ==
  ASSUME Core, ConsumerGet
  PROVE  Core'
  <1>1. TypeInv /\ OrderInv /\ KeptInv
    BY DEF Core
  <1> DEFINE h == Head(Flight)
             w == Tail(Flight)
             x == Window(h.ev, h.tr, None)
  <1>2. /\ TypeInv' /\ EndInv' /\ opt' = opt /\ file' = file /\ skip' = skip
        /\ Flight \in Seq(Chunk) /\ Flight # <<>> /\ Flight' = w
        /\ \/ h = Nothing /\ acc' = acc /\ out' = out
           \/ Got(h) /\ x \in Windows /\ \A k \in Both : x[k] = h[k]
    BY ConsumerGetDoes
  <1>3. acc \in Chunk /\ out \in Seq(Windows) /\ h \in Chunk /\ w \in Seq(Chunk)
    BY <1>1, <1>2 DEF TypeInv
  <1>4. /\ InOrder(opt.skew, file, acc, w, out)
        /\ Tidy(h) /\ Within(h, file) /\ Follows(opt.skew, acc, h)
        /\ \A j \in 1 .. Len(w) : Follows(opt.skew, h, w[j])
    BY <1>1, <1>2, OrderArrive DEF OrderInv
  <1>5. \A k \in Both :
          /\ Through(out, Join(acc, h), w, k) = Through(out, acc, Flight, k)
          /\ acc[k] = <<>> => \A y \in Windows : y[k] = h[k] =>
               Through(Append(out, y), acc, w, k) = Through(out, acc, Flight, k)
    BY <1>2, <1>3, ThroughArrive
  <1> HIDE DEF h, w, x
  <1>6. CASE h = Nothing /\ acc' = acc /\ out' = out
    <2>1. OrderInv'
      BY <1>2, <1>4, <1>6 DEF OrderInv
    <2>2. Join(acc, h) = acc
      BY <1>3, <1>6, JoinNothing
    <2>3. \A k \in Both : Through(out, acc, w, k) = Through(out, acc, Flight, k)
      BY <1>5, <2>2
    <2>4. /\ Through(out, acc, w, "ev") = Through(out, acc, Flight, "ev")
          /\ Through(out, acc, w, "tr") = Through(out, acc, Flight, "tr")
      BY <2>3 DEF Both
    <2>5. KeptInv'
      BY <1>1, <1>2, <1>6, <2>4 DEF KeptInv
    <2> QED  BY <1>2, <2>1, <2>5 DEF Core
  <1>7. ASSUME Got(h), x \in Windows, \A k \in Both : x[k] = h[k]
        PROVE  Core'
    <2>1. CASE opt.cut = "none"
      <3>1. acc = Nothing /\ acc' = acc /\ out' = Append(out, x)
        BY <1>7, <2>1 DEF Got, x
      <3>2. Within(x, file) /\ Tidy(acc) /\ Within(acc, acc)
        BY <1>4, <1>7, <3>1, NothingFacts DEF Within
      <3>3. \A j \in 1 .. Len(w) : Follows(opt.skew, x, w[j])
        BY <1>4, <1>7 DEF Follows
      <3>4. InOrder(opt.skew, file, acc, w, Append(out, x))
        BY <1>3, <1>4, <1>7, <3>2, <3>3, OrderHand
      <3>5. OrderInv'
        BY <1>2, <3>1, <3>4 DEF OrderInv
      <3>6. \A k \in Both : acc[k] = <<>>
        BY <3>1, ChunkFacts
      <3>7. \A k \in Both : Through(Append(out, x), acc, w, k) = Through(out, acc, Flight, k)
        BY <1>5, <1>7, <3>6
      <3>8. /\ Through(Append(out, x), acc, w, "ev") = Through(out, acc, Flight, "ev")
            /\ Through(Append(out, x), acc, w, "tr") = Through(out, acc, Flight, "tr")
        BY <3>7 DEF Both
      <3>9. KeptInv'
        BY <1>1, <1>2, <3>1, <3>8 DEF KeptInv
      <3> QED  BY <1>2, <3>5, <3>9 DEF Core
    <2>2. CASE opt.cut # "none"
      <3>1. acc' = Join(acc, h) /\ out' = out
        BY <1>7, <2>2 DEF Got
      <3>2. InOrder(opt.skew, file, Join(acc, h), w, out)
        BY <1>3, <1>4, OrderJoin
      <3>3. OrderInv'
        BY <1>2, <3>1, <3>2 DEF OrderInv
      <3>4. /\ Through(out, Join(acc, h), w, "ev") = Through(out, acc, Flight, "ev")
            /\ Through(out, Join(acc, h), w, "tr") = Through(out, acc, Flight, "tr")
        BY <1>5 DEF Both
      <3>5. KeptInv'
        BY <1>1, <1>2, <3>1, <3>4 DEF KeptInv
      <3> QED  BY <1>2, <3>3, <3>5 DEF Core
    <2> QED  BY <2>1, <2>2
  <1> QED  BY <1>2, <1>6, <1>7

\* What the cutting stage hands out, it had.
LEMMA HandedCore ==
  ASSUME Core, Stays, TypeInv', EndInv', Flight' = Flight, NEW x, Handed(x)
  PROVE  Core'
  <1>1. TypeInv /\ OrderInv /\ KeptInv
    BY DEF Core
  <1>2. acc \in Chunk /\ out \in Seq(Windows) /\ Flight \in Seq(Chunk)
    BY <1>1, FlightFacts DEF TypeInv
  <1>3. /\ x \in Windows /\ Within(x, acc) /\ out' = Append(out, x)
        /\ acc' \in Chunk /\ Tidy(acc') /\ Within(acc', acc)
        /\ \A k \in Both : acc[k] = x[k] \o acc'[k]
    BY DEF Handed
  <1>4. InOrder(opt.skew, file, acc, Flight, out)
    BY <1>1 DEF OrderInv
  <1>5. Within(x, file) /\ \A i \in 1 .. Len(Flight) : Follows(opt.skew, x, Flight[i])
    <2>1. Within(acc, file) /\ \A i \in 1 .. Len(Flight) : Follows(opt.skew, acc, Flight[i])
      BY <1>4 DEF InOrder
    <2> QED  BY <1>3, <2>1 DEF Within, Follows
  <1>6. OrderInv'
    <2>1. InOrder(opt.skew, file, acc', Flight, Append(out, x))
      BY <1>2, <1>3, <1>4, <1>5, OrderHand
    <2> QED  BY <1>3, <2>1 DEF OrderInv, Stays
  <1>7. KeptInv'
    <2>1. \A k \in Both : Through(Append(out, x), acc', Flight, k) = Through(out, acc, Flight, k)
      BY <1>2, <1>3, ThroughCut
    <2>2. /\ Through(Append(out, x), acc', Flight, "ev") = Through(out, acc, Flight, "ev")
          /\ Through(Append(out, x), acc', Flight, "tr") = Through(out, acc, Flight, "tr")
      BY <2>1 DEF Both
    <2> QED  BY <1>1, <1>3, <2>2 DEF KeptInv, Stays
  <1> QED  BY <1>6, <1>7 DEF Core

\* Every action keeps the core.
LEMMA CoreStep ==
  ASSUME Core, [Next]_vars
  PROVE  Core'
  <1>1. CASE WorkerPull
    BY <1>1, WorkerPullCore
  <1>2. CASE WorkerStops
    BY <1>2, WorkerStopsDoes, SameCore
  <1>3. CASE WorkerPut
    BY <1>3, WorkerPutCore
  <1>4. CASE ConsumerPull
    BY <1>4, ConsumerPullCore
  <1>5. CASE ConsumerStops
    BY <1>5, ConsumerStopsDoes, SameCore
  <1>6. CASE ConsumerGet
    BY <1>6, ConsumerGetCore
  <1>7. CASE CutTime
    <2>1. /\ TypeInv' /\ EndInv' /\ Stays /\ Flight' = Flight
          /\ \/ acc' = acc /\ out' = out
             \/ \E x : Handed(x)
      BY <1>7, CutTimeDoes
    <2> QED  BY <2>1, HandedCore, SameCore DEF Stays
  <1>8. CASE CutCount
    <2>1. /\ TypeInv' /\ EndInv' /\ Stays /\ Flight' = Flight
          /\ \/ acc' = acc /\ out' = out
             \/ \E x : Handed(x)
      BY <1>8, CutCountDoes
    <2> QED  BY <2>1, HandedCore, SameCore DEF Stays
  <1>9. CASE Rest
    <2>1. /\ TypeInv' /\ EndInv' /\ Stays /\ Flight' = Flight
          /\ \/ acc' = acc /\ out' = out
             \/ \E x : Handed(x)
      BY <1>9, RestDoes
    <2> QED  BY <2>1, HandedCore, SameCore DEF Stays
  <1>10. CASE Ask \/ Abandon
    BY <1>10, AskDoes, SameCore DEF Stays
  <1>11. CASE UNCHANGED vars
    <2>1. /\ opt' = opt /\ file' = file /\ src' = src /\ skip' = skip /\ worker' = worker
          /\ item' = item /\ queue' = queue /\ acc' = acc /\ anchor' = anchor /\ pc' = pc
          /\ out' = out
      BY <1>11 DEF vars, svars, avars, cvars
    <2>2. Flight' = Flight
      BY <2>1 DEF Flight
    <2>3. TypeInv' /\ EndInv'
      BY <2>1 DEF Core, TypeInv, EndInv, Control
    <2> QED  BY <2>1, <2>2, <2>3, SameCore
  <1> QED  BY <1>1, <1>2, <1>3, <1>4, <1>5, <1>6, <1>7, <1>8, <1>9, <1>10, <1>11 DEF Next

\* The core of the invariant holds in every behaviour: who runs when, what an
\* end leaves in the queue, the order of what is on its way and what is kept.
THEOREM StreamsCore == Spec => []Core
  <1>1. Init => Core
    BY CoreInit
  <1>2. Core /\ [Next]_vars => Core'
    BY CoreStep
  <1> QED  BY <1>1, <1>2, PTL DEF Spec

-----------------------------------------------------------------------------
(* What the core of the invariant says of the stream.                      *)

\* What is on its way is what the runs look at.
LEMMA PassedFacts ==
  ASSUME TypeInv, NEW k \in Both
  PROVE  Passed(k) = Through(out, acc, Flight, k)
  <1>1. queue \in Seq(Messages) /\ item \in Messages
    BY DEF TypeInv
  <1>2. /\ Len(Append(queue, item)) = Len(queue) + 1
        /\ \A i \in 1 .. Len(queue) + 1 : Append(queue, item)[i] \in Messages
    BY <1>1
  <1>3. \A i \in 1 .. Len(queue) + 1 : Load(Append(queue, item)[i]) = Body(Append(queue, item)[i])
    BY <1>2, BodiesFacts
  <1>4. Loads = Flight
    BY <1>2, <1>3 DEF Loads, Flight, Bodies
  <1> QED  BY <1>4 DEF Passed, Through, Spread

\* A place is where searchsorted says when what is in front of it is earlier,
\* and the next is not.
LEMMA BeforeIs ==
  ASSUME NEW s \in Seq(Items), Sorted(s), NEW t \in Nat, NEW i \in 0 .. Len(s),
         \A x \in ToSet(Take(s, i)) : x.t < t, i < Len(s) => t <= s[i + 1].t
  PROVE  Before(s, t) = i
  <1>1. Len(s) \in Nat /\ i \in Int /\ t \in Int /\ \A j \in 1 .. Len(s) : s[j] \in Items
    OBVIOUS
  <1> DEFINE b == Before(s, t)
  <1>2. /\ b \in 0 .. Len(s)
        /\ \A j \in 1 .. Len(s) : s[j].t < t <=> j <= b
    BY <1>1, BeforeFacts
  <1> HIDE DEF b
  <1>3. ASSUME b < i
        PROVE  FALSE
    <2>1. i \in 1 .. Len(s) /\ ~(i <= b) /\ i \in 1 .. i
      BY <1>1, <1>2, <1>3
    <2>2. ~(s[i].t < t)
      BY <1>2, <2>1
    <2>3. /\ Take(s, i) \in Seq(Items) /\ Len(Take(s, i)) = i /\ Take(s, i)[i] = s[i]
      BY <2>1, CutFacts
    <2>4. s[i] \in ToSet(Take(s, i))
      <3>1. DOMAIN Take(s, i) = 1 .. i
        BY <2>3
      <3> QED  BY <2>1, <2>3, <3>1 DEF ToSet
    <2> QED  BY <2>2, <2>4
  <1>4. ASSUME i < b
        PROVE  FALSE
    <2>1. i < Len(s) /\ i + 1 \in 1 .. Len(s) /\ i + 1 <= b
      BY <1>1, <1>2, <1>4
    <2>2. s[i + 1].t < t /\ t <= s[i + 1].t /\ s[i + 1] \in Items
      BY <1>1, <1>2, <2>1
    <2> QED  BY <2>2 DEF Items
  <1>5. b = i
    BY <1>1, <1>2, <1>3, <1>4
  <1> QED  BY <1>5 DEF b

\* Nothing is behind the last.
LEMMA DropAll ==
  ASSUME NEW s \in Seq(Items)
  PROVE  /\ \A n \in Nat : Len(s) <= n => Drop(s, n) = <<>>
         /\ Drop(s, 0) = s /\ Len(s) \in Nat
  <1>1. ASSUME NEW n \in Nat, Len(s) <= n
        PROVE  Drop(s, n) = <<>>
    <2>1. Len(s) < n + 1
      BY <1>1
    <2> QED  BY <2>1 DEF Drop
  <1>2. 0 \in 0 .. Len(s) /\ Len(s) \in Nat
    OBVIOUS
  <1>3. Drop(s, 0) \in Seq(Items) /\ Len(Drop(s, 0)) = Len(s)
        /\ \A i \in 1 .. Len(s) : Drop(s, 0)[i] = s[i]
    <2>1. /\ Drop(s, 0) \in Seq(Items) /\ Len(Drop(s, 0)) = Len(s) - 0
          /\ \A i \in 1 .. Len(s) - 0 : Drop(s, 0)[i] = s[0 + i]
      BY <1>2, CutFacts
    <2>2. Len(s) - 0 = Len(s) /\ \A i \in 1 .. Len(s) : 0 + i = i
      BY <1>2
    <2> QED  BY <2>1, <2>2
  <1>4. Drop(s, 0) = s
    BY <1>3, SeqEqual
  <1> QED  BY <1>1, <1>2, <1>4

\* Nothing is lost when the core holds.
LEMMA CoreKeeps ==
  ASSUME Core
  PROVE  NothingLost
  <1>1. /\ opt \in Pipelines /\ file \in Chunk /\ Tidy(file) /\ skip.on \in BOOLEAN
    BY DEF Core, TypeInv, OrderInv, InOrder
  <1>2. /\ file.ev \in Seq(Items) /\ file.tr \in Seq(Items) /\ Sorted(file.ev)
        /\ Len(file.ev) \in Nat /\ Len(file.tr) \in Nat /\ DOMAIN file.tr = 1 .. Len(file.tr)
    BY <1>1 DEF Chunk, Tidy, Both
  <1>3. SkipTime \in Nat /\ SkipTime \in Int /\ SkipCount \in Nat
    BY StreamsAssumption
  <1> DEFINE e == Passed("ev")
             r == Passed("tr")
  <1>4. Kept(opt.skip, skip, file, e, r)
    <2>1. Passed("ev") = Through(out, acc, Flight, "ev") /\ Passed("tr") = Through(out, acc, Flight, "tr")
      BY PassedFacts DEF Core, Both
    <2> QED  BY <2>1 DEF Core, KeptInv
  <1> HIDE DEF e, r
  <1>5. opt.skip \in {"none", "time", "event"}
    BY <1>1 DEF Pipelines
  <1>6. /\ Drop(file.tr, Len(file.tr)) = <<>> /\ Drop(file.tr, 0) = file.tr
        /\ 0 \in 0 .. Len(file.tr) /\ Len(file.tr) \in 0 .. Len(file.tr)
    BY <1>2, DropAll
  <1>7. CASE opt.skip = "none"
    <2>1. e = file.ev /\ r = file.tr
      BY <1>4, <1>7 DEF Kept
    <2> QED  BY <1>6, <1>7, <2>1 DEF NothingLost, e, r
  <1>8. CASE opt.skip # "none" /\ skip.on
    <2>1. /\ e = <<>> /\ r = <<>>
          /\ opt.skip = "time" => \A x \in ToSet(file.ev) : x.t < SkipTime
          /\ opt.skip = "event" => Len(file.ev) <= SkipCount
      BY <1>4, <1>8 DEF Kept
    <2>2. opt.skip = "time" => Drop(file.ev, Before(file.ev, SkipTime)) = <<>>
      <3>1. SUFFICES ASSUME opt.skip = "time"
                     PROVE  Drop(file.ev, Before(file.ev, SkipTime)) = <<>>
        OBVIOUS
      <3>2. Len(file.ev) \in 0 .. Len(file.ev) /\ ~(Len(file.ev) < Len(file.ev))
        BY <1>2
      <3>3. \A x \in ToSet(Take(file.ev, Len(file.ev))) : x.t < SkipTime
        <4>1. ToSet(file.ev) = ToSet(Take(file.ev, Len(file.ev))) \cup ToSet(Drop(file.ev, Len(file.ev)))
          BY <1>2, <3>2, SetCut
        <4> QED  BY <2>1, <3>1, <4>1
      <3>4. Before(file.ev, SkipTime) = Len(file.ev)
        BY <1>2, <1>3, <3>2, <3>3, BeforeIs
      <3> QED  BY <1>2, <3>4, DropAll
    <2>3. opt.skip = "event" => Drop(file.ev, SkipCount) = <<>>
      BY <1>2, <1>3, <2>1, DropAll
    <2> QED  BY <1>5, <1>6, <1>8, <2>1, <2>2, <2>3 DEF NothingLost, e, r
  <1>9. CASE opt.skip # "none" /\ ~skip.on
    <2>1. PICK i \in 0 .. Len(file.ev) - 1, m \in 0 .. Len(file.tr) :
             KeptFrom(opt.skip, file.ev, file.tr, e, r, i, m)
      BY <1>4, <1>9 DEF Kept
    <2>2. i \in 0 .. Len(file.ev) /\ i < Len(file.ev) /\ 1 \in 1 .. Len(file.ev) - i
      BY <1>2
    <2> DEFINE here == file.ev[i + 1]
    <2>3. /\ e = Drop(file.ev, i) /\ r = Drop(file.tr, m)
          /\ opt.skip = "time" => /\ \A x \in ToSet(Take(file.ev, i)) : x.t < SkipTime
                                  /\ SkipTime <= here.t
          /\ opt.skip = "event" => i = SkipCount
          /\ \A x \in ToSet(Take(file.tr, m)) : x.t <= here.t
          /\ \A x \in ToSet(r) : x.t >= IF opt.skip = "time" THEN SkipTime ELSE here.t
      BY <2>1 DEF KeptFrom
    <2>4. opt.skip = "time" => e = Drop(file.ev, Before(file.ev, SkipTime))
      <3>1. SUFFICES ASSUME opt.skip = "time"
                     PROVE  e = Drop(file.ev, Before(file.ev, SkipTime))
        OBVIOUS
      <3>2. Before(file.ev, SkipTime) = i
        BY <1>2, <1>3, <2>2, <2>3, <3>1, BeforeIs
      <3> QED  BY <2>3, <3>2
    <2>5. Head(e) = here
      <3>1. /\ Drop(file.ev, i) \in Seq(Items) /\ Len(Drop(file.ev, i)) = Len(file.ev) - i
            /\ \A j \in 1 .. Len(file.ev) - i : Drop(file.ev, i)[j] = file.ev[i + j]
        BY <1>2, <2>2, CutFacts, SMTT(30), ZenonT(30)
      <3>2. e \in Seq(Items) /\ e[1] = here /\ e # <<>>
        BY <2>2, <2>3, <3>1
      <3> QED  BY <3>2
    <2> HIDE DEF here
    <2>6. ASSUME NEW j \in DOMAIN file.tr, file.tr[j].t > here.t
          PROVE  file.tr[j] \in ToSet(r)
      <3>1. ToSet(file.tr) = ToSet(Take(file.tr, m)) \cup ToSet(Drop(file.tr, m))
        BY <1>2, SetCut
      <3>2. file.tr[j] \in ToSet(file.tr)
        BY DEF ToSet
      <3>3. here \in Items /\ file.tr[j] \in Items
        <4>1. i + 1 \in 1 .. Len(file.ev)
          BY <2>2
        <4> QED  BY <1>2, <4>1 DEF here
      <3>4. file.tr[j] \notin ToSet(Take(file.tr, m))
        BY <2>3, <2>6, <3>3 DEF Items
      <3> QED  BY <2>3, <3>1, <3>2, <3>4
    <2>7. SkipKeepsTriggers
      BY <2>3, <2>5, <2>6 DEF SkipKeepsTriggers, e, r
    <2> QED  BY <1>5, <1>9, <2>3, <2>4, <2>7 DEF NothingLost, e, r
  <1> QED  BY <1>1, <1>7, <1>8, <1>9

\* The end is true when the core holds.
LEMMA CoreEnds ==
  ASSUME Core
  PROVE  EndIsTrue
  <1>1. TypeInv /\ Control /\ Ends(Append(queue, item), src, opt.async, pc)
    BY DEF Core, EndInv
  <1>2. Append(queue, item) \in Seq(Messages)
    BY <1>1 DEF TypeInv
  <1>3. pc \in {"ended", "raised"} => \A i \in 1 .. Len(Append(queue, item)) : Append(queue, item)[i] = Sentinel
    BY <1>1 DEF Ends
  <1>4. ToSet(Append(queue, item)) = {Append(queue, item)[i] : i \in 1 .. Len(Append(queue, item))}
    BY <1>2, SetFacts
  <1> QED  BY <1>1, <1>3, <1>4 DEF EndIsTrue, Control

\* No stage loses, repeats or reorders an event or a trigger, whatever the
\* stages are, however the file comes in chunks, whatever size the queue has:
\* what is handed out, waits to be cut, is queued and is being put is the file
\* from the end of the skipped part on.
THEOREM StreamsLoseNothing == Spec => []NothingLost
  <1>1. Core => NothingLost
    BY CoreKeeps
  <1> QED  BY <1>1, StreamsCore, PTL

\* A consumer that sees the end has had everything, and an error is seen as an
\* error, behind every chunk that came before it.
THEOREM StreamsEndIsTrue == Spec => []EndIsTrue
  <1>1. Core => EndIsTrue
    BY CoreEnds
  <1> QED  BY <1>1, StreamsCore, PTL

-----------------------------------------------------------------------------
(* stream_delta_t.                                                         *)

\* Times are numbers.
LEMMA TimesAre ==
  /\ \A c \in Chunk : \A k \in Both : \A x \in ToSet(c[k]) : x \in Items /\ x.t \in Nat
  /\ \A c \in Windows : \A k \in Both : \A x \in ToSet(c[k]) : x \in Items /\ x.t \in Nat
  <1>1. \A s \in Seq(Items) : \A x \in ToSet(s) : x \in Items
    BY SetFacts
  <1>2. \A x \in Items : x.t \in Nat
    BY DEF Items
  <1>3. /\ \A c \in Chunk : \A k \in Both : c[k] \in Seq(Items)
        /\ \A c \in Windows : \A k \in Both : c[k] \in Seq(Items)
    BY ChunkFacts
  <1> QED  BY <1>1, <1>2, <1>3

\* What follows the file is not in front of where it has come to.
LEMMA ReachedFrom ==
  ASSUME NEW skew, NEW f \in Chunk, NEW c \in Chunk, NEW t \in Nat, ~skew,
         Reached(skew, f, t), Follows(skew, f, c)
  PROVE  From(c, t)
  <1>1. t # None
    BY DEF None
  <1>2. PICK k \in Both : \E x \in ToSet(f[k]) : t <= x.t
    BY <1>1 DEF Reached
  <1>a. PICK x \in ToSet(f[k]) : t <= x.t
    BY <1>2
  <1>3. x.t \in Nat
    BY TimesAre
  <1>4. ASSUME NEW l \in Both, NEW y \in ToSet(c[l])
        PROVE  t <= y.t
    <2>1. x.t <= y.t
      BY DEF Follows
    <2>2. y.t \in Nat
      BY TimesAre
    <2> QED  BY <1>a, <1>3, <2>1, <2>2
  <1> QED  BY <1>4 DEF From

\* The worker's side of the queue.
LEMMA RestSend ==
  ASSUME NEW skew, NEW a, NEW v \in Seq(Chunk), NEW c \in Chunk, NEW o, NEW from, NEW at,
         TimeRest(skew, a, Append(v, Nothing), o, from, at), from # None /\ ~skew => From(c, from)
  PROVE  TimeRest(skew, a, Append(v, c), o, from, at)
  <1> DEFINE w == Append(v, Nothing)
             u == Append(v, c)
             n == Len(v)
  <1>1. Nothing \in Chunk
    BY ChunkFacts
  <1>2. /\ n \in Nat /\ Len(w) = n + 1 /\ Len(u) = n + 1 /\ u[n + 1] = c
        /\ \A i \in 1 .. n : w[i] = v[i] /\ u[i] = v[i]
    BY <1>1
  <1> HIDE DEF w, u, n
  <1>3. TimeRest(skew, a, w, o, from, at)
    BY DEF w
  <1>4. ASSUME from # None, ~skew, NEW i \in 1 .. Len(u)
        PROVE  From(u[i], from)
    <2>1. CASE i \in 1 .. n
      <3>1. i \in 1 .. Len(w) /\ u[i] = w[i]
        BY <1>2, <2>1
      <3> QED  BY <1>3, <1>4, <3>1 DEF TimeRest
    <2>2. CASE i = n + 1
      BY <1>2, <1>4, <2>2
    <2> QED  BY <1>2, <2>1, <2>2
  <1>5. TimeRest(skew, a, u, o, from, at)
    BY <1>3, <1>4 DEF TimeRest
  <1> QED  BY <1>5 DEF u

\* A place for the next chunk changes nothing.
LEMMA RestPut ==
  ASSUME NEW skew, NEW a, NEW v \in Seq(Chunk), NEW o, NEW from, NEW at,
         TimeRest(skew, a, v, o, from, at)
  PROVE  TimeRest(skew, a, Append(v, Nothing), o, from, at)
  <1> DEFINE u == Append(v, Nothing)
             n == Len(v)
  <1>1. Nothing \in Chunk /\ From(Nothing, from)
    BY ChunkFacts DEF From
  <1>2. n \in Nat /\ Len(u) = n + 1 /\ u[n + 1] = Nothing /\ \A i \in 1 .. n : u[i] = v[i]
    BY <1>1
  <1>3. n = Len(v)
    OBVIOUS
  <1> HIDE DEF u, n
  <1>4. ASSUME from # None, ~skew, NEW i \in 1 .. Len(u)
        PROVE  From(u[i], from)
    <2>1. CASE i \in 1 .. n
      BY <1>2, <1>3, <1>4, <2>1 DEF TimeRest
    <2>2. CASE i = n + 1
      BY <1>1, <1>2, <2>2
    <2> QED  BY <1>2, <2>1, <2>2
  <1>5. TimeRest(skew, a, u, o, from, at)
    BY <1>4 DEF TimeRest
  <1> QED  BY <1>5 DEF u

\* The consumer's side: a chunk arrives, and is appended to what waits.
LEMMA RestTake ==
  ASSUME NEW skew, NEW a, NEW w \in Seq(Chunk), w # <<>>, NEW o, NEW from, NEW at,
         TimeRest(skew, a, w, o, from, at)
  PROVE  /\ TimeRest(skew, a, Tail(w), o, from, at)
         /\ from # None /\ ~skew => From(Head(w), from)
  <1> DEFINE v == Tail(w)
  <1>1. /\ Len(v) \in Nat /\ Len(w) = Len(v) + 1 /\ Head(w) = w[1]
        /\ \A i \in 1 .. Len(v) : v[i] = w[i + 1]
    OBVIOUS
  <1> HIDE DEF v
  <1>2. 1 \in 1 .. Len(w) /\ \A i \in 1 .. Len(v) : i + 1 \in 1 .. Len(w)
    BY <1>1
  <1>3. from # None /\ ~skew => From(Head(w), from)
    BY <1>1, <1>2 DEF TimeRest
  <1>4. ASSUME from # None, ~skew, NEW i \in 1 .. Len(v)
        PROVE  From(v[i], from)
    BY <1>1, <1>2, <1>4 DEF TimeRest
  <1>5. TimeRest(skew, a, v, o, from, at)
    BY <1>4 DEF TimeRest
  <1> QED  BY <1>3, <1>5 DEF v

\* What arrives is from the window that is being filled, or behind it.
LEMMA RestJoin ==
  ASSUME NEW skew, NEW a \in Chunk, NEW c \in Chunk, NEW w, NEW o, NEW from, NEW at,
         TimeRest(skew, a, w, o, from, at), at # "ended",
         from # None /\ ~skew => From(c, from)
  PROVE  TimeRest(skew, Join(a, c), w, o, from, "cut")
  <1>1. \A k \in Both : ToSet(Join(a, c)[k]) = ToSet(a[k]) \cup ToSet(c[k])
    BY JoinFacts, ZenonT(30), SMTT(30)
  <1>2. ToSet(Join(a, c).ev) = ToSet(a.ev) \cup ToSet(c.ev)
    <2>1. ToSet(Join(a, c)["ev"]) = ToSet(a["ev"]) \cup ToSet(c["ev"])
      BY <1>1 DEF Both
    <2> QED  BY <2>1
  <1>3. \A t : From(a, t) /\ From(c, t) => From(Join(a, c), t)
    BY <1>1 DEF From
  <1>4. \A t : From(c, t) => \A x \in ToSet(c.ev) : t <= x.t
    <2>1. \A t : From(c, t) => \A x \in ToSet(c["ev"]) : t <= x.t
      BY DEF From, Both
    <2> QED  BY <2>1
  <1> QED  BY <1>2, <1>3, <1>4 DEF TimeRest

\* The consumer's control moves on; only where it waits for more, or at the
\* end, is less than a window at hand.
LEMMA RestMoves ==
  ASSUME NEW skew, NEW a, NEW w, NEW o, NEW from, NEW at, NEW to,
         TimeRest(skew, a, w, o, from, at), at # "ended",
         to \in {"pull", "rest"} => at \in {"pull", "rest"} \/ a = Nothing
  PROVE  TimeRest(skew, a, w, o, from, to)
  <1>1. Till(Nothing, from + Delta)
    BY ChunkFacts DEF Till
  <1> QED  BY <1>1 DEF TimeRest

\* The windows so far are not changed by one more.
LEMMA WindowsGrow ==
  ASSUME NEW skew, NEW o \in Seq(Windows), NEW x \in Windows,
         \A i \in 1 .. Len(o) : TimeWindow(skew, o, i),
         TimeWindow(skew, Append(o, x), Len(o) + 1)
  PROVE  \A i \in 1 .. Len(Append(o, x)) : TimeWindow(skew, Append(o, x), i)
  <1> DEFINE p == Append(o, x)
             n == Len(o)
  <1>1. n \in Nat /\ Len(p) = n + 1 /\ \A i \in 1 .. n : p[i] = o[i]
    OBVIOUS
  <1>2. \A i \in 1 .. n : TimeWindow(skew, o, i)
    OBVIOUS
  <1>3. TimeWindow(skew, p, n + 1)
    OBVIOUS
  <1> HIDE DEF p, n
  <1>4. ASSUME NEW i \in 1 .. n
        PROVE  TimeWindow(skew, p, i)
    <2>1. p[i] = o[i] /\ (i > 1 => p[i - 1] = o[i - 1])
      BY <1>1
    <2> QED  BY <1>2, <2>1 DEF TimeWindow
  <1>5. ASSUME NEW i \in 1 .. Len(p)
        PROVE  TimeWindow(skew, p, i)
    <2>1. i \in 1 .. n \/ i = n + 1
      BY <1>1
    <2> QED  BY <1>3, <1>4, <2>1
  <1> QED  BY <1>5 DEF p

\* Latest is the time of something that waits, and nothing that waits is later.
LEMMA LatestFacts ==
  ASSUME acc \in Chunk, Tidy(acc), acc # Nothing
  PROVE  /\ \E k \in Both : \E x \in ToSet(acc[k]) : x.t = Latest
         /\ Latest \in Nat /\ \A k \in Both : \A x \in ToSet(acc[k]) : x.t <= Latest
  <1> DEFINE e == IF acc.ev = <<>> THEN -1 ELSE Last(acc.ev).t
  <1>1. /\ acc.ev \in Seq(Items) /\ acc.tr \in Seq(Items) /\ Sorted(acc.ev) /\ Sorted(acc.tr)
        /\ (acc.ev # <<>> \/ acc.tr # <<>>)
    BY ChunkFacts DEF Tidy, Chunk, Both
  <1>2. ASSUME NEW s \in Seq(Items), s # <<>>, Sorted(s)
        PROVE  Last(s).t \in Nat /\ Last(s) \in ToSet(s) /\ \A x \in ToSet(s) : x.t \in Nat /\ x.t <= Last(s).t
    <2>1. Len(s) \in 1 .. Len(s) /\ Last(s) = s[Len(s)] /\ DOMAIN s = 1 .. Len(s)
      BY <1>2 DEF Last
    <2>2. Last(s) \in ToSet(s)
      BY <2>1 DEF ToSet
    <2>3. LastTime(s) = Last(s).t
      BY <1>2 DEF LastTime
    <2> QED  BY <1>2, <2>2, <2>3, LastTimeFacts
  <1>3. ToSet(<<>>) = {}
    BY DEF ToSet
  <1>4. /\ acc.ev = <<>> => e = -1 /\ ToSet(acc.ev) = {}
        /\ acc.ev # <<>> => /\ e = Last(acc.ev).t /\ e \in Nat /\ Last(acc.ev) \in ToSet(acc.ev)
                            /\ \A x \in ToSet(acc.ev) : x.t \in Nat /\ x.t <= e
    BY <1>1, <1>2, <1>3
  <1>5. /\ acc.tr = <<>> => ToSet(acc.tr) = {}
        /\ acc.tr # <<>> => /\ Last(acc.tr).t \in Nat /\ Last(acc.tr) \in ToSet(acc.tr)
                            /\ \A x \in ToSet(acc.tr) : x.t \in Nat /\ x.t <= Last(acc.tr).t
    BY <1>1, <1>2, <1>3
  <1>6. Latest = IF acc.tr # <<>> /\ Last(acc.tr).t > e THEN Last(acc.tr).t ELSE e
    BY DEF Latest
  <1> HIDE DEF e
  <1>7. /\ \/ \E x \in ToSet(acc.ev) : x.t = Latest
           \/ \E x \in ToSet(acc.tr) : x.t = Latest
        /\ Latest \in Nat
        /\ \A x \in ToSet(acc.ev) : x.t <= Latest
        /\ \A x \in ToSet(acc.tr) : x.t <= Latest
    <2>1. CASE acc.tr # <<>> /\ Last(acc.tr).t > e
      <3>1. Latest = Last(acc.tr).t /\ Latest \in Nat /\ e < Latest
        BY <1>5, <1>6, <2>1
      <3>2. \A x \in ToSet(acc.ev) : x.t <= Latest
        <4>1. CASE acc.ev = <<>>
          BY <1>4, <4>1
        <4>2. CASE acc.ev # <<>>
          BY <1>4, <3>1, <4>2
        <4> QED  BY <4>1, <4>2
      <3>3. /\ Last(acc.tr) \in ToSet(acc.tr) /\ \A x \in ToSet(acc.tr) : x.t <= Latest
        BY <1>5, <2>1, <3>1
      <3> QED  BY <3>1, <3>2, <3>3
    <2>2. CASE acc.tr # <<>> /\ ~(Last(acc.tr).t > e)
      <3>1. Latest = e /\ Last(acc.tr).t \in Nat
        BY <1>5, <1>6, <2>2
      <3>2. acc.ev # <<>>
        BY <1>4, <2>2, <3>1
      <3>3. e \in Nat /\ e = Last(acc.ev).t /\ Last(acc.ev) \in ToSet(acc.ev)
            /\ \A x \in ToSet(acc.ev) : x.t <= e
        BY <1>4, <3>2
      <3>4. \A x \in ToSet(acc.tr) : x.t <= e
        BY <1>5, <2>2, <3>1, <3>3
      <3> QED  BY <3>1, <3>3, <3>4
    <2>3. CASE acc.tr = <<>>
      <3>1. Latest = e /\ acc.ev # <<>>
        BY <1>1, <1>6, <2>3
      <3> QED  BY <1>4, <1>5, <2>3, <3>1
    <2> QED  BY <2>1, <2>2, <2>3
  <1>8. acc["ev"] = acc.ev /\ acc["tr"] = acc.tr
    OBVIOUS
  <1> QED  BY <1>7, <1>8 DEF Both

\* The end of the window is in front of something in the file once it is in
\* front of something that waits.
LEMMA ReachedGrow ==
  ASSUME NEW skew, NEW f, NEW f2, NEW from, Reached(skew, f, from), Within(f, f2)
  PROVE  Reached(skew, f2, from)
  BY DEF Reached, Within

\* With its first event, or trigger, a stream has a window to fill.
LEMMA AnchorRest ==
  ASSUME Core, TimeInv, opt.cut = "time", pc = "cut", acc # Nothing
  PROVE  /\ TimeRest(opt.skew, acc, Flight, out, Anchor, "cut")
         /\ Reached(opt.skew, file, Anchor)
  <1>1. /\ TypeInv /\ acc \in Chunk /\ Tidy(acc) /\ Within(acc, file)
        /\ \A i \in 1 .. Len(Flight) : Follows(opt.skew, acc, Flight[i])
    BY DEF Core, TypeInv, OrderInv, InOrder
  <1>2. /\ TimeRest(opt.skew, acc, Flight, out, anchor, "cut")
        /\ Reached(opt.skew, file, anchor)
    BY DEF TimeInv
  <1>3. /\ Anchor \in Nat /\ Anchor # None /\ (anchor # None => Anchor = anchor)
        /\ anchor = None => \/ acc.ev # <<>> /\ Anchor = acc.ev[1].t
                            \/ acc.ev = <<>> /\ acc.tr # <<>> /\ Anchor = acc.tr[1].t
    <2>1. /\ Anchor \in Nat /\ (anchor # None => Anchor = anchor)
          /\ anchor = None => \/ acc.ev # <<>> /\ Anchor = acc.ev[1].t
                              \/ acc.ev = <<>> /\ acc.tr # <<>> /\ Anchor = acc.tr[1].t
      BY <1>1, AnchorFacts
    <2>2. -1 \notin Nat
      OBVIOUS
    <2> QED  BY <2>1, <2>2 DEF None
  <1>4. CASE anchor # None
    BY <1>2, <1>3, <1>4
  <1>5. CASE anchor = None
    <2> DEFINE t == Anchor
    <2>1. out = <<>>
      BY <1>2, <1>5 DEF TimeRest
    <2>2. acc.ev \in Seq(Items) /\ acc.tr \in Seq(Items) /\ Sorted(acc.ev) /\ Sorted(acc.tr)
      BY <1>1 DEF Chunk, Tidy, Both
    <2>3. \E k \in Both : \E h \in ToSet(acc[k]) : h.t = t
      <3>1. CASE acc.ev # <<>> /\ Anchor = acc.ev[1].t
        <4>1. 1 \in DOMAIN acc.ev
          BY <2>2, <3>1
        <4>2. acc.ev[1] \in ToSet(acc.ev)
          BY <4>1 DEF ToSet
        <4>3. "ev" \in Both /\ acc["ev"] = acc.ev
          BY DEF Both
        <4> QED  BY <3>1, <4>2, <4>3
      <3>2. CASE acc.tr # <<>> /\ Anchor = acc.tr[1].t
        <4>1. 1 \in DOMAIN acc.tr
          BY <2>2, <3>2
        <4>2. acc.tr[1] \in ToSet(acc.tr)
          BY <4>1 DEF ToSet
        <4>3. "tr" \in Both /\ acc["tr"] = acc.tr
          BY DEF Both
        <4> QED  BY <3>2, <4>2, <4>3
      <3> QED  BY <1>3, <1>5, <3>1, <3>2
    <2>4. ASSUME NEW y \in ToSet(acc.ev)
          PROVE  t <= y.t
      <3>1. acc.ev # <<>> /\ Len(acc.ev) \in Nat /\ DOMAIN acc.ev = 1 .. Len(acc.ev)
        BY <2>2, <2>4, SetFacts
      <3>2. PICK j \in 1 .. Len(acc.ev) : y = acc.ev[j]
        BY <2>2, <2>4, SetFacts
      <3>3. 1 \in 1 .. Len(acc.ev) /\ 1 <= j
        BY <3>1, <3>2
      <3>4. acc.ev[1].t <= acc.ev[j].t
        BY <2>2, <3>1, <3>3 DEF Sorted
      <3> QED  BY <1>3, <1>5, <3>1, <3>2, <3>4
    <2> HIDE DEF t
    <2>5. PICK k \in Both : \E h \in ToSet(acc[k]) : h.t = t
      BY <2>3
    <2>6. PICK h \in ToSet(acc[k]) : h.t = t
      BY <2>5
    <2>7. ASSUME ~opt.skew, NEW i \in 1 .. Len(Flight)
          PROVE  From(Flight[i], t)
      <3>1. Follows(opt.skew, acc, Flight[i])
        BY <1>1
      <3>2. ASSUME NEW l \in Both, NEW y \in ToSet(Flight[i][l])
            PROVE  t <= y.t
        BY <2>6, <2>7, <3>1 DEF Follows
      <3> QED  BY <3>2 DEF From
    <2>8. h \in ToSet(file[k])
      BY <1>1, <2>6 DEF Within
    <2>9. t # None /\ t \in Nat /\ t <= h.t
      BY <1>3, <2>6 DEF t
    <2>10. Reached(opt.skew, file, t)
      BY <2>8, <2>9 DEF Reached
    <2>11. TimeRest(opt.skew, acc, Flight, out, t, "cut")
      BY <2>1, <2>4, <2>7, <2>9 DEF TimeRest
    <2> QED  BY <2>10, <2>11 DEF t
  <1> QED  BY <1>4, <1>5

\* A window is handed out: what is left is from its end on, and so is all that
\* is still to come, because something that waits is.
LEMMA WindowCut ==
  ASSUME NEW skew, NEW f, NEW a \in Chunk, Tidy(a), Within(a, f), NEW b, NEW w \in Seq(Chunk),
         NEW o \in Seq(Windows), NEW x \in Windows, NEW from \in Nat, NEW end, end = from + Delta,
         \A i \in 1 .. Len(w) : Follows(skew, a, w[i]),
         TimeRest(skew, a, w, o, from, "cut"),
         \E k \in Both : \E l \in ToSet(a[k]) : end <= l.t,
         x.end = end, Within(x, a),
         x.ev = Take(a.ev, Before(a.ev, end)), x.tr = Take(a.tr, Before(a.tr, end)),
         b.ev = Drop(a.ev, Before(a.ev, end)), b.tr = Drop(a.tr, Before(a.tr, end))
  PROVE  /\ TimeWindow(skew, Append(o, x), Len(o) + 1)
         /\ TimeRest(skew, b, w, Append(o, x), end, "held")
         /\ Reached(skew, f, end)
  <1>1. /\ Delta \in Nat /\ end \in Nat /\ end \in Int /\ end # None /\ from # None
        /\ end - Delta = from
    <2>1. Delta \in Nat
      BY StreamsAssumption
    <2> QED  BY <2>1 DEF None
  <1>2. a.ev \in Seq(Items) /\ a.tr \in Seq(Items) /\ Sorted(a.ev) /\ Sorted(a.tr)
    BY DEF Chunk, Tidy, Both
  <1>3. /\ \A y \in ToSet(x.ev) : y.t < end
        /\ \A y \in ToSet(b.ev) : end <= y.t
    BY <1>1, <1>2, BeforeFacts
  <1>4. /\ \A y \in ToSet(x.tr) : y.t < end
        /\ \A y \in ToSet(b.tr) : end <= y.t
    BY <1>1, <1>2, BeforeFacts
  <1>5. Till(x, end) /\ From(b, end)
    BY <1>3, <1>4 DEF Till, From, Both
  <1>6. PICK k \in Both : \E l \in ToSet(a[k]) : end <= l.t
    OBVIOUS
  <1>7. PICK l \in ToSet(a[k]) : end <= l.t
    BY <1>6
  <1>8. l \in Items /\ l.t \in Nat /\ l \in ToSet(f[k])
    BY <1>7, TimesAre DEF Within
  <1>9. Reached(skew, f, end)
    BY <1>7, <1>8 DEF Reached
  <1>10. ASSUME ~skew, NEW i \in 1 .. Len(w)
         PROVE  From(w[i], end)
    <2>1. Follows(skew, a, w[i])
      OBVIOUS
    <2>2. ASSUME NEW m \in Both, NEW y \in ToSet(w[i][m])
          PROVE  end <= y.t
      <3>1. l.t <= y.t
        BY <1>7, <1>10, <2>1 DEF Follows
      <3>2. w[i] \in Chunk
        OBVIOUS
      <3>3. y.t \in Nat
        BY <3>2, TimesAre
      <3> QED  BY <1>1, <1>7, <1>8, <3>1, <3>3
    <2> QED  BY <2>2 DEF From
  <1> DEFINE p == Append(o, x)
             n == Len(o)
  <1>11. /\ n \in Nat /\ Len(p) = n + 1 /\ p[n + 1] = x /\ p # <<>>
         /\ n + 1 > 1 => /\ o # <<>> /\ n + 1 - 1 = n /\ p[n] = o[n]
    <2>1. n \in Nat /\ Len(p) = n + 1 /\ p[n + 1] = x /\ p # <<>>
      OBVIOUS
    <2>2. n + 1 > 1 => /\ o # <<>> /\ n + 1 - 1 = n /\ p[n] = o[n]
      OBVIOUS
    <2> QED  BY <2>1, <2>2
  <1>12. n + 1 > 1 => o[n].end = from
    BY <1>11 DEF TimeRest
  <1> HIDE DEF p
  <1>13. TimeWindow(skew, p, n + 1)
    <2>1. n + 1 > 1 => p[n + 1 - 1].end = from
      BY <1>11, <1>12
    <2>2. p[n + 1] = x
      BY <1>11
    <2>3. ~skew => \A y \in ToSet(x.ev) : from <= y.t
      <3>1. ToSet(x.ev) \subseteq ToSet(a.ev)
        <4>1. x["ev"] = x.ev /\ a["ev"] = a.ev
          OBVIOUS
        <4> QED  BY <4>1 DEF Within, Both
      <3> QED  BY <1>1, <3>1 DEF TimeRest
    <2>4. n + 1 > 1 /\ ~skew => From(x, from)
      <3>1. o # <<>> /\ ~skew => From(a, from)
        BY <1>1 DEF TimeRest
      <3> QED  BY <1>11, <3>1 DEF From, Within
    <2> DEFINE j == n + 1
               q == p[j - 1]
    <2>5. (j > 1 => q.end = from) /\ p[j] = x /\ (j > 1 /\ ~skew => From(x, from))
      BY <2>1, <2>2, <2>4
    <2> HIDE DEF j
    <2>6. j > 1 => /\ q.end # None /\ x.end = q.end + Delta
                   /\ Till(x, q.end + Delta)
                   /\ ~skew => From(x, q.end)
      BY <1>1, <1>5, <2>5
    <2>7. ~skew => \A y \in ToSet(x.ev) : x.end - Delta <= y.t
      BY <1>1, <2>3
    <2>8. TimeWindow(skew, p, j)
      BY <1>5, <2>5, <2>6, <2>7 DEF TimeWindow
    <2> QED  BY <2>8 DEF j
  <1>14. TimeRest(skew, b, w, p, end, "held")
    <2>1. p[Len(p)].end = end
      BY <1>11
    <2> QED  BY <1>1, <1>3, <1>5, <1>10, <2>1 DEF TimeRest
  <1> QED  BY <1>9, <1>13, <1>14 DEF p

\* stream_delta_t has nothing to say before the first chunk.
LEMMA TimeInit ==
  ASSUME Init
  PROVE  TimeInv
  <1>1. acc = Nothing /\ anchor = None /\ out = <<>>
    BY DEF Init
  <1>2. TimeRest(opt.skew, Nothing, Flight, <<>>, None, pc)
    BY DEF TimeRest
  <1>3. Reached(opt.skew, file, None)
    BY DEF Reached
  <1>4. 1 .. Len(<<>>) = {}
    OBVIOUS
  <1> QED  BY <1>1, <1>2, <1>3, <1>4 DEF TimeInv

\* No window is handed out, and none begun.
LEMMA TimeSame ==
  ASSUME TimeInv, opt' = opt, out' = out, anchor' = anchor, Within(file, file'),
         opt.cut = "time" => TimeRest(opt.skew, acc', Flight', out, anchor, pc')
  PROVE  TimeInv'
  <1>1. CASE opt.cut # "time"
    BY <1>1 DEF TimeInv
  <1>2. CASE opt.cut = "time"
    <2>1. /\ \A i \in 1 .. Len(out) : TimeWindow(opt.skew, out, i)
          /\ Reached(opt.skew, file, anchor)
      BY <1>2 DEF TimeInv
    <2>2. Reached(opt.skew, file', anchor)
      BY <2>1, ReachedGrow
    <2> QED  BY <1>2, <2>1, <2>2 DEF TimeInv
  <1> QED  BY <1>1, <1>2

\* What is sent is not in front of the window that is being filled.
LEMMA SentFrom ==
  ASSUME TypeInv, TimeInv, opt.cut = "time", NEW c \in Chunk, Sent(c), anchor # None, ~opt.skew
  PROVE  From(c, anchor)
  <1>1. file \in Chunk /\ anchor \in Nat
    BY DEF TypeInv
  <1>2. Reached(opt.skew, file, anchor) /\ Follows(opt.skew, file, c)
    BY DEF TimeInv, Sent
  <1> QED  BY <1>1, <1>2, ReachedFrom

\* A chunk is decoded in the worker.
LEMMA WorkerPullTime ==
  ASSUME Core, TimeInv, WorkerPull
  PROVE  TimeInv'
  <1>1. /\ opt' = opt /\ acc' = acc /\ anchor' = anchor /\ pc' = pc /\ out' = out
        /\ \E v \in Seq(Chunk), c \in Chunk :
             Sent(c) /\ Flight = Append(v, Nothing) /\ Flight' = Append(v, c)
    BY WorkerPullDoes
  <1>2. PICK v \in Seq(Chunk), c \in Chunk :
          Sent(c) /\ Flight = Append(v, Nothing) /\ Flight' = Append(v, c)
    BY <1>1
  <1>3. Within(file, file')
    BY <1>2 DEF Sent
  <1>4. ASSUME opt.cut = "time"
        PROVE  TimeRest(opt.skew, acc', Flight', out, anchor, pc')
    <2>1. TimeRest(opt.skew, acc, Append(v, Nothing), out, anchor, pc)
      BY <1>2, <1>4 DEF TimeInv
    <2>2. anchor # None /\ ~opt.skew => From(c, anchor)
      BY <1>2, <1>4, SentFrom DEF Core
    <2>3. TimeRest(opt.skew, acc, Append(v, c), out, anchor, pc)
      BY <2>1, <2>2, RestSend
    <2> QED  BY <1>1, <1>2, <2>3
  <1> QED  BY <1>1, <1>3, <1>4, TimeSame

\* It is put in the queue.
LEMMA WorkerPutTime ==
  ASSUME Core, TimeInv, WorkerPut
  PROVE  TimeInv'
  <1>1. /\ opt' = opt /\ acc' = acc /\ anchor' = anchor /\ pc' = pc /\ out' = out
        /\ file' = file /\ Flight' = Append(Flight, Nothing)
    BY WorkerPutDoes
  <1>2. Flight \in Seq(Chunk)
    BY FlightFacts DEF Core
  <1>3. Within(file, file')
    BY <1>1 DEF Within
  <1>4. ASSUME opt.cut = "time"
        PROVE  TimeRest(opt.skew, acc', Flight', out, anchor, pc')
    <2>1. TimeRest(opt.skew, acc, Flight, out, anchor, pc)
      BY <1>4 DEF TimeInv
    <2>2. TimeRest(opt.skew, acc, Append(Flight, Nothing), out, anchor, pc)
      BY <1>2, <2>1, RestPut
    <2> QED  BY <1>1, <2>2
  <1> QED  BY <1>1, <1>3, <1>4, TimeSame

\* A chunk is decoded in the consumer's thread.
LEMMA ConsumerPullTime ==
  ASSUME Core, TimeInv, ConsumerPull
  PROVE  TimeInv'
  <1>1. /\ opt' = opt /\ pc = "pull" /\ Flight' = Flight
        /\ \E c \in Chunk :
             /\ Sent(c)
             /\ \/ /\ c = Nothing /\ acc' = acc /\ anchor' = anchor /\ pc' = pc /\ out' = out
                \/ Got(c) /\ Window(c.ev, c.tr, None) \in Windows
                   /\ \A k \in Both : Window(c.ev, c.tr, None)[k] = c[k]
    BY ConsumerPullDoes
  <1>2. PICK c \in Chunk :
          /\ Sent(c)
          /\ \/ acc' = acc /\ anchor' = anchor /\ pc' = pc /\ out' = out
             \/ Got(c)
    BY <1>1
  <1>3. Within(file, file') /\ acc \in Chunk
    BY <1>2 DEF Sent, Core, TypeInv
  <1>4. CASE opt.cut # "time"
    BY <1>1, <1>4 DEF TimeInv
  <1>5. CASE opt.cut = "time"
    <2>1. TimeRest(opt.skew, acc, Flight, out, anchor, "pull")
      BY <1>1, <1>5 DEF TimeInv
    <2>2. anchor # None /\ ~opt.skew => From(c, anchor)
      BY <1>2, <1>5, SentFrom DEF Core
    <2>3. TimeRest(opt.skew, Join(acc, c), Flight, out, anchor, "cut")
      BY <1>3, <2>1, <2>2, RestJoin
    <2>4. /\ anchor' = anchor /\ out' = out
          /\ TimeRest(opt.skew, acc', Flight', out, anchor, pc')
      <3>1. CASE acc' = acc /\ anchor' = anchor /\ pc' = pc /\ out' = out
        BY <1>1, <2>1, <3>1
      <3>2. CASE Got(c)
        <4>1. anchor' = anchor /\ acc' = Join(acc, c) /\ out' = out /\ pc' = "cut"
          BY <1>5, <3>2 DEF Got
        <4> QED  BY <1>1, <2>3, <4>1
      <3> QED  BY <1>2, <3>1, <3>2
    <2> QED  BY <1>1, <1>3, <2>4, TimeSame
  <1> QED  BY <1>4, <1>5

\* A chunk, or what stands for the end, is taken from the queue.
LEMMA ConsumerGetTime ==
  ASSUME Core, TimeInv, ConsumerGet
  PROVE  TimeInv'
  <1> DEFINE h == Head(Flight)
             w == Tail(Flight)
  <1>1. /\ opt' = opt /\ pc = "pull" /\ file' = file
        /\ Flight \in Seq(Chunk) /\ Flight # <<>> /\ Flight' = w
        /\ \/ /\ acc' = acc /\ anchor' = anchor /\ out' = out
              /\ pc' \in {"rest", "ended", "raised"}
           \/ Got(h)
    BY ConsumerGetDoes
  <1>2. Within(file, file') /\ acc \in Chunk /\ h \in Chunk
    BY <1>1 DEF Within, Core, TypeInv
  <1>3. CASE opt.cut # "time"
    BY <1>1, <1>3 DEF TimeInv
  <1>4. CASE opt.cut = "time"
    <2>1. TimeRest(opt.skew, acc, Flight, out, anchor, "pull")
      BY <1>1, <1>4 DEF TimeInv
    <2>2. /\ TimeRest(opt.skew, acc, w, out, anchor, "pull")
          /\ anchor # None /\ ~opt.skew => From(h, anchor)
      BY <1>1, <2>1, RestTake
    <2> HIDE DEF h, w
    <2>3. TimeRest(opt.skew, Join(acc, h), w, out, anchor, "cut")
      BY <1>2, <2>2, RestJoin
    <2>4. /\ anchor' = anchor /\ out' = out
          /\ TimeRest(opt.skew, acc', Flight', out, anchor, pc')
      <3>1. CASE /\ acc' = acc /\ anchor' = anchor /\ out' = out
                 /\ pc' \in {"rest", "ended", "raised"}
        <4>1. \A to : TimeRest(opt.skew, acc, w, out, anchor, to)
          BY <2>2, RestMoves
        <4> QED  BY <1>1, <3>1, <4>1
      <3>2. CASE Got(h)
        <4>1. anchor' = anchor /\ acc' = Join(acc, h) /\ out' = out /\ pc' = "cut"
          BY <1>4, <3>2 DEF Got
        <4> QED  BY <1>1, <2>3, <4>1
      <3> QED  BY <1>1, <3>1, <3>2
    <2> QED  BY <1>1, <1>2, <2>4, TimeSame
  <1> QED  BY <1>3, <1>4

\* The generator looks at what waits: less than a window, or its next one.
LEMMA CutTimeTime ==
  ASSUME Core, TimeInv, CutTime
  PROVE  TimeInv'
  <1>1. /\ Stays /\ Flight' = Flight /\ opt.cut = "time" /\ pc = "cut"
        /\ \/ /\ acc = Nothing \/ Latest < Anchor + Delta
              /\ pc' = "pull" /\ acc' = acc /\ out' = out
              /\ anchor' = IF acc = Nothing THEN anchor ELSE Anchor
           \/ /\ acc # Nothing /\ ~(Latest < Anchor + Delta)
              /\ pc' = "held" /\ anchor' = Anchor + Delta
              /\ \E x : /\ Handed(x) /\ x.end = Anchor + Delta
                        /\ x.ev = Take(acc.ev, Before(acc.ev, Anchor + Delta))
                        /\ x.tr = Take(acc.tr, Before(acc.tr, Anchor + Delta))
                        /\ acc'.ev = Drop(acc.ev, Before(acc.ev, Anchor + Delta))
                        /\ acc'.tr = Drop(acc.tr, Before(acc.tr, Anchor + Delta))
    BY CutTimeDoes
  <1>2. /\ TypeInv /\ acc \in Chunk /\ Tidy(acc) /\ Within(acc, file) /\ out \in Seq(Windows)
        /\ Flight \in Seq(Chunk) /\ \A i \in 1 .. Len(Flight) : Follows(opt.skew, acc, Flight[i])
    BY FlightFacts DEF Core, TypeInv, OrderInv, InOrder
  <1>3. /\ \A i \in 1 .. Len(out) : TimeWindow(opt.skew, out, i)
        /\ TimeRest(opt.skew, acc, Flight, out, anchor, "cut")
    BY <1>1 DEF TimeInv
  <1>4. opt' = opt /\ file' = file
    BY <1>1 DEF Stays
  <1>5. CASE acc = Nothing
    <2>1. pc' = "pull" /\ acc' = acc /\ out' = out /\ anchor' = anchor
      BY <1>1, <1>5
    <2>2. TimeRest(opt.skew, acc, Flight, out, anchor, "pull")
      BY <1>3, <1>5, RestMoves
    <2>3. Within(file, file')
      BY <1>4 DEF Within
    <2> QED  BY <1>1, <1>4, <2>1, <2>2, <2>3, TimeSame
  <1>6. CASE acc # Nothing
    <2>1. /\ TimeRest(opt.skew, acc, Flight, out, Anchor, "cut")
          /\ Reached(opt.skew, file, Anchor)
          /\ Anchor \in Nat
      BY <1>1, <1>2, <1>6, AnchorRest, AnchorFacts
    <2>2. /\ \E k \in Both : \E l \in ToSet(acc[k]) : l.t = Latest
          /\ Latest \in Nat /\ \A k \in Both : \A l \in ToSet(acc[k]) : l.t <= Latest
      BY <1>2, <1>6, LatestFacts
    <2> DEFINE end == Anchor + Delta
    <2>3. end \in Nat
      BY <2>1, StreamsAssumption
    <2>4. \A k \in Both : \A l \in ToSet(acc[k]) : l.t \in Nat
      BY <1>2, TimesAre
    <2>5. CASE Latest < end
      <3>1. pc' = "pull" /\ acc' = acc /\ out' = out /\ anchor' = Anchor
        BY <1>1, <1>6, <2>5
      <3> DEFINE t == Anchor
      <3> HIDE DEF end
      <3>2. Till(acc, end)
        BY <2>2, <2>3, <2>4, <2>5 DEF Till
      <3>3. TimeRest(opt.skew, acc, Flight, out, Anchor, "pull")
        <4>1. TimeRest(opt.skew, acc, Flight, out, t, "cut") /\ Till(acc, t + Delta)
          BY <2>1, <3>2 DEF end
        <4>2. t # None
          BY <2>1 DEF None
        <4> HIDE DEF t
        <4>3. TimeRest(opt.skew, acc, Flight, out, t, "pull")
          BY <4>1, <4>2 DEF TimeRest
        <4> QED  BY <4>3 DEF t
      <3> QED  BY <1>1, <1>3, <1>4, <2>1, <3>1, <3>3 DEF TimeInv
    <2>6. CASE ~(Latest < end)
      <3>1. PICK x : /\ Handed(x) /\ x.end = end
                     /\ x.ev = Take(acc.ev, Before(acc.ev, end))
                     /\ x.tr = Take(acc.tr, Before(acc.tr, end))
                     /\ acc'.ev = Drop(acc.ev, Before(acc.ev, end))
                     /\ acc'.tr = Drop(acc.tr, Before(acc.tr, end))
        BY <1>1, <1>6, <2>6
      <3>2. pc' = "held" /\ anchor' = end
        BY <1>1, <1>6, <2>6
      <3>3. x \in Windows /\ Within(x, acc) /\ out' = Append(out, x)
        BY <3>1 DEF Handed
      <3>4. end = Anchor + Delta
        OBVIOUS
      <3> HIDE DEF end
      <3>5. \E k \in Both : \E l \in ToSet(acc[k]) : end <= l.t
        BY <2>2, <2>3, <2>6
      <3>6. /\ TimeWindow(opt.skew, Append(out, x), Len(out) + 1)
            /\ TimeRest(opt.skew, acc', Flight, Append(out, x), end, "held")
            /\ Reached(opt.skew, file, end)
        BY <1>2, <2>1, <3>1, <3>3, <3>4, <3>5, WindowCut
      <3>7. \A i \in 1 .. Len(Append(out, x)) : TimeWindow(opt.skew, Append(out, x), i)
        BY <1>2, <1>3, <3>3, <3>6, WindowsGrow
      <3> QED  BY <1>1, <1>4, <3>2, <3>3, <3>6, <3>7 DEF TimeInv
    <2> QED  BY <2>5, <2>6
  <1> QED  BY <1>5, <1>6

\* The leftover is the beginning of the window after the last.
LEMMA RestTime ==
  ASSUME Core, TimeInv, Rest
  PROVE  TimeInv'
  <1>1. /\ Stays /\ Flight' = Flight /\ pc = "rest" /\ pc' = "ended"
        /\ acc' = Nothing /\ anchor' = anchor
        /\ \/ acc = Nothing /\ out' = out
           \/ acc # Nothing /\ \E x : /\ Handed(x) /\ x.end = None
                                      /\ x.ev = acc.ev /\ x.tr = acc.tr
    BY RestDoes
  <1>2. opt' = opt /\ file' = file /\ out \in Seq(Windows) /\ anchor \in Nat \cup {None}
    BY <1>1 DEF Stays, Core, TypeInv
  <1>3. CASE opt.cut # "time"
    BY <1>2, <1>3 DEF TimeInv
  <1>4. CASE opt.cut = "time"
    <2>1. /\ \A i \in 1 .. Len(out) : TimeWindow(opt.skew, out, i)
          /\ TimeRest(opt.skew, acc, Flight, out, anchor, "rest")
          /\ Reached(opt.skew, file, anchor)
      BY <1>1, <1>4 DEF TimeInv
    <2>2. TimeRest(opt.skew, Nothing, Flight, out, anchor, "ended")
      <3>1. From(Nothing, anchor) /\ ToSet(Nothing.ev) = {}
        BY ChunkFacts DEF From, Nothing, ToSet
      <3> QED  BY <2>1, <3>1 DEF TimeRest
    <2>3. CASE acc = Nothing /\ out' = out
      <3>1. Within(file, file') /\ TimeRest(opt.skew, acc', Flight', out, anchor, pc')
        BY <1>1, <1>2, <2>2 DEF Within
      <3> QED  BY <1>1, <1>2, <2>3, <3>1, TimeSame
    <2>4. CASE acc # Nothing /\ \E x : /\ Handed(x) /\ x.end = None
                                       /\ x.ev = acc.ev /\ x.tr = acc.tr
      <3>1. PICK x : Handed(x) /\ x.end = None /\ x.ev = acc.ev /\ x.tr = acc.tr
        BY <2>4
      <3>2. x \in Windows /\ Within(x, acc) /\ out' = Append(out, x)
        BY <3>1 DEF Handed
      <3> DEFINE p == Append(out, x)
                 n == Len(out)
                 q == p[n + 1 - 1]
      <3>3. /\ n \in Nat /\ Len(p) = n + 1 /\ p[n + 1] = x
            /\ n + 1 > 1 => /\ out # <<>> /\ n + 1 - 1 = n /\ q = out[Len(out)]
        BY <1>2, <3>2
      <3> HIDE DEF p, n, q
      <3>4. anchor # None /\ Till(acc, anchor + Delta)
        BY <2>1, <2>4 DEF TimeRest
      <3>5. n + 1 > 1 => /\ q.end = anchor
                         /\ ~opt.skew => From(acc, anchor)
        BY <2>1, <3>3, <3>4 DEF TimeRest
      <3>6. Till(x, anchor + Delta) /\ (n + 1 > 1 /\ ~opt.skew => From(x, anchor))
        BY <3>2, <3>4, <3>5 DEF Till, From, Within
      <3>7. q = p[n + 1 - 1]
        BY DEF q
      <3>8. TimeWindow(opt.skew, p, n + 1)
        <4> DEFINE j == n + 1
        <4>1. /\ p[j] = x /\ x.end = None
              /\ j > 1 => /\ p[j - 1].end = anchor /\ anchor # None
                          /\ Till(x, p[j - 1].end + Delta)
                          /\ ~opt.skew => From(x, p[j - 1].end)
          BY <3>1, <3>3, <3>4, <3>5, <3>6, <3>7
        <4> HIDE DEF j
        <4>2. TimeWindow(opt.skew, p, j)
          BY <4>1 DEF TimeWindow
        <4> QED  BY <4>2 DEF j
      <3>9. \A i \in 1 .. Len(p) : TimeWindow(opt.skew, p, i)
        BY <1>2, <2>1, <3>2, <3>8, WindowsGrow DEF p, n
      <3>10. TimeRest(opt.skew, Nothing, Flight, p, anchor, "ended")
        <4>1. From(Nothing, anchor)
          BY ChunkFacts DEF From
        <4> QED  BY <2>2, <3>4, <4>1 DEF TimeRest
      <3> QED  BY <1>1, <1>2, <2>1, <3>2, <3>9, <3>10 DEF TimeInv, p
    <2> QED  BY <1>1, <2>3, <2>4
  <1> QED  BY <1>3, <1>4

\* Control alone moves on.
LEMMA MovesTime ==
  ASSUME TimeInv, opt' = opt, acc' = acc, anchor' = anchor, out' = out, file' = file,
         Flight' = Flight,
         pc' = pc \/ (pc # "ended" /\ (pc' \in {"pull", "rest"} /\ opt.cut = "time" => pc = "pull"))
  PROVE  TimeInv'
  <1>1. Within(file, file')
    BY DEF Within
  <1>2. ASSUME opt.cut = "time"
        PROVE  TimeRest(opt.skew, acc', Flight', out, anchor, pc')
    <2>1. TimeRest(opt.skew, acc, Flight, out, anchor, pc)
      BY <1>2 DEF TimeInv
    <2>2. \A to : (pc # "ended" /\ (to \in {"pull", "rest"} => pc = "pull")) =>
             TimeRest(opt.skew, acc, Flight, out, anchor, to)
      BY <2>1, RestMoves
    <2>3. TimeRest(opt.skew, acc, Flight, out, anchor, pc')
      BY <1>2, <2>1, <2>2
    <2> QED  BY <2>3
  <1> QED  BY <1>1, <1>2, TimeSame

\* The windows of stream_delta_t are kept right by every action.
LEMMA TimeStep ==
  ASSUME Core, TimeInv, [Next]_vars
  PROVE  TimeInv'
  <1>1. CASE WorkerPull
    BY <1>1, WorkerPullTime
  <1>2. CASE WorkerStops
    BY <1>2, WorkerStopsDoes, MovesTime
  <1>3. CASE WorkerPut
    BY <1>3, WorkerPutTime
  <1>4. CASE ConsumerPull
    BY <1>4, ConsumerPullTime
  <1>5. CASE ConsumerStops
    BY <1>5, ConsumerStopsDoes, MovesTime
  <1>6. CASE ConsumerGet
    BY <1>6, ConsumerGetTime
  <1>7. CASE CutTime
    BY <1>7, CutTimeTime
  <1>8. CASE CutCount
    <2>1. opt.cut # "time" /\ opt' = opt
      BY <1>8, CutCountDoes DEF Stays
    <2> QED  BY <2>1 DEF TimeInv
  <1>9. CASE Rest
    BY <1>9, RestTime
  <1>10. CASE Ask \/ Abandon
    <2>1. /\ Stays /\ Flight' = Flight /\ acc' = acc /\ anchor' = anchor
          /\ out' = out /\ pc = "held"
          /\ (pc' = "gone" \/ pc' = IF opt.cut = "none" THEN "pull" ELSE "cut")
      BY <1>10, AskDoes
    <2> QED  BY <2>1, MovesTime DEF Stays
  <1>11. CASE UNCHANGED vars
    <2>1. /\ opt' = opt /\ file' = file /\ acc' = acc /\ anchor' = anchor /\ pc' = pc
          /\ out' = out /\ Flight' = Flight
      BY <1>11 DEF vars, svars, avars, cvars, Flight
    <2> QED  BY <2>1, MovesTime
  <1> QED  BY <1>1, <1>2, <1>3, <1>4, <1>5, <1>6, <1>7, <1>8, <1>9, <1>10, <1>11 DEF Next

\* And they are what the property says of them.
LEMMA TimePerfect ==
  ASSUME TypeInv, TimeInv, opt.cut = "time"
  PROVE  TimeWindows
  <1>1. out \in Seq(Windows) /\ DOMAIN out = 1 .. Len(out) /\ Delta \in Nat
        /\ \A i \in 1 .. Len(out) : TimeWindow(opt.skew, out, i)
    BY StreamsAssumption DEF TypeInv, TimeInv
  <1> SUFFICES ASSUME NEW i \in 1 .. Len(out)
               PROVE  LET prev == IF i = 1 THEN None ELSE out[i - 1].end
                          end == IF out[i].end # None THEN out[i].end
                                 ELSE IF i = 1 THEN Anchor + Delta ELSE prev + Delta
                      IN /\ i > 1 => prev # None /\ end = prev + Delta
                         /\ \A e \in ToSet(out[i].ev \o out[i].tr) :
                               i > 1 \/ out[i].end # None => e.t < end
                         /\ ~opt.skew =>
                              /\ \A e \in ToSet(out[i].ev) : out[i].end # None => e.t >= end - Delta
                              /\ i > 1 => \A e \in ToSet(out[i].ev \o out[i].tr) : e.t >= prev
    BY <1>1 DEF TimeWindows
  <1> DEFINE x == out[i]
             prev == IF i = 1 THEN None ELSE out[i - 1].end
             end == IF x.end # None THEN x.end
                    ELSE IF i = 1 THEN Anchor + Delta ELSE prev + Delta
  <1>2. x \in Windows /\ x.ev \in Seq(Items) /\ x.tr \in Seq(Items) /\ x.end \in Nat \cup {None}
    <2>1. x \in Windows
      BY <1>1
    <2> QED  BY <2>1 DEF Windows
  <1>3. TimeWindow(opt.skew, out, i)
    BY <1>1
  <1>4. /\ i > 1 => prev # None /\ prev = out[i - 1].end
        /\ i > 1 /\ x.end # None => x.end = prev + Delta
        /\ x.end # None => Till(x, x.end)
        /\ i > 1 => Till(x, prev + Delta)
        /\ ~opt.skew /\ x.end # None => \A e \in ToSet(x.ev) : x.end - Delta <= e.t
        /\ ~opt.skew /\ i > 1 => From(x, prev)
    BY <1>3 DEF TimeWindow
  <1>5. i > 1 => prev \in Nat
    <2>1. i > 1 => i - 1 \in 1 .. Len(out)
      BY <1>1
    <2>2. i > 1 => out[i - 1] \in Windows
      BY <1>1, <2>1
    <2> QED  BY <1>4, <2>2 DEF Windows
  <1>6. i > 1 => end = prev + Delta
    BY <1>4
  <1>7. x.end # None => end = x.end /\ end \in Nat
    BY <1>2
  <1> HIDE DEF prev, end, x
  <1>8. /\ ToSet(x.ev \o x.tr) = ToSet(x.ev) \cup ToSet(x.tr)
        /\ x["ev"] = x.ev /\ x["tr"] = x.tr
    BY <1>2, SetConcat
  <1>9. \A y \in ToSet(x.ev \o x.tr) : \E k \in Both : y \in ToSet(x[k])
    BY <1>8 DEF Both
  <1>10. \A y \in ToSet(x.ev \o x.tr) : y.t \in Nat
    BY <1>2, <1>9, TimesAre
  <1>11. ASSUME NEW e \in ToSet(x.ev \o x.tr), i > 1 \/ x.end # None
         PROVE  e.t < end
    <2>1. Till(x, end)
      BY <1>4, <1>6, <1>7, <1>11
    <2> QED  BY <1>9, <2>1 DEF Till
  <1>12. ASSUME ~opt.skew, NEW e \in ToSet(x.ev), x.end # None
         PROVE  e.t >= end - Delta
    <2>1. x.end - Delta <= e.t /\ end = x.end
      BY <1>4, <1>7, <1>12
    <2>2. e.t \in Nat
      BY <1>8, <1>10, <1>12
    <2> QED  BY <1>1, <1>7, <1>12, <2>1, <2>2
  <1>13. ASSUME ~opt.skew, i > 1, NEW e \in ToSet(x.ev \o x.tr)
         PROVE  e.t >= prev
    <2>1. From(x, prev)
      BY <1>4, <1>13
    <2>2. prev <= e.t
      BY <1>9, <2>1 DEF From
    <2> QED  BY <1>5, <1>10, <1>13, <2>2
  <1>14. i > 1 => prev # None
    BY <1>4
  <1> QED  BY <1>6, <1>11, <1>12, <1>13, <1>14 DEF prev, end, x

-----------------------------------------------------------------------------
(* stream_n_events.                                                        *)

\* stream_n_events has nothing to say before the first chunk.
LEMMA CountInit ==
  ASSUME Init
  PROVE  CountInv
  <1>1. acc = Nothing /\ out = <<>> /\ Count \in Nat \ {0} /\ pc = "pull"
    BY StreamsAssumption DEF Init
  <1>2. 1 .. Len(<<>>) = {} /\ Len(Nothing.ev) = 0
    BY DEF Nothing
  <1>3. CountRest(opt.skew, Nothing, <<>>, "pull")
    BY <1>1, <1>2 DEF CountRest
  <1> QED  BY <1>1, <1>2, <1>3 DEF CountInv

\* No window is handed out, and what waits stays; less than n events wait
\* where the generator is going to ask for more.
LEMMA CountSame ==
  ASSUME CountInv, opt' = opt, out' = out, acc' = acc,
         opt.cut = "count" =>
           pc' = pc \/ (pc # "ended" /\ (pc' \in {"pull", "rest"} => pc = "pull" \/ Len(acc.ev) < Count))
  PROVE  CountInv'
  <1>1. CASE opt.cut # "count"
    BY <1>1 DEF CountInv
  <1>2. CASE opt.cut = "count"
    <2>1. \A i \in 1 .. Len(out) : CountWindow(opt.skew, out, i, pc)
      BY <1>2 DEF CountInv
    <2>2. CountRest(opt.skew, acc, out, pc)
      BY <1>2 DEF CountInv
    <2>3. \A to : to = pc \/ pc # "ended" =>
            \A i \in 1 .. Len(out) : CountWindow(opt.skew, out, i, to)
      BY <2>1 DEF CountWindow
    <2>4. \A to : to = pc \/ (to \in {"pull", "rest"} => pc = "pull" \/ Len(acc.ev) < Count) =>
            CountRest(opt.skew, acc, out, to)
      BY <2>2 DEF CountRest
    <2>5. /\ \A i \in 1 .. Len(out) : CountWindow(opt.skew, out, i, pc')
          /\ CountRest(opt.skew, acc, out, pc')
      BY <1>2, <2>3, <2>4
    <2> QED  BY <2>5 DEF CountInv
  <1> QED  BY <1>1, <1>2

\* A chunk is appended to what waits; it follows all that was handed out.
LEMMA CountJoin ==
  ASSUME NEW skew, NEW a \in Chunk, NEW c \in Chunk, NEW o \in Seq(Windows),
         \A i \in 1 .. Len(o) : CountWindow(skew, o, i, "pull"),
         CountRest(skew, a, o, "pull"), \A i \in 1 .. Len(o) : Follows(skew, o[i], c)
  PROVE  /\ \A i \in 1 .. Len(o) : CountWindow(skew, o, i, "cut")
         /\ CountRest(skew, Join(a, c), o, "cut")
  <1> DEFINE b == Join(a, c)
             n == Len(o)
  <1>1. \A i \in 1 .. Len(o) : CountWindow(skew, o, i, "cut") /\ Len(o[i].ev) = Count
    BY DEF CountWindow
  <1>2. /\ ToSet(b.ev) = ToSet(a.ev) \cup ToSet(c.ev)
        /\ ToSet(b.tr) = ToSet(a.tr) \cup ToSet(c.tr)
    <2>1. \A k \in Both : ToSet(b[k]) = ToSet(a[k]) \cup ToSet(c[k])
      BY JoinFacts, ZenonT(30), SMTT(30)
    <2>2. /\ b["ev"] = b.ev /\ a["ev"] = a.ev /\ c["ev"] = c.ev
          /\ b["tr"] = b.tr /\ a["tr"] = a.tr /\ c["tr"] = c.tr
      OBVIOUS
    <2>3. ToSet(b["ev"]) = ToSet(a["ev"]) \cup ToSet(c["ev"])
      BY <2>1 DEF Both
    <2>4. ToSet(b["tr"]) = ToSet(a["tr"]) \cup ToSet(c["tr"])
      BY <2>1 DEF Both
    <2> QED  BY <2>2, <2>3, <2>4
  <1> HIDE DEF b
  <1>3. ASSUME ~skew, NEW i \in 1 .. Len(o)
        PROVE  /\ \A x \in ToSet(o[i].tr), y \in ToSet(c.ev) : x.t <= y.t
               /\ \A x \in ToSet(o[i].ev), y \in ToSet(c.tr) : x.t <= y.t
    <2>1. \A k, l \in Both : \A x \in ToSet(o[i][k]), y \in ToSet(c[l]) : x.t <= y.t
      BY <1>3 DEF Follows
    <2>2. /\ \A x \in ToSet(o[i]["tr"]), y \in ToSet(c["ev"]) : x.t <= y.t
          /\ \A x \in ToSet(o[i]["ev"]), y \in ToSet(c["tr"]) : x.t <= y.t
      BY <2>1 DEF Both
    <2> QED  BY <2>2
  <1>4. ASSUME ~skew, o # <<>>, NEW x \in ToSet(b.tr)
        PROVE  o[Len(o)].ev[Count].t <= x.t
    <2>1. CASE x \in ToSet(a.tr)
      BY <1>4, <2>1 DEF CountRest
    <2>2. CASE x \in ToSet(c.tr)
      <3>1. n \in 1 .. Len(o) /\ o[n] \in Windows
        BY <1>4
      <3>2. o[n].ev \in Seq(Items) /\ Len(o[n].ev) = Count
        BY <1>1, <3>1 DEF Windows
      <3>3. Count \in 1 .. Len(o[n].ev)
        BY <3>2, StreamsAssumption
      <3>4. o[n].ev[Count] \in ToSet(o[n].ev)
        BY <3>2, <3>3, SetFacts
      <3> QED  BY <1>3, <1>4, <2>2, <3>1, <3>4
    <2> QED  BY <1>2, <1>4, <2>1, <2>2
  <1>5. ASSUME ~skew, NEW i \in 1 .. Len(o), NEW x \in ToSet(o[i].tr), NEW y \in ToSet(b.ev)
        PROVE  x.t <= y.t
    <2>1. CASE y \in ToSet(a.ev)
      BY <1>5, <2>1 DEF CountRest
    <2>2. CASE y \in ToSet(c.ev)
      BY <1>3, <1>5, <2>2
    <2> QED  BY <1>2, <1>5, <2>1, <2>2
  <1>6. CountRest(skew, b, o, "cut")
    BY <1>4, <1>5 DEF CountRest
  <1> QED  BY <1>1, <1>6 DEF b

\* A window more: x is not in front of the last of those so far, nor behind.
LEMMA CountGrow ==
  ASSUME NEW skew, NEW o \in Seq(Windows), NEW x \in Windows, NEW to,
         \A i \in 1 .. Len(o) : CountWindow(skew, o, i, "cut"),
         Len(x.ev) = Count \/ (to = "ended" /\ Len(x.ev) < Count),
         ~skew /\ o # <<>> => \A y \in ToSet(x.tr) : o[Len(o)].ev[Count].t <= y.t,
         ~skew => \A i \in 1 .. Len(o) : \A y \in ToSet(o[i].tr), z \in ToSet(x.ev) : y.t <= z.t
  PROVE  \A i \in 1 .. Len(Append(o, x)) : CountWindow(skew, Append(o, x), i, to)
  <1> DEFINE p == Append(o, x)
             n == Len(o)
  <1>1. /\ n \in Nat /\ Len(p) = n + 1 /\ p[n + 1] = x /\ \A i \in 1 .. n : p[i] = o[i]
        /\ (n + 1 > 1 => o # <<>> /\ p[n + 1 - 1] = o[Len(o)])
    OBVIOUS
  <1>2. n = Len(o)
    OBVIOUS
  <1>3. \A i \in 1 .. n : Len(o[i].ev) = Count
    BY DEF CountWindow
  <1> HIDE DEF p, n
  <1>4. ASSUME NEW i \in 1 .. n
        PROVE  CountWindow(skew, p, i, to)
    <2>1. /\ p[i] = o[i] /\ (i > 1 => p[i - 1] = o[i - 1]) /\ Len(p[i].ev) = Count
          /\ CountWindow(skew, o, i, "cut")
      BY <1>1, <1>2, <1>3
    <2>2. ASSUME ~skew, NEW j \in 1 .. Len(p), i < j, NEW y \in ToSet(p[i].tr),
                 NEW z \in ToSet(p[j].ev)
          PROVE  y.t <= z.t
      <3>1. CASE j \in 1 .. n
        <4>1. p[j] = o[j] /\ j \in 1 .. Len(o)
          BY <1>1, <1>2, <3>1
        <4> QED  BY <2>1, <2>2, <4>1 DEF CountWindow
      <3>2. CASE j = n + 1
        <4>1. z \in ToSet(x.ev) /\ y \in ToSet(o[i].tr) /\ i \in 1 .. Len(o)
          BY <1>1, <1>2, <2>1, <2>2, <3>2
        <4> QED  BY <2>2, <4>1
      <3> QED  BY <1>1, <3>1, <3>2
    <2>3. ~skew /\ i > 1 => \A y \in ToSet(p[i].tr) : p[i - 1].ev[Count].t <= y.t
      BY <2>1 DEF CountWindow
    <2> QED  BY <2>1, <2>2, <2>3 DEF CountWindow
  <1>5. CountWindow(skew, p, n + 1, to)
    <2> DEFINE j == n + 1
    <2>1. ~skew /\ j > 1 => \A y \in ToSet(p[j].tr) : p[j - 1].ev[Count].t <= y.t
      BY <1>1
    <2>2. Len(p[j].ev) = Count \/ (j = Len(p) /\ to = "ended" /\ Len(p[j].ev) < Count)
      BY <1>1
    <2>3. \A l \in 1 .. Len(p) : ~(j < l)
      BY <1>1
    <2> HIDE DEF j
    <2>4. CountWindow(skew, p, j, to)
      BY <2>1, <2>2, <2>3 DEF CountWindow
    <2> QED  BY <2>4 DEF j
  <1>6. ASSUME NEW i \in 1 .. Len(p)
        PROVE  CountWindow(skew, p, i, to)
    <2>1. i \in 1 .. n \/ i = n + 1
      BY <1>1
    <2> QED  BY <1>4, <1>5, <2>1
  <1> QED  BY <1>6 DEF p

\* A chunk is decoded in the consumer's thread.
LEMMA ConsumerPullCount ==
  ASSUME Core, CountInv, ConsumerPull
  PROVE  CountInv'
  <1>1. /\ opt' = opt /\ pc = "pull"
        /\ \E c \in Chunk :
             /\ Sent(c)
             /\ \/ /\ c = Nothing /\ acc' = acc /\ anchor' = anchor /\ pc' = pc /\ out' = out
                \/ Got(c) /\ Window(c.ev, c.tr, None) \in Windows
                   /\ \A k \in Both : Window(c.ev, c.tr, None)[k] = c[k]
    BY ConsumerPullDoes
  <1>2. PICK c \in Chunk :
          /\ Sent(c)
          /\ \/ acc' = acc /\ pc' = pc /\ out' = out
             \/ Got(c)
    BY <1>1
  <1>3. CASE opt.cut # "count"
    BY <1>1, <1>3 DEF CountInv
  <1>4. CASE opt.cut = "count" /\ acc' = acc /\ pc' = pc /\ out' = out
    BY <1>1, <1>4, CountSame
  <1>5. CASE opt.cut = "count" /\ Got(c)
    <2>1. acc' = Join(acc, c) /\ out' = out /\ pc' = "cut"
      BY <1>5 DEF Got
    <2>2. acc \in Chunk /\ out \in Seq(Windows) /\ OrderInv
      BY DEF Core, TypeInv
    <2>3. \A i \in 1 .. Len(out) : Follows(opt.skew, out[i], c)
      BY <1>2, <2>2, SentFollows
    <2>4. /\ \A i \in 1 .. Len(out) : CountWindow(opt.skew, out, i, "pull")
          /\ CountRest(opt.skew, acc, out, "pull")
      BY <1>1, <1>5 DEF CountInv
    <2>5. /\ \A i \in 1 .. Len(out) : CountWindow(opt.skew, out, i, "cut")
          /\ CountRest(opt.skew, Join(acc, c), out, "cut")
      BY <2>2, <2>3, <2>4, CountJoin
    <2> QED  BY <1>1, <2>1, <2>5 DEF CountInv
  <1> QED  BY <1>2, <1>3, <1>4, <1>5

\* A chunk, or what stands for the end, is taken from the queue.
LEMMA ConsumerGetCount ==
  ASSUME Core, CountInv, ConsumerGet
  PROVE  CountInv'
  <1> DEFINE h == Head(Flight)
  <1>1. /\ opt' = opt /\ pc = "pull"
        /\ Flight \in Seq(Chunk) /\ Flight # <<>>
        /\ \/ acc' = acc /\ out' = out
           \/ Got(h)
    BY ConsumerGetDoes
  <1>2. h \in Chunk /\ h = Flight[1] /\ 1 \in 1 .. Len(Flight)
    BY <1>1
  <1> HIDE DEF h
  <1>3. CASE opt.cut # "count"
    BY <1>1, <1>3 DEF CountInv
  <1>4. CASE opt.cut = "count" /\ acc' = acc /\ out' = out
    BY <1>1, <1>4, CountSame
  <1>5. CASE opt.cut = "count" /\ Got(h)
    <2>1. acc' = Join(acc, h) /\ out' = out /\ pc' = "cut"
      BY <1>5 DEF Got
    <2>2. acc \in Chunk /\ out \in Seq(Windows) /\ OrderInv
      BY DEF Core, TypeInv
    <2>3. \A i \in 1 .. Len(out) : Follows(opt.skew, out[i], h)
      BY <1>2, <2>2 DEF OrderInv, InOrder
    <2>4. /\ \A i \in 1 .. Len(out) : CountWindow(opt.skew, out, i, "pull")
          /\ CountRest(opt.skew, acc, out, "pull")
      BY <1>1, <1>5 DEF CountInv
    <2>5. /\ \A i \in 1 .. Len(out) : CountWindow(opt.skew, out, i, "cut")
          /\ CountRest(opt.skew, Join(acc, h), out, "cut")
      BY <1>2, <2>2, <2>3, <2>4, CountJoin
    <2> QED  BY <1>1, <2>1, <2>5 DEF CountInv
  <1> QED  BY <1>1, <1>3, <1>4, <1>5

\* n events are cut off: the triggers that go with them are not behind the next
\* event, and those that stay not in front of the last.
LEMMA CountCut ==
  ASSUME NEW a \in Chunk, Tidy(a), NEW m, Count <= Len(a.ev), m \in 0 .. Len(a.tr),
         m = IF Len(a.ev) = Count THEN Len(a.tr) ELSE Before(a.tr, a.ev[Count + 1].t)
  PROVE  /\ \A y \in ToSet(Take(a.tr, m)), z \in ToSet(Drop(a.ev, Count)) : y.t <= z.t
         /\ \A y \in ToSet(Drop(a.tr, m)) : a.ev[Count].t <= y.t
  <1>1. /\ a.ev \in Seq(Items) /\ a.tr \in Seq(Items) /\ Sorted(a.ev) /\ Sorted(a.tr)
        /\ Count \in Nat \ {0} /\ Len(a.ev) \in Nat /\ Len(a.tr) \in Nat
    BY StreamsAssumption DEF Chunk, Tidy, Both
  <1>2. Count \in 0 .. Len(a.ev) /\ Count \in 1 .. Len(a.ev)
    BY <1>1
  <1>3. \A x \in Items : x.t \in Nat
    BY DEF Items
  <1>4. /\ Drop(a.ev, Count) \in Seq(Items) /\ Drop(a.tr, m) \in Seq(Items)
        /\ Take(a.tr, m) \in Seq(Items)
        /\ Len(Drop(a.ev, Count)) = Len(a.ev) - Count /\ Len(Drop(a.tr, m)) = Len(a.tr) - m
        /\ \A i \in 1 .. Len(a.ev) - Count : Drop(a.ev, Count)[i] = a.ev[Count + i]
    <2>1. /\ Drop(a.ev, Count) \in Seq(Items) /\ Len(Drop(a.ev, Count)) = Len(a.ev) - Count
          /\ \A i \in 1 .. Len(a.ev) - Count : Drop(a.ev, Count)[i] = a.ev[Count + i]
      BY <1>1, <1>2, CutFacts, ZenonT(30), SMTT(30)
    <2>2. /\ Drop(a.tr, m) \in Seq(Items) /\ Take(a.tr, m) \in Seq(Items)
          /\ Len(Drop(a.tr, m)) = Len(a.tr) - m
      <3>1. \A s \in Seq(Items) : \A k \in 0 .. Len(s) :
              /\ Drop(s, k) \in Seq(Items) /\ Take(s, k) \in Seq(Items)
              /\ Len(Drop(s, k)) = Len(s) - k
        BY CutFacts
      <3>2. a.tr \in Seq(Items) /\ m \in 0 .. Len(a.tr)
        BY <1>1
      <3> QED  BY <3>1, <3>2, Zenon
    <2> QED  BY <2>1, <2>2
  <1>5. CASE Len(a.ev) = Count
    <2>1. Len(Drop(a.ev, Count)) = 0 /\ Len(Drop(a.tr, m)) = 0
      BY <1>1, <1>4, <1>5
    <2>2. ToSet(Drop(a.ev, Count)) = {} /\ ToSet(Drop(a.tr, m)) = {}
      BY <1>4, <2>1, SetFacts
    <2> QED  BY <2>2
  <1>6. CASE Len(a.ev) # Count
    <2> DEFINE t == a.ev[Count + 1].t
    <2>1. Count + 1 \in 1 .. Len(a.ev)
      BY <1>1, <1>2, <1>6
    <2>2. t \in Nat /\ a.ev[Count].t \in Nat /\ a.ev[Count].t <= t
      <3>1. a.ev[Count + 1] \in Items /\ a.ev[Count] \in Items
        BY <1>1, <1>2, <2>1
      <3>2. Count <= Count + 1
        BY <1>1
      <3> QED  BY <1>1, <1>2, <1>3, <2>1, <3>1, <3>2 DEF Sorted
    <2>3. m = Before(a.tr, t)
      BY <1>6
    <2>4. \A z \in ToSet(Drop(a.ev, Count)) : t <= z.t
      <3>1. ASSUME NEW i \in 1 .. Len(a.ev) - Count
            PROVE  t <= Drop(a.ev, Count)[i].t
        <4>1. Count + i \in 1 .. Len(a.ev) /\ Count + 1 <= Count + i
          BY <1>1
        <4>2. a.ev[Count + 1].t <= a.ev[Count + i].t
          BY <1>1, <2>1, <4>1 DEF Sorted
        <4> QED  BY <1>4, <4>2
      <3> QED  BY <1>4, <3>1, SetFacts, SMTT(30), ZenonT(30)
    <2> HIDE DEF t
    <2>5. /\ \A y \in ToSet(Take(a.tr, m)) : y.t < t
          /\ \A y \in ToSet(Drop(a.tr, m)) : t <= y.t
      <3>1. t \in Int
        BY <2>2
      <3>2. /\ \A y \in ToSet(Take(a.tr, Before(a.tr, t))) : y.t < t
            /\ \A y \in ToSet(Drop(a.tr, Before(a.tr, t))) : t <= y.t
        BY <1>1, <3>1, BeforeFacts
      <3> QED  BY <2>3, <3>2
    <2>6. /\ \A y \in ToSet(Take(a.tr, m)) : y.t \in Nat
          /\ \A y \in ToSet(Drop(a.tr, m)) : y.t \in Nat
          /\ \A z \in ToSet(Drop(a.ev, Count)) : z.t \in Nat
      BY <1>3, <1>4, SetFacts
    <2> QED  BY <2>2, <2>4, <2>5, <2>6
  <1> QED  BY <1>5, <1>6

\* The generator looks at what waits: less than n events, or its next window.
LEMMA CutCountCount ==
  ASSUME Core, CountInv, CutCount
  PROVE  CountInv'
  <1>1. /\ Stays /\ opt.cut = "count" /\ pc = "cut"
        /\ \/ Len(acc.ev) < Count /\ pc' = "pull" /\ acc' = acc /\ out' = out
           \/ /\ Count <= Len(acc.ev) /\ pc' = "held"
              /\ TriggersOfCount \in 0 .. Len(acc.tr)
              /\ \E x : /\ Handed(x)
                        /\ x.ev = Take(acc.ev, Count) /\ x.tr = Take(acc.tr, TriggersOfCount)
                        /\ acc'.ev = Drop(acc.ev, Count) /\ acc'.tr = Drop(acc.tr, TriggersOfCount)
    BY CutCountDoes
  <1>2. opt' = opt /\ acc \in Chunk /\ Tidy(acc) /\ out \in Seq(Windows) /\ Count \in Nat \ {0}
    BY <1>1, StreamsAssumption DEF Stays, Core, TypeInv, OrderInv, InOrder
  <1>3. CASE Len(acc.ev) < Count /\ pc' = "pull" /\ acc' = acc /\ out' = out
    BY <1>1, <1>2, <1>3, CountSame
  <1>4. ASSUME NEW x, Count <= Len(acc.ev), pc' = "held", TriggersOfCount \in 0 .. Len(acc.tr),
               Handed(x), x.ev = Take(acc.ev, Count), x.tr = Take(acc.tr, TriggersOfCount),
               acc'.ev = Drop(acc.ev, Count), acc'.tr = Drop(acc.tr, TriggersOfCount)
        PROVE  CountInv'
    <2> DEFINE m == TriggersOfCount
               n == Len(out)
               p == Append(out, x)
               b == [ev |-> Drop(acc.ev, Count), tr |-> Drop(acc.tr, m)]
    <2>1. /\ \A i \in 1 .. Len(out) : CountWindow(opt.skew, out, i, "cut")
          /\ CountRest(opt.skew, acc, out, "cut")
      BY <1>1 DEF CountInv
    <2>2. m = IF Len(acc.ev) = Count THEN Len(acc.tr) ELSE Before(acc.tr, acc.ev[Count + 1].t)
      BY DEF TriggersOfCount
    <2>3. x \in Windows /\ out' = p /\ acc' \in Chunk
      BY <1>4 DEF Handed
    <2>4. acc'.ev = Drop(acc.ev, Count) /\ acc'.tr = Drop(acc.tr, m) /\ x.tr = Take(acc.tr, m)
          /\ m \in 0 .. Len(acc.tr)
      BY <1>4
    <2> HIDE DEF m, p
    <2>5. /\ \A y \in ToSet(x.tr), z \in ToSet(Drop(acc.ev, Count)) : y.t <= z.t
          /\ \A y \in ToSet(Drop(acc.tr, m)) : acc.ev[Count].t <= y.t
      BY <1>2, <1>4, <2>2, <2>4, CountCut
    <2>6. /\ acc.ev \in Seq(Items) /\ acc.tr \in Seq(Items) /\ Count \in 0 .. Len(acc.ev)
          /\ Count \in 1 .. Count
      BY <1>2, <1>4 DEF Chunk
    <2>7. /\ Len(x.ev) = Count /\ x.ev[Count] = acc.ev[Count]
          /\ ToSet(x.ev) \subseteq ToSet(acc.ev) /\ ToSet(Drop(acc.ev, Count)) \subseteq ToSet(acc.ev)
      <3>1. /\ Len(Take(acc.ev, Count)) = Count
            /\ \A i \in 1 .. Count : Take(acc.ev, Count)[i] = acc.ev[i]
        BY <2>6, CutFacts
      <3>2. ToSet(acc.ev) = ToSet(Take(acc.ev, Count)) \cup ToSet(Drop(acc.ev, Count))
        BY <2>6, SetCut
      <3> QED  BY <1>4, <2>6, <3>1, <3>2
    <2>8. ToSet(x.tr) \subseteq ToSet(acc.tr)
      BY <2>4, <2>6, SetCut
    <2>9. \A i \in 1 .. Len(p) : CountWindow(opt.skew, p, i, "held")
      <3>1. ~opt.skew /\ out # <<>> => \A y \in ToSet(x.tr) : out[Len(out)].ev[Count].t <= y.t
        BY <2>1, <2>8 DEF CountRest
      <3>2. ~opt.skew => \A i \in 1 .. Len(out) :
               \A y \in ToSet(out[i].tr), z \in ToSet(x.ev) : y.t <= z.t
        BY <2>1, <2>7 DEF CountRest
      <3> QED  BY <1>2, <2>1, <2>3, <2>7, <3>1, <3>2, CountGrow DEF p
    <2>10. CountRest(opt.skew, b, p, "held")
      <3>1. /\ n \in Nat /\ Len(p) = n + 1 /\ p[Len(p)] = x
            /\ \A i \in 1 .. Len(p) : (i \in 1 .. Len(out) /\ p[i] = out[i]) \/ p[i] = x
        BY <1>2, <2>3 DEF p
      <3>2. ASSUME ~opt.skew, NEW i \in 1 .. Len(p), NEW y \in ToSet(p[i].tr), NEW z \in ToSet(b.ev)
            PROVE  y.t <= z.t
        <4>1. CASE i \in 1 .. Len(out) /\ p[i] = out[i]
          BY <2>1, <2>7, <3>2, <4>1 DEF CountRest
        <4>2. CASE p[i] = x
          BY <2>5, <3>2, <4>2
        <4> QED  BY <3>1, <4>1, <4>2
      <3>3. \A y \in ToSet(b.tr) : p[Len(p)].ev[Count].t <= y.t
        BY <2>5, <2>7, <3>1
      <3> QED  BY <3>2, <3>3 DEF CountRest
    <2>11. acc' = b
      BY <2>3, <2>4 DEF Chunk
    <2> QED  BY <1>2, <1>4, <2>3, <2>9, <2>10, <2>11 DEF CountInv
  <1> QED  BY <1>1, <1>3, <1>4

\* The leftover has less than n events.
LEMMA RestCount ==
  ASSUME Core, CountInv, Rest
  PROVE  CountInv'
  <1>1. /\ Stays /\ pc = "rest" /\ pc' = "ended" /\ acc' = Nothing
        /\ \/ acc = Nothing /\ out' = out
           \/ acc # Nothing /\ \E x : /\ Handed(x) /\ x.end = None
                                      /\ x.ev = acc.ev /\ x.tr = acc.tr
    BY RestDoes
  <1>2. opt' = opt /\ out \in Seq(Windows)
    BY <1>1 DEF Stays, Core, TypeInv
  <1>3. CASE opt.cut # "count"
    BY <1>2, <1>3 DEF CountInv
  <1>4. CASE acc = Nothing /\ out' = out
    BY <1>1, <1>2, <1>4, CountSame
  <1>5. ASSUME opt.cut = "count", NEW x, Handed(x), x.ev = acc.ev, x.tr = acc.tr
        PROVE  CountInv'
    <2>1. /\ \A i \in 1 .. Len(out) : CountWindow(opt.skew, out, i, "rest")
          /\ CountRest(opt.skew, acc, out, "rest")
      BY <1>1, <1>5 DEF CountInv
    <2>2. x \in Windows /\ out' = Append(out, x)
      BY <1>5 DEF Handed
    <2>3. /\ Len(x.ev) < Count
          /\ ~opt.skew /\ out # <<>> => \A y \in ToSet(x.tr) : out[Len(out)].ev[Count].t <= y.t
          /\ ~opt.skew => \A i \in 1 .. Len(out) :
               \A y \in ToSet(out[i].tr), z \in ToSet(x.ev) : y.t <= z.t
      BY <1>5, <2>1 DEF CountRest
    <2>4. \A i \in 1 .. Len(Append(out, x)) : CountWindow(opt.skew, Append(out, x), i, "ended")
      <3>1. \A i \in 1 .. Len(out) : CountWindow(opt.skew, out, i, "cut")
        BY <2>1 DEF CountWindow
      <3> QED  BY <1>2, <2>2, <2>3, <3>1, CountGrow
    <2>5. CountRest(opt.skew, Nothing, Append(out, x), "ended")
      <3>1. ToSet(Nothing.ev) = {} /\ ToSet(Nothing.tr) = {}
        BY DEF Nothing, ToSet
      <3> QED  BY <3>1 DEF CountRest
    <2> QED  BY <1>1, <1>2, <2>2, <2>4, <2>5 DEF CountInv
  <1> QED  BY <1>1, <1>3, <1>4, <1>5

\* The windows of stream_n_events are kept right by every action.
LEMMA CountStep ==
  ASSUME Core, CountInv, [Next]_vars
  PROVE  CountInv'
  <1>1. CASE WorkerPull
    <2>1. opt' = opt /\ acc' = acc /\ pc' = pc /\ out' = out
      BY <1>1, WorkerPullDoes
    <2> QED  BY <2>1, CountSame
  <1>2. CASE WorkerStops
    BY <1>2, WorkerStopsDoes, CountSame
  <1>3. CASE WorkerPut
    BY <1>3, WorkerPutDoes, CountSame
  <1>4. CASE ConsumerPull
    BY <1>4, ConsumerPullCount
  <1>5. CASE ConsumerStops
    BY <1>5, ConsumerStopsDoes, CountSame
  <1>6. CASE ConsumerGet
    BY <1>6, ConsumerGetCount
  <1>7. CASE CutTime
    <2>1. opt.cut # "count" /\ opt' = opt
      BY <1>7, CutTimeDoes DEF Stays
    <2> QED  BY <2>1 DEF CountInv
  <1>8. CASE CutCount
    BY <1>8, CutCountCount
  <1>9. CASE Rest
    BY <1>9, RestCount
  <1>10. CASE Ask \/ Abandon
    <2>1. /\ Stays /\ acc' = acc /\ out' = out /\ pc = "held"
          /\ (pc' = "gone" \/ pc' = IF opt.cut = "none" THEN "pull" ELSE "cut")
      BY <1>10, AskDoes
    <2> QED  BY <2>1, CountSame DEF Stays
  <1>11. CASE UNCHANGED vars
    <2>1. opt' = opt /\ acc' = acc /\ pc' = pc /\ out' = out
      BY <1>11 DEF vars, svars, avars, cvars
    <2> QED  BY <2>1, CountSame
  <1> QED  BY <1>1, <1>2, <1>3, <1>4, <1>5, <1>6, <1>7, <1>8, <1>9, <1>10, <1>11 DEF Next

\* And they are what the property says of them.
LEMMA CountPerfect ==
  ASSUME TypeInv, CountInv, opt.cut = "count"
  PROVE  CountWindows
  <1>1. /\ out \in Seq(Windows) /\ DOMAIN out = 1 .. Len(out) /\ acc \in Chunk /\ Len(out) \in Nat
        /\ Count \in Nat \ {0}
        /\ \A i \in 1 .. Len(out) : CountWindow(opt.skew, out, i, pc)
        /\ CountRest(opt.skew, acc, out, pc)
    BY StreamsAssumption DEF TypeInv, CountInv
  <1>2. ASSUME NEW i \in 1 .. Len(out)
        PROVE  Len(out[i].ev) = Count \/ (i = Len(out) /\ pc = "ended" /\ Len(out[i].ev) < Count)
    BY <1>1 DEF CountWindow
  <1>3. ASSUME ~opt.skew, NEW i \in 1 .. Len(out), i > 1, NEW e \in ToSet(out[i].tr)
        PROVE  e.t >= Last(out[i - 1].ev).t
    <2>1. i - 1 \in 1 .. Len(out) /\ i - 1 # Len(out)
      BY <1>1, <1>3
    <2>2. out[i - 1].ev \in Seq(Items) /\ Len(out[i - 1].ev) = Count
      <3>1. out[i - 1] \in Windows
        BY <1>1, <2>1
      <3> QED  BY <1>2, <2>1, <3>1 DEF Windows
    <2> DEFINE s == out[i - 1].ev
    <2>3. s \in Seq(Items) /\ Count \in 1 .. Len(s) /\ Last(s) = s[Count]
      BY <1>1, <2>2 DEF Last
    <2>4. s[Count].t <= e.t
      BY <1>1, <1>3 DEF CountWindow
    <2>5. s[Count] \in Items
      BY <2>3
    <2>6. e.t \in Nat
      <3>1. out[i] \in Windows /\ out[i].tr = out[i]["tr"] /\ "tr" \in Both
        BY <1>1 DEF Both
      <3> QED  BY <1>3, <3>1, TimesAre
    <2> HIDE DEF s
    <2>7. e.t >= Last(s).t
      BY <2>3, <2>4, <2>5, <2>6 DEF Items
    <2> QED  BY <2>7 DEF s
  <1>4. ASSUME ~opt.skew, NEW i \in 1 .. Len(out), NEW e \in ToSet(out[i].tr),
               NEW next, next = Flat(Column(Drop(out, i), "ev")) \o acc.ev, next # <<>>
        PROVE  e.t <= Head(next).t
    <2> DEFINE d == Drop(out, i)
               f == Spread(d, "ev")
    <2>1. /\ d \in Seq(Windows) /\ Len(d) = Len(out) - i
          /\ \A j \in 1 .. Len(out) - i : d[j] = out[i + j]
      <3>1. i \in 0 .. Len(out)
        BY <1>1
      <3> QED  BY <1>1, <3>1, CutFacts
    <2>2. "ev" \in Both /\ \A c \in Windows : c["ev"] \in Seq(Items)
      BY ChunkFacts DEF Both
    <2> HIDE DEF d
    <2>3. /\ f \in Seq(Items)
          /\ \A y \in ToSet(f) : \E j \in 1 .. Len(d) : y \in ToSet(d[j]["ev"])
      BY <2>1, <2>2, SpreadFacts
    <2>4. next = f \o acc.ev
      BY <1>4 DEF d, Spread
    <2> HIDE DEF f
    <2>5. acc.ev \in Seq(Items)
      BY <1>1 DEF Chunk
    <2>6. /\ next \in Seq(Items) /\ Head(next) = next[1] /\ 1 \in DOMAIN next
          /\ ToSet(next) = ToSet(f) \cup ToSet(acc.ev)
      <3>1. f \o acc.ev \in Seq(Items) /\ ToSet(f \o acc.ev) = ToSet(f) \cup ToSet(acc.ev)
        BY <2>3, <2>5, SetConcat
      <3> HIDE DEF d
      <3>2. next \in Seq(Items) /\ next # <<>>
        BY <1>4, <2>4, <3>1
      <3> QED  BY <2>4, <3>1, <3>2
    <2>7. Head(next) \in ToSet(next)
      BY <2>6 DEF ToSet
    <2>8. CASE Head(next) \in ToSet(f)
      <3>1. PICK j \in 1 .. Len(d) : Head(next) \in ToSet(d[j]["ev"])
        BY <2>3, <2>8
      <3>2. d[j] = out[i + j] /\ i + j \in 1 .. Len(out) /\ i < i + j
        BY <1>1, <2>1
      <3>3. Head(next) \in ToSet(out[i + j].ev)
        BY <3>1, <3>2
      <3> QED  BY <1>1, <1>4, <3>2, <3>3 DEF CountWindow
    <2>9. CASE Head(next) \in ToSet(acc.ev)
      BY <1>1, <1>4, <2>9 DEF CountRest
    <2> QED  BY <2>6, <2>7, <2>8, <2>9
  <1> QED  BY <1>1, <1>2, <1>3, <1>4 DEF CountWindows

\* The generators of windows: the inductive invariant holds in every behaviour,
\* and the windows handed out are those they promise, whatever the chunks, the
\* times of the file and the order in which the two threads run.
THEOREM StreamsCutPerfect == Spec => []WindowsPerfect
  <1>1. Init => Inv
    BY CoreInit, TimeInit, CountInit DEF Inv
  <1>2. Inv /\ [Next]_vars => Inv'
    BY CoreStep, TimeStep, CountStep DEF Inv
  <1>3. Inv => WindowsPerfect
    BY TimePerfect, CountPerfect DEF Inv, Core, WindowsPerfect
  <1> QED  BY <1>1, <1>2, <1>3, PTL DEF Spec
=============================================================================
