-------------------------- MODULE EventReaderProofs -------------------------
(***************************************************************************)
(* What EventReader keeps for every recording, every decoder and every     *)
(* sequence of calls: its windows lose and repeat nothing, are cut exactly *)
(* and follow each other.                                                  *)
(***************************************************************************)
EXTENDS EventReader, ArrayLemmas, TLAPS

-----------------------------------------------------------------------------
(* Runs of events, and the buffers that hold the last ones decoded.        *)

\* s holds the last events of the first r.
IsTail(s, r) == Len(s) \in 0 .. r /\ s = Run(r - Len(s), r)

\* A run has as many events as lie between its ends, numbered on from the first.
LEMMA RunFacts ==
  ASSUME NEW a \in Nat, NEW b \in Nat, a <= b
  PROVE  /\ Run(a, b) \in Seq(Nat)
         /\ Len(Run(a, b)) = b - a
         /\ \A i \in 1 .. (b - a) : Run(a, b)[i] = a + i
         /\ a = b <=> Run(a, b) = <<>>
  BY DEF Run

\* The same for a run of n events behind event h.
LEMMA RunOf ==
  ASSUME NEW h \in Nat, NEW n \in Nat
  PROVE  /\ Len(Run(h, h + n)) = n
         /\ \A i \in 1 .. n : Run(h, h + n)[i] = h + i
         /\ n = 0 <=> Run(h, h + n) = <<>>
  <1>1. h + n \in Nat /\ h <= h + n /\ (h + n) - h = n /\ (n = 0 <=> h = h + n)
    OBVIOUS
  <1>2. /\ Len(Run(h, h + n)) = (h + n) - h
        /\ \A i \in 1 .. ((h + n) - h) : Run(h, h + n)[i] = h + i
        /\ h = h + n <=> Run(h, h + n) = <<>>
    BY <1>1, RunFacts
  <1> QED  BY <1>1, <1>2

\* Runs that meet make one run.
LEMMA RunConcat ==
  ASSUME NEW a \in Nat, NEW b \in Nat, NEW c \in Nat, a <= b, b <= c
  PROVE  Run(a, b) \o Run(b, c) = Run(a, c)
  BY DEF Run

\* The first k events of a run, and the others, are runs.
LEMMA RunCut ==
  ASSUME NEW a \in Nat, NEW b \in Nat, NEW k \in 0 .. (b - a), a <= b
  PROVE  /\ Front(Run(a, b), k) = Run(a, a + k)
         /\ Back(Run(a, b), k) = Run(a + k, b)
  <1>1. Run(a, b) \in Seq(Nat) /\ Len(Run(a, b)) = b - a
    BY RunFacts
  <1>2. Front(Run(a, b), k) = Run(a, a + k)
    BY <1>1 DEF Front, Run
  <1>3. Back(Run(a, b), k) = Run(a + k, b)
    BY <1>1 DEF Back, Run
  <1> QED  BY <1>2, <1>3

\* A run within a recording of n events consists of events of it.
LEMMA RunType ==
  ASSUME NEW n \in Nat, NEW a \in 0 .. n, NEW b \in 0 .. n, a <= b
  PROVE  Run(a, b) \in Seq(1 .. n)
  BY DEF Run

\* A run is a tail of what it ends with.
LEMMA RunTail ==
  ASSUME NEW a \in Nat, NEW b \in Nat, a <= b
  PROVE  IsTail(Run(a, b), b) /\ Len(Run(a, b)) = b - a
  <1>1. Len(Run(a, b)) = b - a
    BY RunFacts
  <1>2. b - Len(Run(a, b)) = a /\ Len(Run(a, b)) \in 0 .. b
    BY <1>1
  <1> QED  BY <1>1, <1>2 DEF IsTail

\* A tail is a run that ends at the last event.
LEMMA TailIsRun ==
  ASSUME NEW r \in Nat, NEW s, IsTail(s, r)
  PROVE  \E k \in Nat : k <= r /\ s = Run(k, r) /\ Len(s) = r - k
  <1> DEFINE k == r - Len(s)
  <1>1. k \in Nat /\ k <= r /\ s = Run(k, r) /\ Len(s) = r - k
    BY DEF IsTail
  <1> HIDE DEF k
  <1> QED  BY <1>1

\* What a tail of r events holds at each place.
LEMMA TailFacts ==
  ASSUME NEW r \in Nat, NEW s, IsTail(s, r)
  PROVE  /\ s \in Seq(Nat) /\ Len(s) \in Nat /\ Len(s) <= r
         /\ \A i \in 1 .. Len(s) : s[i] = r - Len(s) + i
         /\ s = <<>> <=> Len(s) = 0
  <1>1. PICK k \in Nat : k <= r /\ s = Run(k, r) /\ Len(s) = r - k
    BY TailIsRun
  <1>2. /\ Run(k, r) \in Seq(Nat)
        /\ \A i \in 1 .. (r - k) : Run(k, r)[i] = k + i
        /\ k = r <=> Run(k, r) = <<>>
    BY <1>1, RunFacts
  <1>3. \A i \in 1 .. Len(s) : s[i] = r - Len(s) + i
    BY <1>1, <1>2
  <1> QED  BY <1>1, <1>2, <1>3

\* An empty buffer holds the last events, none of them.
LEMMA TailEmpty ==
  ASSUME NEW r \in Nat
  PROVE  IsTail(<<>>, r) /\ Len(<<>>) = 0
  <1>1. Run(r, r) = <<>>
    BY RunFacts
  <1> QED  BY <1>1, RunTail

\* Decoding on, and taking the first k.
LEMMA TailExtend ==
  ASSUME NEW r \in Nat, NEW t \in Nat, r <= t, NEW s, IsTail(s, r)
  PROVE  IsTail(s \o Run(r, t), t) /\ Len(s \o Run(r, t)) = Len(s) + (t - r)
  <1>1. PICK k \in Nat : k <= r /\ s = Run(k, r) /\ Len(s) = r - k
    BY TailIsRun
  <1>2. s \o Run(r, t) = Run(k, t)
    BY <1>1, RunConcat
  <1>3. IsTail(Run(k, t), t) /\ Len(Run(k, t)) = t - k
    <2>1. k <= t
      BY <1>1
    <2> QED  BY <2>1, RunTail
  <1> QED  BY <1>1, <1>2, <1>3

\* Handing out the first n of a tail leaves a tail.
LEMMA TailCut ==
  ASSUME NEW r \in Nat, NEW s, IsTail(s, r), NEW n \in 0 .. Len(s)
  PROVE  /\ Front(s, n) = Run(r - Len(s), r - Len(s) + n)
         /\ IsTail(Back(s, n), r) /\ Len(Back(s, n)) = Len(s) - n
  <1>1. PICK k \in Nat : k <= r /\ s = Run(k, r) /\ Len(s) = r - k
    BY TailIsRun
  <1>2. k + n \in Nat /\ k + n <= r /\ n \in 0 .. (r - k)
    BY <1>1
  <1>3. Front(s, n) = Run(k, k + n) /\ Back(s, n) = Run(k + n, r)
    BY <1>1, <1>2, RunCut
  <1>4. IsTail(Run(k + n, r), r) /\ Len(Run(k + n, r)) = r - (k + n)
    BY <1>2, RunTail
  <1>5. r - Len(s) = k
    BY <1>1
  <1> QED  BY <1>1, <1>2, <1>3, <1>4, <1>5

-----------------------------------------------------------------------------
(* Recordings.                                                             *)

\* A recording counts its events upwards, from 0 to Total.
LEMMA RecordingFacts ==
  ASSUME cfg \in Configs
  PROVE  /\ NW \in Nat /\ Total \in Nat
         /\ \A w \in 0 .. NW : rec.cum[w] \in Nat /\ rec.tick[w] \in Nat
         /\ rec.cum[0] = 0 /\ rec.cum[NW] = Total
         /\ \A v, w \in 0 .. NW : v <= w => rec.cum[v] <= rec.cum[w]
         /\ \A i \in 1 .. Total : rec.ts[i] \in Nat
  <1>1. Recording(rec)
    BY ConfigsAssumption DEF rec
  <1>2. NW \in Nat /\ rec.cum \in [0 .. NW -> Nat] /\ rec.tick \in [0 .. NW -> Nat]
    BY <1>1 DEF Recording, NW
  <1>3. /\ rec.cum[0] = 0 /\ rec.cum[NW] = Total
        /\ \A v, w \in 0 .. NW : v <= w => rec.cum[v] <= rec.cum[w]
    BY <1>1 DEF Recording, NW, Total
  <1>4. rec.ts \in [1 .. Total -> Nat]
    BY <1>1 DEF Recording, NW, Total
  <1>5. NW \in 0 .. NW
    BY <1>2
  <1>6. Total \in Nat
    BY <1>2, <1>3, <1>5
  <1> QED  BY <1>2, <1>3, <1>4, <1>6

\* The clock of the parser does not go back from word to word.
LEMMA TicksAscend ==
  ASSUME cfg \in Configs
  PROVE  \A v, w \in 0 .. NW : v <= w => rec.tick[v] <= rec.tick[w]
  <1>1. /\ NW \in Nat /\ rec.tick \in [0 .. NW -> Nat]
        /\ \A w \in 1 .. NW : rec.tick[w - 1] <= rec.tick[w]
    BY ConfigsAssumption, OrderAssumption DEF Recording, Orderly, rec, NW
  <1>2. TAKE v, w \in 0 .. NW
  <1>3. HAVE v <= w
  <1>4. w \in v .. NW
    BY <1>1, <1>3
  <1> QED  BY <1>1, <1>4, Ascending

\* Nor do the timestamps of the events.
LEMMA EventsAscend ==
  ASSUME cfg \in Configs
  PROVE  \A i, j \in 1 .. Total : i <= j => rec.ts[i] <= rec.ts[j]
  <1>1. /\ NW \in Nat /\ rec.tick \in [0 .. NW -> Nat] /\ rec.cum \in [0 .. NW -> Nat]
        /\ \A w \in 1 .. NW : rec.tick[w - 1] <= rec.tick[w]
        /\ rec.cum[0] = 0
        /\ \A x, y \in 0 .. NW : x <= y => rec.cum[x] <= rec.cum[y]
        /\ \A x \in 1 .. NW :
              \A e \in rec.cum[x - 1] + 1 .. rec.cum[x] : rec.ts[e] = rec.tick[x]
    BY ConfigsAssumption, OrderAssumption DEF Recording, Orderly, rec, NW
  <1>2. TAKE i, j \in 1 .. Total
  <1>3. HAVE i <= j
  <1>4. Total \in Nat /\ Total = rec.cum[NW]
    BY <1>1 DEF Total
  <1>5. i \in Nat /\ j \in Nat /\ 0 < i /\ j <= rec.cum[NW]
    BY <1>4
  <1> QED  BY <1>1, <1>3, <1>5, TimesAscend

\* A word of a table is a row; one of EVT2 decodes to one event at most, any to
\* no more than the headroom.
LEMMA WordFacts ==
  ASSUME cfg \in Configs
  PROVE  /\ cfg.kind \notin Native => \A w \in 0 .. NW : rec.cum[w] = w
         /\ cfg.kind \in ExactWindow =>
              \A w \in 1 .. NW : rec.cum[w] - rec.cum[w - 1] <= 1
         /\ \A w \in 1 .. NW : rec.cum[w] - rec.cum[w - 1] <= Reserve
  <1>1. /\ NW \in Nat /\ rec.cum \in [0 .. NW -> Nat] /\ rec.cum[0] = 0
    BY ConfigsAssumption DEF Recording, rec, NW
  <1>2. /\ cfg.kind \notin Native =>
              \A w \in 1 .. NW : rec.cum[w] - rec.cum[w - 1] = 1
        /\ cfg.kind \in ExactWindow =>
              \A w \in 1 .. NW : rec.cum[w] - rec.cum[w - 1] <= 1
        /\ \A w \in 1 .. NW : rec.cum[w] - rec.cum[w - 1] <= Reserve
    BY WordsAssumption, OrderAssumption DEF Orderly, rec, NW
  <1>3. ASSUME cfg.kind \notin Native, NEW w \in 0 .. NW
        PROVE  rec.cum[w] = w
    BY <1>1, <1>2, <1>3, OneByOne
  <1> QED  BY <1>2, <1>3

\* The word of an event: its clock is the time of the event, and in EVT3 has
\* been so a word before.
LEMMA WordOf ==
  ASSUME cfg \in Configs, NEW i \in 1 .. Total
  PROVE  \E w \in 1 .. NW : /\ rec.cum[w - 1] < i /\ i <= rec.cum[w]
                            /\ rec.ts[i] = rec.tick[w]
                            /\ cfg.kind \in HasDeltaTParser => rec.ts[i] = rec.tick[w - 1]
  <1>1. /\ NW \in Nat /\ rec.cum \in [0 .. NW -> Nat]
        /\ rec.cum[0] = 0 /\ rec.cum[NW] = Total /\ Total \in Nat
        /\ \A x \in 1 .. NW :
              \A e \in rec.cum[x - 1] + 1 .. rec.cum[x] : rec.ts[e] = rec.tick[x]
        /\ cfg.kind \in HasDeltaTParser =>
              \A x \in 1 .. NW : rec.cum[x] - rec.cum[x - 1] > 0 => rec.tick[x] = rec.tick[x - 1]
    BY ConfigsAssumption, OrderAssumption, WordsAssumption
       DEF Recording, Orderly, rec, NW, Total
  <1>2. i \in Nat /\ 0 < i /\ i <= rec.cum[NW]
    BY <1>1
  <1>3. PICK w \in 1 .. NW : /\ rec.cum[w - 1] \in Nat /\ rec.cum[w] \in Nat
                            /\ i \in rec.cum[w - 1] + 1 .. rec.cum[w]
    BY <1>1, <1>2, EventWord
  <1>4. rec.ts[i] = rec.tick[w]
    BY <1>1, <1>3
  <1>5. rec.cum[w] - rec.cum[w - 1] > 0 /\ rec.cum[w - 1] < i /\ i <= rec.cum[w]
    BY <1>3
  <1> QED  BY <1>1, <1>4, <1>5

\* The events that the window parser of EVT3 decodes before it stops at word q
\* are earlier than any time the clock has not reached one word before.
LEMMA EarlierEvents ==
  ASSUME cfg \in Configs, cfg.kind \in HasDeltaTParser,
         NEW v \in 0 .. NW, NEW q \in 0 .. NW,
         NEW t, \A x \in v .. (q - 1) : rec.tick[x] < t,
         NEW i \in 1 .. Total, rec.cum[v] < i, i <= rec.cum[q]
  PROVE  rec.ts[i] < t
  <1>1. PICK w \in 1 .. NW : /\ rec.cum[w - 1] < i /\ i <= rec.cum[w]
                            /\ rec.ts[i] = rec.tick[w - 1]
    BY WordOf
  <1>2. /\ NW \in Nat
        /\ \A x \in 0 .. NW : rec.cum[x] \in Nat
        /\ \A x, y \in 0 .. NW : x <= y => rec.cum[x] <= rec.cum[y]
    BY RecordingFacts
  <1>3. w - 1 < q
    <2>1. SUFFICES ASSUME q <= w - 1
                   PROVE  FALSE
      BY <1>2
    <2>2. rec.cum[q] <= rec.cum[w - 1] /\ rec.cum[q] \in Nat /\ rec.cum[w - 1] \in Nat
      BY <1>2, <2>1
    <2> QED  BY <1>1, <2>2
  <1>4. v < w
    <2>1. SUFFICES ASSUME w <= v
                   PROVE  FALSE
      BY <1>2
    <2>2. rec.cum[w] <= rec.cum[v] /\ rec.cum[w] \in Nat /\ rec.cum[v] \in Nat
      BY <1>2, <2>1
    <2> QED  BY <1>1, <2>2
  <1>5. w - 1 \in v .. (q - 1)
    BY <1>2, <1>3, <1>4
  <1> QED  BY <1>1, <1>5

\* The events behind a word come no earlier than the clock there.
LEMMA LaterEvents ==
  ASSUME cfg \in Configs, NEW q \in 0 .. NW, NEW i \in 1 .. Total, rec.cum[q] < i
  PROVE  rec.tick[q] <= rec.ts[i]
  <1>1. PICK w \in 1 .. NW : i <= rec.cum[w] /\ rec.ts[i] = rec.tick[w]
    BY WordOf
  <1>2. /\ NW \in Nat
        /\ \A x \in 0 .. NW : rec.cum[x] \in Nat
        /\ \A x, y \in 0 .. NW : x <= y => rec.cum[x] <= rec.cum[y]
    BY RecordingFacts
  <1>3. q <= w
    <2>1. SUFFICES ASSUME w <= q
                   PROVE  q <= w
      BY <1>2
    <2>2. rec.cum[w] <= rec.cum[q] /\ rec.cum[w] \in Nat /\ rec.cum[q] \in Nat
      BY <1>2, <2>1
    <2> QED  BY <1>1, <2>2
  <1> QED  BY <1>1, <1>2, <1>3, TicksAscend

-----------------------------------------------------------------------------
(* The inductive invariant.                                                *)

\* How many events are decoded, and how many of them have left the reader or
\* were passed over by a seek: those it still holds are the ones between.
Reached == rec.cum[off]
Here == Reached - (Len(acc) + Len(carry) + Len(out))

TypeInv ==
  /\ cfg \in Configs
  /\ off \in 0 .. NW
  /\ eof \in BOOLEAN /\ anchored \in BOOLEAN /\ iter \in BOOLEAN
  /\ first \in Nat /\ cur \in Nat /\ nread \in Nat
  /\ pc \in PcStates
  /\ call \in [dt : Nat \ {0}, ne : Nat \ {0}, drain : BOOLEAN, cap : Nat]
  /\ win.ev \in Seq(1 .. Total)
  /\ base \in 0 .. Total
  /\ origins \subseteq Nat

\* Each buffer holds the last events decoded, and one buffer at most holds
\* any: which one depends on where the call is.
BufferInv ==
  /\ IsTail(acc, Reached) /\ IsTail(carry, Reached) /\ IsTail(out, Reached)
  /\ acc # <<>> => pc \in {"idle", "anchor", "gather"}
  /\ carry # <<>> =>
       /\ pc \in {"idle", "seed"} /\ acc = <<>> /\ anchored
       /\ Mode = "delta_t" /\ cfg.kind \notin HasDeltaTParser
  /\ out # <<>> => pc \in {"count", "dt_anchor", "dt_loop", "window"}

\* Which decoders take which path, and where the clock is known to be set.
PathInv ==
  /\ pc = "count" => cfg.kind \in ExactWindow
  /\ pc = "chunk" => cfg.kind \in IndependentWindows
  /\ pc \in {"seed", "dt_anchor", "dt_loop"} =>
       cfg.kind \in Native \ HasDeltaTParser /\ Mode = "delta_t"
  /\ pc \in {"peek", "window"} => cfg.kind \in HasDeltaTParser /\ Mode = "delta_t"
  /\ pc \in {"gather", "dt_loop", "window"} => anchored
  /\ pc \in {"anchor", "dt_anchor"} => ~anchored
  /\ acc # <<>> /\ pc # "anchor" => anchored
  /\ cfg.kind \notin IndependentWindows /\ ~anchored => Here \in {0, Total}

\* reset() brings the reader back to the beginning: it does so unless csv has read
\* a source that cannot seek.
Steady == cfg.kind = "csv" /\ cfg.pipe => "reset" \notin Ops

\* What was handed out ends where the reader is, and begins where the last seek came
\* down, or at the beginning if that is where a reset leads.
GotInv ==
  /\ IsTail(got, Here)
  /\ base <= Here - Len(got)
  /\ Steady => Here = Pos

CounterInv ==
  /\ nread <= Here
  /\ CanFastSeek /\ cfg.kind # "csv" => nread = Here

EofInv == eof => off = NW /\ carry = <<>>

ClockInv == anchored /\ Here < Total => cur <= Ts(Here + 1)

OriginInv ==
  CanFastSeek /\ cfg.kind \notin IndependentWindows /\ Total > 0 =>
    /\ anchored => first = Ts(1)
    /\ origins \subseteq {Ts(1)}

\* The windows that the parser cuts are within their bounds while they grow.
FillInv ==
  /\ pc = "count" => Len(out) <= call.ne
  /\ pc = "window" => /\ Len(out) <= call.cap /\ call.cap <= call.ne
                      /\ \A i \in 1 .. Len(out) : Ts(out[i]) < End

\* WindowExact, for readers over sources that cannot seek as well: of window w
\* when h events of a recording are behind the reader.
WindowAt(w, h, ts, total) ==
  CASE w.why = "time" ->
         /\ \A i \in 1 .. Len(w.ev) : w.lo <= ts[w.ev[i]] /\ ts[w.ev[i]] < w.hi
         /\ h < total => ts[h + 1] >= w.hi
         /\ Len(w.ev) <= w.most
    [] w.why = "capped" -> Len(w.ev) = w.most /\ h < total /\ ts[h + 1] < w.hi
    [] w.why = "count" -> Len(w.ev) = w.most \/ h = total
    [] w.why = "part" -> Len(w.ev) <= w.most
    [] w.why = "rest" -> h = total
    [] OTHER -> TRUE

WindowInv == pc = "idle" => WindowAt(win, Here, rec.ts, Total)

Inv ==
  /\ TypeInv /\ BufferInv /\ PathInv /\ GotInv /\ CounterInv /\ EofInv /\ ClockInv
  /\ OriginInv /\ FillInv /\ WindowInv

-----------------------------------------------------------------------------
(* What the steps have in common.                                          *)

\* Whatever is worked out from the configuration never changes.
LEMMA Fixed ==
  ASSUME cfg' = cfg
  PROVE  /\ rec' = rec /\ NW' = NW /\ Total' = Total /\ Mode' = Mode
         /\ DeltaT' = DeltaT /\ NEvents' = NEvents /\ CanFastSeek' = CanFastSeek /\ Steady' = Steady
  BY DEF rec, NW, Total, Mode, DeltaT, NEvents, CanFastSeek, Steady

\* The arguments of a reader that was accepted come to positive bounds.
LEMMA Bounds ==
  ASSUME cfg \in Configs
  PROVE  DeltaT \in Nat \ {0} /\ NEvents \in Nat \ {0}
  BY ConfigsAssumption, SizesAssumption
     DEF DeltaT, NEvents, ResolvedDeltaT, ResolvedNEvents, ResolvedMode, Accepted, Given,
         None, Modes

\* How far the buffers reach: the one that is not empty lies between the reader and
\* the decoder.
LEMMA StateFacts ==
  ASSUME TypeInv, BufferInv
  PROVE  /\ NW \in Nat /\ Total \in Nat /\ off \in 0 .. NW
         /\ Reached \in Nat /\ Reached <= Total
         /\ Here \in Nat /\ Here <= Reached
         /\ Len(acc) \in Nat /\ Len(carry) \in Nat /\ Len(out) \in Nat
         /\ acc = <<>> <=> Len(acc) = 0
         /\ carry = <<>> <=> Len(carry) = 0
         /\ out = <<>> <=> Len(out) = 0
         /\ Len(acc) # 0 => Here = Reached - Len(acc)
         /\ Len(carry) # 0 => Here = Reached - Len(carry)
         /\ Len(out) # 0 => Here = Reached - Len(out)
         /\ (acc = <<>> /\ carry = <<>> /\ out = <<>>) => Here = Reached
  <1>0. cfg \in Configs /\ off \in 0 .. NW
    BY DEF TypeInv
  <1>1. NW \in Nat /\ Total \in Nat /\ off \in 0 .. NW /\ Reached \in Nat /\ Reached <= Total
    BY <1>0, RecordingFacts DEF Reached
  <1>2. /\ Len(acc) \in Nat /\ Len(acc) <= Reached /\ (acc = <<>> <=> Len(acc) = 0)
        /\ Len(carry) \in Nat /\ Len(carry) <= Reached /\ (carry = <<>> <=> Len(carry) = 0)
        /\ Len(out) \in Nat /\ Len(out) <= Reached /\ (out = <<>> <=> Len(out) = 0)
    BY <1>1, TailFacts DEF BufferInv
  <1>3. \/ acc = <<>> /\ carry = <<>>
        \/ acc = <<>> /\ out = <<>>
        \/ carry = <<>> /\ out = <<>>
    BY DEF BufferInv
  <1>4. \/ Len(acc) = 0 /\ Len(carry) = 0
        \/ Len(acc) = 0 /\ Len(out) = 0
        \/ Len(carry) = 0 /\ Len(out) = 0
    BY <1>2, <1>3
  <1>5. Here = Reached - (Len(acc) + Len(carry) + Len(out))
    BY DEF Here
  <1>6. /\ Here \in Nat /\ Here <= Reached
        /\ Len(acc) # 0 => Here = Reached - Len(acc)
        /\ Len(carry) # 0 => Here = Reached - Len(carry)
        /\ Len(out) # 0 => Here = Reached - Len(out)
        /\ (Len(acc) = 0 /\ Len(carry) = 0 /\ Len(out) = 0) => Here = Reached
    <2>1. CASE Len(acc) = 0 /\ Len(carry) = 0
      BY <1>1, <1>2, <1>5, <2>1
    <2>2. CASE Len(acc) = 0 /\ Len(out) = 0
      BY <1>1, <1>2, <1>5, <2>2
    <2>3. CASE Len(carry) = 0 /\ Len(out) = 0
      BY <1>1, <1>2, <1>5, <2>3
    <2> QED  BY <1>4, <2>1, <2>2, <2>3
  <1> QED  BY <1>1, <1>2, <1>6

\* Decoding up to word q extends what a buffer holds.
LEMMA DecodeFacts ==
  ASSUME TypeInv, BufferInv, NEW q \in off .. NW, NEW s, IsTail(s, Reached)
  PROVE  /\ q \in 0 .. NW
         /\ rec.cum[q] \in Nat /\ Reached <= rec.cum[q] /\ rec.cum[q] <= Total
         /\ IsTail(s \o Decoded(q), rec.cum[q])
         /\ Len(s \o Decoded(q)) = Len(s) + (rec.cum[q] - Reached)
  <1>1. NW \in Nat /\ off \in 0 .. NW /\ Reached \in Nat
    BY StateFacts
  <1>2. q \in 0 .. NW /\ NW \in 0 .. NW /\ off <= q
    BY <1>1
  <1>3. rec.cum[q] \in Nat /\ Reached <= rec.cum[q] /\ rec.cum[q] <= Total
    BY <1>1, <1>2, RecordingFacts DEF TypeInv, Reached
  <1>4. Decoded(q) = Run(Reached, rec.cum[q])
    BY DEF Decoded, Reached
  <1> QED  BY <1>1, <1>2, <1>3, <1>4, TailExtend

\* A new reader.
THEOREM InitInv == Init => Inv
  <1> SUFFICES ASSUME Init
               PROVE  Inv
    OBVIOUS
  <1>1. cfg \in Configs
    BY DEF Init
  <1>2. NW \in Nat /\ Total \in Nat /\ rec.cum[0] = 0
    BY <1>1, RecordingFacts
  <1>3. DeltaT \in Nat \ {0} /\ NEvents \in Nat \ {0}
    BY <1>1, Bounds
  <1>4. IsTail(<<>>, 0) /\ Len(<<>>) = 0
    BY TailEmpty
  <1>5. Reached = 0 /\ Here = 0
    <2>1. Reached = 0
      BY <1>2 DEF Init, Reached
    <2>2. Len(acc) = 0 /\ Len(carry) = 0 /\ Len(out) = 0
      BY <1>4 DEF Init
    <2> QED  BY <2>1, <2>2 DEF Here
  <1>6. TypeInv
    <2>1. call \in [dt : Nat \ {0}, ne : Nat \ {0}, drain : BOOLEAN, cap : Nat]
      BY <1>3 DEF Init, NoCall
    <2>2. win.ev \in Seq(1 .. Total)
      BY DEF Init, NoWindow
    <2>3. off \in 0 .. NW /\ base \in 0 .. Total
      BY <1>2 DEF Init
    <2> QED  BY <1>1, <2>1, <2>2, <2>3 DEF Init, TypeInv, PcStates
  <1>7. BufferInv /\ PathInv
    BY <1>4, <1>5 DEF Init, BufferInv, PathInv
  <1>8. GotInv /\ CounterInv
    BY <1>4, <1>5 DEF Init, GotInv, CounterInv, Pos
  <1>9. EofInv /\ ClockInv /\ OriginInv /\ FillInv /\ WindowInv
    BY DEF Init, EofInv, ClockInv, OriginInv, FillInv, WindowInv, WindowAt, NoWindow
  <1> QED  BY <1>6, <1>7, <1>8, <1>9 DEF Inv

-----------------------------------------------------------------------------
(* Steps inside a call.                                                    *)

\* The types that arithmetic asks for.
LEMMA Types ==
  ASSUME Inv
  PROVE  /\ cfg \in Configs /\ TypeInv /\ BufferInv
         /\ NW \in Nat /\ Total \in Nat /\ off \in 0 .. NW /\ rec.cum[off] = Reached
         /\ Reached \in Nat /\ Reached <= Total /\ Here \in Nat /\ Here <= Reached /\ Here <= Total
         /\ nread \in Nat /\ cur \in Nat /\ first \in Nat /\ base \in Nat /\ base <= Total
         /\ call.dt \in Nat \ {0} /\ call.ne \in Nat \ {0} /\ call.cap \in Nat
         /\ Len(acc) \in Nat /\ Len(carry) \in Nat /\ Len(out) \in Nat
         /\ IsTail(got, Here) /\ Len(got) \in Nat /\ Len(got) <= Here
         /\ iter \in BOOLEAN /\ eof \in BOOLEAN /\ anchored \in BOOLEAN
         /\ origins \subseteq Nat
         /\ call \in [dt : Nat \ {0}, ne : Nat \ {0}, drain : BOOLEAN, cap : Nat]
  <1>1. TypeInv /\ BufferInv /\ IsTail(got, Here)
    BY DEF Inv, GotInv
  <1>2. /\ cfg \in Configs /\ off \in 0 .. NW /\ base \in 0 .. Total /\ origins \subseteq Nat
        /\ nread \in Nat /\ cur \in Nat /\ first \in Nat
        /\ iter \in BOOLEAN /\ eof \in BOOLEAN /\ anchored \in BOOLEAN
        /\ call \in [dt : Nat \ {0}, ne : Nat \ {0}, drain : BOOLEAN, cap : Nat]
    BY <1>1 DEF TypeInv
  <1>3. call.dt \in Nat \ {0} /\ call.ne \in Nat \ {0} /\ call.cap \in Nat
    BY <1>2
  <1>4. /\ NW \in Nat /\ Total \in Nat /\ Reached \in Nat /\ Reached <= Total
        /\ Here \in Nat /\ Here <= Reached
        /\ Len(acc) \in Nat /\ Len(carry) \in Nat /\ Len(out) \in Nat
    BY <1>1, StateFacts
  <1>5. Len(got) \in Nat /\ Len(got) <= Here
    BY <1>1, <1>4, TailFacts
  <1>6. base \in Nat /\ base <= Total /\ Here <= Total
    BY <1>2, <1>4
  <1>7. rec.cum[off] = Reached
    BY DEF Reached
  <1> QED  BY <1>1, <1>2, <1>3, <1>4, <1>5, <1>6, <1>7

\* While a call goes on and the cursor stays, nothing changes for the user.
LEMMA Going ==
  ASSUME Inv, cfg' = cfg, UNCHANGED <<nread, hist>>, Here' = Here, pc' # "idle"
  PROVE  GotInv' /\ CounterInv' /\ WindowInv'
  <1>1. CanFastSeek' = CanFastSeek /\ Steady' = Steady /\ Pos' = Pos
    BY Fixed DEF hist, Pos
  <1> QED  BY <1>1 DEF Inv, GotInv, CounterInv, WindowInv, hist

\* The clock and the shift keep their relation to a cursor that stays.
LEMMA SameClock ==
  ASSUME Inv, cfg' = cfg, UNCHANGED <<anchored, first, cur, origins>>, Here' = Here
  PROVE  ClockInv' /\ OriginInv'
  <1>1. rec' = rec /\ Total' = Total /\ CanFastSeek' = CanFastSeek
    BY Fixed
  <1> QED  BY <1>1 DEF Inv, ClockInv, OriginInv, Ts

\* What stays of the types when a step changes neither the configuration nor
\* what the user got.
LEMMA SameTypes ==
  ASSUME TypeInv, cfg' = cfg, UNCHANGED hist,
         off' \in 0 .. NW, eof' \in BOOLEAN, anchored' \in BOOLEAN, iter' \in BOOLEAN,
         first' \in Nat, cur' \in Nat, nread' \in Nat, pc' \in PcStates,
         call' \in [dt : Nat \ {0}, ne : Nat \ {0}, drain : BOOLEAN, cap : Nat]
  PROVE  TypeInv'
  <1>1. NW' = NW /\ Total' = Total
    BY Fixed
  <1>2. win.ev \in Seq(1 .. Total) /\ base \in 0 .. Total /\ origins \subseteq Nat
    BY DEF TypeInv
  <1>3. win'.ev \in Seq(1 .. Total') /\ base' \in 0 .. Total' /\ origins' \subseteq Nat
    BY <1>1, <1>2 DEF hist
  <1> QED  BY <1>1, <1>3 DEF TypeInv, PcStates

\* Decoding into the window leaves the cursor where it is.
LEMMA DecodeOut ==
  ASSUME Inv, cfg' = cfg, acc = <<>>, carry = <<>>, UNCHANGED <<acc, carry>>,
         NEW q \in off .. NW, off' = q, out' = out \o Decoded(q)
  PROVE  /\ Here' = Here
         /\ IsTail(acc', Reached') /\ IsTail(carry', Reached') /\ IsTail(out', Reached')
         /\ Reached' = rec.cum[q] /\ off' \in 0 .. NW
         /\ Len(out') = Len(out) + (rec.cum[q] - Reached)
  <1>1. /\ TypeInv /\ BufferInv
        /\ NW \in Nat /\ Reached \in Nat /\ Len(out) \in Nat
        /\ acc = <<>> <=> Len(acc) = 0
        /\ carry = <<>> <=> Len(carry) = 0
    BY StateFacts DEF Inv
  <1>2. /\ rec.cum[q] \in Nat /\ IsTail(out', rec.cum[q])
        /\ Len(out') = Len(out) + (rec.cum[q] - Reached) /\ q \in 0 .. NW
    BY <1>1, DecodeFacts DEF BufferInv
  <1>3. Reached' = rec.cum[q]
    BY Fixed DEF Reached
  <1>4. IsTail(acc', Reached') /\ IsTail(carry', Reached')
    BY <1>2, <1>3, TailEmpty
  <1>5. Here = Reached - Len(out) /\ Here' = Reached' - Len(out')
    BY <1>1, <1>2, <1>3 DEF Here
  <1> QED  BY <1>1, <1>2, <1>3, <1>4, <1>5

\* What fits in the room left, put behind what is there, is within the limit.
LEMMA WithinRoom ==
  ASSUME NEW l \in Nat, NEW most \in Nat, NEW a \in Nat, NEW c \in Nat,
         c - a <= most - l
  PROVE  l + (c - a) <= most
  OBVIOUS

\* The n_events fast path decodes on: never past the n_events it was asked for, since
\* the decoder leaves no headroom and a word is one event at most.
LEMMA CountDecodeInv ==
  ASSUME Inv, CountDecode
  PROVE  Inv'
  <1>1. /\ TypeInv /\ BufferInv /\ PathInv /\ EofInv /\ FillInv
        /\ pc = "count" /\ acc = <<>> /\ carry = <<>> /\ cfg.kind \in ExactWindow
        /\ cfg' = cfg /\ pc' = "count" /\ off # NW /\ Len(out) < call.ne
        /\ UNCHANGED <<acc, carry, eof, anchored, first, cur, nread, call, iter, hist>>
    BY DEF Inv, BufferInv, PathInv, CountDecode, Stay, rvars, DecEof
  <1>2. PICK q \in 0 .. NW :
          ParseStep(call.ne - Len(out), q) /\ off' = q /\ out' = out \o Decoded(q)
    BY DEF CountDecode
  <1>3. /\ NW \in Nat /\ off \in 0 .. NW /\ Reached \in Nat /\ Len(out) \in Nat
        /\ call.ne \in Nat /\ cfg \in Configs
    BY <1>1, StateFacts DEF TypeInv
  <1>4. q \in off .. NW
    BY <1>2 DEF ParseStep
  <1>5. /\ Here' = Here
        /\ IsTail(acc', Reached') /\ IsTail(carry', Reached') /\ IsTail(out', Reached')
        /\ off' \in 0 .. NW /\ Len(out') = Len(out) + (rec.cum[q] - Reached)
    BY <1>1, <1>2, <1>4, DecodeOut
  <1>6. Len(out') <= call.ne
    <2> DEFINE room == call.ne - Len(out)
    <2>1. room \in Nat /\ room > 0
      BY <1>1, <1>3
    <2>2. Headroom = 0 /\ TailPad = 0
      BY <1>1 DEF Headroom, TailPad, ExactWindow
    <2>3. \A r \in 0 .. NW : rec.cum[r] \in Nat
      BY <1>3, RecordingFacts
    <2>4. \A r \in 0 .. NW : Stops(r, room) <=> (rec.cum[r] - rec.cum[off] >= room \/ r >= NW)
      BY <1>3, <2>1, <2>2, <2>3 DEF Stops
    <2>5. ~Stops(off, room)
      BY <1>1, <1>3, <2>1, <2>3, <2>4
    <2>6. \A r \in off .. (q - 1) : ~Stops(r, room)
      BY <1>2, <2>5 DEF ParseStep
    <2>7. q # off
      BY <1>2, <2>5 DEF ParseStep
    <2>8. q - 1 \in off .. (q - 1) /\ q \in 1 .. NW /\ q - 1 \in 0 .. NW
      BY <1>3, <1>4, <2>7
    <2>9. rec.cum[q - 1] - rec.cum[off] < room
      BY <2>1, <2>3, <2>4, <2>6, <2>8, <1>3
    <2>10. rec.cum[q] - rec.cum[q - 1] <= 1
      BY <1>1, <1>3, <2>8, WordFacts
    <2> HIDE DEF room
    <2>11. rec.cum[q] \in Nat /\ rec.cum[q - 1] \in Nat /\ rec.cum[off] \in Nat
      BY <1>3, <2>3, <2>8
    <2>12. rec.cum[q] - rec.cum[off] <= room
      BY <2>1, <2>9, <2>10, <2>11
    <2>13. room = call.ne - Len(out) /\ Reached = rec.cum[off]
      BY DEF room, Reached
    <2>14. Len(out') = Len(out) + (rec.cum[q] - Reached)
      BY <1>5
    <2>15. Len(out) \in Nat /\ call.ne \in Nat /\ Reached \in Nat
      BY <1>3
    <2>16. rec.cum[q] - rec.cum[off] <= call.ne - Len(out)
      BY <2>12, <2>13
    <2>17. Len(out) + (rec.cum[q] - rec.cum[off]) <= call.ne
      BY <2>11, <2>15, <2>16, WithinRoom
    <2>18. Len(out') = Len(out) + (rec.cum[q] - rec.cum[off])
      BY <2>13, <2>14
    <2> QED  BY <2>17, <2>18
  <1>7. TypeInv'
    BY <1>1, <1>5, SameTypes DEF TypeInv
  <1>8. BufferInv' /\ PathInv'
    BY <1>1, <1>5, Fixed DEF BufferInv, PathInv
  <1>9. EofInv' /\ FillInv'
    BY <1>1, <1>6, Fixed DEF EofInv, FillInv
  <1>10. GotInv' /\ CounterInv' /\ WindowInv'
    BY <1>1, <1>5, Going
  <1>11. ClockInv' /\ OriginInv'
    BY <1>1, <1>5, SameClock DEF hist
  <1> QED  BY <1>7, <1>8, <1>9, <1>10, <1>11 DEF Inv

-----------------------------------------------------------------------------
(* Returning from a call.                                                  *)

\* A call that hands out the next n events moves the cursor past them.
LEMMA HandedOut ==
  ASSUME Inv, cfg' = cfg, base' = base, NEW n \in 0 .. (Total - Here),
         got' = got \o Run(Here, Here + n), Here' = Here + n, nread' = nread + n
  PROVE  GotInv' /\ CounterInv'
  <1>0. /\ Here \in Nat /\ Total \in Nat /\ Here <= Total /\ nread \in Nat /\ base \in Nat
        /\ IsTail(got, Here)
    BY Types
  <1>1. n \in Nat /\ Here + n \in Nat /\ Here <= Here + n /\ (Here + n) - Here = n
    BY <1>0
  <1>2. IsTail(got', Here') /\ Len(got') = Len(got) + n /\ Len(got) \in Nat
    <2>1. /\ IsTail(got \o Run(Here, Here + n), Here + n)
          /\ Len(got \o Run(Here, Here + n)) = Len(got) + ((Here + n) - Here)
      BY <1>0, <1>1, TailExtend
    <2>2. Len(got) \in Nat
      BY Types
    <2> QED  BY <1>1, <2>1, <2>2
  <1>3. CanFastSeek' = CanFastSeek /\ Steady' = Steady
    BY Fixed
  <1>4. base <= Here - Len(got) /\ (Steady => Here = base + Len(got))
    BY DEF Inv, GotInv, Pos
  <1>5. base' <= Here' - Len(got')
    BY <1>0, <1>1, <1>2, <1>4
  <1>8. ASSUME Steady'
        PROVE  Here' = base' + Len(got')
    BY <1>0, <1>1, <1>2, <1>3, <1>4, <1>8, SMTT(30), ZenonT(30)
  <1>6. nread <= Here /\ (CanFastSeek /\ cfg.kind # "csv" => nread = Here)
    BY DEF Inv, CounterInv
  <1>7. nread' <= Here'
    BY <1>0, <1>1, <1>6
  <1>9. ASSUME CanFastSeek', cfg'.kind # "csv"
        PROVE  nread' = Here'
    BY <1>0, <1>1, <1>3, <1>6, <1>9
  <1> QED  BY <1>2, <1>5, <1>7, <1>8, <1>9 DEF GotInv, CounterInv, Pos

\* The same for the whole call that returns.
LEMMA Returned ==
  ASSUME Inv, NEW n \in 0 .. (Total - Here), NEW org, NEW why,
         Return(Run(Here, Here + n), org, why),
         Here' = Here + n, nread' = nread + n, n # 0 => org \in Nat \cup {None},
         off' \in 0 .. NW, eof' \in BOOLEAN, anchored' \in BOOLEAN,
         first' \in Nat, cur' \in Nat
  PROVE  /\ TypeInv' /\ GotInv' /\ CounterInv' /\ FillInv'
         /\ cfg' = cfg /\ pc' = "idle" /\ out' = <<>>
         /\ NW' = NW /\ Total' = Total /\ rec' = rec /\ Here' \in Nat /\ Here' <= Total
  <1>1. /\ cfg' = cfg /\ base' = base /\ got' = got \o Run(Here, Here + n)
        /\ pc' = "idle" /\ call' = NoCall /\ out' = <<>> /\ iter' = iter
        /\ win'.ev = Run(Here, Here + n)
        /\ origins' = IF Run(Here, Here + n) = <<>> \/ org = None
                      THEN origins ELSE origins \cup {org}
    BY DEF Return
  <1>2. NW' = NW /\ Total' = Total /\ rec' = rec
    BY <1>1, Fixed
  <1>10. /\ cfg \in Configs /\ Here \in Nat /\ Total \in Nat /\ Here <= Total
         /\ nread \in Nat /\ iter \in BOOLEAN
         /\ base \in Nat /\ base <= Total /\ origins \subseteq Nat
    BY Types
  <1>3. n \in Nat /\ Here + n \in Nat /\ Here + n <= Total /\ base \in 0 .. Total
    BY <1>10
  <1>4. GotInv' /\ CounterInv'
    BY <1>1, HandedOut
  <1>5. win'.ev \in Seq(1 .. Total')
    <2>1. Here \in 0 .. Total /\ Here + n \in 0 .. Total /\ Here <= Here + n
      BY <1>3, <1>10
    <2> QED  BY <1>1, <1>2, <1>10, <2>1, RunType
  <1>6. origins' \subseteq Nat
    <2>1. CASE n = 0
      <3>1. Run(Here, Here + n) = <<>>
        BY <1>10, <2>1, RunFacts
      <3> QED  BY <1>1, <1>10, <3>1
    <2>2. CASE n # 0
      BY <1>1, <1>10, <2>2
    <2> QED  BY <2>1, <2>2
  <1>7. call' \in [dt : Nat \ {0}, ne : Nat \ {0}, drain : BOOLEAN, cap : Nat]
    BY <1>1, <1>10, Bounds DEF NoCall
  <1>11. cfg' \in Configs /\ off' \in 0 .. NW' /\ base' \in 0 .. Total'
    BY <1>1, <1>2, <1>3, <1>10
  <1>12. nread' \in Nat /\ iter' \in BOOLEAN /\ pc' \in PcStates
    BY <1>1, <1>3, <1>10 DEF PcStates
  <1>8. TypeInv'
    BY <1>5, <1>6, <1>7, <1>11, <1>12 DEF TypeInv
  <1>9. FillInv'
    BY <1>1 DEF FillInv
  <1> QED  BY <1>1, <1>2, <1>3, <1>4, <1>8, <1>9, <1>10

\* Nothing staged, nothing carried over.
LEMMA NothingHeld ==
  ASSUME cfg' = cfg, cfg \in Configs, off' \in 0 .. NW, acc' = <<>>, carry' = <<>>, out' = <<>>
  PROVE  BufferInv' /\ Reached' \in Nat /\ Here' = Reached'
  <1>1. NW' = NW /\ rec' = rec
    BY Fixed
  <1>2. Reached' \in Nat
    BY <1>1, RecordingFacts DEF Reached
  <1>3. IsTail(<<>>, Reached') /\ Len(<<>>) = 0
    BY <1>2, TailEmpty
  <1>4. Here' = Reached'
    <2>1. Len(acc') = 0 /\ Len(carry') = 0 /\ Len(out') = 0
      BY <1>3
    <2>2. PICK r : r = Reached'
      OBVIOUS
    <2>3. Here' = r - (0 + 0 + 0)
      BY <2>1, <2>2 DEF Here
    <2>4. r \in Nat
      BY <1>2, <2>2
    <2>5. r - (0 + 0 + 0) = r
      BY <2>4
    <2> QED  BY <2>2, <2>3, <2>5
  <1> QED  BY <1>2, <1>3, <1>4 DEF BufferInv

\* The shift that a call uses, and the clock of a reader that stays anchored.
LEMMA ReturnedOrigin ==
  ASSUME Inv, NEW ev, NEW org, NEW why, Return(ev, org, why),
         CanFastSeek /\ cfg.kind \notin IndependentWindows /\ Total > 0 =>
           /\ anchored' => first' = Ts(1)
           /\ ev # <<>> => org \in {Ts(1), None}
  PROVE  OriginInv'
  <1>1. /\ cfg' = cfg
        /\ origins' = IF ev = <<>> \/ org = None THEN origins ELSE origins \cup {org}
    BY DEF Return
  <1>2. rec' = rec /\ Total' = Total /\ CanFastSeek' = CanFastSeek
    BY <1>1, Fixed
  <1> QED  BY <1>1, <1>2 DEF Inv, OriginInv, Ts

\* A clock that is behind the cursor is so when the cursor advances.
LEMMA ClockStays ==
  ASSUME Inv, cfg' = cfg, NEW h \in Nat, Here <= h, Here' = h,
         anchored' => anchored /\ cur' = cur
  PROVE  ClockInv'
  <1>1. rec' = rec /\ Total' = Total
    BY Fixed
  <1>2. Here \in Nat /\ Total \in Nat /\ cfg \in Configs /\ cur \in Nat
    BY Types
  <1>4. SUFFICES ASSUME anchored', h < Total
                 PROVE  cur' <= rec.ts[h + 1]
    BY <1>1 DEF ClockInv, Ts
  <1>5. Here < Total /\ Here + 1 \in 1 .. Total /\ h + 1 \in 1 .. Total /\ Here + 1 <= h + 1
    BY <1>2, <1>4
  <1>6. cur <= rec.ts[Here + 1] /\ cur' = cur
    BY <1>4, <1>5 DEF Inv, ClockInv, Ts
  <1>7. rec.ts[Here + 1] <= rec.ts[h + 1]
    BY <1>2, <1>5, EventsAscend
  <1>8. rec.ts[Here + 1] \in Nat /\ rec.ts[h + 1] \in Nat
    BY <1>2, <1>5, RecordingFacts
  <1> QED  BY <1>2, <1>6, <1>7, <1>8

\* The invariant from what the call returned.
LEMMA Handed ==
  ASSUME NEW ev, NEW org, NEW why, Return(ev, org, why), NEW h, Here' = h,
         WindowAt([ev |-> ev, lo |-> cur, hi |-> End, most |-> call.ne, why |-> why],
                  h, rec.ts, Total)
  PROVE  WindowInv'
  <1>1. /\ cfg' = cfg
        /\ win' = [ev |-> ev, lo |-> cur, hi |-> End, most |-> call.ne, why |-> why]
    BY DEF Return
  <1>2. rec' = rec /\ Total' = Total
    BY <1>1, Fixed
  <1> QED  BY <1>1, <1>2 DEF WindowInv

\* What a fast path holds, and what it comes to when it decodes up to word q.
LEMMA OutNow ==
  ASSUME Inv, acc = <<>>, carry = <<>>
  PROVE  /\ Len(out) \in 0 .. (Total - Here) /\ Here + Len(out) = Reached
         /\ out = Run(Here, Here + Len(out))
         /\ out = <<>> <=> Len(out) = 0
         /\ \A i \in 1 .. Len(out) : out[i] = Here + i
  <1>1. /\ Total \in Nat /\ Here \in Nat /\ Reached \in Nat /\ Len(out) \in Nat
        /\ TypeInv /\ BufferInv /\ Here <= Total /\ Reached <= Total
    BY Types
  <1>2. Len(acc) = 0 /\ Len(carry) = 0
    BY <1>1, StateFacts
  <1>3. Here = Reached - Len(out)
    BY <1>1, <1>2 DEF Here
  <1>4. /\ out = Run(Reached - Len(out), Reached) /\ Len(out) <= Reached
        /\ out = <<>> <=> Len(out) = 0
        /\ \A i \in 1 .. Len(out) : out[i] = Reached - Len(out) + i
    BY <1>1, TailFacts, ZenonT(30), SMTT(30) DEF BufferInv, IsTail
  <1>5. Here + Len(out) = Reached /\ Len(out) \in 0 .. (Total - Here)
    BY <1>1, <1>3, <1>4
  <1> QED  BY <1>3, <1>4, <1>5

\* What the fast path would hand out at word q: the next n events.
LEMMA OutRun ==
  ASSUME Inv, acc = <<>>, carry = <<>>, NEW q \in off .. NW
  PROVE  \E n \in 0 .. (Total - Here) :
           /\ n = Len(out) + rec.cum[q] - rec.cum[off]
           /\ Here + n = rec.cum[q] /\ q \in 0 .. NW
           /\ out \o Decoded(q) = Run(Here, Here + n)
           /\ Len(out \o Decoded(q)) = n
           /\ out \o Decoded(q) = <<>> <=> n = 0
           /\ \A i \in 1 .. n : (out \o Decoded(q))[i] = Here + i
  <1>1. /\ Total \in Nat /\ Here \in Nat /\ Reached \in Nat /\ Len(out) \in Nat
        /\ TypeInv /\ BufferInv /\ rec.cum[off] = Reached
    BY Types
  <1>2. /\ out = Run(Here, Reached) /\ Here <= Reached /\ Len(out) = Reached - Here
    BY <1>1, OutNow
  <1>3. /\ q \in 0 .. NW /\ rec.cum[q] \in Nat /\ Reached <= rec.cum[q] /\ rec.cum[q] <= Total
    BY <1>1, DecodeFacts DEF BufferInv
  <1>4. out \o Decoded(q) = Run(Here, rec.cum[q])
    BY <1>1, <1>2, <1>3, RunConcat DEF Decoded
  <1> DEFINE n == rec.cum[q] - Here
  <1>5. /\ n \in 0 .. (Total - Here) /\ n = Len(out) + rec.cum[q] - rec.cum[off]
        /\ Here + n = rec.cum[q] /\ Here <= Here + n /\ Here + n \in Nat
    <2>1. /\ Total \in Nat /\ Here \in Nat /\ Reached \in Nat /\ Len(out) \in Nat
          /\ rec.cum[off] \in Nat /\ rec.cum[off] = Reached
      BY <1>1
    <2>2. /\ rec.cum[q] \in Nat /\ Reached <= rec.cum[q] /\ rec.cum[q] <= Total
      BY <1>3
    <2>3. Here <= Reached /\ Len(out) = Reached - Here
      BY <1>2
    <2>4. n \in Nat /\ n <= Total - Here
      BY <2>1, <2>2, <2>3
    <2>5. n = Len(out) + rec.cum[q] - rec.cum[off]
      BY <2>1, <2>2, <2>3
    <2>6. Here + n = rec.cum[q] /\ Here <= Here + n /\ Here + n \in Nat
      BY <2>1, <2>2, <2>3
    <2> QED  BY <2>1, <2>4, <2>5, <2>6
  <1> HIDE DEF n
  <1>6. /\ Len(Run(Here, Here + n)) = (Here + n) - Here
        /\ \A i \in 1 .. ((Here + n) - Here) : Run(Here, Here + n)[i] = Here + i
        /\ Here = Here + n <=> Run(Here, Here + n) = <<>>
    BY <1>1, <1>5, RunFacts, ZenonT(30), SMTT(30)
  <1>7. n \in Nat /\ (Here + n) - Here = n /\ (Here = Here + n <=> n = 0)
    <2>1. Total \in Nat /\ Here \in Nat /\ n \in 0 .. (Total - Here)
      BY <1>1, <1>5
    <2> QED  BY <2>1
  <1> QED  BY <1>3, <1>4, <1>5, <1>6, <1>7

\* It returns what it decoded.
LEMMA CountReturnInv ==
  ASSUME Inv, CountReturn
  PROVE  Inv'
  <1>1. /\ pc = "count" /\ acc = <<>> /\ carry = <<>> /\ cfg.kind \in ExactWindow
        /\ acc' = <<>> /\ carry' = <<>> /\ UNCHANGED off
        /\ nread' = nread + Len(out) /\ eof' = DecEof
        /\ Return(out, first', "count") /\ Len(out) <= call.ne
        /\ (Len(out) >= call.ne \/ DecEof)
    BY DEF Inv, BufferInv, PathInv, FillInv, CountReturn
  <1>2. /\ IF out # <<>> /\ ~anchored
           THEN first' = Ts(out[1]) /\ cur' = Ts(out[1]) /\ anchored' = TRUE
           ELSE UNCHANGED <<anchored, first, cur>>
    BY DEF CountReturn, AnchorAt
  <1>3. /\ cfg \in Configs /\ NW \in Nat /\ Total \in Nat /\ off \in 0 .. NW /\ Here \in Nat
        /\ Reached \in Nat /\ Reached <= Total /\ call.ne \in Nat /\ first \in Nat /\ cur \in Nat
        /\ anchored \in BOOLEAN /\ rec.cum[off] = Reached
    BY Types
  <1>4. /\ Len(out) \in 0 .. (Total - Here) /\ Here + Len(out) = Reached
        /\ out = Run(Here, Here + Len(out))
        /\ out = <<>> <=> Len(out) = 0
        /\ \A i \in 1 .. Len(out) : out[i] = Here + i
    BY <1>1, OutNow
  <1>5. cfg' = cfg /\ out' = <<>> /\ pc' = "idle"
    BY <1>1 DEF Return
  <1>6. BufferInv' /\ Here' = Reached
    <2>1. BufferInv' /\ Here' = Reached'
      BY <1>1, <1>3, <1>5, NothingHeld
    <2>2. Reached' = Reached
      BY <1>1, <1>5, Fixed DEF Reached
    <2> QED  BY <2>1, <2>2
  <1>7. ASSUME out # <<>>, ~anchored
        PROVE  Here = 0 /\ out[1] = 1 /\ 1 \in 1 .. Total /\ Ts(1) \in Nat
    <2>1. Len(out) > 0 /\ Here < Total /\ Total > 0
      BY <1>3, <1>4, <1>7
    <2>2. Here = 0
      BY <1>1, <1>3, <1>7, <2>1 DEF Inv, PathInv, ExactWindow, IndependentWindows
    <2>3. Ts(1) \in Nat
      BY <1>3, <2>1, RecordingFacts, SMTT(30), ZenonT(30) DEF Ts
    <2> QED  BY <1>3, <1>4, <2>1, <2>2, <2>3
  <1>8. first' \in Nat /\ cur' \in Nat /\ anchored' \in BOOLEAN
    BY <1>2, <1>3, <1>7
  <1>9. /\ TypeInv' /\ GotInv' /\ CounterInv' /\ FillInv'
        /\ NW' = NW /\ Total' = Total /\ rec' = rec
    BY <1>1, <1>3, <1>4, <1>6, <1>8, Returned DEF DecEof
  <1>10. PathInv'
    <2>1. ~anchored' => Here' \in {0, Total}
      <3>1. ASSUME ~anchored'
            PROVE  Here = Reached /\ Here \in {0, Total}
        <4>1. ~anchored /\ out = <<>>
          BY <1>2, <3>1
        <4>2. Here = Reached
          BY <1>3, <1>4, <4>1
        <4> QED  BY <1>1, <4>1, <4>2 DEF Inv, PathInv, ExactWindow, IndependentWindows
      <3> QED  BY <1>6, <3>1
    <2> QED  BY <1>1, <1>5, <1>9, <2>1 DEF PathInv
  <1>11. EofInv'
    BY <1>1, <1>9 DEF EofInv, DecEof
  <1>12. ClockInv'
    <2>1. CASE out # <<>> /\ ~anchored
      <3>1. ASSUME Reached < Total
            PROVE  rec.ts[1] <= rec.ts[Reached + 1]
        BY <1>3, <1>7, <2>1, <3>1, EventsAscend
      <3> QED  BY <1>2, <1>6, <1>7, <1>9, <2>1, <3>1 DEF ClockInv, Ts
    <2>2. CASE ~(out # <<>> /\ ~anchored)
      BY <1>2, <1>3, <1>4, <1>5, <1>6, <2>2, ClockStays
    <2> QED  BY <2>1, <2>2
  <1>13. OriginInv'
    <2>1. ASSUME CanFastSeek, Total > 0
          PROVE  /\ anchored' => first' = Ts(1)
                 /\ out # <<>> => first' = Ts(1)
      <3>1. anchored => first = Ts(1)
        BY <1>1, <2>1 DEF Inv, OriginInv, ExactWindow, IndependentWindows
      <3> QED  BY <1>2, <1>7, <3>1
    <2> QED  BY <1>1, <2>1, ReturnedOrigin
  <1>14. WindowInv'
    <2>2. Len(out) = call.ne \/ Reached = Total
      <3>1. CASE DecEof
        BY <1>3, <3>1 DEF DecEof, Total
      <3>2. CASE Len(out) >= call.ne
        BY <1>1, <1>3, <1>4, <3>2
      <3> QED  BY <1>1, <3>1, <3>2
    <2> QED  BY <1>1, <1>6, <2>2, Handed DEF WindowAt
  <1> QED  BY <1>6, <1>9, <1>10, <1>11, <1>12, <1>13, <1>14 DEF Inv

\* A table hands out the chunk it read.
LEMMA ChunkReturnInv ==
  ASSUME Inv, ChunkReturn
  PROVE  Inv'
  <1>1. PICK q \in 0 .. NW :
          /\ ReadChunk(call.ne, q)
          /\ off' = q
          /\ eof' = (Len(Decoded(q)) < call.ne)
          /\ IF Decoded(q) # <<>> /\ nread = 0
             THEN first' = Ts(Decoded(q)[1]) /\ cur' = Ts(Decoded(q)[1])
             ELSE UNCHANGED <<first, cur>>
          /\ nread' = nread + Len(Decoded(q))
          /\ Return(Decoded(q), first', "count")
    BY DEF ChunkReturn
  <1>2. /\ acc = <<>> /\ carry = <<>> /\ out = <<>> /\ cfg.kind \in IndependentWindows
        /\ acc' = <<>> /\ carry' = <<>> /\ anchored' = anchored
    BY DEF Inv, BufferInv, PathInv, ChunkReturn
  <1>3. /\ cfg \in Configs /\ NW \in Nat /\ Total \in Nat /\ off \in 0 .. NW /\ Here \in Nat
        /\ Here <= Total
        /\ Reached \in Nat /\ Reached <= Total /\ call.ne \in Nat /\ first \in Nat /\ cur \in Nat
        /\ anchored \in BOOLEAN /\ rec.cum[off] = Reached
    BY Types
  <1>4. q \in off .. NW /\ (q = off + call.ne \/ q = NW)
    BY <1>1, <1>2, <1>3 DEF ReadChunk, IndependentWindows, Smaller
  <1>5. \A w \in 0 .. NW : rec.cum[w] = w
    BY <1>2, <1>3, WordFacts DEF Native, IndependentWindows
  <1>6. Here = off /\ Total = NW /\ Reached = off
    <2>1. Len(out) = 0 /\ Here + Len(out) = Reached
      BY <1>2, OutNow
    <2>2. Reached = off /\ Total = NW
      BY <1>3, <1>5 DEF Reached, Total
    <2> QED  BY <1>3, <2>1, <2>2
  <1>7. /\ q - off \in 0 .. (Total - Here) /\ q - off \in Nat
        /\ Here + (q - off) = q /\ Here <= q /\ q \in Nat /\ q - Here = q - off
    BY <1>3, <1>4, <1>6
  <1>8. Decoded(q) = Run(Here, Here + (q - off))
    BY <1>3, <1>4, <1>5, <1>6, <1>7 DEF Decoded
  <1>9. /\ Len(Decoded(q)) = q - off
        /\ Decoded(q) = <<>> <=> q - off = 0
        /\ \A i \in 1 .. (q - off) : Decoded(q)[i] = Here + i
    <2>1. /\ Len(Run(Here, q)) = q - Here
          /\ \A i \in 1 .. (q - Here) : Run(Here, q)[i] = Here + i
          /\ Here = q <=> Run(Here, q) = <<>>
      BY <1>3, <1>7, RunFacts
    <2> QED  BY <1>3, <1>7, <1>8, <2>1, SMTT(30), ZenonT(30)
  <1>10. cfg' = cfg /\ out' = <<>> /\ pc' = "idle"
    BY <1>1 DEF Return
  <1>11. BufferInv' /\ Here' = q
    <2>1. BufferInv' /\ Here' = Reached'
      BY <1>1, <1>2, <1>3, <1>10, NothingHeld
    <2>2. Reached' = rec.cum[q]
      BY <1>1, <1>10, Fixed DEF Reached
    <2> QED  BY <1>5, <2>1, <2>2
  <1>12. ASSUME Decoded(q) # <<>>
         PROVE  Decoded(q)[1] = Here + 1 /\ Here + 1 \in 1 .. Total /\ Ts(Here + 1) \in Nat
    <2>1. 1 \in 1 .. (q - off) /\ Here + 1 \in 1 .. Total
      BY <1>3, <1>7, <1>9, <1>12
    <2> QED  BY <1>3, <1>9, <2>1, RecordingFacts DEF Ts
  <1>13. first' \in Nat /\ cur' \in Nat /\ eof' \in BOOLEAN
    BY <1>1, <1>3, <1>12
  <1>14. /\ TypeInv' /\ GotInv' /\ CounterInv' /\ FillInv'
         /\ NW' = NW /\ Total' = Total /\ rec' = rec
    <2> DEFINE n == q - off
    <2>1. /\ n \in 0 .. (Total - Here) /\ Decoded(q) = Run(Here, Here + n)
          /\ Here' = Here + n /\ nread' = nread + n
          /\ off' \in 0 .. NW /\ anchored' \in BOOLEAN /\ (n # 0 => first' \in Nat)
      BY <1>1, <1>2, <1>3, <1>7, <1>8, <1>9, <1>11, <1>13
    <2>2. Return(Run(Here, Here + n), first', "count")
      BY <1>1, <2>1
    <2> HIDE DEF n
    <2> QED  BY <1>13, <2>1, <2>2, Returned
  <1>15. PathInv'
    BY <1>2, <1>10 DEF PathInv
  <1>16. EofInv'
    <2>1. q - off < call.ne => q = NW
      BY <1>3, <1>4
    <2> QED  BY <1>1, <1>2, <1>9, <1>14, <2>1 DEF EofInv
  <1>17. ClockInv'
    <2>1. CASE Decoded(q) # <<>> /\ nread = 0
      <3>1. ASSUME q < Total
            PROVE  rec.ts[Here + 1] <= rec.ts[q + 1]
        <4>1. Here + 1 \in 1 .. Total /\ q + 1 \in 1 .. Total /\ Here + 1 <= q + 1
          BY <1>3, <1>7, <3>1
        <4> QED  BY <1>3, <4>1, EventsAscend
      <3> QED  BY <1>1, <1>11, <1>12, <1>14, <2>1, <3>1 DEF ClockInv, Ts
    <2>2. CASE ~(Decoded(q) # <<>> /\ nread = 0)
      BY <1>1, <1>2, <1>7, <1>10, <1>11, <2>2, ClockStays
    <2> QED  BY <2>1, <2>2
  <1>18. OriginInv'
    BY <1>2, <1>10 DEF OriginInv
  <1>19. WindowInv'
    <2>2. q - off = call.ne \/ q = Total
      BY <1>3, <1>4, <1>6
    <2> QED  BY <1>1, <1>9, <1>11, <2>2, Handed DEF WindowAt
  <1> QED  BY <1>11, <1>14, <1>15, <1>16, <1>17, <1>18, <1>19 DEF Inv

-----------------------------------------------------------------------------
(* The delta_t path: _read_delta_t_fast.                                   *)

\* A call that returns nothing.
LEMMA NothingReturned ==
  ASSUME Inv, ReturnNothing, Here' = Here, UNCHANGED <<anchored, first, cur, nread>>,
         off' \in 0 .. NW, eof' \in BOOLEAN
  PROVE  TypeInv' /\ GotInv' /\ CounterInv' /\ ClockInv' /\ OriginInv' /\ FillInv' /\ WindowInv'
  <1>1. /\ cfg' = cfg /\ pc' = "idle" /\ call' = NoCall /\ out' = <<>> /\ win' = NoWindow
        /\ UNCHANGED <<iter, base, got, origins>>
    BY DEF ReturnNothing
  <1>2. /\ NW' = NW /\ Total' = Total /\ rec' = rec
        /\ CanFastSeek' = CanFastSeek /\ Steady' = Steady
    BY <1>1, Fixed
  <1>3. TypeInv'
    <2>1. call' \in [dt : Nat \ {0}, ne : Nat \ {0}, drain : BOOLEAN, cap : Nat]
      BY <1>1, Types, Bounds DEF NoCall
    <2>2. win'.ev \in Seq(1 .. Total')
      BY <1>1 DEF NoWindow
    <2>3. /\ cfg' \in Configs /\ off' \in 0 .. NW' /\ base' \in 0 .. Total' /\ origins' \subseteq Nat
          /\ anchored' \in BOOLEAN /\ iter' \in BOOLEAN
          /\ first' \in Nat /\ cur' \in Nat /\ nread' \in Nat
      BY <1>1, <1>2 DEF Inv, TypeInv
    <2> QED  BY <1>1, <2>1, <2>2, <2>3 DEF TypeInv, PcStates
  <1>4. GotInv' /\ CounterInv'
    BY <1>1, <1>2 DEF Inv, GotInv, CounterInv, Pos
  <1>5. ClockInv' /\ OriginInv'
    BY <1>1, SameClock
  <1>6. FillInv' /\ WindowInv'
    BY <1>1 DEF FillInv, WindowInv, WindowAt, NoWindow
  <1> QED  BY <1>3, <1>4, <1>5, <1>6

\* The delta_t fast path begins with the overshoot of the call before.
LEMMA SeedInv ==
  ASSUME Inv, Seed
  PROVE  Inv'
  <1>1. /\ pc = "seed" /\ acc = <<>> /\ out = <<>> /\ out' = carry /\ carry' = <<>>
        /\ cfg.kind \in Native \ HasDeltaTParser /\ Mode = "delta_t"
        /\ UNCHANGED <<cfg, off, acc, eof, anchored, first, cur, nread, call, iter, hist>>
        /\ pc' = IF ~anchored /\ carry = <<>> THEN "dt_anchor" ELSE "dt_loop"
        /\ carry # <<>> => anchored
    BY DEF Inv, BufferInv, PathInv, Seed, Goto, rvars
  <1>2. /\ TypeInv /\ BufferInv /\ NW \in Nat /\ Reached \in Nat
    BY Types
  <1>3. Reached' = Reached /\ NW' = NW /\ Mode' = Mode
    BY <1>1, Fixed DEF Reached
  <1>4. Here' = Here
    <2>1. /\ Len(acc) \in Nat /\ Len(carry) \in Nat /\ Len(out) = 0 /\ Len(<<>>) = 0
      BY <1>1, <1>2, StateFacts
    <2>2. Here = Reached - (Len(acc) + Len(carry) + Len(out))
      BY DEF Here
    <2>3. Here' = Reached' - (Len(acc) + Len(<<>>) + Len(carry))
      BY <1>1 DEF Here
    <2>4. Len(acc) + Len(carry) + Len(out) = Len(acc) + Len(<<>>) + Len(carry)
      BY <2>1
    <2> QED  BY <1>3, <2>2, <2>3, <2>4
  <1>5. IsTail(acc', Reached') /\ IsTail(carry', Reached') /\ IsTail(out', Reached')
    BY <1>1, <1>2, <1>3, TailEmpty DEF BufferInv
  <1>6. TypeInv'
    BY <1>1, <1>2, SameTypes DEF TypeInv, PcStates
  <1>7. BufferInv'
    BY <1>1, <1>5 DEF BufferInv
  <1>11. PathInv'
    <2>1. ~anchored => Here \in {0, Total}
      BY <1>1 DEF Inv, PathInv, Native, IndependentWindows
    <2>2. Total' = Total
      BY <1>1, Fixed
    <2> QED  BY <1>1, <1>3, <1>4, <2>1, <2>2 DEF PathInv
  <1>8. EofInv' /\ FillInv'
    BY <1>1, <1>3 DEF Inv, EofInv, FillInv
  <1>9. GotInv' /\ CounterInv' /\ WindowInv'
    BY <1>1, <1>4, Going
  <1>10. ClockInv' /\ OriginInv'
    BY <1>1, <1>4, SameClock DEF hist
  <1> QED  BY <1>6, <1>7, <1>8, <1>9, <1>10, <1>11 DEF Inv

\* It decodes on until the window is complete.
LEMMA DtDecodeInv ==
  ASSUME Inv, DtDecode
  PROVE  Inv'
  <1>1. /\ TypeInv /\ BufferInv /\ PathInv /\ EofInv
        /\ pc \in {"dt_anchor", "dt_loop"} /\ acc = <<>> /\ carry = <<>>
        /\ cfg' = cfg /\ pc' = pc /\ off # NW
        /\ UNCHANGED <<acc, carry, eof, anchored, first, cur, nread, call, iter, hist>>
    BY DEF Inv, BufferInv, DtDecode, Stay, rvars, DecEof
  <1>2. PICK q \in 0 .. NW : ParseStep(DtStep, q) /\ off' = q /\ out' = out \o Decoded(q)
    BY DEF DtDecode
  <1>3. q \in off .. NW
    BY <1>2 DEF ParseStep
  <1>4. /\ Here' = Here
        /\ IsTail(acc', Reached') /\ IsTail(carry', Reached') /\ IsTail(out', Reached')
        /\ off' \in 0 .. NW
    BY <1>1, <1>2, <1>3, DecodeOut
  <1>5. TypeInv'
    BY <1>1, <1>4, SameTypes DEF TypeInv
  <1>6. BufferInv' /\ PathInv'
    BY <1>1, <1>4, Fixed DEF BufferInv, PathInv
  <1>7. EofInv' /\ FillInv'
    BY <1>1, Fixed DEF EofInv, FillInv
  <1>8. GotInv' /\ CounterInv' /\ WindowInv'
    BY <1>1, <1>4, Going
  <1>9. ClockInv' /\ OriginInv'
    BY <1>1, <1>4, SameClock DEF hist
  <1> QED  BY <1>5, <1>6, <1>7, <1>8, <1>9 DEF Inv

\* The first event that a reader finds is that of the recording.
LEMMA FirstEvent ==
  ASSUME Inv, ~anchored, cfg.kind \notin IndependentWindows, Here < Total
  PROVE  Here = 0 /\ 1 \in 1 .. Total /\ Ts(1) \in Nat
  <1>1. Here \in Nat /\ Total \in Nat /\ cfg \in Configs
    BY Types
  <1>2. Here = 0
    BY <1>1 DEF Inv, PathInv
  <1>3. 1 \in 1 .. Total
    BY <1>1
  <1> QED  BY <1>1, <1>2, <1>3, RecordingFacts DEF Ts

\* The first event it finds sets the clock.
LEMMA DtAnchorInv ==
  ASSUME Inv, DtAnchor
  PROVE  Inv'
  <1>1. /\ pc = "dt_anchor" /\ acc = <<>> /\ carry = <<>> /\ out # <<>> /\ ~anchored
        /\ cfg.kind \in Native \ HasDeltaTParser /\ cfg.kind \notin IndependentWindows
        /\ Mode = "delta_t"
        /\ first' = Ts(out[1]) /\ cur' = Ts(out[1]) /\ anchored' = TRUE /\ pc' = "dt_loop"
        /\ UNCHANGED <<cfg, off, acc, carry, out, eof, nread, call, iter, hist>>
    BY DEF Inv, BufferInv, PathInv, DtAnchor, AnchorAt, Goto, bufs, Native, IndependentWindows
  <1>2. /\ TypeInv /\ BufferInv /\ Here \in Nat /\ Total \in Nat /\ off \in 0 .. NW
        /\ Here <= Total /\ Reached \in Nat
    BY Types
  <1>3. /\ Len(out) \in 0 .. (Total - Here) /\ Len(out) # 0 /\ out[1] = Here + 1
    <2>1. /\ Len(out) \in 0 .. (Total - Here) /\ Len(out) # 0
          /\ \A i \in 1 .. Len(out) : out[i] = Here + i
      BY <1>1, OutNow
    <2>2. 1 \in 1 .. Len(out)
      BY <1>2, <2>1
    <2> QED  BY <2>1, <2>2
  <1>4. Here < Total
    BY <1>2, <1>3
  <1>5. Here = 0 /\ Ts(1) \in Nat /\ out[1] = 1
    BY <1>1, <1>3, <1>4, FirstEvent
  <1>6. NW' = NW /\ rec' = rec /\ Total' = Total /\ Mode' = Mode /\ CanFastSeek' = CanFastSeek
    BY <1>1, Fixed
  <1>7. Reached' = Reached /\ Here' = Here
    BY <1>1, <1>6 DEF Reached, Here
  <1>8. TypeInv'
    BY <1>1, <1>2, <1>5, SameTypes DEF TypeInv, PcStates
  <1>9. BufferInv'
    BY <1>1, <1>2, <1>7 DEF BufferInv
  <1>10. PathInv'
    BY <1>1, <1>6, <1>7 DEF PathInv
  <1>11. EofInv' /\ FillInv'
    BY <1>1, <1>6 DEF Inv, EofInv, FillInv
  <1>12. GotInv' /\ CounterInv' /\ WindowInv'
    BY <1>1, <1>7, Going
  <1>13. ClockInv'
    BY <1>1, <1>5, <1>6, <1>7 DEF ClockInv, Ts
  <1>14. OriginInv'
    BY <1>1, <1>5, <1>6 DEF Inv, OriginInv, Ts, hist
  <1> QED  BY <1>8, <1>9, <1>10, <1>11, <1>12, <1>13, <1>14 DEF Inv

\* It finds none at all.
LEMMA DtNothingInv ==
  ASSUME Inv, DtNothing
  PROVE  Inv'
  <1>1. /\ pc = "dt_anchor" /\ acc = <<>> /\ carry = <<>> /\ out = <<>> /\ DecEof /\ ~anchored
        /\ cfg.kind \notin IndependentWindows
        /\ eof' = TRUE /\ ReturnNothing
        /\ UNCHANGED <<off, acc, carry, anchored, first, cur, nread>>
    BY DEF Inv, BufferInv, PathInv, DtNothing, Native, IndependentWindows
  <1>2. cfg' = cfg /\ pc' = "idle" /\ out' = out
    BY <1>1 DEF ReturnNothing
  <1>3. /\ cfg \in Configs /\ off \in 0 .. NW
    BY Types
  <1>4. NW' = NW /\ rec' = rec /\ Total' = Total
    BY <1>2, Fixed
  <1>5. Reached' = Reached /\ Here' = Here
    BY <1>1, <1>2, <1>4 DEF Reached, Here
  <1>6. BufferInv'
    BY <1>1, <1>2, <1>3, NothingHeld
  <1>7. PathInv'
    BY <1>1, <1>2, <1>4, <1>5 DEF Inv, PathInv
  <1>8. EofInv'
    BY <1>1, <1>4 DEF EofInv, DecEof
  <1> QED  BY <1>1, <1>3, <1>5, <1>6, <1>7, <1>8, NothingReturned DEF Inv

\* Cutting what a call holds, which is the events from h on, at time e: k events
\* are earlier.  If they are not too many for a window they are one ...
LEMMA CutByTime ==
  ASSUME cfg \in Configs, cur \in Nat, NEW h \in Nat, NEW s, Len(s) \in Nat, h + Len(s) <= Total,
         \A i \in 1 .. Len(s) : s[i] = h + i,
         h < Total => cur <= Ts(h + 1),
         NEW e \in Nat, NEW m \in Nat, NEW k \in Nat, k <= Len(s), IsCut(s, e, k), k <= m,
         h + Len(s) < Total => Len(s) # 0 /\ (LastTs(s) >= e \/ Len(s) > m)
  PROVE  /\ \A i \in 1 .. k : cur <= Ts(h + i) /\ Ts(h + i) < e
         /\ h + k < Total => e <= Ts(h + k + 1)
  <1>1. Total \in Nat /\ \A i \in 1 .. Total : rec.ts[i] \in Nat
    BY RecordingFacts
  <1>2. /\ \A i \in 1 .. k : Ts(s[i]) < e
        /\ \A i \in (k + 1) .. Len(s) : Ts(s[i]) >= e
    BY DEF IsCut
  <1>3. ASSUME NEW i \in 1 .. k
        PROVE  cur <= Ts(h + i) /\ Ts(h + i) < e
    <2>1. i \in 1 .. Len(s) /\ h < Total /\ h + 1 \in 1 .. Total /\ h + i \in 1 .. Total
          /\ h + 1 <= h + i
      BY <1>1, <1>3
    <2>2. rec.ts[h + 1] <= rec.ts[h + i]
      BY <2>1, EventsAscend
    <2>3. cur <= rec.ts[h + 1] /\ rec.ts[h + 1] \in Nat /\ rec.ts[h + i] \in Nat
      BY <1>1, <2>1 DEF Ts
    <2>4. rec.ts[h + i] < e
      BY <1>2, <1>3, <2>1 DEF Ts
    <2> QED  BY <2>2, <2>3, <2>4 DEF Ts
  <1>4. ASSUME h + k < Total
        PROVE  e <= Ts(h + k + 1)
    <2>1. CASE k = Len(s)
      <3>1. Len(s) # 0 /\ LastTs(s) >= e
        BY <1>4, <2>1
      <3>2. Len(s) \in 1 .. k
        BY <2>1, <3>1
      <3>3. Ts(s[Len(s)]) < e /\ s[Len(s)] = h + Len(s) /\ h + Len(s) \in 1 .. Total
        BY <1>1, <1>2, <3>1, <3>2
      <3>4. rec.ts[h + Len(s)] \in Nat
        BY <1>1, <3>3
      <3> QED  BY <3>1, <3>3, <3>4 DEF LastTs, Ts
    <2>2. CASE k # Len(s)
      <3>1. k + 1 \in (k + 1) .. Len(s) /\ k + 1 \in 1 .. Len(s)
        BY <2>2
      <3>2. Ts(s[k + 1]) >= e /\ s[k + 1] = h + (k + 1) /\ h + (k + 1) = h + k + 1
            /\ h + k + 1 \in 1 .. Total
        BY <1>1, <1>2, <1>4, <3>1
      <3>3. rec.ts[h + k + 1] \in Nat
        BY <1>1, <3>2
      <3> QED  BY <3>2, <3>3 DEF Ts
    <2> QED  BY <2>1, <2>2
  <1> QED  BY <1>3, <1>4

\* ... and if they are, the first m are a window with more to come.
LEMMA CutByCount ==
  ASSUME cfg \in Configs, NEW h \in Nat, NEW s, Len(s) \in Nat, h + Len(s) <= Total,
         \A i \in 1 .. Len(s) : s[i] = h + i,
         NEW e \in Nat, NEW m \in Nat, NEW k \in Nat, k <= Len(s), IsCut(s, e, k), m < k
  PROVE  /\ h + m < Total /\ Ts(h + m + 1) < e
         /\ s[m + 1] = h + m + 1 /\ Ts(h + m + 1) \in Nat
  <1>1. Total \in Nat /\ \A i \in 1 .. Total : rec.ts[i] \in Nat
    BY RecordingFacts
  <1>2. \A i \in 1 .. k : Ts(s[i]) < e
    BY DEF IsCut
  <1>3. m + 1 \in 1 .. k /\ m + 1 \in 1 .. Len(s) /\ h + (m + 1) = h + m + 1
        /\ h + m + 1 \in 1 .. Total /\ h + m < Total
    BY <1>1, SMTT(30), ZenonT(30)
  <1>4. s[m + 1] = h + m + 1
    BY <1>3
  <1> QED  BY <1>1, <1>2, <1>3, <1>4 DEF Ts

\* A window that was cut by time, and one that was capped.
LEMMA TimeWindow ==
  ASSUME NEW h \in Nat, NEW n \in Nat, NEW lo, NEW hi, NEW most \in Nat, n <= most,
         NEW ts, NEW total,
         \A i \in 1 .. n : lo <= ts[h + i] /\ ts[h + i] < hi,
         h + n < total => hi <= ts[h + n + 1]
  PROVE  WindowAt([ev |-> Run(h, h + n), lo |-> lo, hi |-> hi, most |-> most, why |-> "time"],
                  h + n, ts, total)
  <1>1. Len(Run(h, h + n)) = n /\ \A i \in 1 .. n : Run(h, h + n)[i] = h + i
    BY RunOf
  <1>2. \A i \in 1 .. n : lo <= ts[Run(h, h + n)[i]] /\ ts[Run(h, h + n)[i]] < hi
    BY <1>1
  <1> QED  BY <1>1, <1>2 DEF WindowAt

\* A window that n_events cuts off leaves an event of its time behind.
LEMMA CappedWindow ==
  ASSUME NEW h \in Nat, NEW n \in Nat, NEW lo, NEW hi, NEW ts, NEW total,
         h + n < total, ts[h + n + 1] < hi
  PROVE  WindowAt([ev |-> Run(h, h + n), lo |-> lo, hi |-> hi, most |-> n, why |-> "capped"],
                  h + n, ts, total)
  <1>1. Len(Run(h, h + n)) = n
    BY RunOf
  <1> QED  BY <1>1 DEF WindowAt

\* What is left when the first n of the events that a call holds are handed out.
LEMMA KeptBehind ==
  ASSUME Inv, NEW s, IsTail(s, Reached), Here = Reached - Len(s), NEW n \in 0 .. Len(s)
  PROVE  /\ n \in 0 .. (Total - Here) /\ n \in Nat
         /\ Front(s, n) = Run(Here, Here + n)
         /\ IsTail(Back(s, n), Reached)
         /\ Reached - Len(Back(s, n)) = Here + n /\ Len(Back(s, n)) \in Nat
         /\ \A i \in 1 .. Len(s) : s[i] = Here + i
         /\ Len(s) \in Nat /\ Here + Len(s) <= Total /\ Here + Len(s) = Reached
  <1>1. /\ Reached \in Nat /\ Total \in Nat /\ Reached <= Total /\ Here \in Nat
    BY Types
  <1>2. /\ Len(s) \in Nat /\ \A i \in 1 .. Len(s) : s[i] = Reached - Len(s) + i
    BY <1>1, TailFacts
  <1>3. /\ Front(s, n) = Run(Reached - Len(s), Reached - Len(s) + n)
        /\ IsTail(Back(s, n), Reached) /\ Len(Back(s, n)) = Len(s) - n
    BY <1>1, TailCut
  <1>4. n \in Nat /\ n <= Total - Here /\ Reached - (Len(s) - n) = Here + n /\ Len(s) - n \in Nat
    BY <1>1, <1>2
  <1>5. Here + Len(s) = Reached
    BY <1>1, <1>2
  <1> QED  BY <1>1, <1>2, <1>3, <1>4, <1>5

\* Handing out the first events that a call holds, up to the end of the window or
\* to n_events of them.
LEMMA CutReturned ==
  ASSUME Inv, anchored, NEW s, IsTail(s, Reached), Here = Reached - Len(s),
         NEW k \in 0 .. Len(s), NEW n, n = (IF k > call.ne THEN call.ne ELSE k),
         IsCut(s, End, k),
         Here + Len(s) < Total => Len(s) # 0 /\ (LastTs(s) >= End \/ Len(s) > call.ne),
         Return(Front(s, n), first, IF k > call.ne THEN "capped" ELSE "time"),
         cur' = (IF k > call.ne THEN Ts(s[n + 1]) ELSE End), Here' = Here + n
  PROVE  /\ WindowInv' /\ ClockInv' /\ cur' \in Nat
         /\ \E why : Return(Run(Here, Here + n), first, why)
  <1>1. /\ cfg \in Configs /\ Total \in Nat /\ Here \in Nat /\ cur \in Nat
        /\ call.ne \in Nat \ {0} /\ call.dt \in Nat
    BY Types
  <1>2. n \in 0 .. Len(s)
    BY <1>1
  <1>3. /\ n \in Nat /\ Front(s, n) = Run(Here, Here + n)
        /\ \A i \in 1 .. Len(s) : s[i] = Here + i
        /\ Len(s) \in Nat /\ Here + Len(s) <= Total
    BY <1>2, KeptBehind
  <1>4. cfg' = cfg
    BY DEF Return
  <1>5. rec' = rec /\ Total' = Total
    BY <1>4, Fixed
  <1>6. End \in Nat /\ (Here < Total => cur <= Ts(Here + 1))
    BY <1>1 DEF End, Inv, ClockInv
  <1>7. /\ cfg \in Configs /\ cur \in Nat /\ Here \in Nat /\ Len(s) \in Nat
        /\ call.ne \in Nat /\ Here + Len(s) <= Total /\ End \in Nat
        /\ \A i \in 1 .. Len(s) : s[i] = Here + i
        /\ k \in Nat /\ k <= Len(s) /\ IsCut(s, End, k)
    BY <1>1, <1>3, <1>6
  <1>8. ASSUME k > call.ne
        PROVE  /\ WindowInv' /\ ClockInv' /\ cur' \in Nat
               /\ Return(Run(Here, Here + n), first, "capped")
    <2>1. call.ne < k
      BY <1>7, <1>8
    <2>2. /\ Here + call.ne < Total /\ Ts(Here + call.ne + 1) < End
          /\ s[call.ne + 1] = Here + call.ne + 1 /\ Ts(Here + call.ne + 1) \in Nat
      BY <1>7, <2>1, CutByCount
    <2>3. /\ n = call.ne /\ Return(Run(Here, Here + n), first, "capped")
          /\ cur' = Ts(Here + n + 1) /\ cur' \in Nat
          /\ Here + n < Total /\ Ts(Here + n + 1) < End
      BY <1>3, <1>8, <2>2
    <2>4. WindowAt([ev |-> Run(Here, Here + n), lo |-> cur, hi |-> End, most |-> n,
                    why |-> "capped"], Here + n, rec.ts, Total)
      BY <1>1, <1>3, <2>3, CappedWindow DEF Ts
    <2>5. WindowInv'
      BY <2>3, <2>4, Handed
    <2>6. ClockInv'
      BY <1>5, <2>2, <2>3 DEF ClockInv, Ts
    <2> QED  BY <2>3, <2>5, <2>6
  <1>9. ASSUME ~(k > call.ne)
        PROVE  /\ WindowInv' /\ ClockInv' /\ cur' \in Nat
               /\ Return(Run(Here, Here + n), first, "time")
    <2>1. /\ n = k /\ k <= call.ne /\ Return(Run(Here, Here + n), first, "time")
          /\ cur' = End
      BY <1>3, <1>7, <1>9
    <2>2. /\ \A i \in 1 .. k : cur <= Ts(Here + i) /\ Ts(Here + i) < End
          /\ Here + k < Total => End <= Ts(Here + k + 1)
      BY <1>6, <1>7, <2>1, CutByTime
    <2>3. WindowAt([ev |-> Run(Here, Here + n), lo |-> cur, hi |-> End, most |-> call.ne,
                    why |-> "time"], Here + n, rec.ts, Total)
      BY <1>1, <1>3, <2>1, <2>2, TimeWindow DEF Ts
    <2>4. WindowInv'
      BY <2>1, <2>3, Handed
    <2>5. ClockInv'
      BY <1>5, <2>1, <2>2 DEF ClockInv, Ts
    <2> QED  BY <1>6, <2>1, <2>4, <2>5
  <1> QED  BY <1>8, <1>9

\* The window is handed out, and what was decoded beyond it is carried over.
LEMMA DtReturnInv ==
  ASSUME Inv, DtReturn
  PROVE  Inv'
  <1>1. /\ pc = "dt_loop" /\ acc = <<>> /\ carry = <<>> /\ anchored
        /\ cfg.kind \in Native \ HasDeltaTParser /\ Mode = "delta_t"
        /\ (DecEof \/ DtReady) /\ UNCHANGED <<off, acc, anchored, first>>
    BY DEF Inv, BufferInv, PathInv, DtReturn
  <1>0. PICK k \in 0 .. Len(out) : \E n :
          /\ n = (IF k > call.ne THEN call.ne ELSE k)
          /\ IsCut(out, End, k)
          /\ carry' = Back(out, n)
          /\ cur' = IF k > call.ne THEN Ts(out[n + 1]) ELSE End
          /\ nread' = nread + n
          /\ eof' = (DecEof /\ carry' = <<>>)
          /\ Return(Front(out, n), first, IF k > call.ne THEN "capped" ELSE "time")
    BY DEF DtReturn
  <1>2. PICK n :
          /\ n = (IF k > call.ne THEN call.ne ELSE k)
          /\ IsCut(out, End, k)
          /\ carry' = Back(out, n)
          /\ cur' = IF k > call.ne THEN Ts(out[n + 1]) ELSE End
          /\ nread' = nread + n
          /\ eof' = (DecEof /\ carry' = <<>>)
          /\ Return(Front(out, n), first, IF k > call.ne THEN "capped" ELSE "time")
    BY <1>0
  <1>3. /\ cfg \in Configs /\ NW \in Nat /\ Total \in Nat /\ off \in 0 .. NW /\ Here \in Nat
        /\ Reached \in Nat /\ Reached <= Total /\ first \in Nat
        /\ call.ne \in Nat \ {0} /\ rec.cum[off] = Reached /\ Len(out) \in Nat
    BY Types
  <1>4. IsTail(out, Reached) /\ Here = Reached - Len(out)
    <2>1. Here + Len(out) = Reached
      BY <1>1, OutNow
    <2> QED  BY <1>3, <2>1 DEF Inv, BufferInv
  <1>5. n \in 0 .. Len(out)
    BY <1>2, <1>3
  <1>6. /\ n \in 0 .. (Total - Here) /\ n \in Nat
        /\ IsTail(Back(out, n), Reached)
        /\ Reached - Len(Back(out, n)) = Here + n /\ Len(Back(out, n)) \in Nat
        /\ Here + Len(out) = Reached
    BY <1>4, <1>5, KeptBehind
  <1>7. /\ cfg' = cfg /\ out' = <<>> /\ pc' = "idle"
    BY <1>2 DEF Return
  <1>8. NW' = NW /\ Mode' = Mode /\ Reached' = Reached
    BY <1>1, <1>7, Fixed DEF Reached
  <1>9. Here' = Here + n
    <2>1. Len(acc') = 0 /\ Len(out') = 0
      BY <1>1, <1>3, <1>7, TailEmpty
    <2>2. Here' = Reached - (0 + Len(Back(out, n)) + 0)
      BY <1>2, <1>8, <2>1 DEF Here
    <2>3. 0 + Len(Back(out, n)) + 0 = Len(Back(out, n))
      BY <1>6
    <2> QED  BY <1>6, <2>2, <2>3
  <1>10. BufferInv'
    BY <1>1, <1>2, <1>3, <1>6, <1>7, <1>8, TailEmpty DEF BufferInv
  <1>11. Here + Len(out) < Total => Len(out) # 0 /\ (LastTs(out) >= End \/ Len(out) > call.ne)
    <2>1. ASSUME Here + Len(out) < Total
          PROVE  ~DecEof
      BY <1>3, <1>6, <2>1 DEF DecEof, Total
    <2> QED  BY <1>1, <2>1, OutNow DEF DtReady
  <1>12. /\ WindowInv' /\ ClockInv' /\ cur' \in Nat
         /\ \E why : Return(Run(Here, Here + n), first, why)
    BY <1>1, <1>2, <1>4, <1>9, <1>11, CutReturned
  <1>13. PICK why : Return(Run(Here, Here + n), first, why)
    BY <1>12
  <1>14. TypeInv' /\ GotInv' /\ CounterInv' /\ FillInv'
    BY <1>1, <1>2, <1>3, <1>6, <1>9, <1>12, <1>13, Returned
  <1>15. PathInv' /\ EofInv'
    BY <1>1, <1>2, <1>7, <1>8 DEF PathInv, EofInv, DecEof
  <1>16. OriginInv'
    BY <1>1, <1>13, ReturnedOrigin DEF Inv, OriginInv
  <1> QED  BY <1>10, <1>12, <1>14, <1>15, <1>16 DEF Inv

-----------------------------------------------------------------------------
(* The accumulator path.                                                   *)

\* What the accumulator holds: the events between the reader and the decoder.
LEMMA AccNow ==
  ASSUME Inv, pc \in {"anchor", "gather"}
  PROVE  /\ carry = <<>> /\ out = <<>> /\ Len(carry) = 0 /\ Len(out) = 0
         /\ IsTail(acc, Reached) /\ Here = Reached - Len(acc) /\ Here + Len(acc) = Reached
         /\ acc = <<>> <=> Len(acc) = 0
         /\ \A i \in 1 .. Len(acc) : acc[i] = Here + i
  <1>1. /\ TypeInv /\ BufferInv /\ Reached \in Nat /\ Len(acc) \in Nat
    BY Types
  <1>2. carry = <<>> /\ out = <<>> /\ IsTail(acc, Reached)
    BY <1>1 DEF BufferInv
  <1>3. Len(carry) = 0 /\ Len(out) = 0 /\ (acc = <<>> <=> Len(acc) = 0)
    BY <1>1, <1>2, StateFacts
  <1>4. Here = Reached - Len(acc) /\ Here + Len(acc) = Reached
    BY <1>1, <1>3 DEF Here
  <1>5. \A i \in 1 .. Len(acc) : acc[i] = Reached - Len(acc) + i
    BY <1>1, <1>2, TailFacts
  <1> QED  BY <1>2, <1>3, <1>4, <1>5

\* The accumulator path decodes on.
LEMMA FillStepInv ==
  ASSUME Inv, Fill
  PROVE  Inv'
  <1>1. /\ pc \in {"anchor", "gather"} /\ cfg' = cfg /\ pc' = pc /\ off # NW
        /\ UNCHANGED <<carry, out, eof, anchored, first, cur, nread, call, iter, hist>>
    BY DEF Fill, Stay, rvars, DecEof
  <1>2. PICK q \in 0 .. NW : Pull(call.ne, q) /\ off' = q /\ acc' = acc \o Decoded(q)
    BY DEF Fill
  <1>3. /\ TypeInv /\ BufferInv /\ NW \in Nat /\ off \in 0 .. NW /\ Reached \in Nat
        /\ call.ne \in Nat /\ ChunkSize \in Nat /\ Len(acc) \in Nat
    BY Types, SizesAssumption
  <1>4. q \in off .. NW
    BY <1>2, <1>3 DEF Pull, ParseStep, ReadChunk, Smaller
  <1>5. /\ carry = <<>> /\ out = <<>> /\ Len(carry) = 0 /\ Len(out) = 0
        /\ IsTail(acc, Reached) /\ Here = Reached - Len(acc)
    BY <1>1, AccNow
  <1>6. /\ rec.cum[q] \in Nat /\ IsTail(acc', rec.cum[q])
        /\ Len(acc') = Len(acc) + (rec.cum[q] - Reached) /\ q \in 0 .. NW
    BY <1>2, <1>3, <1>4, <1>5, DecodeFacts
  <1>7. Reached' = rec.cum[q] /\ NW' = NW /\ Total' = Total
    BY <1>1, <1>2, Fixed DEF Reached
  <1>8. Here' = Here
    <2>1. Here' = rec.cum[q] - (Len(acc') + 0 + 0)
      BY <1>1, <1>5, <1>7 DEF Here
    <2>2. Here' = rec.cum[q] - (Len(acc) + (rec.cum[q] - Reached) + 0 + 0)
      BY <1>6, <2>1
    <2>3. rec.cum[q] - (Len(acc) + (rec.cum[q] - Reached) + 0 + 0) = Reached - Len(acc)
      <3>1. rec.cum[q] \in Nat /\ Len(acc) \in Nat /\ Reached \in Nat
        BY <1>3, <1>6
      <3> QED  BY <3>1
    <2> QED  BY <1>5, <2>2, <2>3
  <1>9. TypeInv'
    BY <1>1, <1>2, <1>3, <1>6, SameTypes DEF TypeInv
  <1>10. BufferInv'
    BY <1>1, <1>5, <1>6, <1>7, TailEmpty DEF BufferInv
  <1>11. PathInv'
    BY <1>1, <1>7, <1>8, Fixed DEF Inv, PathInv
  <1>12. EofInv' /\ FillInv'
    BY <1>1, <1>7 DEF Inv, EofInv, FillInv
  <1>13. GotInv' /\ CounterInv' /\ WindowInv'
    BY <1>1, <1>8, Going
  <1>14. ClockInv' /\ OriginInv'
    BY <1>1, <1>8, SameClock DEF hist
  <1> QED  BY <1>9, <1>10, <1>11, <1>12, <1>13, <1>14 DEF Inv

\* The first staged event sets the clock.
LEMMA AnchorStepInv ==
  ASSUME Inv, Anchor
  PROVE  Inv'
  <1>1. /\ pc = "anchor" /\ acc # <<>> /\ ~anchored
        /\ first' = Ts(acc[1]) /\ cur' = Ts(acc[1]) /\ anchored' = TRUE /\ pc' = "gather"
        /\ UNCHANGED <<cfg, off, acc, carry, out, eof, nread, call, iter, hist>>
    BY DEF Inv, PathInv, Anchor, AnchorAt, Goto, bufs
  <1>2. /\ TypeInv /\ BufferInv /\ Here \in Nat /\ Total \in Nat /\ off \in 0 .. NW
        /\ Here <= Total /\ Reached \in Nat /\ Reached <= Total /\ cfg \in Configs
        /\ Len(acc) \in Nat
    BY Types
  <1>3. /\ Len(acc) # 0 /\ Here + Len(acc) = Reached
        /\ \A i \in 1 .. Len(acc) : acc[i] = Here + i
    BY <1>1, AccNow
  <1>4. Here < Total /\ 1 \in 1 .. Len(acc) /\ Here + 1 \in 1 .. Total
    BY <1>2, <1>3
  <1>5. first' = rec.ts[Here + 1] /\ cur' = rec.ts[Here + 1] /\ rec.ts[Here + 1] \in Nat
    BY <1>1, <1>2, <1>3, <1>4, RecordingFacts DEF Ts
  <1>6. cfg.kind \notin IndependentWindows => Here = 0
    BY <1>1, <1>4, FirstEvent
  <1>7. NW' = NW /\ rec' = rec /\ Total' = Total /\ Mode' = Mode /\ CanFastSeek' = CanFastSeek
    BY <1>1, Fixed
  <1>8. Reached' = Reached /\ Here' = Here
    BY <1>1, <1>7 DEF Reached, Here
  <1>9. TypeInv'
    BY <1>1, <1>2, <1>5, SameTypes DEF TypeInv, PcStates
  <1>10. BufferInv'
    BY <1>1, <1>2, <1>8 DEF BufferInv
  <1>11. PathInv'
    BY <1>1, <1>7, <1>8 DEF PathInv
  <1>12. EofInv' /\ FillInv'
    BY <1>1, <1>7 DEF Inv, EofInv, FillInv
  <1>13. GotInv' /\ CounterInv' /\ WindowInv'
    BY <1>1, <1>8, Going
  <1>14. ClockInv'
    BY <1>5, <1>7, <1>8 DEF ClockInv, Ts
  <1>15. OriginInv'
    <2>1. cfg.kind \notin IndependentWindows => first' = rec.ts[1]
      BY <1>5, <1>6
    <2> QED  BY <1>1, <1>7, <2>1 DEF Inv, OriginInv, Ts, hist
  <1> QED  BY <1>9, <1>10, <1>11, <1>12, <1>13, <1>14, <1>15 DEF Inv

\* There is none at all.
LEMMA GatherNothingInv ==
  ASSUME Inv, GatherNothing
  PROVE  Inv'
  <1>1. /\ pc = "anchor" /\ acc = <<>> /\ carry = <<>> /\ out = <<>> /\ DecEof /\ ~anchored
        /\ eof' = TRUE /\ ReturnNothing
        /\ UNCHANGED <<off, acc, carry, anchored, first, cur, nread>>
    BY AccNow DEF Inv, PathInv, GatherNothing
  <1>2. cfg' = cfg /\ pc' = "idle" /\ out' = out
    BY <1>1 DEF ReturnNothing
  <1>3. /\ cfg \in Configs /\ off \in 0 .. NW
    BY Types
  <1>4. NW' = NW /\ rec' = rec /\ Total' = Total
    BY <1>2, Fixed
  <1>5. Reached' = Reached /\ Here' = Here
    BY <1>1, <1>2, <1>4 DEF Reached, Here
  <1>6. BufferInv'
    BY <1>1, <1>2, <1>3, NothingHeld
  <1>7. PathInv'
    BY <1>1, <1>2, <1>4, <1>5 DEF Inv, PathInv
  <1>8. EofInv'
    BY <1>1, <1>4 DEF EofInv, DecEof
  <1> QED  BY <1>1, <1>3, <1>5, <1>6, <1>7, <1>8, NothingReturned DEF Inv

\* Whatever the accumulator path hands out.
LEMMA GatherReturned ==
  ASSUME Inv, pc = "gather", NEW n \in 0 .. Len(acc), NEW newcur, NEW why,
         GatherReturn(n, newcur, why), newcur \in Nat, eof' = eof \/ eof' = DecEof
  PROVE  /\ TypeInv' /\ BufferInv' /\ PathInv' /\ GotInv' /\ CounterInv' /\ EofInv'
         /\ OriginInv' /\ FillInv' /\ Here' = Here + n /\ cur' = newcur /\ cfg' = cfg
         /\ n \in Nat /\ Return(Run(Here, Here + n), first, why) /\ anchored
  <1>1. /\ anchored /\ carry = <<>> /\ out = <<>> /\ Len(carry) = 0 /\ Len(out) = 0
        /\ IsTail(acc, Reached) /\ Here = Reached - Len(acc)
    BY AccNow DEF Inv, PathInv
  <1>2. /\ acc' = Back(acc, n) /\ cur' = newcur /\ nread' = nread + n
        /\ Return(Front(acc, n), first, why) /\ UNCHANGED <<off, carry, anchored, first>>
    BY DEF GatherReturn
  <1>3. /\ cfg \in Configs /\ NW \in Nat /\ Total \in Nat /\ off \in 0 .. NW /\ Here \in Nat
        /\ Reached \in Nat /\ first \in Nat /\ eof \in BOOLEAN
    BY Types
  <1>4. /\ n \in 0 .. (Total - Here) /\ n \in Nat
        /\ Front(acc, n) = Run(Here, Here + n)
        /\ IsTail(Back(acc, n), Reached)
        /\ Reached - Len(Back(acc, n)) = Here + n /\ Len(Back(acc, n)) \in Nat
    BY <1>1, KeptBehind
  <1>5. /\ cfg' = cfg /\ out' = <<>> /\ pc' = "idle"
    BY <1>2 DEF Return
  <1>6. NW' = NW /\ Mode' = Mode /\ Reached' = Reached
    BY <1>2, <1>5, Fixed DEF Reached
  <1>7. Here' = Here + n
    <2>1. Len(carry') = 0 /\ Len(out') = 0
      BY <1>1, <1>2, <1>5
    <2>2. Here' = Reached - (Len(Back(acc, n)) + 0 + 0)
      BY <1>2, <1>6, <2>1 DEF Here
    <2>3. Len(Back(acc, n)) + 0 + 0 = Len(Back(acc, n))
      BY <1>4
    <2> QED  BY <1>4, <2>2, <2>3
  <1>8. BufferInv'
    BY <1>1, <1>2, <1>3, <1>4, <1>5, <1>6, TailEmpty DEF BufferInv
  <1>9. Return(Run(Here, Here + n), first, why)
    BY <1>2, <1>4
  <1>10. TypeInv' /\ GotInv' /\ CounterInv' /\ FillInv'
    BY <1>1, <1>2, <1>3, <1>4, <1>7, <1>9, Returned DEF DecEof
  <1>11. PathInv' /\ EofInv'
    <2>1. PathInv'
      BY <1>1, <1>2, <1>5 DEF PathInv
    <2>2. ASSUME eof'
          PROVE  off = NW
      BY <2>2 DEF Inv, EofInv, DecEof
    <2>3. EofInv'
      BY <1>1, <1>2, <1>6, <2>2 DEF EofInv
    <2> QED  BY <2>1, <2>3
  <1>12. OriginInv'
    BY <1>1, <1>2, <1>9, ReturnedOrigin DEF Inv, OriginInv
  <1> QED  BY <1>1, <1>2, <1>4, <1>5, <1>7, <1>8, <1>9, <1>10, <1>11, <1>12

\* The first of the two cutoffs cuts the window.
LEMMA GatherCutInv ==
  ASSUME Inv, GatherCut
  PROVE  Inv'
  <1>1. /\ pc = "gather" /\ (TimeReady \/ CountReady) /\ eof' = eof
    BY DEF GatherCut
  <1>2. PICK k \in 0 .. Len(acc) :
          /\ IsCut(acc, End, k)
          /\ IF k > call.ne
             THEN GatherReturn(call.ne, Ts(acc[call.ne + 1]), "capped")
             ELSE GatherReturn(k, End, "time")
    BY DEF GatherCut
  <1> DEFINE n == IF k > call.ne THEN call.ne ELSE k
             newcur == IF k > call.ne THEN Ts(acc[n + 1]) ELSE End
             why == IF k > call.ne THEN "capped" ELSE "time"
  <1>3. /\ cfg \in Configs /\ Total \in Nat /\ Here \in Nat /\ Len(acc) \in Nat
        /\ call.ne \in Nat \ {0} /\ call.dt \in Nat /\ cur \in Nat /\ Here <= Total
        /\ Reached \in Nat /\ Reached <= Total
    BY Types
  <1>4. /\ IsTail(acc, Reached) /\ Here = Reached - Len(acc) /\ Here + Len(acc) = Reached
        /\ acc = <<>> <=> Len(acc) = 0
        /\ \A i \in 1 .. Len(acc) : acc[i] = Here + i
    BY <1>1, AccNow
  <1>5. n \in 0 .. Len(acc) /\ GatherReturn(n, newcur, why) /\ n \in Nat
    <2>1. CASE k > call.ne
      BY <1>2, <1>3, <2>1
    <2>2. CASE ~(k > call.ne)
      BY <1>2, <1>3, <2>2
    <2> QED  BY <2>1, <2>2
  <1>6. newcur \in Nat
    <2>1. End \in Nat
      BY <1>3 DEF End
    <2>2. ASSUME k > call.ne
          PROVE  Ts(acc[call.ne + 1]) \in Nat
      <3>1. call.ne + 1 \in 1 .. Len(acc) /\ Here + (call.ne + 1) \in 1 .. Total
        BY <1>3, <1>4, <2>2, SMTT(30), ZenonT(30)
      <3> QED  BY <1>3, <1>4, <3>1, RecordingFacts DEF Ts
    <2> QED  BY <2>1, <2>2
  <1>7. Here + Len(acc) < Total => Len(acc) # 0 /\ (LastTs(acc) >= End \/ Len(acc) > call.ne)
    <2>1. CASE TimeReady
      BY <1>4, <2>1 DEF TimeReady
    <2>2. CASE CountReady
      BY <1>3, <1>4, <2>2 DEF CountReady
    <2> QED  BY <1>1, <2>1, <2>2
  <1> HIDE DEF newcur, why
  <1>8. /\ TypeInv' /\ BufferInv' /\ PathInv' /\ GotInv' /\ CounterInv' /\ EofInv'
        /\ OriginInv' /\ FillInv' /\ Here' = Here + n /\ cur' = newcur /\ anchored
    BY <1>1, <1>5, <1>6, GatherReturned
  <1>9. Return(Front(acc, n), first, why)
    BY <1>5 DEF GatherReturn
  <1>10. WindowInv' /\ ClockInv'
    BY <1>2, <1>4, <1>7, <1>8, <1>9, CutReturned DEF newcur, why
  <1> QED  BY <1>8, <1>10 DEF Inv

\* At the end of the recording the rest is handed out.
LEMMA GatherDrainedInv ==
  ASSUME Inv, GatherDrained
  PROVE  Inv'
  <1>1. /\ pc = "gather" /\ DecEof /\ eof' = TRUE /\ GatherReturn(Len(acc), cur, "rest")
    BY DEF GatherDrained
  <1>2. /\ cfg \in Configs /\ Total \in Nat /\ Here \in Nat /\ Len(acc) \in Nat /\ cur \in Nat
    BY Types
  <1>3. Here + Len(acc) = Reached
    BY <1>1, AccNow
  <1>4. Here + Len(acc) = Total /\ Len(acc) \in 0 .. Len(acc)
    BY <1>1, <1>2, <1>3 DEF DecEof, Reached, Total
  <1>5. /\ TypeInv' /\ BufferInv' /\ PathInv' /\ GotInv' /\ CounterInv' /\ EofInv'
        /\ OriginInv' /\ FillInv' /\ Here' = Total /\ cur' = cur /\ cfg' = cfg /\ anchored
        /\ Return(Run(Here, Here + Len(acc)), first, "rest")
    BY <1>1, <1>2, <1>4, GatherReturned DEF DecEof
  <1>6. WindowInv'
    BY <1>5, Handed DEF WindowAt
  <1>7. ClockInv'
    <2>1. Here <= Total
      BY Types
    <2> QED  BY <1>2, <1>5, <2>1, ClockStays
  <1> QED  BY <1>5, <1>6, <1>7 DEF Inv

-----------------------------------------------------------------------------
(* The window parser of EVT3: _read_delta_t_c.                             *)

\* The last words of the recordings, which the parser leaves to its tail
\* handling, carry no events.
QuietTails ==
  \A c \in Configs : c.kind \in HasDeltaTParser /\ ResolvedMode(c.asked) = "delta_t" =>
    \A w \in 0 .. c.rec.nw : w + Pad >= c.rec.nw => c.rec.cum[w] = c.rec.cum[c.rec.nw]

\* The first event is peeked at to set the clock, and the decoder rewound.
LEMMA PeekInv ==
  ASSUME Inv, Peek
  PROVE  Inv'
  <1>1. /\ pc = "peek" /\ acc = <<>> /\ carry = <<>> /\ out = <<>> /\ ~anchored
        /\ cfg.kind \in HasDeltaTParser /\ cfg.kind \notin IndependentWindows
        /\ Mode = "delta_t"
        /\ rec.cum[off] < Total /\ off' = 0 /\ eof' = FALSE /\ anchored' = TRUE
        /\ first' = Ts(rec.cum[off] + 1) /\ cur' = Ts(rec.cum[off] + 1)
        /\ UNCHANGED <<cfg, acc, carry, out, nread, pc, call, iter, hist>>
    BY DEF Inv, BufferInv, PathInv, Peek, AnchorAt, HasDeltaTParser, IndependentWindows
  <1>2. /\ TypeInv /\ BufferInv /\ cfg \in Configs /\ NW \in Nat /\ Here \in Nat /\ Total \in Nat
        /\ Reached \in Nat /\ rec.cum[off] = Reached
    BY Types
  <1>3. Here = Reached
    BY <1>1, <1>2, StateFacts
  <1>4. Here = 0 /\ Ts(1) \in Nat /\ first' = Ts(1) /\ cur' = Ts(1)
    BY <1>1, <1>2, <1>3, FirstEvent
  <1>5. NW' = NW /\ rec' = rec /\ Total' = Total /\ Mode' = Mode /\ CanFastSeek' = CanFastSeek
    BY <1>1, Fixed
  <1>6. BufferInv' /\ Here' = Here
    <2>1. 0 \in 0 .. NW
      BY <1>2
    <2>2. BufferInv' /\ Here' = Reached'
      BY <1>1, <1>2, <2>1, NothingHeld
    <2>3. Reached' = 0
      BY <1>1, <1>2, <1>5, RecordingFacts DEF Reached
    <2> QED  BY <1>4, <2>2, <2>3
  <1>7. TypeInv'
    <2>1. off' \in 0 .. NW
      BY <1>1, <1>2
    <2>2. first' \in Nat /\ cur' \in Nat /\ pc' \in PcStates
      BY <1>1, <1>4 DEF PcStates
    <2> QED  BY <1>1, <1>2, <2>1, <2>2, Types, SameTypes
  <1>8. PathInv'
    BY <1>1, <1>5 DEF PathInv
  <1>9. EofInv' /\ FillInv'
    BY <1>1 DEF EofInv, FillInv
  <1>10. GotInv' /\ CounterInv' /\ WindowInv'
    BY <1>1, <1>6, Going
  <1>11. ClockInv'
    BY <1>4, <1>5, <1>6 DEF ClockInv, Ts
  <1>12. OriginInv'
    BY <1>1, <1>4, <1>5 DEF Inv, OriginInv, Ts, hist
  <1> QED  BY <1>6, <1>7, <1>8, <1>9, <1>10, <1>11, <1>12 DEF Inv

\* There is nothing to peek at.
LEMMA PeekNothingInv ==
  ASSUME Inv, PeekNothing
  PROVE  Inv'
  <1>1. /\ pc = "peek" /\ acc = <<>> /\ carry = <<>> /\ out = <<>> /\ ~anchored
        /\ rec.cum[off] = Total /\ off' = NW /\ eof' = TRUE /\ ReturnNothing
        /\ UNCHANGED <<acc, carry, anchored, first, cur, nread>>
    BY DEF Inv, BufferInv, PathInv, PeekNothing
  <1>2. cfg' = cfg /\ pc' = "idle" /\ out' = out
    BY <1>1 DEF ReturnNothing
  <1>3. /\ TypeInv /\ BufferInv /\ cfg \in Configs /\ NW \in Nat /\ rec.cum[off] = Reached
    BY Types
  <1>4. NW' = NW /\ rec' = rec /\ Total' = Total
    BY <1>2, Fixed
  <1>5. Here = Total
    BY <1>1, <1>3, StateFacts
  <1>6. BufferInv' /\ Here' = Total /\ off' \in 0 .. NW
    <2>1. NW \in 0 .. NW
      BY <1>3
    <2>2. BufferInv' /\ Here' = Reached'
      BY <1>1, <1>2, <1>3, <2>1, NothingHeld
    <2>3. Reached' = Total
      BY <1>1, <1>4 DEF Reached, Total
    <2> QED  BY <1>1, <2>1, <2>2, <2>3
  <1>7. PathInv'
    BY <1>1, <1>2, <1>4, <1>6 DEF PathInv
  <1>8. EofInv'
    BY <1>1, <1>4 DEF EofInv
  <1> QED  BY <1>1, <1>5, <1>6, <1>7, <1>8, NothingReturned DEF Inv

\* The buffer for the window is made.
LEMMA OpenWindowInv ==
  ASSUME Inv, OpenWindow
  PROVE  Inv'
  <1>1. /\ pc = "peek" /\ acc = <<>> /\ carry = <<>> /\ out = <<>> /\ anchored
        /\ cfg.kind \in HasDeltaTParser /\ Mode = "delta_t" /\ pc' = "window"
        /\ UNCHANGED <<cfg, off, acc, carry, out, eof, anchored, first, cur, nread, iter, hist>>
    BY DEF Inv, BufferInv, PathInv, OpenWindow, bufs, rvars
  <1>2. PICK size \in {DtStep, 2 * DtStep} :
          call' = [call EXCEPT !.cap = Smaller(size, call.ne)]
    BY DEF OpenWindow
  <1>3. /\ TypeInv /\ BufferInv /\ off \in 0 .. NW
        /\ call.ne \in Nat \ {0}
        /\ call \in [dt : Nat \ {0}, ne : Nat \ {0}, drain : BOOLEAN, cap : Nat]
    BY Types
  <1>4. size \in Nat /\ Smaller(size, call.ne) \in Nat /\ Smaller(size, call.ne) <= call.ne
    BY <1>2, <1>3, SizesAssumption DEF Smaller
  <1>5. /\ call' \in [dt : Nat \ {0}, ne : Nat \ {0}, drain : BOOLEAN, cap : Nat]
        /\ call'.cap = Smaller(size, call.ne) /\ call'.ne = call.ne
    BY <1>2, <1>3, <1>4
  <1>6. NW' = NW /\ Reached' = Reached /\ Here' = Here /\ Total' = Total
        /\ Mode' = Mode
    BY <1>1, Fixed DEF Reached, Here
  <1>7. TypeInv'
    BY <1>1, <1>3, <1>5, SameTypes DEF TypeInv, PcStates
  <1>8. BufferInv' /\ PathInv'
    BY <1>1, <1>3, <1>6 DEF BufferInv, PathInv
  <1>9. EofInv'
    BY <1>1, <1>6 DEF Inv, EofInv
  <1>10. FillInv'
    <2>1. Len(out') = 0
      BY <1>1, <1>3, StateFacts
    <2>2. 0 <= call'.cap /\ call'.cap <= call'.ne
      BY <1>4, <1>5
    <2> QED  BY <1>1, <2>1, <2>2 DEF FillInv
  <1>11. GotInv' /\ CounterInv' /\ WindowInv'
    BY <1>1, <1>6, Going
  <1>12. ClockInv' /\ OriginInv'
    BY <1>1, <1>6, SameClock DEF hist
  <1> QED  BY <1>7, <1>8, <1>9, <1>10, <1>11, <1>12 DEF Inv

\* One word more than a parser with no room left would have stopped at fits.
LEMMA RoomLeft ==
  ASSUME NEW l \in Nat, NEW a \in Nat, NEW b \in Nat, NEW c \in Nat,
         NEW cap \in Nat, NEW reserve \in Nat,
         ~(l + b - a >= cap - reserve), c - b <= reserve
  PROVE  l + c - a <= cap
  OBVIOUS

\* A count that decoding has brought on.
LEMMA CountOn ==
  ASSUME NEW a \in Nat, NEW b \in Nat, NEW c \in Nat, NEW d \in Nat
  PROVE  a + b + c - d = a + (b + c - d)
  OBVIOUS

\* What fits a buffer whose capacity is within n_events is within it.
LEMMA Capped ==
  ASSUME NEW h \in Nat, NEW t \in Nat, NEW n \in 0 .. (t - h), NEW cap \in Nat,
         NEW most \in Nat, n <= cap, cap <= most
  PROVE  n \in Nat /\ n <= most /\ h <= h + n /\ h + n \in Nat
  OBVIOUS

\* Places in a run.
LEMMA WithinRun ==
  ASSUME NEW h \in Nat, NEW t \in Nat, NEW n \in 0 .. (t - h), NEW i \in 1 .. n
  PROVE  /\ i \in Nat /\ 1 <= i /\ i <= n /\ h < t /\ h + 1 \in 1 .. t
         /\ h + i \in 1 .. t /\ h + 1 <= h + i /\ h + i <= h + n
  OBVIOUS

\* The parser decodes no more than its buffer holds, and nothing that belongs to
\* a later window.
LEMMA WindowFacts ==
  ASSUME Inv, pc = "window", NEW pad, NEW q \in 0 .. NW, ParseDeltaT(q, pad)
  PROVE  \E n \in 0 .. (Total - Here) :
           /\ n = Len(out) + rec.cum[q] - rec.cum[off]
           /\ Here + n = rec.cum[q] /\ n <= call.cap
           /\ out \o Decoded(q) = Run(Here, Here + n)
           /\ Len(out \o Decoded(q)) = n
           /\ \A i \in 1 .. n : /\ (out \o Decoded(q))[i] = Here + i
                                /\ cur <= Ts(Here + i) /\ Ts(Here + i) < End
  <1>1. acc = <<>> /\ carry = <<>> /\ cfg.kind \in HasDeltaTParser
    BY DEF Inv, BufferInv, PathInv
  <1>2. q \in off .. NW /\ \A r \in off .. (q - 1) : ~WindowStops(r, pad)
    BY DEF ParseDeltaT
  <1>3. PICK n \in 0 .. (Total - Here) :
           /\ n = Len(out) + rec.cum[q] - rec.cum[off]
           /\ Here + n = rec.cum[q] /\ q \in 0 .. NW
           /\ out \o Decoded(q) = Run(Here, Here + n)
           /\ Len(out \o Decoded(q)) = n
           /\ out \o Decoded(q) = <<>> <=> n = 0
           /\ \A i \in 1 .. n : (out \o Decoded(q))[i] = Here + i
    BY <1>1, <1>2, OutRun
  <1>4. /\ cfg \in Configs /\ NW \in Nat /\ Total \in Nat /\ off \in 0 .. NW /\ Here \in Nat
        /\ Reached \in Nat /\ rec.cum[off] = Reached /\ Len(out) \in Nat
        /\ cur \in Nat /\ call.dt \in Nat /\ call.cap \in Nat /\ Reserve \in Nat
    BY Types, SizesAssumption
  <1>5. \A w \in 0 .. NW : rec.cum[w] \in Nat
    BY <1>4, RecordingFacts
  <1>6. n <= call.cap
    <2>1. CASE q = off
      <3>1. Len(out) <= call.cap
        BY DEF Inv, FillInv
      <3> QED  BY <1>3, <1>4, <2>1, <3>1
    <2>2. CASE q # off
      <3>1. q - 1 \in off .. (q - 1) /\ q \in 1 .. NW /\ q - 1 \in 0 .. NW
        BY <1>2, <1>4, <2>2
      <3>2. ~(Len(out) + rec.cum[q - 1] - rec.cum[off] >= call.cap - Reserve)
        BY <1>2, <3>1 DEF WindowStops, WindowFull
      <3>3. rec.cum[q] - rec.cum[q - 1] <= Reserve
        BY <1>4, <3>1, WordFacts
      <3>4. rec.cum[q] \in Nat /\ rec.cum[q - 1] \in Nat /\ rec.cum[off] \in Nat
            /\ Len(out) \in Nat /\ call.cap \in Nat /\ Reserve \in Nat
        BY <1>4, <1>5, <3>1
      <3>5. Len(out) + rec.cum[q] - rec.cum[off] <= call.cap
        BY <3>2, <3>3, <3>4, RoomLeft
      <3>6. n = Len(out) + rec.cum[q] - rec.cum[off]
        BY <1>3
      <3> QED  BY <3>5, <3>6
    <2> QED  BY <2>1, <2>2
  <1>7. ASSUME NEW i \in 1 .. n
        PROVE  cur <= Ts(Here + i) /\ Ts(Here + i) < End
    <2>1. /\ i \in Nat /\ 1 <= i /\ Here < Total /\ Here + 1 \in 1 .. Total
          /\ Here + i \in 1 .. Total /\ Here + 1 <= Here + i /\ Here + i <= rec.cum[q]
      <3>1. Here \in Nat /\ Total \in Nat
        BY <1>4
      <3>2. /\ i \in Nat /\ 1 <= i /\ i <= n /\ Here < Total /\ Here + 1 \in 1 .. Total
            /\ Here + i \in 1 .. Total /\ Here + 1 <= Here + i /\ Here + i <= Here + n
        BY <3>1, WithinRun
      <3>3. Here + n = rec.cum[q]
        BY <1>3
      <3> QED  BY <3>2, <3>3
    <2>2. cur <= Ts(Here + i)
      <3>1. cur <= rec.ts[Here + 1]
        BY <2>1 DEF Inv, PathInv, ClockInv, Ts
      <3>2. rec.ts[Here + 1] <= rec.ts[Here + i]
        BY <1>4, <2>1, EventsAscend
      <3>3. rec.ts[Here + 1] \in Nat /\ rec.ts[Here + i] \in Nat
        BY <1>4, <2>1, RecordingFacts
      <3> QED  BY <1>4, <3>1, <3>2, <3>3 DEF Ts
    <2>3. CASE i <= Len(out)
      <3>1. i \in 1 .. Len(out)
        BY <1>4, <2>1, <2>3
      <3>2. Ts(out[i]) < End
        BY <3>1 DEF Inv, FillInv
      <3>3. out[i] = Here + i
        BY <1>1, <3>1, OutNow
      <3> QED  BY <2>2, <3>2, <3>3
    <2>4. CASE ~(i <= Len(out))
      <3>1. Here + Len(out) = Reached
        BY <1>1, OutNow
      <3>2. rec.cum[off] < Here + i
        BY <1>4, <2>1, <2>4, <3>1
      <3>3. \A x \in off .. (q - 1) : rec.tick[x] < End
        <4>1. SUFFICES ASSUME NEW x \in off .. (q - 1)
                       PROVE  rec.tick[x] < End
          OBVIOUS
        <4>2. ~(rec.tick[x] >= End)
          BY <1>2 DEF WindowStops, WindowTime
        <4>3. x \in 0 .. NW
          BY <1>2, <1>4
        <4>4. rec.tick[x] \in Nat /\ End \in Nat
          BY <1>4, <4>3, RecordingFacts, SMTT(30), ZenonT(30) DEF End
        <4> QED  BY <4>2, <4>4
      <3>4. rec.ts[Here + i] < End
        BY <1>1, <1>4, <2>1, <3>2, <3>3, EarlierEvents
      <3> QED  BY <2>2, <3>4 DEF Ts
    <2> QED  BY <2>3, <2>4
  <1> QED  BY <1>3, <1>6, <1>7

\* Decoding on in the same window.
LEMMA WindowGoing ==
  ASSUME Inv, pc = "window", NEW q \in 0 .. NW, ParseDeltaT(q, Pad),
         off' = q, out' = out \o Decoded(q), off # NW, cfg' = cfg, pc' = pc,
         UNCHANGED <<acc, carry, eof, anchored, first, cur, nread, iter, hist>>,
         call' \in [dt : Nat \ {0}, ne : Nat \ {0}, drain : BOOLEAN, cap : Nat],
         call'.dt = call.dt, call'.ne = call.ne, call'.cap <= call'.ne,
         \A n \in Nat : n <= call.cap /\ n = Len(out \o Decoded(q)) => n <= call'.cap
  PROVE  Inv'
  <1>1. /\ TypeInv /\ BufferInv /\ PathInv /\ EofInv /\ acc = <<>> /\ carry = <<>>
        /\ call.cap \in Nat /\ Total \in Nat /\ Here \in Nat
    BY Types DEF Inv, BufferInv
  <1>2. q \in off .. NW
    BY DEF ParseDeltaT
  <1>3. /\ Here' = Here
        /\ IsTail(acc', Reached') /\ IsTail(carry', Reached') /\ IsTail(out', Reached')
        /\ off' \in 0 .. NW
    BY <1>1, <1>2, DecodeOut
  <1>4. PICK n \in 0 .. (Total - Here) :
           /\ n <= call.cap
           /\ Len(out \o Decoded(q)) = n
           /\ \A i \in 1 .. n : /\ (out \o Decoded(q))[i] = Here + i
                                /\ Ts(Here + i) < End
    BY WindowFacts, SMTT(30), ZenonT(30)
  <1>5. TypeInv'
    BY <1>1, <1>3, SameTypes DEF TypeInv
  <1>6. BufferInv' /\ PathInv'
    BY <1>1, <1>3, Fixed DEF BufferInv, PathInv
  <1>7. EofInv'
    BY <1>1 DEF EofInv
  <1>8. FillInv'
    <2>1. n \in Nat
      BY <1>1
    <2>2. Len(out') = n /\ n <= call'.cap
      BY <1>4, <2>1
    <2>3. \A i \in 1 .. n : rec.ts[out'[i]] < End
      BY <1>4 DEF Ts
    <2>4. End' = End /\ rec' = rec
      BY Fixed DEF End
    <2> QED  BY <2>2, <2>3, <2>4 DEF FillInv, Ts
  <1>9. GotInv' /\ CounterInv' /\ WindowInv'
    BY <1>3, Going
  <1>10. ClockInv' /\ OriginInv'
    BY <1>3, SameClock DEF hist
  <1> QED  BY <1>5, <1>6, <1>7, <1>8, <1>9, <1>10 DEF Inv

\* The parser reaches the padded tail and is called again.
LEMMA WindowInputInv ==
  ASSUME Inv, WindowInput
  PROVE  Inv'
  <1>1. PICK q \in 0 .. NW : ParseDeltaT(q, Pad) /\ off' = q /\ out' = out \o Decoded(q)
    BY DEF WindowInput
  <1>2. /\ pc = "window" /\ off # NW /\ cfg' = cfg /\ pc' = pc /\ call' = call
        /\ UNCHANGED <<acc, carry, eof, anchored, first, cur, nread, iter, hist>>
    BY DEF WindowInput, Stay, rvars, DecEof
  <1>3. /\ call \in [dt : Nat \ {0}, ne : Nat \ {0}, drain : BOOLEAN, cap : Nat]
        /\ call.cap <= call.ne
    BY <1>2, Types DEF Inv, FillInv
  <1> QED  BY <1>1, <1>2, <1>3, WindowGoing

\* The buffer is full below the cap: it grows.
LEMMA WindowGrowInv ==
  ASSUME Inv, WindowGrow
  PROVE  Inv'
  <1>1. PICK q \in 0 .. NW :
          /\ ParseDeltaT(q, Pad) /\ off' = q /\ out' = out \o Decoded(q)
          /\ call' = [call EXCEPT !.cap =
               Smaller(Larger(Len(out') + DtStep, (call.cap * 3) \div 2 + 1), call.ne)]
    BY DEF WindowGrow
  <1>2. /\ pc = "window" /\ off # NW /\ cfg' = cfg /\ pc' = pc
        /\ UNCHANGED <<acc, carry, eof, anchored, first, cur, nread, iter, hist>>
    BY DEF WindowGrow, rvars, DecEof
  <1>3. /\ call \in [dt : Nat \ {0}, ne : Nat \ {0}, drain : BOOLEAN, cap : Nat]
        /\ call.cap <= call.ne /\ call.cap \in Nat /\ call.ne \in Nat /\ DtStep \in Nat
        /\ Here \in Nat /\ Total \in Nat
    BY <1>2, Types, SizesAssumption DEF Inv, FillInv
  <1>4. PICK n \in 0 .. (Total - Here) : n <= call.cap /\ Len(out \o Decoded(q)) = n
    BY <1>1, <1>2, WindowFacts
  <1> DEFINE grown == Smaller(Larger(n + DtStep, (call.cap * 3) \div 2 + 1), call.ne)
  <1>5. grown \in Nat /\ grown <= call.ne /\ n <= grown
    <2>1. n \in Nat /\ (call.cap * 3) \div 2 + 1 \in Nat
      BY <1>3
    <2> QED  BY <1>3, <1>4, <2>1 DEF Smaller, Larger
  <1>6. call' = [call EXCEPT !.cap = grown]
    BY <1>1, <1>4
  <1> HIDE DEF grown
  <1>7. /\ call' \in [dt : Nat \ {0}, ne : Nat \ {0}, drain : BOOLEAN, cap : Nat]
        /\ call'.dt = call.dt /\ call'.ne = call.ne /\ call'.cap = grown
    BY <1>3, <1>5, <1>6
  <1> QED  BY <1>1, <1>2, <1>4, <1>5, <1>7, WindowGoing

\* The events counted so far and those of the window being handed out.
LEMMA CountDecoded ==
  ASSUME Inv, NEW q \in 0 .. NW
  PROVE  nread + Len(out) + rec.cum[q] - rec.cum[off]
           = nread + (Len(out) + rec.cum[q] - rec.cum[off])
  <1>1. nread \in Nat /\ Len(out) \in Nat /\ cfg \in Configs /\ off \in 0 .. NW
    BY Types
  <1>2. rec.cum[q] \in Nat /\ rec.cum[off] \in Nat
    BY <1>1, RecordingFacts
  <1> QED  BY <1>1, <1>2, CountOn

\* Handing the window out.
LEMMA WindowReturned ==
  ASSUME Inv, pc = "window", NEW pad, NEW q \in 0 .. NW, ParseDeltaT(q, pad),
         NEW last \in 0 .. NW, rec.cum[last] = rec.cum[q], NEW why,
         Return(out \o Decoded(q), first, why),
         nread' = nread + Len(out) + rec.cum[q] - rec.cum[off],
         off' = last, eof' = (last = NW), UNCHANGED <<acc, carry, anchored, first>>,
         \/ why = "part" /\ cur' = cur
         \/ /\ why = "time" /\ cur' = End
            /\ rec.cum[q] < Total => End <= Ts(rec.cum[q] + 1)
  PROVE  Inv'
  <1>1. /\ acc = <<>> /\ carry = <<>> /\ anchored /\ call.cap <= call.ne
        /\ cfg.kind \notin IndependentWindows
    BY DEF Inv, BufferInv, PathInv, FillInv, HasDeltaTParser, IndependentWindows
  <1>2. PICK n \in 0 .. (Total - Here) :
           /\ n = Len(out) + rec.cum[q] - rec.cum[off]
           /\ Here + n = rec.cum[q] /\ n <= call.cap
           /\ out \o Decoded(q) = Run(Here, Here + n)
           /\ Len(out \o Decoded(q)) = n
           /\ \A i \in 1 .. n : cur <= Ts(Here + i) /\ Ts(Here + i) < End
    BY WindowFacts
  <1>3. /\ cfg \in Configs /\ NW \in Nat /\ Total \in Nat /\ off \in 0 .. NW /\ Here \in Nat
        /\ first \in Nat /\ cur \in Nat /\ call.dt \in Nat /\ call.ne \in Nat
        /\ call.cap \in Nat /\ Len(out) \in Nat /\ nread \in Nat
    BY Types
  <1>4. n \in Nat /\ n <= call.ne /\ Here <= Here + n /\ Here + n \in Nat
    <2>1. n \in 0 .. (Total - Here) /\ n <= call.cap /\ call.cap <= call.ne
      BY <1>1, <1>2
    <2>2. Here \in Nat /\ Total \in Nat /\ call.cap \in Nat /\ call.ne \in Nat
      BY <1>3
    <2> QED  BY <2>1, <2>2, Capped
  <1>5. cfg' = cfg /\ pc' = "idle" /\ out' = <<>>
    BY DEF Return
  <1>6. NW' = NW /\ rec' = rec /\ Total' = Total
    BY <1>5, Fixed
  <1>7. BufferInv' /\ Here' = Here + n
    <2>1. BufferInv' /\ Here' = Reached'
      BY <1>1, <1>3, <1>5, NothingHeld
    <2>2. Reached' = rec.cum[q]
      BY <1>6 DEF Reached
    <2> QED  BY <1>2, <2>1, <2>2
  <1>8. End \in Nat /\ cur' \in Nat
    BY <1>3 DEF End
  <1>9. nread' = nread + n
    <2>1. nread + Len(out) + rec.cum[q] - rec.cum[off]
            = nread + (Len(out) + rec.cum[q] - rec.cum[off])
      BY CountDecoded
    <2>2. n = Len(out) + rec.cum[q] - rec.cum[off]
      BY <1>2
    <2> QED  BY <2>1, <2>2
  <1>10. Return(Run(Here, Here + n), first, why)
    BY <1>2
  <1>11. TypeInv' /\ GotInv' /\ CounterInv' /\ FillInv'
    BY <1>1, <1>2, <1>3, <1>7, <1>8, <1>9, <1>10, Returned
  <1>12. PathInv' /\ EofInv'
    BY <1>1, <1>5, <1>6 DEF PathInv, EofInv
  <1>13. OriginInv'
    BY <1>1, <1>10, ReturnedOrigin DEF Inv, OriginInv
  <1>14. CASE why = "part" /\ cur' = cur
    <2>1. WindowAt([ev |-> Run(Here, Here + n), lo |-> cur, hi |-> End, most |-> call.ne,
                    why |-> why], Here + n, rec.ts, Total)
      BY <1>3, <1>4, <1>14, RunOf DEF WindowAt
    <2>2. WindowInv'
      BY <1>7, <1>10, <2>1, Handed
    <2>3. ClockInv'
      BY <1>1, <1>4, <1>5, <1>7, <1>14, ClockStays
    <2> QED  BY <1>7, <1>11, <1>12, <1>13, <2>2, <2>3 DEF Inv
  <1>15. CASE /\ why = "time" /\ cur' = End
              /\ rec.cum[q] < Total => End <= Ts(rec.cum[q] + 1)
    <2>1. Here + n < Total => End <= rec.ts[Here + n + 1]
      BY <1>2, <1>15 DEF Ts
    <2>2. WindowAt([ev |-> Run(Here, Here + n), lo |-> cur, hi |-> End, most |-> call.ne,
                    why |-> "time"], Here + n, rec.ts, Total)
      BY <1>2, <1>3, <1>4, <2>1, TimeWindow DEF Ts
    <2>3. WindowInv'
      BY <1>7, <1>10, <1>15, <2>2, Handed
    <2>4. ClockInv'
      BY <1>6, <1>7, <1>15, <2>1 DEF ClockInv, Ts
    <2> QED  BY <1>7, <1>11, <1>12, <1>13, <2>3, <2>4 DEF Inv
  <1> QED  BY <1>14, <1>15

\* The clock has reached the end of the window, or nothing is left to decode.
LEMMA WindowDoneInv ==
  ASSUME Inv, WindowDone
  PROVE  Inv'
  <1>1. PICK q \in 0 .. NW :
          ParseDeltaT(q, Pad) /\ (DecEof \/ WindowTime(q)) /\ WindowReturn(q, q)
    BY DEF WindowDone
  <1>2. /\ pc = "window" /\ Return(out \o Decoded(q), first, "time")
        /\ nread' = nread + Len(out) + rec.cum[q] - rec.cum[off]
        /\ off' = q /\ eof' = (q = NW) /\ UNCHANGED <<acc, carry, anchored, first>>
        /\ cur' = End
    BY <1>1 DEF WindowDone, WindowReturn
  <1>3. /\ cfg \in Configs /\ NW \in Nat /\ Total \in Nat /\ off \in 0 .. NW
        /\ cur \in Nat /\ call.dt \in Nat
    BY Types
  <1>4. ASSUME rec.cum[q] < Total
        PROVE  End <= Ts(rec.cum[q] + 1)
    <2>1. WindowTime(q)
      <3>1. CASE DecEof
        <4>1. q = NW
          BY <1>1, <1>3, <3>1 DEF ParseDeltaT, DecEof
        <4> QED  BY <1>3, <1>4, <4>1 DEF Total
      <3> QED  BY <1>1, <3>1
    <2>2. rec.cum[q] \in Nat /\ rec.tick[q] \in Nat /\ \A i \in 1 .. Total : rec.ts[i] \in Nat
      BY <1>3, RecordingFacts
    <2>3. rec.cum[q] + 1 \in 1 .. Total /\ rec.cum[q] < rec.cum[q] + 1
      BY <1>3, <1>4, <2>2
    <2>4. rec.tick[q] <= rec.ts[rec.cum[q] + 1]
      BY <1>3, <2>3, LaterEvents
    <2>5. End \in Nat /\ End <= rec.tick[q]
      BY <1>3, <2>1, <2>2 DEF End, WindowTime
    <2> QED  BY <2>2, <2>3, <2>4, <2>5 DEF Ts
  <1> QED  BY <1>1, <1>2, <1>4, WindowReturned

\* The tail is flushed: whatever it held is skipped, and so it must have held no event.
LEMMA WindowTailInv ==
  ASSUME Inv, WindowTail, QuietTails
  PROVE  Inv'
  <1>1. PICK q \in 0 .. NW : ParseDeltaT(q, 0) /\ WindowReturn(q, NW)
    BY DEF WindowTail
  <1>2. /\ pc = "window" /\ Return(out \o Decoded(q), first, "time")
        /\ nread' = nread + Len(out) + rec.cum[q] - rec.cum[off]
        /\ off' = NW /\ eof' = (NW = NW) /\ UNCHANGED <<acc, carry, anchored, first>>
        /\ cur' = End /\ off + Pad >= NW
    BY <1>1 DEF WindowTail, WindowReturn
  <1>3. /\ cfg \in Configs /\ NW \in Nat /\ Total \in Nat /\ off \in 0 .. NW /\ Pad \in Nat
        /\ cfg.kind \in HasDeltaTParser /\ Mode = "delta_t"
    BY <1>2, Types, SizesAssumption DEF Inv, PathInv
  <1>4. q \in off .. NW /\ q + Pad >= NW
    <2>1. q \in off .. NW
      BY <1>1 DEF ParseDeltaT
    <2> QED  BY <1>2, <1>3, <2>1
  <1>5. rec.cum[q] = Total
    BY <1>3, <1>4 DEF QuietTails, Mode, rec, NW, Total
  <1>6. NW \in 0 .. NW /\ rec.cum[NW] = rec.cum[q] /\ ~(rec.cum[q] < Total)
    BY <1>3, <1>5 DEF Total
  <1> QED  BY <1>1, <1>2, <1>6, WindowReturned

\* The buffer is full at the cap: the part is handed out and the window stays open.
LEMMA WindowCappedInv ==
  ASSUME Inv, WindowCapped
  PROVE  Inv'
  <1>1. PICK q \in 0 .. NW :
          /\ ParseDeltaT(q, Pad) /\ off' = q /\ eof' = (q = NW)
          /\ nread' = nread + Len(out) + rec.cum[q] - rec.cum[off]
          /\ Return(out \o Decoded(q), first, "part")
    BY DEF WindowCapped
  <1>2. /\ pc = "window" /\ UNCHANGED <<acc, carry, anchored, first>> /\ cur' = cur
    BY DEF WindowCapped
  <1> QED  BY <1>1, <1>2, WindowReturned

-----------------------------------------------------------------------------
(* What the user calls.                                                    *)

\* Between calls the staged events or the overshoot are what the decoder is ahead.
LEMMA IdleFacts ==
  ASSUME Inv, pc = "idle"
  PROVE  /\ out = <<>> /\ (acc = <<>> \/ carry = <<>>) /\ acc \in Seq(Nat)
         /\ acc # <<>> \/ carry # <<>> => anchored
         /\ IsTail(acc \o carry, Reached) /\ Here = Reached - Len(acc \o carry)
         /\ acc \o carry = <<>> <=> acc = <<>> /\ carry = <<>>
  <1>1. /\ TypeInv /\ BufferInv /\ Reached \in Nat
        /\ Len(acc) \in Nat /\ Len(carry) \in Nat
    BY Types
  <1>2. /\ out = <<>> /\ (acc = <<>> \/ carry = <<>>)
        /\ IsTail(acc, Reached) /\ IsTail(carry, Reached)
        /\ acc # <<>> \/ carry # <<>> => anchored
    BY <1>1 DEF BufferInv, Inv, PathInv
  <1>3. /\ acc \in Seq(Nat) /\ carry \in Seq(Nat)
    BY <1>1, <1>2, TailFacts
  <1>4. CASE carry = <<>>
    <2>1. acc \o carry = acc
      BY <1>3, <1>4
    <2>2. Len(out) = 0 /\ Len(carry) = 0
      BY <1>1, <1>2, <1>4, StateFacts
    <2>3. Here = Reached - Len(acc)
      BY <1>1, <2>2 DEF Here
    <2> QED  BY <1>2, <1>3, <1>4, <2>1, <2>3
  <1>5. CASE acc = <<>>
    <2>1. acc \o carry = carry
      BY <1>3, <1>5
    <2>2. Len(out) = 0 /\ Len(acc) = 0
      BY <1>1, <1>2, <1>5, StateFacts
    <2>3. Here = Reached - Len(carry)
      BY <1>1, <2>2 DEF Here
    <2> QED  BY <1>2, <1>3, <1>5, <2>1, <2>3
  <1> QED  BY <1>2, <1>4, <1>5

\* A call takes its path.
LEMMA EnterInv ==
  ASSUME Inv, pc = "idle", NEW d \in DeltaTs \cup {None}, NEW n \in Ns \cup {None}, Enter(d, n)
  PROVE  Inv'
  <1>1. /\ cfg' = cfg /\ off' = off /\ out' = out /\ out = <<>>
        /\ UNCHANGED <<anchored, first, cur, nread, iter, hist>>
        /\ acc = <<>> \/ carry = <<>>
        /\ call' = [dt |-> IF d = None THEN DeltaT ELSE d,
                    ne |-> IF n = None THEN NEvents ELSE n,
                    drain |-> Mode = "all" /\ d = None /\ n = None,
                    cap |-> 0]
    BY IdleFacts DEF Enter
  <1>2. /\ TypeInv /\ BufferInv /\ PathInv /\ EofInv /\ cfg \in Configs
        /\ off \in 0 .. NW /\ Reached \in Nat /\ eof \in BOOLEAN
    BY Types DEF Inv
  <1>3. /\ NW' = NW /\ Mode' = Mode /\ Reached' = Reached /\ Total' = Total
    BY <1>1, Fixed DEF Reached
  <1>4. call' \in [dt : Nat \ {0}, ne : Nat \ {0}, drain : BOOLEAN, cap : Nat]
    <2>1. DeltaTs \subseteq Nat \ {0} /\ Ns \subseteq Nat \ {0}
      BY SizesAssumption
    <2>2. DeltaT \in Nat \ {0} /\ NEvents \in Nat \ {0}
      BY <1>2, Bounds
    <2> QED  BY <1>1, <2>1, <2>2
  <1>5. /\ BufferInv' /\ PathInv' /\ EofInv' /\ Here' = Here /\ pc' \in PcStates /\ pc' # "idle"
        /\ eof' \in BOOLEAN /\ (pc' = "window" => FALSE)
    <2>1. CASE EnterFast(d, n)
      <3>1. /\ acc' = acc /\ carry' = carry /\ eof' = eof /\ acc = <<>>
            /\ \/ /\ Mode = "n_events" /\ cfg.kind \in ExactWindow /\ pc' = "count"
               \/ /\ Mode = "n_events" /\ cfg.kind \in IndependentWindows /\ pc' = "chunk"
               \/ /\ Mode = "delta_t" /\ cfg.kind \in HasDeltaTParser /\ pc' = "peek"
               \/ /\ Mode = "delta_t" /\ cfg.kind \in Native \ HasDeltaTParser /\ pc' = "seed"
        BY <2>1 DEF EnterFast, CountPath, TimePath
      <3>2. Here' = Here
        BY <1>1, <1>3, <3>1 DEF Here
      <3>3. BufferInv'
        BY <1>1, <1>2, <1>3, <3>1 DEF BufferInv
      <3>4. PathInv'
        BY <1>1, <1>2, <1>3, <3>1, <3>2 DEF PathInv
      <3>5. EofInv'
        BY <1>1, <1>2, <1>3, <3>1 DEF EofInv
      <3> QED  BY <1>2, <3>1, <3>2, <3>3, <3>4, <3>5 DEF PcStates
    <2>2. CASE EnterStaged(d, n)
      <3>1. /\ acc' = acc \o carry /\ carry' = <<>> /\ eof' = (eof /\ carry = <<>>)
            /\ pc' = IF anchored \/ acc' # <<>> THEN "gather" ELSE "anchor"
        BY <2>2 DEF EnterStaged
      <3>2. /\ IsTail(acc', Reached) /\ Here = Reached - Len(acc')
            /\ acc' # <<>> => anchored
        BY <3>1, IdleFacts
      <3>3. Len(carry') = 0 /\ Len(out') = 0 /\ IsTail(<<>>, Reached)
        BY <1>1, <1>2, <3>1, TailEmpty
      <3>4. Here' = Here
        <4>1. Here' = Reached - (Len(acc') + 0 + 0)
          BY <1>3, <3>3 DEF Here
        <4>2. Len(acc') \in Nat
          BY <1>2, <3>2, TailFacts
        <4>3. Len(acc') + 0 + 0 = Len(acc')
          BY <4>2
        <4> QED  BY <3>2, <4>1, <4>3
      <3>5. BufferInv'
        BY <1>1, <1>3, <3>1, <3>2, <3>3 DEF BufferInv
      <3>6. PathInv'
        BY <1>1, <1>2, <1>3, <3>1, <3>2, <3>4 DEF PathInv
      <3>7. EofInv'
        BY <1>1, <1>2, <1>3, <3>1 DEF EofInv
      <3> QED  BY <1>2, <3>1, <3>4, <3>5, <3>6, <3>7 DEF PcStates
    <2> QED  BY <2>1, <2>2 DEF Enter
  <1>6. TypeInv'
    BY <1>1, <1>2, <1>4, <1>5, Types, SameTypes
  <1>7. FillInv'
    <2>1. Len(out') = 0 /\ call'.ne \in Nat
      BY <1>1, <1>2, <1>4, TailEmpty
    <2>2. 0 <= call'.ne
      BY <2>1
    <2> QED  BY <1>5, <2>1, <2>2 DEF FillInv
  <1>8. GotInv' /\ CounterInv' /\ WindowInv'
    BY <1>1, <1>5, Going
  <1>9. ClockInv' /\ OriginInv'
    BY <1>1, <1>5, SameClock DEF hist
  <1> QED  BY <1>5, <1>6, <1>7, <1>8, <1>9 DEF Inv

\* Beginning and ending a for loop concerns nothing else.
LEMMA IterInv ==
  ASSUME Inv, UNCHANGED <<cfg, bufs, rvars, pc, call, hist>>, iter' \in BOOLEAN
  PROVE  Inv'
  <1>1. UNCHANGED <<cfg, off, acc, carry, out, eof, anchored, first, cur, nread, pc, call,
                    base, got, win, origins>>
    BY DEF bufs, rvars, hist
  <1>2. NW' = NW /\ Mode' = Mode /\ Reached' = Reached /\ Here' = Here /\ Total' = Total
        /\ rec' = rec /\ CanFastSeek' = CanFastSeek /\ Steady' = Steady
    BY <1>1, Fixed DEF Reached, Here
  <1>3. TypeInv' /\ BufferInv' /\ PathInv' /\ EofInv'
    BY <1>1, <1>2 DEF Inv, TypeInv, BufferInv, PathInv, EofInv, PcStates
  <1>4. GotInv' /\ CounterInv' /\ ClockInv' /\ OriginInv'
    BY <1>1, <1>2 DEF Inv, GotInv, CounterInv, ClockInv, OriginInv, Ts, Pos
  <1>5. FillInv' /\ WindowInv'
    BY <1>1, <1>2 DEF Inv, FillInv, WindowInv, Ts, End
  <1> QED  BY <1>3, <1>4, <1>5 DEF Inv

\* read_all() hands out all the rest.
LEMMA ReadAllInv ==
  ASSUME Inv, ReadAll
  PROVE  Inv'
  <1> DEFINE rest == acc \o carry \o Run(rec.cum[off], Total)
  <1>1. /\ pc = "idle" /\ "read_all" \in Ops
        /\ nread' = nread + Len(rest)
        /\ Return(rest, None, "rest")
        /\ off' = NW /\ acc' = <<>> /\ carry' = <<>> /\ eof' = TRUE
        /\ UNCHANGED <<anchored, first, cur>>
    BY DEF ReadAll
  <1>2. /\ cfg \in Configs /\ NW \in Nat /\ Total \in Nat /\ Here \in Nat /\ Here <= Total
        /\ Reached \in Nat /\ Reached <= Total /\ rec.cum[off] = Reached
        /\ first \in Nat /\ cur \in Nat /\ nread \in Nat /\ anchored \in BOOLEAN
    BY Types
  <1>3. IsTail(acc \o carry, Reached) /\ Here = Reached - Len(acc \o carry)
    BY <1>1, IdleFacts
  <1> DEFINE n == Total - Here
  <1>4. n \in 0 .. (Total - Here) /\ Here + n = Total /\ n \in Nat
    BY <1>2
  <1>5. rest = Run(Here, Here + n)
    <2>1. acc \o carry = Run(Here, Reached)
      BY <1>3 DEF IsTail
    <2>2. Here <= Reached
      BY Types
    <2>3. Run(Here, Reached) \o Run(Reached, Total) = Run(Here, Total)
      BY <1>2, <2>2, RunConcat
    <2> QED  BY <1>2, <1>4, <2>1, <2>3
  <1> HIDE DEF rest, n
  <1>6. /\ Len(rest) = n /\ (rest = <<>> <=> n = 0)
        /\ \A i \in 1 .. n : rest[i] = Here + i
    BY <1>2, <1>4, <1>5, RunOf
  <1>7. cfg' = cfg /\ out' = <<>> /\ pc' = "idle"
    BY <1>1 DEF Return
  <1>8. NW' = NW /\ rec' = rec /\ Total' = Total /\ NW \in 0 .. NW
    BY <1>2, <1>7, Fixed
  <1>9. BufferInv' /\ Here' = Total
    <2>1. BufferInv' /\ Here' = Reached'
      BY <1>1, <1>2, <1>7, <1>8, NothingHeld
    <2>2. Reached' = Total
      BY <1>1, <1>8 DEF Reached, Total
    <2> QED  BY <2>1, <2>2
  <1>11. Return(Run(Here, Here + n), None, "rest") /\ None \in Nat \cup {None}
    BY <1>1, <1>5
  <1>12. TypeInv' /\ GotInv' /\ CounterInv' /\ FillInv'
    BY <1>1, <1>2, <1>4, <1>6, <1>8, <1>9, <1>11, Returned
  <1>13. PathInv' /\ EofInv'
    BY <1>1, <1>7, <1>8, <1>9 DEF PathInv, EofInv
  <1>14. ClockInv'
    BY <1>1, <1>2, <1>7, <1>9, ClockStays
  <1>15. OriginInv'
    BY <1>1, <1>11, ReturnedOrigin DEF Inv, OriginInv
  <1>16. WindowInv'
    BY <1>4, <1>9, <1>11, Handed DEF WindowAt
  <1> QED  BY <1>9, <1>12, <1>13, <1>14, <1>15, <1>16 DEF Inv

\* A seek or a reset puts the reader at event h, holding the events from there to
\* word q.
LEMMA Moved ==
  ASSUME Inv, pc = "idle", UNCHANGED <<cfg, out, pc, call, iter>>,
         NEW q \in 0 .. NW, off' = q, carry' = <<>>,
         NEW h \in Nat, h <= Total, NEW s, acc' = s, IsTail(s, rec.cum[q]), h = rec.cum[q] - Len(s),
         NEW b \in Nat, b <= h, Steady => b = h,
         base' = b, got' = <<>>, win' = NoWindow, origins' \subseteq Nat,
         NEW i \in Nat, i <= h, CanFastSeek /\ cfg.kind # "csv" => i = h, nread' = i,
         eof' \in BOOLEAN, eof' => q = NW,
         anchored' \in BOOLEAN, s # <<>> => anchored',
         anchored' \/ h \in {0, Total},
         first' \in Nat, NEW c \in Nat, cur' = c,
         anchored' /\ h < Total => c <= Ts(h + 1)
  PROVE  /\ TypeInv' /\ BufferInv' /\ PathInv' /\ GotInv' /\ CounterInv' /\ EofInv' /\ ClockInv'
         /\ FillInv' /\ WindowInv'
  <1>1. /\ cfg \in Configs /\ Total \in Nat /\ NW \in Nat /\ iter \in BOOLEAN /\ out = <<>>
        /\ call \in [dt : Nat \ {0}, ne : Nat \ {0}, drain : BOOLEAN, cap : Nat]
    BY Types, IdleFacts
  <1>2. /\ NW' = NW /\ rec' = rec /\ Total' = Total /\ Mode' = Mode
        /\ CanFastSeek' = CanFastSeek /\ Steady' = Steady
    BY Fixed
  <1>3. rec.cum[q] \in Nat
    BY <1>1, RecordingFacts
  <1>4. Reached' = rec.cum[q]
    BY <1>2 DEF Reached
  <1>5. IsTail(<<>>, rec.cum[q]) /\ IsTail(<<>>, h) /\ Len(<<>>) = 0 /\ Len(s) \in Nat
    BY <1>3, TailEmpty, TailFacts
  <1>6. Here' = h
    <2>1. Here' = rec.cum[q] - (Len(s) + 0 + 0)
      BY <1>1, <1>4, <1>5 DEF Here
    <2>2. Len(s) + 0 + 0 = Len(s)
      BY <1>5
    <2> QED  BY <2>1, <2>2
  <1>7. BufferInv'
    BY <1>1, <1>4, <1>5 DEF BufferInv
  <1>8. TypeInv'
    <2>1. b \in 0 .. Total
      BY <1>1, SMTT(30), ZenonT(30)
    <2>2. win'.ev \in Seq(1 .. Total)
      BY DEF NoWindow
    <2>3. q \in 0 .. NW' /\ b \in 0 .. Total' /\ win'.ev \in Seq(1 .. Total') /\ cfg' \in Configs
          /\ pc' \in PcStates
      BY <1>1, <1>2, <2>1, <2>2 DEF PcStates
    <2> QED  BY <1>1, <2>3 DEF TypeInv
  <1>9. PathInv'
    BY <1>2, <1>6 DEF PathInv
  <1>10. GotInv'
    <2>1. b <= h - 0 /\ (Steady => h = b + 0)
      OBVIOUS
    <2> QED  BY <1>2, <1>5, <1>6, <2>1 DEF GotInv, Pos
  <1>11. CounterInv' /\ EofInv'
    BY <1>2, <1>6 DEF CounterInv, EofInv
  <1>12. ClockInv'
    BY <1>2, <1>6 DEF ClockInv, Ts
  <1>13. FillInv' /\ WindowInv'
    BY DEF FillInv, WindowInv, WindowAt, NoWindow
  <1> QED  BY <1>7, <1>8, <1>9, <1>10, <1>11, <1>12, <1>13

\* reset() goes back to the beginning, or to the end of a pipe that was read.
LEMMA ResetInv ==
  ASSUME Inv, Reset
  PROVE  Inv'
  <1>1. /\ pc = "idle" /\ UNCHANGED <<cfg, out, first, cur, pc, call, iter>>
        /\ off' = Rewound /\ acc' = <<>> /\ carry' = <<>>
        /\ eof' = FALSE /\ anchored' = FALSE /\ nread' = 0
        /\ base' = 0 /\ got' = <<>> /\ win' = NoWindow /\ origins' = {}
    BY DEF Reset
  <1>2. /\ cfg \in Configs /\ NW \in Nat /\ Total \in Nat /\ first \in Nat /\ cur \in Nat
    BY Types
  <1>3. Rewound \in 0 .. NW /\ rec.cum[Rewound] \in {0, Total}
        /\ (CanFastSeek \/ Steady => rec.cum[Rewound] = 0) /\ "reset" \in Ops
    <2>1. 0 \in 0 .. NW /\ NW \in 0 .. NW /\ rec.cum[0] = 0 /\ rec.cum[NW] = Total
      BY <1>2, RecordingFacts
    <2>2. (CanFastSeek \/ Steady => Rewound = 0) /\ "reset" \in Ops
      BY DEF Reset, Steady, CanFastSeek, Rewound, Native
    <2> QED  BY <2>1, <2>2 DEF Rewound
  <1>4. /\ rec.cum[Rewound] \in Nat /\ rec.cum[Rewound] <= Total
        /\ IsTail(<<>>, rec.cum[Rewound])
        /\ rec.cum[Rewound] = rec.cum[Rewound] - Len(<<>>)
    BY <1>2, <1>3, TailEmpty
  <1>5. /\ TypeInv' /\ BufferInv' /\ PathInv' /\ GotInv' /\ CounterInv' /\ EofInv' /\ ClockInv'
        /\ FillInv' /\ WindowInv'
    <2> DEFINE h == rec.cum[Rewound]
    <2>1. h \in Nat /\ h <= Total /\ IsTail(<<>>, rec.cum[Rewound])
          /\ h = rec.cum[Rewound] - Len(<<>>) /\ 0 <= h /\ h \in {0, Total}
          /\ (CanFastSeek \/ Steady => 0 = h)
      BY <1>3, <1>4
    <2> HIDE DEF h
    <2> QED  BY <1>1, <1>2, <1>3, <2>1, Moved
  <1>6. OriginInv'
    BY <1>1 DEF OriginInv
  <1> QED  BY <1>5, <1>6 DEF Inv

\* What is left of the reader's state after a seek.
LEMMA Repositioned ==
  ASSUME NEW k, NEW ts, NEW index, NEW orig, Reposition(k, ts, index, orig)
  PROVE  /\ first' = (IF anchored THEN first ELSE orig) /\ anchored' = TRUE
         /\ cur' = ts /\ nread' = index /\ carry' = <<>>
         /\ base' = k /\ got' = <<>> /\ win' = NoWindow
         /\ UNCHANGED <<cfg, out, pc, call, iter, origins>>
  BY DEF Reposition

\* The time that a cursor is said to be at is that of the event behind it.
LEMMA TimeAtFacts ==
  ASSUME cfg \in Configs, NEW k \in Nat, NEW t \in Nat
  PROVE  /\ TimeAt(k, t) \in Nat
         /\ k < Total => TimeAt(k, t) = Ts(k + 1)
  <1>1. Total \in Nat
    BY RecordingFacts
  <1>2. ASSUME k < Total
        PROVE  Ts(k + 1) \in Nat
    <2>1. k + 1 \in 1 .. Total
      BY <1>1, <1>2
    <2> QED  BY <2>1, RecordingFacts DEF Ts
  <1> QED  BY <1>2 DEF TimeAt

\* The decoder's own seek comes down on event k + 1.
LEMMA FastSeekInv ==
  ASSUME Inv, pc = "idle", CanFastSeek, NEW k \in 0 .. Total, NEW q \in 0 .. NW,
         SeekLands(k, q), off' = q, acc' = Run(k, rec.cum[q]), eof' = FALSE,
         NEW t \in Nat, NEW t0 \in Nat, NEW index \in Nat, index <= k,
         cfg.kind # "csv" => index = k,
         Reposition(k, TimeAt(k, t), index, TimeAt(0, t0))
  PROVE  Inv'
  <1>1. /\ cfg \in Configs /\ NW \in Nat /\ Total \in Nat /\ first \in Nat /\ origins \subseteq Nat
    BY Types
  <1>2. k \in Nat /\ k <= Total /\ q \in Nat
    BY <1>1
  <1>3. rec.cum[q] \in Nat /\ k <= rec.cum[q]
    <2>1. rec.cum[q] \in Nat
      BY <1>1, RecordingFacts
    <2>2. CASE k = Total
      BY <1>1, <1>2, <2>2 DEF SeekLands, Total
    <2>3. CASE k # Total /\ cfg.kind \in Native
      BY <1>2, <2>1, <2>3 DEF SeekLands
    <2>4. CASE k # Total /\ cfg.kind \notin Native
      BY <1>1, <1>2, <2>4, WordFacts DEF SeekLands
    <2> QED  BY <2>1, <2>2, <2>3, <2>4
  <1> DEFINE s == Run(k, rec.cum[q])
  <1>4. IsTail(s, rec.cum[q]) /\ k = rec.cum[q] - Len(s)
    <2>1. IsTail(s, rec.cum[q]) /\ Len(s) = rec.cum[q] - k
      BY <1>2, <1>3, RunTail
    <2>2. rec.cum[q] - (rec.cum[q] - k) = k
      BY <1>2, <1>3
    <2> QED  BY <2>1, <2>2
  <1> HIDE DEF s
  <1>5. /\ TimeAt(k, t) \in Nat /\ (k < Total => TimeAt(k, t) = Ts(k + 1))
        /\ TimeAt(0, t0) \in Nat /\ (0 < Total => TimeAt(0, t0) = Ts(0 + 1))
    BY <1>1, <1>2, TimeAtFacts
  <1>6. /\ first' = (IF anchored THEN first ELSE TimeAt(0, t0)) /\ anchored' = TRUE
        /\ cur' = TimeAt(k, t) /\ nread' = index /\ carry' = <<>>
        /\ base' = k /\ got' = <<>> /\ win' = NoWindow
        /\ UNCHANGED <<cfg, out, pc, call, iter, origins>>
    BY Repositioned
  <1> DEFINE c == TimeAt(k, t)
  <1>7. c \in Nat /\ (k < Total => c <= Ts(k + 1)) /\ cur' = c
    BY <1>5, <1>6
  <1> HIDE DEF c
  <1>8. acc' = s
    BY DEF s
  <1>9. first' \in Nat
    BY <1>1, <1>5, <1>6
  <1>10. /\ TypeInv' /\ BufferInv' /\ PathInv' /\ GotInv' /\ CounterInv' /\ EofInv' /\ ClockInv'
         /\ FillInv' /\ WindowInv'
    <2>1. k <= k /\ (Steady => k = k)
      BY <1>2
    <2> QED  BY <1>1, <1>2, <1>4, <1>6, <1>7, <1>8, <1>9, <2>1, Moved
  <1>11. OriginInv'
    <2>1. ASSUME Total > 0
          PROVE  TimeAt(0, t0) = Ts(1)
      <3>1. 0 < Total /\ 0 + 1 = 1
        BY <1>1, <2>1
      <3> QED  BY <1>5, <3>1
    <2>2. Total' = Total /\ rec' = rec /\ CanFastSeek' = CanFastSeek
      BY <1>6, Fixed
    <2> QED  BY <1>6, <2>1, <2>2 DEF Inv, OriginInv, Ts
  <1> QED  BY <1>10, <1>11 DEF Inv

\* A seek to a time that the decoder carries out.
LEMMA SeekTimeInv ==
  ASSUME Inv, pc = "idle", NEW t \in Nat, SeekTime(t)
  PROVE  Inv'
  <1>1. PICK k \in 0 .. Total, q \in 0 .. NW :
          /\ SeekLands(k, q) /\ off' = q /\ acc' = Run(k, rec.cum[q])
          /\ Reposition(k, TimeAt(k, t), IF cfg.kind = "csv" THEN 0 ELSE k, TimeAt(0, t))
    BY DEF SeekTime
  <1>2. CanFastSeek /\ eof' = FALSE
    BY DEF SeekTime
  <1> DEFINE index == IF cfg.kind = "csv" THEN 0 ELSE k
  <1>3. index \in Nat /\ index <= k /\ (cfg.kind # "csv" => index = k)
    <2>1. Total \in Nat
      BY Types
    <2> QED  BY <2>1
  <1>4. Reposition(k, TimeAt(k, t), index, TimeAt(0, t))
    BY <1>1
  <1> HIDE DEF index
  <1> QED  BY <1>1, <1>2, <1>3, <1>4, FastSeekInv

\* A seek to an index that the decoder carries out.
LEMMA SeekIndexInv ==
  ASSUME Inv, pc = "idle", NEW n \in Nat, SeekIndex(n)
  PROVE  Inv'
  <1>1. PICK q \in 0 .. NW :
          /\ SeekLands(n, q) /\ off' = q /\ acc' = Run(n, rec.cum[q])
          /\ Reposition(n, TimeAt(n, 0), n, TimeAt(0, 0))
    BY DEF SeekIndex
  <1>2. CanFastSeek /\ eof' = FALSE /\ n \in 0 .. Total
    BY DEF SeekIndex
  <1>3. 0 \in Nat /\ n <= n
    OBVIOUS
  <1> QED  BY <1>1, <1>2, <1>3, FastSeekInv

\* The chunk that holds event h + 1, when chunks of c words are read from word o
\* of n, ends behind it.
LEMMA ChunkHolds ==
  ASSUME NEW o \in Nat, NEW h \in Nat, o <= h, NEW n \in Nat, h < n, NEW c \in Nat \ {0}
  PROVE  /\ Smaller(o + c * ((h - o) \div c + 1), n) \in 0 .. n
         /\ h <= Smaller(o + c * ((h - o) \div c + 1), n)
  <1> DEFINE d == h - o
  <1>1. d \in Nat /\ h = o + d
    OBVIOUS
  <1> HIDE DEF d
  <1>2. d < c * (d \div c + 1) /\ d \div c \in Nat
    BY <1>1
  <1> DEFINE e == c * (d \div c + 1)
  <1>3. e \in Nat /\ d < e
    BY <1>2
  <1>4. Smaller(o + c * ((h - o) \div c + 1), n) = Smaller(o + e, n)
    BY DEF d
  <1> HIDE DEF e
  <1>5. Smaller(o + e, n) \in 0 .. n /\ h <= Smaller(o + e, n)
    BY <1>1, <1>3 DEF Smaller
  <1> QED  BY <1>4, <1>5

\* A linear seek that reads from word o comes down on event h, or at the end of
\* the recording; the counter it stores may fall behind that.
LEMMA ScanInv ==
  ASSUME Inv, pc = "idle", ~CanFastSeek,
         NEW o \in 0 .. NW, NEW h \in Nat, o <= h, ScanTo(o, h),
         NEW k \in Nat, k = Smaller(h, Total), NEW i \in Nat, i <= h, i <= Total,
         NEW t \in Nat, Reposition(k, TimeAt(h, t), i, TimeAt(h, t))
  PROVE  Inv'
  <1>1. /\ cfg \in Configs /\ NW \in Nat /\ Total \in Nat /\ first \in Nat /\ origins \subseteq Nat
        /\ o \in Nat
    BY Types
  <1>2. cfg.kind \notin Native /\ ChunkSize \in Nat \ {0}
    BY SizesAssumption DEF CanFastSeek
  <1>3. /\ \A w \in 0 .. NW : rec.cum[w] = w
        /\ rec.cum[NW] = Total /\ Total = NW
    BY <1>1, <1>2, WordFacts DEF Total
  <1>4. TimeAt(h, t) \in Nat /\ (h < Total => TimeAt(h, t) = Ts(h + 1))
    BY <1>1, TimeAtFacts
  <1>5. /\ first' = (IF anchored THEN first ELSE TimeAt(h, t)) /\ anchored' = TRUE
        /\ cur' = TimeAt(h, t) /\ nread' = i /\ carry' = <<>>
        /\ base' = k /\ got' = <<>> /\ win' = NoWindow
        /\ UNCHANGED <<cfg, out, pc, call, iter, origins>>
    BY Repositioned
  <1>6. first' \in Nat /\ origins' \subseteq Nat
    BY <1>1, <1>4, <1>5
  <1> DEFINE c == TimeAt(h, t)
  <1>7. c \in Nat /\ (h < Total => c <= Ts(h + 1)) /\ cur' = c
    BY <1>4, <1>5
  <1> HIDE DEF c
  <1>8. /\ TypeInv' /\ BufferInv' /\ PathInv' /\ GotInv' /\ CounterInv' /\ EofInv' /\ ClockInv'
        /\ FillInv' /\ WindowInv'
    <2>1. CASE h >= Total
      <3>1. off' = NW /\ acc' = <<>> /\ eof' = TRUE
        BY <2>1 DEF ScanTo
      <3>2. /\ NW \in 0 .. NW /\ IsTail(<<>>, rec.cum[NW]) /\ Total = rec.cum[NW] - Len(<<>>)
            /\ Total <= Total /\ (anchored' /\ Total < Total => c <= Ts(Total + 1))
        BY <1>1, <1>3, TailEmpty
      <3>4. k <= Total /\ k = Total
        BY <1>1, <2>1 DEF Smaller
      <3> QED  BY <1>1, <1>5, <1>6, <1>7, <3>1, <3>2, <3>4, Moved
    <2>2. CASE ~(h >= Total)
      <3>1. h < Total /\ h < NW /\ h <= Total /\ k <= h /\ k = h
        BY <1>1, <1>3, <2>2 DEF Smaller
      <3> DEFINE q == Smaller(o + ChunkSize * ((h - o) \div ChunkSize + 1), NW)
      <3>2. q \in 0 .. NW /\ h <= q /\ q \in Nat
        <4>1. q \in 0 .. NW /\ h <= q
          BY <1>1, <1>2, <3>1, ChunkHolds, Zenon
        <4> HIDE DEF q
        <4> QED  BY <1>1, <4>1
      <3>3. off' = q /\ acc' = Run(h, q) /\ eof' = FALSE
        BY <2>2 DEF ScanTo
      <3> HIDE DEF q
      <3> DEFINE s == Run(h, q)
      <3>4. IsTail(s, rec.cum[q]) /\ h = rec.cum[q] - Len(s)
        <4>1. IsTail(s, q) /\ Len(s) = q - h /\ rec.cum[q] = q
          BY <1>3, <3>2, RunTail
        <4>2. q - (q - h) = h
          BY <3>2
        <4> QED  BY <4>1, <4>2
      <3>5. acc' = s
        BY <3>3
      <3> HIDE DEF s
      <3> QED  BY <1>1, <1>5, <1>6, <1>7, <3>1, <3>2, <3>3, <3>4, <3>5, Moved
    <2> QED  BY <2>1, <2>2
  <1>9. OriginInv'
    BY <1>5, Fixed DEF OriginInv
  <1> QED  BY <1>8, <1>9 DEF Inv

\* Where a linear seek starts, and what it takes to be the index there.
LEMMA ScanStart ==
  ASSUME Inv, ~CanFastSeek
  PROVE  /\ Rewound \in 0 .. NW /\ 0 <= Rewound
         /\ off \in 0 .. NW /\ nread <= off
         /\ Total = NW
  <1>1. /\ cfg \in Configs /\ NW \in Nat /\ off \in 0 .. NW /\ Here \in Nat /\ Reached \in Nat
        /\ nread \in Nat /\ Here <= Reached /\ rec.cum[off] = Reached
    BY Types
  <1>2. rec.cum[off] = off /\ Total = NW
    BY <1>1, WordFacts DEF CanFastSeek, Total
  <1>3. nread <= Here
    BY DEF Inv, CounterInv
  <1>4. Rewound \in {0, NW}
    BY DEF Rewound
  <1>5. nread <= off
    BY <1>1, <1>2, <1>3
  <1>6. Rewound \in 0 .. NW /\ 0 <= Rewound
    BY <1>1, <1>4
  <1> QED  BY <1>1, <1>2, <1>5, <1>6

\* A seek to a time by reading.
LEMMA LinearSeekTimeInv ==
  ASSUME Inv, pc = "idle", "seek_t" \in Ops, NEW t \in Nat, LinearSeekTime(t)
  PROVE  Inv'
  <1> DEFINE o == IF t < cur THEN Rewound ELSE off
             seen == IF t < cur THEN 0 ELSE nread
  <1>1. PICK k \in 0 .. Total :
          LET h == Larger(o, k) IN
          /\ ScanTo(o, h)
          /\ Reposition(h, TimeAt(h, t), IF h < Total THEN seen + (h - o) ELSE 0, TimeAt(h, t))
    BY DEF LinearSeekTime
  <1>2. ~CanFastSeek /\ Total \in Nat /\ NW \in Nat /\ nread \in Nat
    BY Types DEF LinearSeekTime
  <1>3. o \in 0 .. NW /\ seen \in Nat /\ seen <= o /\ Total = NW
    BY <1>2, ScanStart
  <1> HIDE DEF o, seen
  <1> DEFINE h == Larger(o, k)
             i == IF h < Total THEN seen + (h - o) ELSE 0
  <1>4. ScanTo(o, h) /\ Reposition(h, TimeAt(h, t), i, TimeAt(h, t))
    BY <1>1
  <1>5. h \in Nat /\ o <= h /\ h <= Total /\ h = Smaller(h, Total)
    BY <1>2, <1>3 DEF Larger, Smaller
  <1> HIDE DEF h
  <1>6. i \in Nat /\ i <= h /\ i <= Total
    BY <1>2, <1>3, <1>5
  <1> HIDE DEF i
  <1> QED  BY <1>2, <1>3, <1>4, <1>5, <1>6, ScanInv

\* A seek to an index by reading.
LEMMA LinearSeekIndexInv ==
  ASSUME Inv, pc = "idle", "seek_n" \in Ops, NEW n \in Nat, LinearSeekIndex(n)
  PROVE  Inv'
  <1> DEFINE o == IF n < nread THEN Rewound ELSE off
             seen == IF n < nread THEN 0 ELSE nread
             h == o + (n - seen)
  <1>1. /\ ~CanFastSeek /\ n \in 0 .. Total
        /\ ScanTo(o, h) /\ Reposition(Smaller(h, Total), TimeAt(h, n), n, TimeAt(h, n))
    BY DEF LinearSeekIndex
  <1>2. Total \in Nat /\ NW \in Nat /\ nread \in Nat
    BY Types
  <1>3. o \in 0 .. NW /\ seen \in Nat /\ seen <= o /\ seen <= n
    BY <1>1, <1>2, ScanStart
  <1> HIDE DEF o, seen
  <1>4. h \in Nat /\ o <= h /\ n <= h /\ n <= Total
    BY <1>1, <1>2, <1>3
  <1> HIDE DEF h
  <1>5. Smaller(h, Total) \in Nat
    BY <1>2, <1>4 DEF Smaller
  <1> QED  BY <1>1, <1>2, <1>3, <1>4, <1>5, ScanInv

-----------------------------------------------------------------------------
(* The invariant holds.                                                    *)

\* Any seek.
LEMMA SeekInv ==
  ASSUME Inv, Seek
  PROVE  Inv'
  <1>1. pc = "idle" /\ SeekTimes \subseteq Nat /\ SeekIndexes \subseteq Nat
    BY SizesAssumption DEF Seek
  <1>2. CASE "seek_t" \in Ops /\ \E t \in Nat : SeekTime(t) \/ LinearSeekTime(t)
    BY <1>1, <1>2, SeekTimeInv, LinearSeekTimeInv
  <1>3. CASE "seek_n" \in Ops /\ \E n \in Nat : SeekIndex(n) \/ LinearSeekIndex(n)
    BY <1>1, <1>3, SeekIndexInv, LinearSeekIndexInv
  <1>4. \/ "seek_t" \in Ops /\ \E t \in Nat : SeekTime(t) \/ LinearSeekTime(t)
        \/ "seek_n" \in Ops /\ \E n \in Nat : SeekIndex(n) \/ LinearSeekIndex(n)
    BY <1>1 DEF Seek
  <1> QED  BY <1>2, <1>3, <1>4

\* Any step of a call.
LEMMA InCallInv ==
  ASSUME Inv, QuietTails, InCall
  PROVE  Inv'
  <1>1. CASE CountDecode \/ CountReturn \/ ChunkReturn
    BY <1>1, CountDecodeInv, CountReturnInv, ChunkReturnInv
  <1>2. CASE Seed \/ DtDecode \/ DtAnchor \/ DtNothing \/ DtReturn
    BY <1>2, SeedInv, DtDecodeInv, DtAnchorInv, DtNothingInv, DtReturnInv
  <1>3. CASE Peek \/ PeekNothing \/ OpenWindow
    BY <1>3, PeekInv, PeekNothingInv, OpenWindowInv
  <1>4. CASE WindowDone \/ WindowTail \/ WindowInput \/ WindowGrow \/ WindowCapped
    BY <1>4, WindowDoneInv, WindowTailInv, WindowInputInv, WindowGrowInv, WindowCappedInv
  <1>5. CASE Fill \/ Anchor \/ GatherNothing \/ GatherCut \/ GatherDrained
    BY <1>5, FillStepInv, AnchorStepInv, GatherNothingInv, GatherCutInv, GatherDrainedInv
  <1> QED  BY <1>1, <1>2, <1>3, <1>4, <1>5 DEF InCall

\* Every step keeps the invariant.
THEOREM NextInv == Inv /\ QuietTails /\ [Next]_vars => Inv'
  <1> SUFFICES ASSUME Inv, QuietTails, [Next]_vars
               PROVE  Inv'
    OBVIOUS
  <1>1. CASE Read
    <2>1. PICK d \in DeltaTs \cup {None}, n \in Ns \cup {None} : Enter(d, n)
      BY <1>1 DEF Read
    <2> QED  BY <1>1, <2>1, EnterInv DEF Read
  <1>2. CASE IterNext
    <2>1. None \in DeltaTs \cup {None} /\ None \in Ns \cup {None}
      OBVIOUS
    <2> QED  BY <1>2, <2>1, EnterInv DEF IterNext
  <1>3. CASE IterBegin \/ IterEnd
    <2>1. UNCHANGED <<cfg, bufs, rvars, pc, call, hist>> /\ iter' \in BOOLEAN
      BY <1>3 DEF IterBegin, IterEnd
    <2> QED  BY <2>1, IterInv
  <1>4. CASE InCall
    BY <1>4, InCallInv
  <1>5. CASE ReadAll \/ Reset \/ Seek
    BY <1>5, ReadAllInv, ResetInv, SeekInv
  <1>6. CASE UNCHANGED vars
    <2>1. UNCHANGED <<cfg, bufs, rvars, pc, call, hist>> /\ iter' = iter
      BY <1>6 DEF vars
    <2>2. iter \in BOOLEAN
      BY Types
    <2> QED  BY <2>1, <2>2, IterInv
  <1> QED  BY <1>1, <1>2, <1>3, <1>4, <1>5, <1>6 DEF Next

\* So it holds for ever.
THEOREM Invariance == QuietTails => (Spec => []Inv)
  <1> SUFFICES ASSUME QuietTails
               PROVE  Spec => []Inv
    OBVIOUS
  <1>1. Init => Inv
    BY InitInv
  <1>2. Inv /\ [Next]_vars => Inv'
    BY NextInv
  <1> QED  BY <1>1, <1>2, PTL DEF Spec

-----------------------------------------------------------------------------
(* What it says to the user.                                               *)

\* No reader of a csv file that cannot seek is reset: it would find nothing left.
SteadySources == \A c \in Configs : c.kind = "csv" /\ c.pipe => "reset" \notin Ops

\* The user's cursor is where the reader is.
LEMMA CursorIsHere ==
  ASSUME Inv, SteadySources
  PROVE  Here = Pos
  BY Types DEF SteadySources, Steady, Inv, GotInv

\* A tail consists of events of the recording.
LEMMA TailType ==
  ASSUME NEW n \in Nat, NEW r \in Nat, r <= n, NEW s, IsTail(s, r)
  PROVE  s \in Seq(1 .. n)
  <1>1. PICK k \in Nat : k <= r /\ s = Run(k, r)
    BY TailIsRun
  <1>2. k \in 0 .. n /\ r \in 0 .. n
    BY <1>1
  <1> QED  BY <1>1, <1>2, RunType

\* The invariant implies each of the properties below.
LEMMA InvTypeOK ==
  ASSUME Inv
  PROVE  TypeOK
  <1>1. /\ TypeInv /\ Total \in Nat /\ Reached \in Nat /\ Reached <= Total
        /\ Here \in Nat /\ Here <= Total /\ IsTail(got, Here)
        /\ IsTail(acc, Reached) /\ IsTail(carry, Reached) /\ IsTail(out, Reached)
        /\ call.dt \in Nat \ {0} /\ call.ne \in Nat \ {0} /\ call.cap \in Nat
    BY Types DEF BufferInv
  <1>2. /\ got \in Seq(1 .. Total) /\ acc \in Seq(1 .. Total)
        /\ carry \in Seq(1 .. Total) /\ out \in Seq(1 .. Total)
    BY <1>1, TailType
  <1>3. win.ev \in Seq(1 .. Total)
    BY <1>1 DEF TypeInv
  <1> QED  BY <1>1, <1>2, <1>3 DEF TypeOK, TypeInv, PcStates

\* Nothing is lost or repeated.
LEMMA InvLossless ==
  ASSUME Inv, SteadySources
  PROVE  Lossless
  <1>1. Here = Pos /\ IsTail(got, Here) /\ base \in Nat /\ Len(got) \in Nat
    BY Types, CursorIsHere
  <1>2. Pos - Len(got) = base
    BY <1>1 DEF Pos
  <1>3. got = Run(base, Pos)
    BY <1>1, <1>2 DEF IsTail
  <1>4. ASSUME pc = "idle"
        PROVE  acc \o carry = Run(Pos, rec.cum[off])
    <2>1. IsTail(acc \o carry, Reached) /\ Here = Reached - Len(acc \o carry)
      BY <1>4, IdleFacts
    <2> QED  BY <1>1, <2>1 DEF IsTail, Reached
  <1> QED  BY <1>3, <1>4 DEF Lossless

\* The last window is cut exactly.
LEMMA InvWindowExact ==
  ASSUME Inv, SteadySources
  PROVE  WindowExact
  <1>1. Here = Pos
    BY CursorIsHere
  <1>2. SUFFICES ASSUME pc = "idle"
                 PROVE  WindowExact
    BY DEF WindowExact
  <1>3. WindowAt(win, Pos, rec.ts, Total)
    BY <1>1, <1>2 DEF Inv, WindowInv
  <1> QED  BY <1>3 DEF WindowAt, WindowExact, Ts

\* The clock is behind the cursor.
LEMMA InvClock ==
  ASSUME Inv, SteadySources
  PROVE  ClockBehindCursor
  BY CursorIsHere DEF Inv, ClockInv, ClockBehindCursor

\* The counter is the cursor.
LEMMA InvCounter ==
  ASSUME Inv
  PROVE  CounterIsCursor
  BY DEF Inv, CounterInv, GotInv, CounterIsCursor, Steady

\* Where nothing is held the reader is where the decoder is.
LEMMA InvEof ==
  ASSUME Inv, SteadySources
  PROVE  EofComplete
  <1> SUFFICES ASSUME pc = "idle", IsEof
               PROVE  Pos = Total
    BY DEF EofComplete
  <1>1. off = NW /\ carry = <<>> /\ acc = <<>> /\ out = <<>> /\ TypeInv /\ BufferInv
    BY IdleFacts, Types DEF Inv, EofInv, IsEof
  <1>2. Here = Reached
    BY <1>1, StateFacts
  <1> QED  BY <1>1, <1>2, CursorIsHere DEF Reached, Total

-----------------------------------------------------------------------------
(* A step as its user sees it: nothing happens, a call returns events or    *)
(* none, or the cursor is moved.                                           *)

Unseen == UNCHANGED <<cfg, hist>> /\ IsEof' = IsEof

HandsOut == \E ev, org, why : Return(ev, org, why)

MovesTo ==
  /\ pc = "idle" /\ pc' = "idle" /\ cfg' = cfg
  /\ got' = <<>> /\ win' = NoWindow /\ origins' \in {origins, {}}

\* A step of a call does not show, unless it returns.
LEMMA StepWithin ==
  ASSUME Inv, InCall
  PROVE  Unseen \/ HandsOut \/ ReturnNothing
  <1>1. eof => off = NW /\ carry = <<>>
    BY DEF Inv, EofInv
  <1>2. CASE CountReturn \/ ChunkReturn \/ DtReturn \/ WindowDone \/ WindowTail \/ WindowCapped
             \/ GatherCut \/ GatherDrained
    BY <1>2 DEF CountReturn, ChunkReturn, DtReturn, WindowDone, WindowTail, WindowCapped,
                GatherCut, GatherDrained, WindowReturn, GatherReturn, HandsOut
  <1>3. CASE DtNothing \/ PeekNothing \/ GatherNothing
    BY <1>3 DEF DtNothing, PeekNothing, GatherNothing
  <1>4. CASE CountDecode \/ Seed \/ DtDecode \/ DtAnchor \/ OpenWindow
             \/ WindowInput \/ WindowGrow \/ Anchor
    <2>1. /\ cfg' = cfg /\ hist' = hist /\ eof' = eof /\ acc' = acc
      BY <1>4 DEF CountDecode, Seed, DtDecode, DtAnchor, OpenWindow, WindowInput, WindowGrow,
                  Anchor, Stay, Goto, rvars, bufs, hist
    <2> QED  BY <2>1 DEF Unseen, IsEof
  <1>5. CASE Fill
    <2>1. cfg' = cfg /\ hist' = hist /\ eof' = eof /\ off # NW
      BY <1>5 DEF Fill, Stay, rvars, DecEof
    <2> QED  BY <1>1, <2>1 DEF Unseen, IsEof
  <1>6. CASE Peek
    <2>1. cfg' = cfg /\ hist' = hist /\ eof' = FALSE /\ rec.cum[off] < Total
      BY <1>6 DEF Peek
    <2>2. off # NW
      <3>1. Total \in Nat
        BY Types
      <3> QED  BY <2>1, <3>1 DEF Total
    <2> QED  BY <1>1, <2>1, <2>2 DEF Unseen, IsEof
  <1> QED  BY <1>2, <1>3, <1>4, <1>5, <1>6 DEF InCall

\* And there is no other kind of step.
LEMMA StepKinds ==
  ASSUME Inv, [Next]_vars
  PROVE  Unseen \/ HandsOut \/ ReturnNothing \/ MovesTo
  <1>1. (eof => off = NW /\ carry = <<>>) /\ eof \in BOOLEAN
    BY Types DEF Inv, EofInv
  <1>2. ASSUME NEW d, NEW n, Enter(d, n), pc = "idle"
        PROVE  Unseen
    <2>1. cfg' = cfg /\ hist' = hist
      BY <1>2 DEF Enter
    <2>2. CASE EnterFast(d, n)
      BY <2>1, <2>2 DEF EnterFast, Unseen, IsEof
    <2>3. CASE EnterStaged(d, n)
      <3>1. acc' = acc \o carry /\ eof' = (eof /\ carry = <<>>)
        BY <2>3 DEF EnterStaged
      <3>2. acc \in Seq(Nat)
        BY <1>2, IdleFacts
      <3>3. carry = <<>> => acc' = acc
        BY <3>1, <3>2
      <3> QED  BY <1>1, <2>1, <3>1, <3>3 DEF Unseen, IsEof
    <2> QED  BY <1>2, <2>2, <2>3 DEF Enter
  <1>3. CASE Read \/ IterNext
    BY <1>2, <1>3 DEF Read, IterNext
  <1>4. CASE IterBegin \/ IterEnd \/ UNCHANGED vars
    <2>1. cfg' = cfg /\ hist' = hist /\ eof' = eof /\ acc' = acc
      BY <1>4 DEF IterBegin, IterEnd, vars, bufs, rvars
    <2> QED  BY <2>1 DEF Unseen, IsEof
  <1>5. CASE ReadAll
    BY <1>5 DEF ReadAll, HandsOut
  <1>6. CASE Reset
    BY <1>6 DEF Reset, MovesTo
  <1>7. CASE Seek
    <2>1. pc = "idle" /\ \E k, ts, index, orig : Reposition(k, ts, index, orig)
      BY <1>7 DEF Seek, SeekTime, SeekIndex, LinearSeekTime, LinearSeekIndex
    <2> QED  BY <2>1 DEF Reposition, MovesTo
  <1> QED  BY <1>3, <1>4, <1>5, <1>6, <1>7, StepWithin DEF Next

\* The shift of a window is known from its first event: a recording of no events
\* is never shifted.
NoOrigin == Total = 0 => origins = {}

\* A recording of no events hands out none.
LEMMA NoOriginInv ==
  ASSUME Inv, Inv', NoOrigin, [Next]_vars
  PROVE  NoOrigin'
  <1>1. CASE HandsOut
    <2>1. PICK ev, org, why : Return(ev, org, why)
      BY <1>1 DEF HandsOut
    <2>2. /\ cfg' = cfg /\ win'.ev = ev
          /\ origins' = IF ev = <<>> \/ org = None THEN origins ELSE origins \cup {org}
      BY <2>1 DEF Return
    <2>3. Total' = Total /\ ev \in Seq(1 .. Total)
      <3>1. TypeInv'
        BY DEF Inv
      <3>2. Total' = Total
        BY <2>2, Fixed
      <3> QED  BY <2>2, <3>1, <3>2 DEF TypeInv
    <2>4. ASSUME Total = 0
          PROVE  ev = <<>>
      <3>1. ev \in Seq(1 .. 0)
        BY <2>3, <2>4
      <3> QED  BY <3>1
    <2> QED  BY <2>2, <2>3, <2>4 DEF NoOrigin
  <1>2. CASE Unseen \/ ReturnNothing \/ MovesTo
    <2>1. cfg' = cfg /\ origins' \in {origins, {}}
      BY <1>2 DEF Unseen, ReturnNothing, MovesTo, hist
    <2>2. Total' = Total
      BY <2>1, Fixed
    <2> QED  BY <2>1, <2>2 DEF NoOrigin
  <1> QED  BY <1>1, <1>2, StepKinds

\* The shift is the time of the first event.
LEMMA InvOrigin ==
  ASSUME Inv, NoOrigin
  PROVE  SeeksKeepOrigin
  <1>1. Total \in Nat
    BY Types
  <1>2. Total = 0 \/ Total > 0
    BY <1>1
  <1> QED  BY <1>2 DEF Inv, OriginInv, NoOrigin, SeeksKeepOrigin, NormalizedFromStart

\* The cursor is inside the recording.
LEMMA CursorInside ==
  ASSUME Inv, SteadySources
  PROVE  Pos \in 0 .. Total
  BY CursorIsHere, Types

\* What the invariant says in the next state.
LEMMA NextFacts ==
  ASSUME Inv', SteadySources
  PROVE  TypeOK' /\ Lossless' /\ EofComplete' /\ (Pos \in 0 .. Total)'
  BY InvTypeOK, InvLossless, InvEof, CursorInside, PTL

\* Between calls is_eof() is true at the end of the recording only.
LEMMA EndedAtEnd ==
  ASSUME Inv', SteadySources, pc' = "idle"
  PROVE  IsEof' \in {FALSE, Pos' = Total'}
  <1>1. IsEof' => Pos' = Total'
    BY NextFacts DEF EofComplete
  <1>2. IsEof' \in BOOLEAN
    BY DEF IsEof
  <1> QED  BY <1>1, <1>2

\* A call that returns is a read of the cursor.
LEMMA ReturnIsRead ==
  ASSUME Inv, Inv', SteadySources, NEW ev, NEW org, NEW why, Return(ev, org, why)
  PROVE  Cursor!Read
  <1>1. /\ cfg' = cfg /\ base' = base /\ got' = got \o ev /\ win'.ev = ev /\ pc' = "idle"
    BY DEF Return
  <1>2. Total' = Total /\ Total \in Nat /\ base \in Nat /\ Len(got) \in Nat
    BY <1>1, Types, Fixed
  <1>3. got = Run(base, Pos) /\ got' = Run(base, Pos') /\ Pos = base + Len(got)
    BY <1>1, InvLossless, NextFacts DEF Lossless, Pos
  <1>4. got \in Seq(1 .. Total) /\ ev \in Seq(1 .. Total)
    <2>1. TypeOK' /\ TypeOK
      BY NextFacts, InvTypeOK
    <2> QED  BY <1>1, <1>2, <2>1 DEF TypeOK
  <1> DEFINE n == Len(ev)
  <1>5. n \in Nat /\ Len(got \o ev) = Len(got) + n
    BY <1>4
  <1> HIDE DEF n
  <1>6. Pos \in Nat /\ Pos' = Pos + n
    <2>1. Pos' = base + Len(got \o ev)
      BY <1>1 DEF Pos
    <2> QED  BY <1>2, <1>3, <1>5, <2>1
  <1>7. Pos' <= Total
    <2>1. Pos' \in 0 .. Total'
      BY NextFacts
    <2> QED  BY <1>2, <2>1
  <1>8. n \in 0 .. (Total - Pos)
    BY <1>2, <1>5, <1>6, <1>7
  <1>9. ev = [i \in 1 .. n |-> Pos + i]
    <2>1. \A i \in 1 .. n : ev[i] = (got \o ev)[Len(got) + i]
      BY <1>4 DEF n
    <2> DEFINE m == Len(got) + n
    <2>2. m \in Nat /\ \A i \in 1 .. n : Len(got) + i \in 1 .. m
      BY <1>2, <1>5
    <2>3. Pos + n = base + m /\ \A i \in 1 .. n : base + (Len(got) + i) = Pos + i
      BY <1>2, <1>3, <1>5
    <2> HIDE DEF m
    <2>4. got \o ev = Run(base, base + m)
      BY <1>1, <1>3, <1>6, <2>3
    <2>5. \A j \in 1 .. m : Run(base, base + m)[j] = base + j
      BY <1>2, <2>2, RunOf
    <2>6. \A i \in 1 .. n : ev[i] = Pos + i
      BY <2>1, <2>2, <2>3, <2>4, <2>5
    <2> QED  BY <1>4, <2>6 DEF n
  <1>10. IsEof' \in {FALSE, Pos + n = Total}
    BY <1>1, <1>2, <1>6, EndedAtEnd
  <1> QED  BY <1>1, <1>2, <1>6, <1>8, <1>9, <1>10 DEF Cursor!Read

\* A call that returns nothing is a read of no events.
LEMMA NothingIsRead ==
  ASSUME Inv, Inv', SteadySources, ReturnNothing
  PROVE  Cursor!Read
  <1>1. /\ cfg' = cfg /\ base' = base /\ got' = got /\ win'.ev = <<>> /\ pc' = "idle"
    BY DEF ReturnNothing, NoWindow
  <1>2. Total' = Total /\ Total \in Nat /\ Here \in Nat /\ Here <= Total
    BY <1>1, Types, Fixed
  <1>3. Pos \in Nat /\ Pos <= Total /\ Pos' = Pos
    BY <1>1, <1>2, CursorIsHere DEF Pos
  <1>4. 0 \in 0 .. (Total - Pos) /\ Pos + 0 = Pos
    BY <1>2, <1>3
  <1>5. <<>> = [i \in 1 .. 0 |-> Pos + i]
    OBVIOUS
  <1>6. IsEof' \in {FALSE, Pos = Total}
    BY <1>1, <1>2, <1>3, EndedAtEnd
  <1>7. /\ win'.ev = [i \in 1 .. 0 |-> Pos + i] /\ Pos' = Pos + 0
        /\ IsEof' \in {FALSE, Pos + 0 = Total}
    BY <1>1, <1>3, <1>4, <1>5, <1>6
  <1> QED  BY <1>2, <1>4, <1>7 DEF Cursor!Read

\* A seek or a reset is a move of the cursor.
LEMMA MoveIsMove ==
  ASSUME Inv, Inv', SteadySources, MovesTo
  PROVE  Cursor!Move
  <1>1. cfg' = cfg /\ win'.ev = <<>> /\ pc' = "idle"
    BY DEF MovesTo, NoWindow
  <1>2. Total' = Total
    BY <1>1, Fixed
  <1>4. Pos' \in 0 .. Total
    BY <1>2, NextFacts
  <1>5. IsEof' \in {FALSE, Pos' = Total}
    BY <1>1, <1>2, EndedAtEnd
  <1> QED  BY <1>1, <1>2, <1>4, <1>5 DEF Cursor!Move

\* Every step of the reader is a step of the cursor, or none.
LEMMA CursorStep ==
  ASSUME Inv, Inv', SteadySources, [Next]_vars
  PROVE  [Cursor!Read \/ Cursor!Move]_Cursor!vars
  <1>1. CASE Unseen
    <2>1. UNCHANGED <<cfg, base, got, win>> /\ IsEof' = IsEof
      BY <1>1 DEF Unseen, hist
    <2>2. Total' = Total /\ Pos' = Pos /\ win'.ev = win.ev
      BY <2>1, Fixed DEF Pos
    <2> QED  BY <2>1, <2>2 DEF Cursor!vars
  <1>2. CASE HandsOut
    BY <1>2, ReturnIsRead DEF HandsOut
  <1>3. CASE ReturnNothing
    BY <1>3, NothingIsRead
  <1>4. CASE MovesTo
    BY <1>4, MoveIsMove
  <1> QED  BY <1>1, <1>2, <1>3, <1>4, StepKinds

\* A new reader is a new cursor.
LEMMA CursorInit ==
  ASSUME Init
  PROVE  Cursor!Init
  <1>1. cfg \in Configs /\ base = 0 /\ got = <<>> /\ win = NoWindow /\ eof = FALSE
    BY DEF Init
  <1>2. Total \in Nat
    BY <1>1, RecordingFacts
  <1>3. Pos = 0
    <2>1. Len(<<>>) = 0
      OBVIOUS
    <2> QED  BY <1>1, <2>1 DEF Pos
  <1> QED  BY <1>1, <1>2, <1>3 DEF Cursor!Init, NoWindow, IsEof

-----------------------------------------------------------------------------
(* The theorems.                                                           *)

\* Whatever the recording, the decoder and the calls: every variable keeps its
\* type, so no buffer ever holds anything but events of the recording and
\* neither the clock nor the event counter goes below zero.
THEOREM ReaderTypeCorrect ==
  ASSUME QuietTails
  PROVE  Spec => []TypeOK
  <1>1. Inv => TypeOK
    BY InvTypeOK
  <1> QED  BY <1>1, Invariance, PTL

\* Reads on all four paths of _read_impl, in any order, with any overrides, hand
\* out every event once and in order from where the last seek or reset put the
\* reader; what it has decoded ahead is what comes next.
THEOREM ReaderLossless ==
  ASSUME QuietTails, SteadySources
  PROVE  Spec => []Lossless
  <1>1. Inv => Lossless
    BY InvLossless
  <1> QED  BY <1>1, Invariance, PTL

\* A window that is cut by time holds the events of [lo, hi) that were left, a
\* capped one has its full count, a counted one is short at the end only.
THEOREM ReaderWindowExact ==
  ASSUME QuietTails, SteadySources
  PROVE  Spec => []WindowExact
  <1>1. Inv => WindowExact
    BY InvWindowExact
  <1> QED  BY <1>1, Invariance, PTL

\* No event falls between two windows: _current_ts is never ahead of the next.
THEOREM ReaderClockBehindCursor ==
  ASSUME QuietTails, SteadySources
  PROVE  Spec => []ClockBehindCursor
  <1>1. Inv => ClockBehindCursor
    BY InvClock
  <1> QED  BY <1>1, Invariance, PTL

\* is_eof() is true only when every event has been handed out.
THEOREM ReaderEofComplete ==
  ASSUME QuietTails, SteadySources
  PROVE  Spec => []EofComplete
  <1>1. Inv => EofComplete
    BY InvEof
  <1> QED  BY <1>1, Invariance, PTL

\* len(reader) is the index of the cursor, wherever the decoder can seek and knows
\* the index it seeks to.
THEOREM ReaderCounterIsCursor ==
  ASSUME QuietTails
  PROVE  Spec => []CounterIsCursor
  <1>1. Inv => CounterIsCursor
    BY InvCounter
  <1> QED  BY <1>1, Invariance, PTL

\* Every window is shifted by the timestamp of the first event of the recording, in
\* whatever order reads, read_all() and seeks come.
THEOREM ReaderKeepsOrigin ==
  ASSUME QuietTails
  PROVE  Spec => []SeeksKeepOrigin
  <1>1. Init => NoOrigin
    BY DEF Init, NoOrigin
  <1>2. Inv /\ Inv' /\ NoOrigin /\ [Next]_vars => NoOrigin'
    BY NoOriginInv
  <1>3. Inv /\ NoOrigin => SeeksKeepOrigin
    BY InvOrigin
  <1> QED  BY <1>1, <1>2, <1>3, Invariance, PTL DEF Spec

\* The reader implements the cursor: a call that returns is one Read of it, however
\* many decoder calls and whichever path it took, a seek or a reset one Move, and
\* what goes on inside a call does not show.
THEOREM ReaderIsCursor ==
  ASSUME QuietTails, SteadySources
  PROVE  Spec => ReadsLikeCursor
  <1>1. Init => Cursor!Init
    BY CursorInit
  <1>2. Inv /\ Inv' /\ [Next]_vars => [Cursor!Read \/ Cursor!Move]_Cursor!vars
    BY CursorStep
  <1> QED  BY <1>1, <1>2, Invariance, PTL DEF Spec, ReadsLikeCursor, Cursor!Spec
=============================================================================
