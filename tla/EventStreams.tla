---------------------------- MODULE EventStreams ----------------------------
(***************************************************************************)
(* The generators of chunking.py over an EventStreamer (io/stream.py): a   *)
(* stream of chunks, a stage that skips its beginning, a worker thread     *)
(* with a bounded queue (stream_async), and a stage that cuts windows of a *)
(* duration or of a number of events.  The consumer iterates the last of   *)
(* them and may abandon it between two windows.                            *)
(*                                                                         *)
(* An event or a trigger is [n |-> its number, t |-> its time].  The file  *)
(* is external: it is in time order, its events and its triggers each are, *)
(* and with skew they come in packets of their own, so that one kind may   *)
(* be ahead of the other.  Any chunk may have no event (the generators     *)
(* take any iterable of chunks); an EventStreamer ends at a chunk with     *)
(* nothing in it.                                                          *)
(***************************************************************************)
EXTENDS Arrays, SequencesExt, FiniteSets

CONSTANTS
  Steps,      \* time from one event or trigger to the next
  Delta,      \* delta_t
  Count,      \* n_events
  SkipTime,   \* start_ts
  SkipCount,  \* n of stream_skip_to_event
  MaxSize,    \* maxsize of the queue of stream_async
  Skews,      \* whether events and triggers may be ahead of each other
  MaxItems,   \* bounds of the model: events and triggers of the file,
  MaxChunk,   \* of a chunk,
  MaxBlanks   \* and chunks with nothing in them

ASSUME StreamsAssumption ==
  /\ Steps \subseteq Nat
  /\ Delta \in Nat \ {0} /\ Count \in Nat \ {0} /\ MaxSize \in Nat \ {0}
  /\ SkipTime \in Nat /\ SkipCount \in Nat
  /\ Skews \subseteq BOOLEAN
  /\ {MaxItems, MaxChunk, MaxBlanks} \subseteq Nat

None == -1
Nothing == [ev |-> <<>>, tr |-> <<>>]
Sentinel == [kind |-> "none"]
Failure == [kind |-> "exception"]

VARIABLES
  opt,      \* the stages of the pipeline and what the file is (never changes)
  file,     \* the events and the triggers decoded so far
  src,      \* the decoder: "open", "done" or "failed"
  blanks,   \* chunks with nothing in them that are still to come
  buf,      \* its buffers, which the next read_chunk() overwrites
  skip,     \* skipping, and seen, of the skip stage
  worker,   \* control of the worker of stream_async
  item,     \* what it is putting
  queue,
  acc,      \* the EventAccumulator of the cutting stage
  anchor,   \* current_ts of stream_delta_t
  pc,       \* control of the consumer in the cutting stage
  out       \* the windows handed to the consumer, with the time they end at

svars == <<file, src, blanks, buf>>
avars == <<worker, item, queue>>
cvars == <<acc, anchor, pc, out>>
vars == <<opt, svars, skip, avars, cvars>>

Pipelines == [trig : BOOLEAN, skew : Skews, async : BOOLEAN,
              skip : {"none", "time", "event"}, cut : {"none", "time", "count"}]

\* Only a stream with triggers has a skew, and it is looked at without a
\* skipping stage; blanks is 0 in a stream of an EventStreamer.
Init ==
  /\ opt \in {o \in Pipelines : o.skew => o.trig /\ o.skip = "none"}
  /\ file = Nothing /\ src = "open" /\ blanks \in 0 .. MaxBlanks /\ buf = Nothing
  /\ skip = [on |-> opt.skip # "none", seen |-> 0]
  /\ worker = (IF opt.async THEN "pull" ELSE "exited")
  /\ item = Sentinel /\ queue = <<>>
  /\ acc = Nothing /\ anchor = None /\ pc = "pull" /\ out = <<>>

-----------------------------------------------------------------------------
(* numpy.searchsorted(side="left") on the times of s, and the two slices.  *)
Before(s, t) == CHOOSE i \in 0 .. Len(s) : \A j \in 1 .. Len(s) : s[j].t < t <=> j <= i

(* The file: each item of the next chunk is no earlier than what came in a *)
(* chunk before it, or what came of its kind.                              *)
Later == {s \in BoundedSeq(Steps, MaxChunk) : \A i, j \in DOMAIN s : i <= j => s[i] <= s[j]}
Packets == {s \in [ev : Later, tr : Later] : Len(s.ev) + Len(s.tr) <= MaxChunk}

Chunks ==
  {s \in Packets :
     /\ opt.trig \/ s.tr = <<>>
     /\ blanks > 0 \/ s.ev \o s.tr # <<>>
     /\ Len(file.ev \o file.tr \o s.ev \o s.tr) <= MaxItems}

LastTime(s) == IF s = <<>> THEN 0 ELSE Last(s).t

Clock(k) ==
  LET e == LastTime(file.ev)
      r == LastTime(file.tr)
  IN IF opt.skew THEN LastTime(file[k]) ELSE IF e > r THEN e ELSE r

\* Events and triggers of a chunk, numbered on from those before it.
Decoded(s) ==
  LET of(k) == [j \in 1 .. Len(s[k]) |->
                  [n |-> Len(file[k]) + j, t |-> Clock(k) + s[k][j]]]
  IN [ev |-> of("ev"), tr |-> of("tr")]

-----------------------------------------------------------------------------
(* The skipping stages: what is left of a chunk, and the state after it.   *)
SkipToTime(c) ==
  IF c.ev = <<>> \/ Last(c.ev).t < SkipTime
  THEN [chunk |-> Nothing, drop |-> TRUE, skip |-> skip]
  ELSE [chunk |-> [ev |-> Drop(c.ev, Before(c.ev, SkipTime)),
                   tr |-> Drop(c.tr, Before(c.tr, SkipTime))],
        drop |-> FALSE, skip |-> [skip EXCEPT !.on = FALSE]]

SkipToEvent(c) ==
  IF skip.seen + Len(c.ev) <= SkipCount
  THEN [chunk |-> Nothing, drop |-> TRUE,
        skip |-> [skip EXCEPT !.seen = @ + Len(c.ev)]]
  ELSE LET idx == SkipCount - skip.seen
       IN [chunk |-> [ev |-> Drop(c.ev, idx),
                      tr |-> Drop(c.tr, Before(c.tr, c.ev[idx + 1].t))],
           drop |-> FALSE, skip |-> [skip EXCEPT !.on = FALSE]]

Skipped(c) ==
  IF ~skip.on THEN [chunk |-> c, drop |-> FALSE, skip |-> skip]
  ELSE IF opt.skip = "time" THEN SkipToTime(c) ELSE SkipToEvent(c)

-----------------------------------------------------------------------------
(* stream_async.  The worker copies a chunk before it puts it; a chunk     *)
(* that is not copied shows what the buffers hold when it is looked at.    *)
\* Mutant: the chunk is put as it is.
Copied_Live(c) == [kind |-> "live"]

Copied(c) == [kind |-> "copy", chunk |-> c]

Contents(i) == IF i.kind = "copy" THEN i.chunk ELSE buf

\* The decoder's next chunk, of which the skipping stage leaves r.
Pull(d, r) ==
  /\ src = "open"
  /\ buf' = r.chunk
  /\ file' = [ev |-> file.ev \o d.ev, tr |-> file.tr \o d.tr]
  /\ skip' = r.skip
  /\ blanks' = IF d.ev \o d.tr = <<>> THEN blanks - 1 ELSE blanks
  /\ UNCHANGED src

\* It comes to its end, or raises.
PullEnd ==
  /\ src = "open"
  /\ src' \in {"done", "failed"}
  /\ UNCHANGED <<file, blanks, buf, skip>>

WorkerPull ==
  /\ worker = "pull"
  /\ \E s \in Chunks : \E d \in {Decoded(s)} : \E r \in {Skipped(d)} :
       /\ Pull(d, r)
       /\ IF r.drop THEN UNCHANGED <<worker, item>>
          ELSE worker' = "put" /\ item' = Copied(r.chunk)
  /\ UNCHANGED <<opt, queue, cvars>>

\* Mutant: the sentinel is put only behind an exception.
WorkerStops_NoSentinel ==
  /\ worker = "pull"
  /\ PullEnd
  /\ IF src' = "failed" THEN worker' = "put" /\ item' = Failure
     ELSE worker' = "exited" /\ item' = Sentinel
  /\ UNCHANGED <<opt, queue, cvars>>

WorkerStops ==
  /\ worker = "pull"
  /\ PullEnd
  /\ worker' = "put" /\ item' = (IF src' = "failed" THEN Failure ELSE Sentinel)
  /\ UNCHANGED <<opt, queue, cvars>>

\* q.put(): after an exception, and after the last chunk, the sentinel.
WorkerPut ==
  /\ worker = "put" /\ Len(queue) < MaxSize
  /\ queue' = Append(queue, item)
  /\ CASE item = Sentinel -> worker' = "exited" /\ item' = Sentinel
       [] item = Failure -> worker' = "put" /\ item' = Sentinel
       [] OTHER -> worker' = "pull" /\ item' = Sentinel
  /\ UNCHANGED <<opt, svars, skip, cvars>>

-----------------------------------------------------------------------------
(* The cutting stages, in the consumer's thread.  A chunk is appended to   *)
(* the accumulator; without a cutting stage it is handed on as it is.      *)
Window(ev, tr, end) == [ev |-> ev, tr |-> tr, end |-> end]

Received(c) ==
  IF opt.cut = "none"
  THEN /\ out' = Append(out, Window(c.ev, c.tr, None)) /\ pc' = "held"
       /\ UNCHANGED <<acc, anchor>>
  ELSE /\ acc' = [ev |-> acc.ev \o c.ev, tr |-> acc.tr \o c.tr]
       /\ pc' = "cut"
       /\ UNCHANGED <<anchor, out>>

\* Mutant: the leftover is forgotten.
Stopped_NoRest(s) ==
  /\ pc' = (IF s = "failed" THEN "raised" ELSE "ended")
  /\ UNCHANGED <<acc, anchor, out>>

Stopped(s) ==
  /\ pc' = (IF s = "failed" THEN "raised" ELSE IF opt.cut = "none" THEN "ended" ELSE "rest")
  /\ UNCHANGED <<acc, anchor, out>>

ConsumerPull ==
  /\ pc = "pull" /\ ~opt.async
  /\ \E s \in Chunks : \E d \in {Decoded(s)} : \E r \in {Skipped(d)} :
       /\ Pull(d, r)
       /\ IF r.drop THEN UNCHANGED cvars ELSE Received(r.chunk)
  /\ UNCHANGED <<opt, avars>>

ConsumerStops ==
  /\ pc = "pull" /\ ~opt.async
  /\ PullEnd
  /\ Stopped(src')
  /\ UNCHANGED <<opt, avars>>

ConsumerGet ==
  /\ pc = "pull" /\ opt.async /\ queue # <<>>
  /\ queue' = Tail(queue)
  /\ CASE Head(queue) = Sentinel -> Stopped("done")
       [] Head(queue) = Failure -> Stopped("failed")
       [] OTHER -> Received(Contents(Head(queue)))
  /\ UNCHANGED <<opt, svars, skip, worker, item>>

Yield(k, m, end) ==
  /\ out' = Append(out, Window(Take(acc.ev, k), Take(acc.tr, m), end))
  /\ acc' = [ev |-> Drop(acc.ev, k), tr |-> Drop(acc.tr, m)]
  /\ pc' = "held"

\* stream_delta_t: the first window begins at the first event, or at the
\* first trigger when there is no event yet.
Anchor ==
  IF anchor # None THEN anchor
  ELSE IF acc.ev # <<>> THEN Head(acc.ev).t
  ELSE IF acc.tr # <<>> THEN Head(acc.tr).t
  ELSE None

\* Mutant: only the events say how far the stream is.
Latest_EventsOnly == IF acc.ev = <<>> THEN -1 ELSE Last(acc.ev).t

Latest ==
  LET e == IF acc.ev = <<>> THEN -1 ELSE Last(acc.ev).t
  IN IF acc.tr # <<>> /\ Last(acc.tr).t > e THEN Last(acc.tr).t ELSE e

\* Mutant: <= for < in the test for a full window.
CutTime_Late ==
  /\ pc = "cut" /\ opt.cut = "time"
  /\ IF acc = Nothing \/ Latest <= Anchor + Delta
     THEN /\ pc' = "pull"
          /\ anchor' = IF acc = Nothing THEN anchor ELSE Anchor
          /\ UNCHANGED <<acc, out>>
     ELSE /\ Yield(Before(acc.ev, Anchor + Delta), Before(acc.tr, Anchor + Delta),
                Anchor + Delta)
          /\ anchor' = Anchor + Delta
  /\ UNCHANGED <<opt, svars, skip, avars>>

CutTime ==
  /\ pc = "cut" /\ opt.cut = "time"
  /\ IF acc = Nothing \/ Latest < Anchor + Delta
     THEN /\ pc' = "pull"
          /\ anchor' = IF acc = Nothing THEN anchor ELSE Anchor
          /\ UNCHANGED <<acc, out>>
     ELSE /\ Yield(Before(acc.ev, Anchor + Delta), Before(acc.tr, Anchor + Delta),
                Anchor + Delta)
          /\ anchor' = Anchor + Delta
  /\ UNCHANGED <<opt, svars, skip, avars>>

\* stream_n_events: with exactly n events at hand their window takes every
\* trigger at hand, with more it takes those before the next event.
TriggersOfCount ==
  IF Len(acc.ev) = Count THEN Len(acc.tr) ELSE Before(acc.tr, acc.ev[Count + 1].t)

CutCount ==
  /\ pc = "cut" /\ opt.cut = "count"
  /\ IF Len(acc.ev) < Count THEN pc' = "pull" /\ UNCHANGED <<acc, out>>
     ELSE Yield(Count, TriggersOfCount, None)
  /\ UNCHANGED <<opt, svars, skip, avars, anchor>>

\* The leftover at the end of the stream.
Rest ==
  /\ pc = "rest"
  /\ IF acc = Nothing THEN UNCHANGED <<acc, out>>
     ELSE /\ out' = Append(out, Window(acc.ev, acc.tr, None)) /\ acc' = Nothing
  /\ pc' = "ended"
  /\ UNCHANGED <<opt, svars, skip, avars, anchor>>

\* The consumer asks for the next window, or drops the generator.
Ask ==
  /\ pc = "held"
  /\ pc' = (IF opt.cut = "none" THEN "pull" ELSE "cut")
  /\ UNCHANGED <<opt, svars, skip, avars, acc, anchor, out>>

Abandon ==
  /\ pc = "held"
  /\ pc' = "gone"
  /\ UNCHANGED <<opt, svars, skip, avars, acc, anchor, out>>

Next ==
  \/ WorkerPull \/ WorkerStops \/ WorkerPut
  \/ ConsumerPull \/ ConsumerStops \/ ConsumerGet \/ CutTime \/ CutCount \/ Rest
  \/ Ask \/ Abandon

\* Both threads are scheduled, and the consumer keeps asking unless it
\* abandons the generator.
Worker == WorkerPull \/ WorkerStops \/ WorkerPut
Consumer ==
  ConsumerPull \/ ConsumerStops \/ ConsumerGet \/ CutTime \/ CutCount \/ Rest \/ Ask

Spec == Init /\ [][Next]_vars /\ WF_vars(Worker) /\ WF_vars(Consumer)

-----------------------------------------------------------------------------
(* The same cuts on a whole array (window_delta_t, sliding_window): the    *)
(* loop, of which [i |-> index_start, t |-> current_ts] is the state.      *)
Rounds(s) == IF s = <<>> THEN 0 ELSE (Last(s).t - Head(s).t) \div Delta + 1

SlidingWindow(s, size, full) ==
  LET loop[k \in 0 .. Rounds(s)] ==
        IF k = 0 THEN [i |-> 0, t |-> Head(s).t, out |-> <<>>, on |-> TRUE]
        ELSE LET p == loop[k - 1]
                 rest == Drop(s, p.i)
                 n == Before(rest, p.t + size)
             IN IF ~p.on \/ p.i >= Len(s) THEN p
                ELSE IF full /\ p.i + n >= Len(s) THEN [p EXCEPT !.on = FALSE]
                ELSE [p EXCEPT !.i = @ + Before(rest, p.t + Delta), !.t = @ + Delta,
                               !.out = Append(@, Take(rest, n))]
  IN IF s = <<>> THEN <<>> ELSE loop[Rounds(s)].out

WindowDeltaT(s) ==
  LET loop[k \in 0 .. Rounds(s)] ==
        IF k = 0 THEN [i |-> 0, t |-> Head(s).t, out |-> <<>>]
        ELSE LET p == loop[k - 1]
                 n == Before(Drop(s, p.i), p.t + Delta)
             IN IF p.i >= Len(s) THEN p
                ELSE [i |-> p.i + n, t |-> p.t + Delta,
                      out |-> Append(p.out, Take(Drop(s, p.i), n))]
  IN IF s = <<>> THEN <<>> ELSE loop[Rounds(s)].out

GetDtEvents(s) == IF s = <<>> THEN s ELSE Take(s, Before(s, Head(s).t + Delta))

-----------------------------------------------------------------------------
(* Properties.                                                             *)

\* What came through the pipeline so far: handed out, waiting to be cut,
\* queued, and being put.
Column(ss, k) == [i \in 1 .. Len(ss) |-> ss[i][k]]

Load(i) == IF i.kind \in {"copy", "live"} THEN Contents(i) ELSE Nothing

Loads == [i \in 1 .. Len(queue) + 1 |-> Load(Append(queue, item)[i])]

Passed(k) == Flat(Column(out, k)) \o acc[k] \o Flat(Column(Loads, k))

\* A skipping stage keeps every trigger behind the first event it keeps, and
\* none from before the time, or the event, it skips to.
SkipKeepsTriggers ==
  LET first == Head(Passed("ev")).t IN
  /\ \A i \in DOMAIN file.tr : file.tr[i].t > first => file.tr[i] \in ToSet(Passed("tr"))
  /\ \A e \in ToSet(Passed("tr")) :
       e.t >= IF opt.skip = "time" THEN SkipTime ELSE first

\* No stage loses, repeats or reorders an event: from the end of the skipped
\* part on they all come through, even while the decoder fills its buffers
\* anew ahead of the consumer; and so do the triggers, as far as a skipping
\* stage does not drop them.
NothingLost ==
  /\ Passed("ev") = CASE opt.skip = "none" -> file.ev
                      [] opt.skip = "time" -> Drop(file.ev, Before(file.ev, SkipTime))
                      [] opt.skip = "event" -> Drop(file.ev, SkipCount)
  /\ \E m \in 0 .. Len(file.tr) : Passed("tr") = Drop(file.tr, m)
  /\ opt.skip = "none" => Passed("tr") = file.tr
  /\ opt.skip # "none" /\ Passed("ev") # <<>> => SkipKeepsTriggers

\* stream_delta_t cuts "perfect delta_t chunks": one window after the other
\* of Delta, whatever the chunks were; each holds nothing from its end on,
\* and nothing from before its beginning, except triggers in front of the
\* first event, and what comes late when the kinds are ahead of each other.
TimeWindows ==
  \A i \in DOMAIN out :
    LET prev == IF i = 1 THEN None ELSE out[i - 1].end
        end == IF out[i].end # None THEN out[i].end
               ELSE IF i = 1 THEN Anchor + Delta ELSE prev + Delta
    IN /\ i > 1 => prev # None /\ end = prev + Delta
       /\ \A e \in ToSet(out[i].ev \o out[i].tr) : i > 1 \/ out[i].end # None => e.t < end
       /\ ~opt.skew =>
            /\ \A e \in ToSet(out[i].ev) : out[i].end # None => e.t >= end - Delta
            /\ i > 1 => \A e \in ToSet(out[i].ev \o out[i].tr) : e.t >= prev

\* stream_n_events: every window but the last has n events, and its triggers
\* are not from before the last event of the window in front of it, nor from
\* behind the first event of the next.
CountWindows ==
  \A i \in DOMAIN out :
    /\ Len(out[i].ev) = Count \/ (i = Len(out) /\ pc = "ended" /\ Len(out[i].ev) < Count)
    /\ ~opt.skew =>
         \A e \in ToSet(out[i].tr) :
           /\ i > 1 => e.t >= Last(out[i - 1].ev).t
           /\ LET next == Flat(Column(Drop(out, i), "ev")) \o acc.ev
              IN next # <<>> => e.t <= Head(next).t

\* The windows a cutting stage hands out are those it promises, at any moment
\* and with every way the file may come in chunks (stream_delta_t and
\* stream_n_events).
WindowsPerfect ==
  /\ opt.cut = "time" => TimeWindows
  /\ opt.cut = "count" => CountWindows

\* A consumer that was not told of an error and sees the end has had
\* everything; an error of the decoder is never taken for the end, and comes
\* behind every chunk before it.
EndIsTrue ==
  /\ pc = "ended" => src = "done" /\ acc = Nothing
  /\ pc = "raised" => src = "failed"
  /\ pc \in {"ended", "raised"} => \A i \in ToSet(Append(queue, item)) : i = Sentinel

\* The functions on arrays: window k of window_delta_t and sliding_window is
\* what lies in its interval, and with full_window the windows that the array
\* reaches beyond; get_dt_events is the first window.
ArraysExact ==
  LET Window_(k, size) ==
        LET from == Head(file.ev).t + (k - 1) * Delta
        IN SelectSeq(file.ev, LAMBDA e : from <= e.t /\ e.t < from + size)
      Exact(ws, size, n) == ws = [k \in 1 .. n |-> Window_(k, size)]
      Reached(size) ==
        {k \in 1 .. Rounds(file.ev) : Last(file.ev).t >= Head(file.ev).t + (k - 1) * Delta + size}
  IN file.ev # <<>> =>
       /\ Exact(WindowDeltaT(file.ev), Delta, Rounds(file.ev))
       /\ \A size \in 1 .. 2 * Delta :
            /\ Exact(SlidingWindow(file.ev, size, FALSE), size, Rounds(file.ev))
            /\ Exact(SlidingWindow(file.ev, size, TRUE), size, Cardinality(Reached(size)))
       /\ GetDtEvents(file.ev) = Window_(1, Delta)

\* The windows of stream_delta_t do not depend on how the file was cut in
\* chunks: they are those window_delta_t makes of the whole array; and what the
\* functions on arrays return are the intervals they say.
ChunksDoNotMatter ==
  pc = "ended" =>
    /\ ArraysExact
    /\ opt.cut = "time" /\ opt.skip = "none" /\ ~opt.trig =>
         [i \in DOMAIN out |-> out[i].ev] = WindowDeltaT(file.ev)

\* A consumer that keeps asking sees the end or the error, and then the worker
\* thread returns.  (One that abandons the generator leaves it blocked in
\* q.put() for good.)
BothEnd == <>(pc = "gone" \/ (pc \in {"ended", "raised"} /\ worker = "exited"))
=============================================================================
